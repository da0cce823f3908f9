------------------------------ MODULE MCMemory -------------------------------
(* Values of the constants for TLC.                                           *)
EXTENDS MemoryInvariants, TLC

CONSTANTS ann, ben        \* two tenants

(* Three topics in a row: the middle one is on the same subject as either     *)
(* neighbour, the two ends are not on the same subject (cosine similarity     *)
(* above a threshold is not transitive).                                      *)
TopicRow     == {1, 2, 3}
NearTopics   == {<<a, b>> \in TopicRow \X TopicRow : a <= b + 1 /\ b <= a + 1}
OneTopic     == {1}
SameTopic    == {<<1, 1>>}

(* Two confidences the REAL column keeps apart, and a third, between them,    *)
(* that it rounds up to the greater one.                                      *)
RoundUp  == [c \in {1, 2, 3} |-> IF c = 1 THEN 1 ELSE 3]
Exact    == [c \in Confs |-> c]

(* All requests from one tenant, or turn 1 from ann and the rest from ben.    *)
AllAnn   == [t \in Requests |-> ann]
TwoUsers == [t \in Requests |-> IF t \in Turns /\ t = 1 THEN ann ELSE ben]

(* Deletions of one tenant are alike, and so are processes of one job.        *)
Alike == Permutations(Deletes) \cup Permutations(Purges)
=============================================================================
