------------------------------- MODULE Promise -------------------------------
(* What the memory system promises about each memory, whatever happens inside *)
(* it.  A memory is born readable, or already outdated by a later fact of the *)
(* turn that brought it; once hidden from reads it stays hidden; and it is    *)
(* erased only after its user asked for that.                                 *)
CONSTANT MemId

VARIABLES
    phase,   \* "unborn", "readable", "hidden" or "erased"
    asked    \* the memories whose deletion a user was promised

Init == phase = [m \in MemId |-> "unborn"] /\ asked = {}

InPhase(p) == {m \in MemId : phase[m] = p}

(* A turn brings new memories and outdates readable ones, all at once.        *)
Learn ==
    \E born \in SUBSET InPhase("unborn"),
       fresh \in SUBSET InPhase("unborn"),
       outdated \in SUBSET InPhase("readable") :
        /\ phase' = [m \in MemId |->
                       IF m \in fresh THEN "readable"
                       ELSE IF m \in born \cup outdated THEN "hidden"
                       ELSE phase[m]]
        /\ UNCHANGED asked

(* Feedback or forgetting hides readable memories.                            *)
Retire ==
    \E faded \in SUBSET InPhase("readable") :
        /\ phase' = [m \in MemId |->
                       IF m \in faded THEN "hidden" ELSE phase[m]]
        /\ UNCHANGED asked

(* A user asks for the deletion of a memory; one erased meanwhile stays so.   *)
Ask ==
    \E m \in MemId \ InPhase("unborn") :
        /\ asked' = asked \cup {m}
        /\ phase' = [phase EXCEPT ![m] =
                       IF @ = "erased" THEN @ ELSE "hidden"]

EraseAsked ==
    \E gone \in SUBSET (InPhase("hidden") \cap asked) :
        /\ phase' = [m \in MemId |->
                       IF m \in gone THEN "erased" ELSE phase[m]]
        /\ UNCHANGED asked

Next == Learn \/ Retire \/ Ask \/ EraseAsked

Spec == Init /\ [][Next]_<<phase, asked>>
=============================================================================
