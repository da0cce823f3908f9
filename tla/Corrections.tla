----------------------------- MODULE Corrections -----------------------------
(* What a user can do to one memory: report it outdated (feedback) or ask for *)
(* its deletion (delete_memory).  Each reads the row's status in one          *)
(* statement and writes in the next one, by id, without looking again.        *)
EXTENDS Store

(* A request that ends without writing: it was answered from what it read.    *)
Answer(t, m, answer) ==
    /\ pc' = [pc EXCEPT ![t] = "done"]
    /\ reply' = [reply EXCEPT ![t] = answer]
    /\ arg' = [arg EXCEPT ![t].mem = m]
    /\ UNCHANGED <<db, todo, seen, at, counted, month, crashes>>

(* The status read allows the write that follows.                             *)
Proceed(t, m) ==
    /\ pc' = [pc EXCEPT ![t] = "open"]
    /\ todo' = [todo EXCEPT ![t] = {m}]
    /\ arg' = [arg EXCEPT ![t].mem = m]
    /\ UNCHANGED <<db, seen, at, reply, counted, month, crashes>>

(* The SELECT of either endpoint: an id the tenant cannot see is a 404, a     *)
(* memory whose status is among `left` is left as it is and its status is     *)
(* reported, any other will be written.                                       *)
Begin(t, left) ==
    /\ pc[t] = "idle" /\ CanOpen
    /\ \E m \in MemId :
         \/ ~Visible(t, m) /\ Answer(t, m, "not_found")
         \/ Visible(t, m) /\ View(t, m).status \in left
              /\ Answer(t, m, View(t, m).status)
         \/ Visible(t, m) /\ View(t, m).status \notin left
              /\ Proceed(t, m)

(* The UPDATE of the status, by id, and its audit row; superseded_by stays as *)
(* it is.                                                                     *)
Write(t, status, kind) ==
    /\ pc[t] = "open"
    /\ \E m \in todo[t] :
         /\ Update(t, m, [View(t, m) EXCEPT !.status = status])
         /\ todo' = [todo EXCEPT ![t] = {}]
         /\ Append(t, {Log(t, kind, m)})
    /\ UNCHANGED <<mem, next, journal,
                   pc, seen, arg, at, reply, counted, month, crashes>>

Finish(t, answer) ==
    /\ pc[t] = "open" /\ todo[t] = {}
    /\ Commit(t, {})
    /\ Close(t, "done")
    /\ reply' = [reply EXCEPT ![t] = answer]
    /\ UNCHANGED <<seen, arg, counted, month, crashes>>
------------------------------------------------------------------------------
(* Mutant: any memory the tenant sees is overwritten.                         *)
LeftByFeedback_None == {}

(* POST /v1/memories:feedback.                                                *)
LeftByFeedback == Statuses \ {"active"}

BeginFeedback(t)  == Begin(t, LeftByFeedback)
WriteFeedback(t)  == Write(t, "superseded", "replaced")
FinishFeedback(t) == Finish(t, "superseded")

(* Mutant: a memory deleted already is marked and audited again.              *)
LeftByDelete_None == {}

(* DELETE /v1/memories/{id}: any other status is a valid target.              *)
LeftByDelete == {"deleted"}

BeginDelete(t)  == Begin(t, LeftByDelete)
WriteDelete(t)  == Write(t, "deleted", "marked")
FinishDelete(t) == Finish(t, "deleted")
=============================================================================
