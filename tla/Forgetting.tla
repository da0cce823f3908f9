------------------------------ MODULE Forgetting ------------------------------
(* The two jobs an external scheduler starts: the nightly reweight, which     *)
(* archives active memories whose weight has faded below a floor, and the     *)
(* purge, which removes memories marked deleted.  Both sweep every tenant in  *)
(* one transaction and act on the rows their one SELECT returned.             *)
EXTENDS Store

(* Mutant: a memory whose weight is the floor itself is archived.             *)
BelowFloor_AtFloor(importance, uses, months) ==
    2 * importance * (2 * uses + 5) <= (uses + 5) * 2 ^ months

(* weight < ARCHIVE_FLOOR, that is importance/10 * 0.5^months * (1 +          *)
(* uses/(uses + 5)) < 0.05 multiplied out; the half-life is a month, and the  *)
(* double 0.1 * 0.5 that importance 1 gives after one is the double 0.05.     *)
BelowFloor(importance, uses, months) ==
    2 * importance * (2 * uses + 5) < (uses + 5) * 2 ^ months

(* The formula may put m below the floor: its importance and the number of    *)
(* its retrievals are not kept, the month of its last use is.                 *)
MayHaveFaded(t, m) ==
    \E i \in Importances, u \in 0 .. MaxUses :
        BelowFloor(i, u, month - View(t, m).used)

(* run_reweight_job's SELECT, and which rows its formula puts below the floor *)
(* (seen).                                                                    *)
BeginReweight(t) ==
    /\ pc[t] = "idle" /\ CanOpen
    /\ todo' = [todo EXCEPT ![t] = Select(t, "active")]
    /\ \E faded \in SUBSET {m \in Select(t, "active") : MayHaveFaded(t, m)} :
         seen' = [seen EXCEPT ![t] = faded]
    /\ pc' = [pc EXCEPT ![t] = "open"]
    /\ UNCHANGED <<db, arg, at, reply, counted, month, crashes>>

(* Mutant: the whole row is written back as it was read, status included.    *)
Reweighed_SavesRow(t, m) == [View(t, m) EXCEPT !.status = "active"]

(* The UPDATE of a memory that stays: its weight column only.                 *)
Reweighed(t, m) == View(t, m)

(* One round of its loop: a faded memory is archived, with an audit row; any  *)
(* other has only its weight column rewritten, under the same row lock.       *)
Reweigh(t) ==
    /\ pc[t] = "open"
    /\ \E m \in todo[t] :
         /\ todo' = [todo EXCEPT ![t] = @ \ {m}]
         /\ IF m \in seen[t]
              THEN /\ Update(t, m, [View(t, m) EXCEPT !.status = "archived"])
                   /\ Append(t, {Log(t, "archived", m)})
              ELSE Update(t, m, Reweighed(t, m)) /\ UNCHANGED pend
    /\ UNCHANGED <<mem, next, journal,
                   pc, seen, arg, at, reply, counted, month, crashes>>

(* The end of either job.                                                     *)
FinishJob(t) ==
    /\ pc[t] = "open" /\ todo[t] = {}
    /\ Commit(t, {})
    /\ Close(t, "idle")
    /\ seen' = [seen EXCEPT ![t] = {}]
    /\ UNCHANGED <<arg, reply, counted, month, crashes>>

(* Mutant: the purge takes the superseded memories instead.                  *)
Purgeable_Superseded(t) == Select(t, "superseded")

Purgeable(t) == Select(t, "deleted")

(* run_purge_job's SELECT.                                                    *)
BeginPurge(t) ==
    /\ pc[t] = "idle" /\ CanOpen
    /\ todo' = [todo EXCEPT ![t] = Purgeable(t)]
    /\ pc' = [pc EXCEPT ![t] = "open"]
    /\ UNCHANGED <<db, seen, arg, at, reply, counted, month, crashes>>

(* Mutant: superseded_by carries no foreign key.                              *)
Referenced_NoKey(t, m) == FALSE

(* superseded_by REFERENCES memory(id), without ON DELETE: some row that is   *)
(* still there points at m.                                                   *)
Referenced(t, m) ==
    \E k \in MemId : Stored(View(t, k)) /\ View(t, k).by = m

(* The transactions the DELETE of m waits for: the holder of its row lock,    *)
(* and whoever is deleting a row that points at m.                            *)
EraseWaitsFor(t, m) ==
    {lock[k] : k \in {m} \cup {j \in MemId : /\ Stored(mem[j]) /\ mem[j].by = m
                                             /\ draft[j].status = "purged"}}
      \ {NoTxn, t}

(* One round of its loop: the audit row and the DELETE.  The entities go with *)
(* the row (ON DELETE CASCADE).                                               *)
Erase(t) ==
    /\ pc[t] = "open"
    /\ \E m \in todo[t] :
         /\ EraseWaitsFor(t, m) = {}
         /\ Visible(t, m) => ~Referenced(t, m)
         /\ Update(t, m, [View(t, m) EXCEPT !.status = "purged"])
         /\ todo' = [todo EXCEPT ![t] = @ \ {m}]
         /\ Append(t, {Log(t, "erased", m)})
    /\ UNCHANGED <<mem, next, journal,
                   pc, seen, arg, at, reply, counted, month, crashes>>

(* The DELETE violates the foreign key: the exception leaves run_purge_job,   *)
(* job_connection rolls the whole sweep back and the process ends.            *)
EraseFails(t) ==
    /\ pc[t] = "open"
    /\ \E m \in todo[t] : /\ EraseWaitsFor(t, m) = {}
                          /\ Visible(t, m) /\ Referenced(t, m)
    /\ Rollback(t)
    /\ Fail(t, "other")
    /\ UNCHANGED crashes
=============================================================================
