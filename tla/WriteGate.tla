------------------------------ MODULE WriteGate ------------------------------
(* Ingest and the write gate: a turn is stored and queued by the request; a   *)
(* background task later extracts its candidate facts, judges each, stores    *)
(* the ones kept and supersedes the active memories on the same subject they  *)
(* outrank.  One transaction spans the whole turn.                            *)
EXTENDS Store

(* POST /v1/memories:ingest, up to its commit.  A clean message is stored; a  *)
(* mixed one is stored redacted with a 'blocked_secret' audit row in the same *)
(* transaction; one that is all secret is only audited.                       *)
Ingest(t) ==
    /\ pc[t] = "idle"
    /\ \A u \in Turns : u < t => pc[u] # "idle"
    /\ \E text \in Texts :
         /\ journal' = journal
              \cup (IF text # "secret" THEN {Log(t, "turn", Null)} ELSE {})
              \cup (IF text # "clean" THEN {Log(t, "blocked", Null)} ELSE {})
         /\ pc' = [pc EXCEPT ![t] =
                     IF text = "secret" THEN "refused" ELSE "accepted"]
    /\ UNCHANGED <<mem, draft, lock, next, pend,
                   todo, seen, arg, at, reply, counted, month, crashes>>

(* The rest of the request: a refused message is answered with 422; for the   *)
(* others the background task is queued, which starts once the answer left.   *)
AnswerIngest(t) ==
    /\ \/ /\ pc[t] = "refused"
          /\ pc' = [pc EXCEPT ![t] = "done"]
          /\ reply' = [reply EXCEPT ![t] = "pii_rejected"]
       \/ /\ pc[t] = "accepted"
          /\ pc' = [pc EXCEPT ![t] = "queued"]
          /\ reply' = [reply EXCEPT ![t] = "queued"]
    /\ UNCHANGED <<db, todo, seen, arg, at, counted, month, crashes>>

(* process_turn, up to its loop: the extractor has returned some candidates   *)
(* and tenant_connection has opened the transaction.  Queued turns run in any *)
(* order, on the server's thread pool.                                        *)
StartTurn(t) ==
    /\ pc[t] = "queued" /\ CanOpen
    /\ \E n \in 0 .. MaxFacts : arg' = [arg EXCEPT ![t].left = n]
    /\ pc' = [pc EXCEPT ![t] = "open"]
    /\ at' = [at EXCEPT ![t] = month]
    /\ UNCHANGED <<db, todo, seen, reply, counted, month, crashes>>

(* Mutant: the loop runs once more after the last candidate.                  *)
NextCandidate_OneMore(t) ==
    /\ pc[t] = "open" /\ todo[t] = {} /\ arg[t].left >= 0

(* The judge's next answer is due: no supersession of the last one is left.   *)
NextCandidate(t) ==
    /\ pc[t] = "open" /\ todo[t] = {} /\ arg[t].left > 0

(* Mutant: find_same_subject does not restrict itself to active memories.     *)
SameSubjectAs_AnyStatus(t, topic) ==
    {m \in MemId : Visible(t, m) /\ <<View(t, m).topic, topic>> \in SameSubject}

(* Mutant: the similarity threshold is not applied.                           *)
SameSubjectAs_AnyTopic(t, topic) == Select(t, "active")

(* find_same_subject: the tenant's active memories on the subject.  Nothing   *)
(* but row-level security restricts the join to the tenant.                   *)
SameSubjectAs(t, topic) ==
    {m \in Select(t, "active") : <<View(t, m).topic, topic>> \in SameSubject}

(* Mutant: the comparison with the candidate's confidence is lost.            *)
Outranked_Always(t, found, c) == found

(* Mutant: the comparison is the wrong way round.                             *)
Outranked_Swapped(t, found, c) == {m \in found : View(t, m).conf > c}

(* resolve_contradictions skips a memory more confident than the new one; it  *)
(* compares what the judge said with what the REAL column gave back.          *)
Outranked(t, found, c) == {m \in found : View(t, m).conf <= c}

(* A candidate the judge keeps: the decision, the new memory, its index, the  *)
(* search for memories on the same subject and the 'stored' audit row.  What  *)
(* it must supersede is left in todo.                                         *)
StoreCandidate(t) ==
    /\ NextCandidate(t)
    /\ \E topic \in Topics, c \in Confs :
         /\ Insert(t, [tenant |-> TenantOf[t], topic |-> topic,
                       conf |-> Round[c], turn |-> t, status |-> "active",
                       by |-> Null, used |-> at[t]])
         /\ todo' = [todo EXCEPT ![t] =
                       Outranked(t, SameSubjectAs(t, topic), c)]
         /\ arg' = [arg EXCEPT ![t] =
                      [mem |-> next, conf |-> c, left |-> @.left - 1]]
         /\ Append(t, {Log(t, "decision", next), Log(t, "stored", next)})
    /\ UNCHANGED <<mem, journal, pc, seen, at, reply, counted, month, crashes>>

(* A candidate the judge drops leaves its decision and an audit row.          *)
DropCandidate(t) ==
    /\ NextCandidate(t)
    /\ arg' = [arg EXCEPT ![t].left = @ - 1]
    /\ Append(t, {Log(t, "decision", Null), Log(t, "rejected", Null)})
    /\ UNCHANGED <<mem, draft, lock, next, journal,
                   pc, todo, seen, at, reply, counted, month, crashes>>

(* One round of resolve_contradictions' loop.  The UPDATE names the row by id *)
(* only, and the audit row is written whether or not it changed anything.     *)
Supersede(t) ==
    /\ pc[t] = "open"
    /\ \E m \in todo[t] :
         /\ Update(t, m, [View(t, m) EXCEPT !.status = "superseded",
                                            !.by = arg[t].mem])
         /\ todo' = [todo EXCEPT ![t] = @ \ {m}]
         /\ Append(t, {Log(t, "replaced", m)})
    /\ UNCHANGED <<mem, next, journal,
                   pc, seen, arg, at, reply, counted, month, crashes>>

(* Mutant: a turn that brought no memory is not finished.                     *)
TurnDone_OnlyIfStored(t) ==
    pc[t] = "open" /\ todo[t] = {} /\ arg[t].left = 0 /\ arg[t].mem # Null

(* The loop is over.                                                          *)
TurnDone(t) == pc[t] = "open" /\ todo[t] = {} /\ arg[t].left = 0

TurnRows(t) == {Log(t, "metric", Null)}

(* record_metric has run and the turn commits as a whole.                     *)
FinishTurn(t) ==
    /\ TurnDone(t)
    /\ Commit(t, TurnRows(t))
    /\ Close(t, "done")
    /\ arg' = [arg EXCEPT ![t] = NoArg]
    /\ UNCHANGED <<seen, reply, counted, month, crashes>>
=============================================================================
