-------------------------- MODULE MemoryInvariants ---------------------------
(* The inductive invariants behind the properties of committed rows.  A       *)
(* transaction builds its pointers and statuses in uncommitted rows, from     *)
(* what an earlier statement returned, so the invariants add what holds of    *)
(* drafts, of their locks and of the rows a session has yet to write.         *)
(* PointersInv is behind SupersededByBetter; HistoryInv behind what statuses  *)
(* and audit rows say of each other; HeldInv behind ReplacementKept;          *)
(* AnswerInv behind what clients are told, and TallyInv behind HealthCoherent.*)
EXTENDS MemorySystem

(* The columns no statement ever updates.                                     *)
SameMemory(r, s) == /\ r.tenant = s.tenant /\ r.topic = s.topic
                    /\ r.conf = s.conf /\ r.turn = s.turn

(* n may replace m: a memory of the same tenant, on the same subject, stored  *)
(* with at least m's confidence.                                              *)
Outranks(n, m) == /\ n.tenant = m.tenant
                  /\ <<m.topic, n.topic>> \in SameSubject
                  /\ m.conf <= n.conf

(* A draft is a version of its row, or a new row under its writer's lock; ids *)
(* not given out are unused; a stored confidence has been rounded.            *)
RowInv ==
    \A m \in MemId :
        /\ lock[m] = NoTxn => draft[m] = mem[m]
        /\ mem[m] # Blank => draft[m] # Blank /\ SameMemory(mem[m], draft[m])
        /\ m >= next => draft[m] = Blank /\ lock[m] = NoTxn
        /\ draft[m] # Blank => Round[draft[m].conf] = draft[m].conf

(* A committed pointer leads to a committed row.                              *)
CommittedPointerInv ==
    \A m, n \in MemId : mem[m] # Blank /\ mem[m].by = n =>
        n > m /\ mem[n] # Blank /\ Outranks(mem[n], mem[m])

(* A pointer in a draft leads to a committed row or to another draft of the   *)
(* same transaction, and the two will be committed together.                  *)
DraftPointerInv ==
    \A m, n \in MemId : draft[m] # Blank /\ draft[m].by = n =>
        /\ n > m /\ draft[n] # Blank /\ Outranks(draft[n], draft[m])
        /\ mem[n] # Blank \/ (lock[m] # NoTxn /\ lock[n] = lock[m])

(* What find_same_subject returned to a turn stays true of those rows until   *)
(* the turn has written them all.                                             *)
Pending(t) ==
    \A m \in todo[t] :
        LET n == arg[t].mem IN
          /\ n \in MemId /\ n > m
          /\ lock[n] = t /\ draft[n] # Blank
          /\ draft[n].tenant = TenantOf[t]
          /\ arg[t].conf \in Confs /\ draft[n].conf = Round[arg[t].conf]
          /\ draft[m] # Blank /\ (mem[m] # Blank \/ lock[m] = t)
          /\ <<draft[m].topic, draft[n].topic>> \in SameSubject
          /\ draft[m].conf <= arg[t].conf

TurnInv == \A t \in Turns : Pending(t)

PointersInv ==
    RowInv /\ CommittedPointerInv /\ DraftPointerInv /\ TurnInv
------------------------------------------------------------------------------
(* The status session t leaves in its version of row m.                       *)
Writes(t, m, row) ==
    \/ t \in Turns /\ row.status \in {"active", "superseded"}
    \/ t \in Feedbacks /\ row.status = "superseded"
    \/ t \in Deletes /\ row.status = "deleted"
    \/ t \in Retrieves /\ row.status = mem[m].status
    \/ t \in Reweights /\ row.status \in {mem[m].status, "archived"}
    \/ t \in Purges /\ row.status = "purged" /\ ~Is(m, "active")

(* A locked row is not one the purge has removed; only the turn that brings a *)
(* memory holds it before its first commit; no version of a memory that has   *)
(* left the active state is active.                                           *)
Written(m) ==
    /\ lock[m] # NoTxn =>
         /\ ~Is(m, "purged") /\ draft[m] # Blank
         /\ mem[m] = Blank => lock[m] = draft[m].turn
         /\ Writes(lock[m], m, draft[m])
    /\ mem[m] # Blank /\ ~Is(m, "active") => draft[m].status # "active"

(* The audit action behind a status.                                          *)
ActionOf == [superseded |-> "replaced", archived |-> "archived",
             deleted |-> "marked", purged |-> "erased"]

(* The entries of log record how a version of m came about.                   *)
Explains(log, m, row) ==
    /\ Log(row.turn, "turn", Null) \in log
    /\ {Log(row.turn, "decision", m), Log(row.turn, "stored", m)} \subseteq log
    /\ row.status \in DOMAIN ActionOf =>
         \E t \in Txn : Log(t, ActionOf[row.status], m) \in log
    /\ row.status = "purged" => \E t \in Txn : Log(t, "marked", m) \in log

(* The entries that will be committed with the newest version of m.           *)
Trail(m) == IF lock[m] \in Txn THEN journal \cup pend[lock[m]] ELSE journal

(* A committed version is explained by the committed entries.                 *)
CommitRecorded(m) ==
    mem[m] # Blank =>
        /\ Explains(journal, m, mem[m])
        /\ Log(mem[m].turn, "metric", Null) \in journal
        /\ mem[m].by # Null =>
             Log(mem[mem[m].by].turn, "replaced", m) \in journal

(* A draft is explained by those its writer will commit with it, too.         *)
DraftRecorded(m) ==
    draft[m] # Blank =>
        /\ Explains(Trail(m), m, draft[m])
        /\ draft[m].by # Null =>
             Log(draft[draft[m].by].turn, "replaced", m) \in Trail(m)

(* A turn in progress was recorded when it arrived, and supersedes memories   *)
(* by one of its own.                                                         *)
OwnTurn(t) ==
    /\ pc[t] \in {"accepted", "queued", "open"} => Log(t, "turn", Null) \in journal
    /\ todo[t] # {} => draft[arg[t].mem].turn = t

(* A deletion is about one memory, which is locked or gone by the time the    *)
(* deletion is logged.                                                        *)
OneDeletion(t) ==
    LET m == arg[t].mem IN
      /\ todo[t] \subseteq {m} /\ pend[t] \subseteq {Log(t, "marked", m)}
      /\ \A k \in MemId : lock[k] = t => k = m
      /\ todo[t] # {} \/ pend[t] # {} => m \in MemId /\ mem[m] # Blank
      /\ pend[t] # {} => lock[m] = t \/ Is(m, "purged")

(* What a purge has read was marked deleted.                                  *)
Marked(t) ==
    \A m \in todo[t] :
        mem[m] # Blank /\ ~Is(m, "active") /\ Logged("marked", m)

(* What a request has read is its tenant's, committed or its own.             *)
Owned(t, m) ==
    \/ mem[m] # Blank /\ mem[m].tenant = TenantOf[t]
    \/ lock[m] = t /\ draft[m] # Blank /\ draft[m].tenant = TenantOf[t]

OwnRows(t) == \A m \in seen[t] \cup todo[t] : Owned(t, m)

(* A session that has not begun holds nothing, and only deletions log that a  *)
(* user asked for one.                                                        *)
Session(t) ==
    /\ pc[t] = "idle" =>
         todo[t] = {} /\ pend[t] = {} /\ \A m \in MemId : lock[m] # t
    /\ t \in Turns => OwnTurn(t)
    /\ t \in Deletes => OneDeletion(t)
    /\ t \in Purges => Marked(t)
    /\ t \in Requests => OwnRows(t)
    /\ t \notin Deletes => \A e \in pend[t] : e.kind # "marked"

SessionInv == \A t \in Txn : Session(t)

WriterInv == \A m \in MemId : Written(m)
RecordInv == \A m \in MemId : CommitRecorded(m) /\ DraftRecorded(m)

HistoryInv == WriterInv /\ RecordInv /\ SessionInv
------------------------------------------------------------------------------
(* The pointer from m to n: while m is there, n is; one not committed yet     *)
(* leads to a memory of the same turn; and whoever removes n has m, too.      *)
Held(m, n) ==
    /\ Stored(mem[m]) /\ mem[m].by = n => Stored(mem[n])
    /\ draft[m] # Blank /\ draft[m].by = n =>
         \/ mem[m] # Blank /\ mem[m].by = n
         \/ lock[n] \in Turns /\ lock[n] = lock[m]
    /\ Stored(mem[m]) /\ mem[m].by = n /\ draft[n].status = "purged" =>
         lock[m] = lock[n] /\ draft[m].status = "purged"

HeldInv == \A m, n \in MemId : Held(m, n)
------------------------------------------------------------------------------
(* A correction in progress has not been answered, is about one memory and    *)
(* logs its action with its write; once answered, the action is on record,    *)
(* and a memory said to be deleted is no longer active.                       *)
Corrected(t, kind) ==
    LET m == arg[t].mem IN
      /\ pc[t] = "idle" => reply[t] = "none"
      /\ pc[t] = "open" =>
           /\ reply[t] = "none" /\ m \in MemId /\ mem[m] # Blank
           /\ todo[t] \subseteq {m}
           /\ todo[t] = {} => Log(t, kind, m) \in pend[t]
      /\ reply[t] \in DOMAIN ActionOf => Logged(ActionOf[reply[t]], m)
      /\ reply[t] \in {"none", "not_found", "error"} \cup DOMAIN ActionOf
      /\ reply[t] = "deleted" =>
           m \in MemId /\ mem[m] # Blank /\ ~Is(m, "active")

(* What any request has been answered, and why it may say so.                 *)
Answered(t) ==
    /\ t \in Feedbacks => Corrected(t, "replaced")
    /\ t \in Deletes => Corrected(t, "marked")
    /\ t \in Turns =>
         /\ reply[t] \in {"none", "queued", "pii_rejected", "error"}
         /\ reply[t] = "queued" => Log(t, "turn", Null) \in journal
         /\ pc[t] = "refused" \/ reply[t] = "pii_rejected" =>
              Log(t, "blocked", Null) \in journal
    /\ t \in Retrieves =>
         /\ reply[t] \in {"none", "ok", "memory_unavailable", "error"}
         /\ pc[t] = "answer" \/ reply[t] = "ok" =>
              RetrieveRows(t) \subseteq journal
    /\ t \in Lists \cup Healths => reply[t] \in {"none", "ok", "error"}

AnswerInv == \A t \in Requests : Answered(t)
------------------------------------------------------------------------------
(* What the health numbers count.  Every session logs in its own name, a turn *)
(* or a retrieval nothing without its metric; a health request has counted    *)
(* rows of its tenant, of the first SELECT's kinds only until its second.     *)
OwnLog == \A t \in Txn : \A e \in pend[t] : e.txn = t

Measured(rows) ==
    \A e \in rows :
        e.txn \in Turns \cup Retrieves /\ e.kind \in CountedAt(1) \cup CountedAt(2)
          => Log(e.txn, "metric", Null) \in rows

Tallied(h) ==
    /\ counted[h] \subseteq {e \in journal : /\ e.txn \in Requests
                                           /\ TenantOf[e.txn] = TenantOf[h]
                                           /\ e.kind \in CountedAt(1) \cup CountedAt(2)}
    /\ pc[h] = "idle" => counted[h] = {}
    /\ pc[h] \in {"idle", "counting"} => reply[h] = "none"
    /\ reply[h] = "ok" => Measured(counted[h])

TallyInv == OwnLog /\ Measured(journal) /\ \A h \in Healths : Tallied(h)
------------------------------------------------------------------------------
(* All that holds of work in progress: while statements of several sessions   *)
(* interleave, every uncommitted row, log entry and pointer, every row read   *)
(* and not yet written and every answer given fits what is committed.         *)
WorkInv == PointersInv /\ HistoryInv /\ HeldInv /\ AnswerInv /\ TallyInv
=============================================================================
