---------------------------- MODULE Settled_proofs ----------------------------
(* How the races between a SELECT and the UPDATE by id that follows it come   *)
(* to an end, for every number of sessions and with all of them interleaved:  *)
(* the settling properties of module MemorySystem.  They rest on the          *)
(* footprint of a step: what it may read, write and log, and about what.      *)
EXTENDS Answers_proofs

(* What the rows may become by a step of t.                                   *)
Touches(t) ==
    \A m \in MemId :
        /\ mem'[m] = mem[m] \/ (lock[m] = t /\ mem'[m] = draft[m])
        /\ lock'[m] = t => lock[m] = t \/ m \in todo[t] \/ m >= next
        /\ \/ draft'[m] \in {draft[m], mem[m]}
           \/ /\ draft[m] # Blank /\ SameMemory(draft'[m], draft[m])
              /\ draft'[m].used \in {draft[m].used, at[t]}
           \/ m >= next /\ draft'[m].used = at[t]
        /\ t \in Reweights /\ lock'[m] = t /\ draft'[m].status = "archived" =>
             m \in todo[t] \cap seen[t] \/ View(t, m).status = "archived"

(* What it may log.                                                           *)
Logs(t) ==
    /\ \A e \in pend'[t] \ pend[t] :
         \/ e.mem \in todo[t] \/ e.mem = Null \/ e.mem >= next
    /\ \A e \in journal' : e \in journal \cup pend[t] \/ e.mem = Null
    /\ t \in Purges => \A e \in pend'[t] \ pend[t] : e.kind = "erased"
    /\ t \in Retrieves \cup Lists \cup Healths => pend'[t] \subseteq pend[t]

(* What it may resolve to write: the status it has read allows it.            *)
Allowed(t, m) ==
    /\ m \in MemId
    /\ t \in Correctors => View(t, m).status = "active"
    /\ t \in Deletes => View(t, m).status \in Statuses \ LeftByDelete

Resolves(t) ==
    /\ Others(t)
    /\ \A m \in todo'[t] \ todo[t] : Allowed(t, m)
    /\ t \in Reweights =>
         \A m \in todo'[t] \cap seen'[t] :
             m \in todo[t] \cap seen[t] \/ (lock[m] # t /\ MayHaveFaded(t, m))

Clock(t) == /\ next <= next' /\ month <= month'
            /\ t \notin Turns => next' = next
            /\ \A u \in Txn : at'[u] \in {at[u], 0, month}

Footprint(t) == Touches(t) /\ Logs(t) /\ Resolves(t) /\ Clock(t)

LEMMA FixedTouches ==
    ASSUME NEW t, UNCHANGED <<mem, draft, lock>> PROVE Touches(t)
  BY DEF Touches, View

LEMMA UpdateTouches ==
    ASSUME Good, NEW t \in Txn, NEW m \in MemId, m \in todo[t], NEW row,
           Update(t, m, row), UNCHANGED mem,
           Visible(t, m) => /\ SameMemory(row, View(t, m))
                            /\ row.used \in {View(t, m).used, at[t]},
           t \in Reweights /\ row.status = "archived" =>
             m \in seen[t] \/ row = View(t, m)
    PROVE  Touches(t)
  <1>0. /\ TypeOK /\ RowInv /\ WriterInv /\ t # NoTxn
        /\ draft \in [MemId -> Row \cup {Blank}]
        /\ lock \in [MemId -> Txn \cup {NoTxn}]
    BY GoodParts, StoreAssumption DEF TypeOK
  <1>1. CASE ~Visible(t, m)
    BY <1>1, FixedTouches DEF Update
  <1>2. CASE Visible(t, m)
    <2>1. /\ mem' = mem /\ Free(t, m)
          /\ draft' = [draft EXCEPT ![m] = row]
          /\ lock' = [lock EXCEPT ![m] = t]
      BY <1>2 DEF Update
    <2>2. View(t, m) = draft[m] /\ draft[m] # Blank
      BY <1>0, <1>2, <2>1, VisibleDraft
    <2>3. ASSUME NEW k \in MemId, k # m
          PROVE  draft'[k] = draft[k] /\ lock'[k] = lock[k]
      BY <1>0, <2>1, <2>3
    <2>4. draft'[m] = row /\ lock'[m] = t
      BY <1>0, <2>1
    <2>5. QED
      BY <1>2, <2>1, <2>2, <2>3, <2>4 DEF Touches, View
  <1>3. QED
    BY <1>1, <1>2

LEMMA InsertTouches ==
    ASSUME TypeOK, NEW t \in Turns, NEW row, Insert(t, row), UNCHANGED mem,
           row.used = at[t]
    PROVE  Touches(t)
  <1>0. t \notin Reweights
    BY RequestKinds DEF Jobs
  <1>1. /\ next \in MemId /\ draft'[next] = row /\ lock'[next] = t
        /\ \A k \in MemId \ {next} : draft'[k] = draft[k] /\ lock'[k] = lock[k]
        /\ mem' = mem
    BY DEF TypeOK, Insert
  <1>2. next >= next
    BY <1>1 DEF MemId
  <1>3. QED
    BY <1>0, <1>1, <1>2 DEF Touches

LEMMA EndTouches ==
    ASSUME TypeOK, NEW t \in Txn, Rollback(t) \/ \E rows : Commit(t, rows)
    PROVE  Touches(t)
  <1>0. t # NoTxn
    BY StoreAssumption
  <1>1. CASE Rollback(t)
    BY <1>0, <1>1 DEF Rollback, Touches
  <1>2. CASE \E rows : Commit(t, rows)
    BY <1>0, <1>2 DEF Commit, View, Touches
  <1>3. QED
    BY <1>1, <1>2

LEMMA AppendLogs ==
    ASSUME TypeOK, NEW t \in Txn, NEW rows, Append(t, rows), UNCHANGED journal,
           \A e \in rows : e.mem \in todo[t] \/ e.mem = Null \/ e.mem >= next,
           t \in Purges => \A e \in rows : e.kind = "erased",
           t \notin Retrieves \cup Lists \cup Healths
    PROVE  Logs(t)
  BY DEF TypeOK, Append, Logs

LEMMA EndLogs ==
    ASSUME TypeOK, NEW t \in Txn,
           \/ Rollback(t)
           \/ \E rows : Commit(t, rows) /\ \A e \in rows : e.mem = Null
    PROVE  Logs(t)
  BY DEF TypeOK, Rollback, Commit, Appended, Logs

(* The end of a transaction.                                                  *)
LEMMA EndFootprint ==
    ASSUME TypeOK, NEW t \in Txn,
           \/ Rollback(t)
           \/ \E rows : Commit(t, rows) /\ \A e \in rows : e.mem = Null,
           Others(t), todo'[t] = {}, month' = month,
           \A u \in Txn : at'[u] \in {at[u], 0}
    PROVE  Footprint(t)
  <1>1. Touches(t) /\ Logs(t)
    BY EndTouches, EndLogs
  <1>2. next' = next /\ next \in Nat /\ month \in Nat
    BY StoreAssumption DEF TypeOK, Rollback, Commit, MemId
  <1>3. QED
    BY <1>1, <1>2 DEF Footprint, Resolves, Clock

(* A step without a write.                                                    *)
LEMMA QuietFootprint ==
    ASSUME TypeOK, NEW t \in Txn,
           UNCHANGED <<mem, draft, lock, next, pend, month>>,
           \A e \in journal' : e \in journal \/ e.mem = Null,
           Resolves(t), \A u \in Txn : at'[u] \in {at[u], month}
    PROVE  Footprint(t)
  <1>1. next \in Nat /\ month \in Nat
    BY StoreAssumption DEF TypeOK, MemId
  <1>2. Touches(t) /\ Logs(t) /\ Clock(t)
    BY <1>1, FixedTouches DEF Logs, Clock
  <1>3. QED
    BY <1>2 DEF Footprint
------------------------------------------------------------------------------
(* The footprint of each kind of session.                                     *)
LEMMA TurnFootprint ==
    ASSUME Good, NEW t \in Turns, Ingest(t) \/ TurnStep(t)
    PROVE  Footprint(t)
  <1>0. /\ t \in Txn /\ t \in Requests /\ TypeOK /\ Null \notin MemId
        /\ t \notin Deletes \cup Retrieves \cup Lists \cup Healths \cup Jobs
        /\ next \in Nat /\ month \in Nat
    BY GoodParts, RequestKinds, StoreAssumption DEF TypeOK, MemId, Null
  <1>1. CASE Ingest(t)
    <2>1. Resolves(t)
      BY <1>0, <1>1 DEF Ingest, Resolves, Others, TypeOK, Jobs
    <2>2. \A e \in journal' : e \in journal \/ e.mem = Null
      BY <1>1 DEF Ingest, Log
    <2>3. QED
      BY <1>0, <1>1, <2>1, <2>2, QuietFootprint DEF Ingest
  <1>2. CASE AnswerIngest(t)
    <2>1. Resolves(t)
      BY <1>0, <1>2 DEF AnswerIngest, Resolves, Others, TypeOK, Jobs, db
    <2>2. QED
      BY <1>0, <1>2, <2>1, QuietFootprint DEF AnswerIngest, db
  <1>3. CASE StartTurn(t)
    <2>1. Resolves(t)
      BY <1>0, <1>3 DEF StartTurn, Resolves, Others, TypeOK, Jobs, db
    <2>2. \A u \in Txn : at'[u] \in {at[u], month}
      BY <1>0, <1>3 DEF StartTurn, TypeOK
    <2>3. QED
      BY <1>0, <1>3, <2>1, <2>2, QuietFootprint DEF StartTurn, db
  <1>4. CASE StoreCandidate(t)
    <2>1. PICK topic \in Topics, c \in Confs :
            /\ Insert(t, [tenant |-> TenantOf[t], topic |-> topic,
                          conf |-> Round[c], turn |-> t, status |-> "active",
                          by |-> Null, used |-> at[t]])
            /\ todo' = [todo EXCEPT ![t] =
                          Outranked(t, SameSubjectAs(t, topic), c)]
            /\ Append(t, {Log(t, "decision", next), Log(t, "stored", next)})
      BY <1>4 DEF StoreCandidate
    <2>2. Touches(t)
      BY <1>0, <1>4, <2>1, InsertTouches DEF StoreCandidate
    <2>3. Logs(t)
      <3>1. \A e \in {Log(t, "decision", next), Log(t, "stored", next)} :
              e.mem >= next
        BY <1>0 DEF Log
      <3>2. QED
        BY <1>0, <1>4, <2>1, <3>1, AppendLogs DEF StoreCandidate, Jobs
    <2>4. Resolves(t)
      <3>1. \A m \in todo'[t] : m \in MemId /\ View(t, m).status = "active"
        BY <1>0, <2>1 DEF Outranked, SameSubjectAs, Select, TypeOK
      <3>2. Others(t)
        BY <1>0, <1>4, <2>1
           DEF StoreCandidate, Insert, Append, Others, TypeOK
      <3>3. QED
        BY <1>0, <3>1, <3>2 DEF Resolves, Allowed, Jobs
    <2>5. next' = next + 1 /\ at' = at /\ month' = month
      BY <1>4, <2>1 DEF StoreCandidate, Insert
    <2>6. QED
      BY <1>0, <2>2, <2>3, <2>4, <2>5 DEF Footprint, Clock
  <1>5. CASE DropCandidate(t)
    <2>1. Touches(t)
      BY <1>5, FixedTouches DEF DropCandidate
    <2>2. Logs(t)
      <3>1. \A e \in {Log(t, "decision", Null), Log(t, "rejected", Null)} :
              e.mem = Null
        BY DEF Log
      <3>2. QED
        BY <1>0, <1>5, <3>1, AppendLogs DEF DropCandidate, Jobs
    <2>3. Resolves(t)
      BY <1>0, <1>5
         DEF DropCandidate, Append, Resolves, Others, TypeOK, Jobs
    <2>4. QED
      BY <1>0, <1>5, <2>1, <2>2, <2>3 DEF Footprint, Clock, DropCandidate
  <1>6. CASE Supersede(t)
    <2>1. PICK m \in todo[t] :
            /\ Update(t, m, [View(t, m) EXCEPT !.status = "superseded",
                                               !.by = arg[t].mem])
            /\ todo' = [todo EXCEPT ![t] = @ \ {m}]
            /\ Append(t, {Log(t, "replaced", m)})
      BY <1>6 DEF Supersede
    <2>2. m \in MemId
      BY <1>0 DEF TypeOK
    <2>3. Visible(t, m) =>
            /\ SameMemory([View(t, m) EXCEPT !.status = "superseded",
                                             !.by = arg[t].mem], View(t, m))
            /\ [View(t, m) EXCEPT !.status = "superseded",
                                  !.by = arg[t].mem].used = View(t, m).used
      BY <1>0, <2>2, ViewType DEF SameMemory, Row
    <2>4. Touches(t)
      BY <1>0, <1>6, <2>1, <2>2, <2>3, UpdateTouches DEF Supersede, Jobs
    <2>5. Logs(t)
      <3>1. \A e \in {Log(t, "replaced", m)} : e.mem \in todo[t]
        BY <2>1 DEF Log
      <3>2. QED
        BY <1>0, <1>6, <2>1, <3>1, AppendLogs DEF Supersede, Jobs
    <2>6. Resolves(t)
      BY <1>0, <1>6, <2>1
         DEF Supersede, Append, Resolves, Others, TypeOK, Jobs
    <2>7. next' = next /\ at' = at /\ month' = month
      BY <1>6 DEF Supersede
    <2>8. QED
      BY <1>0, <2>4, <2>5, <2>6, <2>7 DEF Footprint, Clock
  <1>7. CASE FinishTurn(t)
    <2>1. /\ Commit(t, TurnRows(t)) /\ \A e \in TurnRows(t) : e.mem = Null
          /\ Others(t) /\ todo'[t] = {} /\ month' = month
          /\ \A u \in Txn : at'[u] \in {at[u], 0}
      BY <1>0, <1>7
         DEF FinishTurn, TurnRows, Log, Others, Commit, Close, TypeOK
    <2>2. QED
      BY <1>0, <2>1, EndFootprint
  <1>8. QED
    BY <1>1, <1>2, <1>3, <1>4, <1>5, <1>6, <1>7 DEF TurnStep

LEMMA StatusTouches ==
    ASSUME Good, NEW t \in Txn, NEW m \in todo[t],
           NEW s \in Statuses \cup {"purged"},
           Update(t, m, [View(t, m) EXCEPT !.status = s]), UNCHANGED mem,
           t \in Reweights /\ s = "archived" => m \in seen[t]
    PROVE  Touches(t)
  <1> DEFINE row == [View(t, m) EXCEPT !.status = s]
  <1>1. m \in MemId /\ TypeOK
    BY GoodParts DEF TypeOK
  <1>2. Visible(t, m) => /\ SameMemory(row, View(t, m))
                         /\ row.used = View(t, m).used /\ row.status = s
    BY <1>1, ViewType DEF SameMemory, Row
  <1>3. row.status = s
    <2>1. CASE View(t, m) \in Row
      BY <2>1 DEF Row
    <2>2. CASE View(t, m) = Blank
      BY <2>2 DEF Blank
    <2>3. QED
      BY <1>1, <2>1, <2>2, ViewType
  <1> HIDE DEF row
  <1>4. QED
    BY <1>1, <1>2, <1>3, UpdateTouches DEF row

LEMMA CorrectionFootprint ==
    ASSUME Good, NEW t \in Feedbacks \cup Deletes,
           \/ t \in Feedbacks /\ (BeginFeedback(t) \/ WriteFeedback(t) \/ FinishFeedback(t))
           \/ t \in Deletes /\ (BeginDelete(t) \/ WriteDelete(t) \/ FinishDelete(t))
    PROVE  Footprint(t)
  <1>0. /\ t \in Txn /\ t \in Requests /\ TypeOK
        /\ t \notin Retrieves \cup Lists \cup Healths \cup Jobs
        /\ next \in Nat /\ month \in Nat
        /\ t \in Feedbacks => t \notin Deletes
        /\ t \in Deletes => t \notin Correctors
    BY GoodParts, RequestKinds, StoreAssumption
       DEF TypeOK, MemId, Correctors, Jobs
  <1>1. ASSUME NEW left, Begin(t, left),
               t \in Feedbacks => left = LeftByFeedback,
               t \in Deletes => left = LeftByDelete
        PROVE  Footprint(t)
    <2>1. PICK m \in MemId :
            \/ \E a : Answer(t, m, a)
            \/ /\ Visible(t, m) /\ View(t, m).status \notin left
               /\ Proceed(t, m)
      BY <1>1 DEF Begin
    <2>2. Visible(t, m) /\ View(t, m).status \notin left => Allowed(t, m)
      BY <1>0, <1>1
         DEF Allowed, Visible, Stored, LeftByFeedback, Jobs
    <2>3. /\ UNCHANGED <<mem, draft, lock, next, pend, journal, at, month>>
          /\ Others(t)
          /\ todo'[t] = todo[t] \/ (todo'[t] = {m} /\ Allowed(t, m))
      <3>1. CASE \E a : Answer(t, m, a)
        BY <1>0, <3>1 DEF Answer, Others, TypeOK, db
      <3>2. CASE Proceed(t, m) /\ Allowed(t, m)
        BY <1>0, <3>2 DEF Proceed, Others, TypeOK, db
      <3>3. QED
        BY <2>1, <2>2, <3>1, <3>2
    <2>4. Resolves(t)
      BY <1>0, <2>3 DEF Resolves, Jobs
    <2>5. QED
      BY <1>0, <2>3, <2>4, QuietFootprint
  <1>2. ASSUME NEW s \in Statuses, NEW kind, Write(t, s, kind)
        PROVE  Footprint(t)
    <2>1. PICK m \in todo[t] :
            /\ Update(t, m, [View(t, m) EXCEPT !.status = s])
            /\ todo' = [todo EXCEPT ![t] = {}]
            /\ Append(t, {Log(t, kind, m)})
      BY <1>2 DEF Write
    <2>2. Touches(t)
      BY <1>0, <1>2, <2>1, StatusTouches DEF Write, Jobs
    <2>3. Logs(t)
      <3>1. \A e \in {Log(t, kind, m)} : e.mem \in todo[t]
        BY <2>1 DEF Log
      <3>2. QED
        BY <1>0, <1>2, <2>1, <3>1, AppendLogs DEF Write, Jobs
    <2>4. Resolves(t)
      BY <1>0, <1>2, <2>1 DEF Write, Append, Resolves, Others, TypeOK, Jobs
    <2>5. QED
      BY <1>0, <1>2, <2>2, <2>3, <2>4 DEF Footprint, Clock, Write
  <1>3. ASSUME NEW answer, Finish(t, answer)
        PROVE  Footprint(t)
    <2>1. /\ Commit(t, {}) /\ Others(t) /\ todo'[t] = {} /\ month' = month
          /\ \A u \in Txn : at'[u] \in {at[u], 0}
      BY <1>0, <1>3 DEF Finish, Others, Commit, Close, TypeOK
    <2>2. QED
      BY <1>0, <2>1, EndFootprint
  <1>4. {"superseded", "deleted"} \subseteq Statuses
    BY DEF Statuses
  <1>5. QED
    BY <1>0, <1>1, <1>2, <1>3, <1>4
       DEF BeginFeedback, WriteFeedback, FinishFeedback,
           BeginDelete, WriteDelete, FinishDelete

LEMMA JobFootprint ==
    ASSUME Good, NEW t \in Jobs,
           \/ t \in Reweights /\ (BeginReweight(t) \/ Reweigh(t) \/ FinishJob(t))
           \/ t \in Purges /\ (BeginPurge(t) \/ Erase(t) \/ EraseFails(t) \/ FinishJob(t))
    PROVE  Footprint(t)
  <1>0. /\ t \in Txn /\ t \notin Requests /\ TypeOK
        /\ t \notin Turns \cup Feedbacks \cup Deletes \cup Retrieves
                     \cup Lists \cup Healths
        /\ next \in Nat /\ month \in Nat /\ Session(t)
        /\ t \in Reweights => t \notin Purges
    BY GoodParts, RequestKinds, KindsAssumption, StoreAssumption
       DEF TypeOK, MemId, Txn, SessionInv
  <1>1. CASE t \in Reweights /\ BeginReweight(t)
    <2>1. \A m \in MemId : lock[m] # t
      BY <1>0, <1>1 DEF BeginReweight, Session
    <2>2. \A m \in todo'[t] : m \in MemId /\ View(t, m).status = "active"
      BY <1>0, <1>1 DEF BeginReweight, Select, TypeOK
    <2>3. \A m \in seen'[t] : MayHaveFaded(t, m)
      BY <1>0, <1>1 DEF BeginReweight, TypeOK
    <2>4. Resolves(t)
      BY <1>0, <1>1, <2>1, <2>2, <2>3
         DEF BeginReweight, Resolves, Others, Allowed, TypeOK, db
    <2>5. QED
      BY <1>0, <1>1, <2>4, QuietFootprint DEF BeginReweight, db
  <1>2. CASE t \in Reweights /\ Reweigh(t)
    <2>1. PICK m \in todo[t] :
            /\ todo' = [todo EXCEPT ![t] = @ \ {m}]
            /\ \/ /\ m \in seen[t]
                  /\ Update(t, m, [View(t, m) EXCEPT !.status = "archived"])
                  /\ Append(t, {Log(t, "archived", m)})
               \/ Update(t, m, View(t, m)) /\ UNCHANGED pend
      BY <1>2 DEF Reweigh, Reweighed
    <2>2. m \in MemId /\ "archived" \in Statuses \cup {"purged"}
      BY <1>0 DEF TypeOK, Statuses
    <2>3. UNCHANGED <<mem, next, journal, pc, seen, arg, at, month>>
      BY <1>2 DEF Reweigh
    <2>4. Touches(t)
      <3>1. ASSUME Update(t, m, View(t, m)) PROVE Touches(t)
        BY <1>0, <2>2, <2>3, <3>1, UpdateTouches DEF SameMemory
      <3>2. QED
        BY <1>0, <2>1, <2>2, <2>3, <3>1, StatusTouches
    <2>5. Logs(t) /\ Others(t)
      <3>1. CASE Append(t, {Log(t, "archived", m)})
        <4>1. \A e \in {Log(t, "archived", m)} : e.mem \in todo[t]
          BY <2>1 DEF Log
        <4>2. Logs(t)
          BY <1>0, <1>2, <2>3, <3>1, <4>1, AppendLogs
        <4>3. QED
          BY <1>0, <2>1, <2>3, <3>1, <4>2 DEF Append, Others, TypeOK
      <3>2. CASE UNCHANGED pend
        BY <1>0, <2>1, <2>3, <3>2 DEF Logs, Others, TypeOK
      <3>3. QED
        BY <2>1, <3>1, <3>2
    <2>6. Resolves(t)
      BY <1>0, <2>1, <2>3, <2>5 DEF Resolves, TypeOK
    <2>7. QED
      BY <1>0, <2>3, <2>4, <2>5, <2>6 DEF Footprint, Clock
  <1>3. CASE t \in Purges /\ BeginPurge(t)
    <2>1. Resolves(t)
      <3>1. Others(t)
        BY <1>0, <1>3 DEF BeginPurge, Others, TypeOK, db
      <3>2. \A m \in todo'[t] : Allowed(t, m)
        BY <1>0, <1>3
           DEF BeginPurge, Purgeable, Select, Allowed, Correctors, TypeOK
      <3>3. QED
        BY <1>0, <1>3, <3>1, <3>2 DEF Resolves
    <2>2. QED
      BY <1>0, <1>3, <2>1, QuietFootprint DEF BeginPurge, db
  <1>4. CASE t \in Purges /\ Erase(t)
    <2>1. PICK m \in todo[t] :
            /\ Update(t, m, [View(t, m) EXCEPT !.status = "purged"])
            /\ todo' = [todo EXCEPT ![t] = @ \ {m}]
            /\ Append(t, {Log(t, "erased", m)})
      BY <1>4 DEF Erase
    <2>2. Touches(t)
      BY <1>0, <1>4, <2>1, StatusTouches DEF Erase
    <2>3. Logs(t)
      <3>1. \A e \in {Log(t, "erased", m)} : e.mem \in todo[t] /\ e.kind = "erased"
        BY <2>1 DEF Log
      <3>2. QED
        BY <1>0, <1>4, <2>1, <3>1, AppendLogs DEF Erase
    <2>4. Resolves(t)
      BY <1>0, <1>4, <2>1 DEF Erase, Append, Resolves, Others, TypeOK
    <2>5. QED
      BY <1>0, <1>4, <2>2, <2>3, <2>4 DEF Footprint, Clock, Erase
  <1>5. CASE t \in Purges /\ EraseFails(t)
    <2>1. /\ Rollback(t) /\ Others(t) /\ todo'[t] = {} /\ month' = month
          /\ \A u \in Txn : at'[u] \in {at[u], 0}
      BY <1>0, <1>5 DEF EraseFails, Fail, Close, Rollback, Others, TypeOK
    <2>2. QED
      BY <1>0, <2>1, EndFootprint
  <1>6. CASE FinishJob(t)
    <2>1. /\ Commit(t, {}) /\ Others(t) /\ todo'[t] = {} /\ month' = month
          /\ \A u \in Txn : at'[u] \in {at[u], 0}
      BY <1>0, <1>6 DEF FinishJob, Others, Commit, Close, TypeOK
    <2>2. QED
      BY <1>0, <2>1, EndFootprint
  <1>7. QED
    BY <1>1, <1>2, <1>3, <1>4, <1>5, <1>6

LEMMA ReadFootprint ==
    ASSUME Good, NEW t \in Retrieves \cup Lists \cup Healths,
           \/ t \in Retrieves /\ (BeginRetrieve(t) \/ RetrieveStep(t))
           \/ t \in Lists /\ ListMemories(t)
           \/ t \in Healths /\ (BeginHealth(t) \/ FinishHealth(t))
    PROVE  Footprint(t)
  <1>0. /\ t \in Txn /\ t \in Requests /\ TypeOK
        /\ t \notin Turns \cup Feedbacks \cup Deletes \cup Jobs
        /\ next \in Nat /\ month \in Nat
    BY GoodParts, RequestKinds, StoreAssumption DEF TypeOK, MemId
  <1>1. ASSUME Others(t), todo'[t] \subseteq MemId PROVE Resolves(t)
    BY <1>0, <1>1 DEF Resolves, Allowed, Correctors, Jobs
  <1>2. CASE \/ BeginRetrieve(t) \/ KeywordSearch(t) \/ EntitySearch(t)
             \/ ListMemories(t) \/ Respond(t)
    <2>1. /\ UNCHANGED <<mem, draft, lock, next, pend, journal, todo, month>>
          /\ Others(t) /\ \A u \in Txn : at'[u] \in {at[u], month}
      BY <1>0, <1>2
         DEF BeginRetrieve, KeywordSearch, EntitySearch, ListMemories,
             Respond, Search, Others, TypeOK, db
    <2>2. Resolves(t)
      BY <1>0, <1>1, <2>1 DEF TypeOK
    <2>3. QED
      BY <1>0, <2>1, <2>2, QuietFootprint
  <1>3. CASE Rank(t)
    <2>1. /\ Others(t) /\ todo'[t] \subseteq MemId
      BY <1>0, <1>3 DEF Rank, Others, TypeOK, db
    <2>2. QED
      BY <1>0, <1>1, <1>3, <2>1, QuietFootprint DEF Rank, db
  <1>4. CASE Bump(t)
    <2>1. PICK m \in todo[t] :
            /\ Update(t, m, [View(t, m) EXCEPT !.used = at[t]])
            /\ todo' = [todo EXCEPT ![t] = @ \ {m}]
      BY <1>4 DEF Bump
    <2>2. m \in MemId
      BY <1>0 DEF TypeOK
    <2>3. Visible(t, m) =>
            /\ SameMemory([View(t, m) EXCEPT !.used = at[t]], View(t, m))
            /\ [View(t, m) EXCEPT !.used = at[t]].used = at[t]
      BY <1>0, <2>2, ViewType DEF SameMemory, Row
    <2>4. Touches(t)
      BY <1>0, <1>4, <2>1, <2>2, <2>3, UpdateTouches DEF Bump, Jobs
    <2>5. Others(t) /\ todo'[t] \subseteq MemId
      BY <1>0, <1>4, <2>1 DEF Bump, Others, TypeOK
    <2>6. Logs(t) /\ Clock(t)
      BY <1>0, <1>4 DEF Bump, Logs, Clock
    <2>7. QED
      BY <1>1, <2>4, <2>5, <2>6 DEF Footprint
  <1>5. CASE FinishRetrieve(t)
    <2>1. /\ Commit(t, RetrieveRows(t))
          /\ \A e \in RetrieveRows(t) : e.mem = Null
          /\ Others(t) /\ todo'[t] = {} /\ month' = month
          /\ \A u \in Txn : at'[u] \in {at[u], 0}
      BY <1>0, <1>5
         DEF FinishRetrieve, RetrieveRows, Log, Others, Commit, Close, TypeOK
    <2>2. QED
      BY <1>0, <2>1, EndFootprint
  <1>6. CASE BeginHealth(t) \/ FinishHealth(t)
    <2>1. /\ UNCHANGED <<mem, draft, lock, next, pend, journal, todo, month, at>>
          /\ Others(t)
      BY <1>0, <1>6 DEF BeginHealth, FinishHealth, Others, TypeOK, db
    <2>2. Resolves(t)
      BY <1>0, <1>1, <2>1 DEF TypeOK
    <2>3. QED
      BY <1>0, <2>1, <2>2, QuietFootprint
  <1>7. QED
    BY <1>2, <1>3, <1>4, <1>5, <1>6 DEF RetrieveStep

LEMMA LossFootprint ==
    ASSUME Good, NEW t \in Txn, Victim(t) \/ Crash(t) \/ LoseAck(t)
    PROVE  Footprint(t)
  <1>0. TypeOK
    BY GoodParts
  <1>1. /\ \/ Rollback(t)
           \/ \E rows : Commit(t, rows) /\ \A e \in rows : e.mem = Null
        /\ \E error : Fail(t, error)
    <2>1. /\ \A e \in TurnRows(t) \cup RetrieveRows(t) : e.mem = Null
          /\ \A e \in {} : e.mem = Null
      BY DEF TurnRows, RetrieveRows, Log
    <2>2. QED
      BY <2>1 DEF Victim, Crash, LoseAck
  <1>2. /\ Others(t) /\ todo'[t] = {} /\ month' = month
        /\ \A u \in Txn : at'[u] \in {at[u], 0}
    BY <1>0, <1>1 DEF Rollback, Commit, Fail, Close, Others, TypeOK
  <1>3. QED
    BY <1>0, <1>1, <1>2, EndFootprint
------------------------------------------------------------------------------
(* All that a step of no session changes is the month.                        *)
Still == /\ UNCHANGED <<mem, draft, lock, next, journal, pend,
                        pc, todo, seen, arg, at>>
         /\ month <= month'

(* The steps of a turn.                                                       *)
Turning(t) == t \in Turns => \/ Ingest(t) \/ TurnStep(t)
                             \/ Victim(t) \/ Crash(t) \/ LoseAck(t)

(* Every step has a footprint, and leaves the others their rows.              *)
LEMMA EveryStep ==
    ASSUME Good, [Next]_vars
    PROVE  Still \/ \E t \in Txn : Footprint(t) /\ RowsLast(t) /\ Turning(t)
  <1>1. ASSUME NEW t \in Txn, BeginRequest(t)
        PROVE  Footprint(t) /\ Kept(t) /\ Turning(t)
    BY <1>1, TurnFootprint, CorrectionFootprint, ReadFootprint,
       TurnHistory, CorrectionHistory, ReadHistory, RequestKinds
       DEF BeginRequest, Turning
  <1>2. ASSUME NEW t \in Txn, BeginJob(t)
        PROVE  Footprint(t) /\ Kept(t) /\ Turning(t)
    BY <1>2, JobFootprint, JobHistory, RequestKinds
       DEF BeginJob, Jobs, Turning
  <1>3. ASSUME NEW t \in Txn, Advance(t)
        PROVE  Footprint(t) /\ Kept(t) /\ Turning(t)
    BY <1>3, TurnFootprint, CorrectionFootprint, ReadFootprint, JobFootprint,
       TurnHistory, CorrectionHistory, ReadHistory, JobHistory, RequestKinds
       DEF Advance, Jobs, Turning
  <1>4. ASSUME NEW t \in Txn, Victim(t) \/ Crash(t) \/ LoseAck(t)
        PROVE  Footprint(t) /\ Kept(t) /\ Turning(t)
    BY <1>4, LossFootprint, LossHistory DEF Turning
  <1>5. CASE Tick \/ UNCHANGED vars
    <2>1. month \in Nat /\ Step \in Nat
      BY GoodParts, StoreAssumption DEF TypeOK
    <2>2. Still
      BY <1>5, <2>1 DEF Still, Tick, vars, db
    <2>3. QED
      BY <2>2
  <1>6. QED
    BY <1>1, <1>2, <1>3, <1>4, <1>5 DEF Next, Kept
------------------------------------------------------------------------------
(* A purge logs that it erased, a read nothing before it commits; and no time *)
(* that a session took or a row carries lies ahead.                           *)
LogKinds ==
    \A t \in Txn :
        /\ t \in Purges => \A e \in pend[t] : e.kind = "erased"
        /\ t \in Retrieves \cup Lists \cup Healths => pend[t] = {}

UsedInv ==
    /\ \A t \in Txn : at[t] <= month
    /\ \A m \in MemId : /\ mem[m] # Blank => mem[m].used <= month
                        /\ draft[m] # Blank => draft[m].used <= month

SettledInv == LogKinds /\ UsedInv

LEMMA SettledStep ==
    ASSUME Good, SettledInv, [Next]_vars
    PROVE  SettledInv'
  <1>0. /\ TypeOK /\ TypeOK' /\ RowInv /\ month \in Nat /\ month' \in Nat
        /\ \A t \in Txn : at[t] \in Nat /\ at'[t] \in Nat
    <2>1. TypeOK /\ TypeOK' /\ RowInv
      BY GoodParts, TypeStep
    <2>2. QED
      BY <2>1, StoreAssumption DEF TypeOK
  <1>1. CASE Still
    <2>1. LogKinds'
      BY <1>1 DEF Still, SettledInv, LogKinds
    <2>2. /\ mem \in [MemId -> Row \cup {Blank}]
          /\ draft \in [MemId -> Row \cup {Blank}]
          /\ mem' = mem /\ draft' = draft /\ at' = at /\ month <= month'
      BY <1>0, <1>1 DEF TypeOK, Still
    <2>3. \A t \in Txn : at'[t] <= month'
      BY <1>0, <2>2 DEF SettledInv, UsedInv
    <2>4. ASSUME NEW m \in MemId
          PROVE  /\ mem[m] # Blank => mem[m].used <= month'
                 /\ draft[m] # Blank => draft[m].used <= month'
      <3>1. /\ mem[m] # Blank => mem[m].used \in Nat /\ mem[m].used <= month
            /\ draft[m] # Blank => draft[m].used \in Nat /\ draft[m].used <= month
        BY <2>2 DEF Row, SettledInv, UsedInv
      <3>2. QED
        BY <1>0, <2>2, <3>1
    <2>5. QED
      BY <2>1, <2>2, <2>3, <2>4 DEF SettledInv, UsedInv
  <1>2. ASSUME NEW t \in Txn, Footprint(t), RowsLast(t)
        PROVE  SettledInv'
    <2>1. LogKinds'
      BY <1>0, <1>2
         DEF Footprint, Logs, Resolves, Others, SettledInv, LogKinds
    <2>2. \A u \in Txn : at'[u] <= month'
      BY <1>0, <1>2 DEF Footprint, Clock, SettledInv, UsedInv
    <2>3. ASSUME NEW m \in MemId, draft'[m] # Blank
          PROVE  draft'[m].used <= month'
      <3>1. draft'[m] \in Row /\ draft'[m].used \in Nat
        BY <1>0, <2>3 DEF TypeOK, Row
      <3>2. /\ mem[m] \in Row \cup {Blank} /\ draft[m] \in Row \cup {Blank}
            /\ month <= month' /\ at[t] <= month
            /\ mem[m] # Blank => mem[m].used <= month
            /\ draft[m] # Blank => draft[m].used <= month
        BY <1>0, <1>2 DEF TypeOK, SettledInv, UsedInv, Footprint, Clock
      <3>3. \/ draft'[m] \in {draft[m], mem[m]}
            \/ draft[m] # Blank /\ draft'[m].used \in {draft[m].used, at[t]}
            \/ draft'[m].used = at[t]
        BY <1>2 DEF Footprint, Touches
      <3>4. draft'[m].used <= month
        BY <2>3, <3>2, <3>3
      <3>5. QED
        BY <1>0, <3>1, <3>2, <3>4
    <2>4. ASSUME NEW m \in MemId, mem'[m] # Blank
          PROVE  mem'[m].used <= month'
      <3>1. /\ mem'[m] \in Row /\ mem'[m].used \in Nat
            /\ month <= month'
        BY <1>0, <1>2, <2>4 DEF TypeOK, Row, Footprint, Clock
      <3>2. mem'[m] \in {mem[m], draft[m]}
        BY <1>2 DEF Footprint, Touches
      <3>3. mem'[m].used <= month
        BY <2>4, <3>2 DEF SettledInv, UsedInv
      <3>4. QED
        BY <1>0, <3>1, <3>3
    <2>5. QED
      BY <2>1, <2>2, <2>3, <2>4 DEF SettledInv, UsedInv
  <1>3. QED
    BY <1>1, <1>2, EveryStep

THEOREM SettledSound == Spec => []SettledInv
  <1>1. Init => SettledInv
    BY StoreAssumption
       DEF Init, StoreInit, SettledInv, LogKinds, UsedInv
  <1>2. TypeOK /\ PointersInv /\ HistoryInv /\ SettledInv /\ [Next]_vars
          => SettledInv'
    BY SettledStep DEF Good
  <1>3. QED
    BY <1>1, <1>2, TypeCorrect, PointersSound, HistorySound, PTL DEF Spec
------------------------------------------------------------------------------
(* A memory nobody of a group has in hand is taken up only by who is allowed  *)
(* to write it.                                                               *)
LEMMA NotInHand ==
    ASSUME Good, NEW t \in Txn, Footprint(t), RowsLast(t),
           NEW group \in SUBSET Txn, NEW m \in MemId, mem[m] # Blank,
           InHand(group, m) = {}, InHand(group, m)' # {}
    PROVE  t \in group /\ Allowed(t, m) /\ View(t, m) = mem[m]
  <1>0. /\ TypeOK /\ RowInv /\ Others(t) /\ Touches(t) /\ Logs(t) /\ Resolves(t)
        /\ m \in Nat /\ next \in Nat /\ m # Null /\ draft[m] # Blank
    BY GoodParts DEF Footprint, Resolves, TypeOK, MemId, Null, RowInv
  <1>1. ~(m >= next)
    BY <1>0 DEF RowInv
  <1>2. PICK u \in group : \/ m \in todo'[u] \/ lock'[m] = u
                           \/ \E e \in pend'[u] : e.mem = m
    BY DEF InHand
  <1>3. /\ m \notin todo[u] /\ lock[m] # u
        /\ \A e \in pend[u] : e.mem # m
    BY DEF InHand
  <1>4. u = t
    BY <1>0, <1>2, <1>3 DEF Others, RowsLast
  <1>5. /\ lock'[m] # t
        /\ \A e \in pend'[t] : e.mem # m
    BY <1>0, <1>1, <1>3, <1>4 DEF Touches, Logs
  <1>6. m \in todo'[t] \ todo[t]
    BY <1>2, <1>3, <1>4, <1>5
  <1>7. QED
    BY <1>0, <1>3, <1>4, <1>6 DEF Resolves, View

(* What is logged about m was pending.                                        *)
LEMMA LoggedWasPending ==
    ASSUME NEW t, Footprint(t), NEW m \in MemId,
           NEW e \in journal' \ journal, e.mem = m
    PROVE  e \in pend[t]
  BY DEF Footprint, Logs, MemId, Null

(* A row is changed by the commit of who holds it.                            *)
LEMMA ChangedByHolder ==
    ASSUME Good, NEW t \in Txn, Footprint(t), NEW m \in MemId, mem[m] # Blank
    PROVE  \/ mem'[m] = mem[m]
           \/ lock[m] = t /\ Writes(t, m, mem'[m])
  <1>1. WriterInv /\ t # NoTxn
    BY GoodParts, StoreAssumption
  <1>2. QED
    BY <1>1 DEF Footprint, Touches, WriterInv, Written

LEMMA CorrectorKinds ==
    /\ Correctors \subseteq Txn /\ Deciders \subseteq Txn
    /\ Deletes \cap Correctors = {}
    /\ \A t \in Txn \ Deciders :
         t \notin Turns \cup Feedbacks \cup Deletes \cup Reweights
    /\ \A t \in Txn \ Correctors :
         t \notin Turns \cup Feedbacks \cup Reweights
  BY RequestKinds, StoreAssumption DEF Correctors, Deciders, Txn, Jobs

LEMMA InactiveStep ==
    ASSUME Good, SettledInv, [Next]_vars, NEW m \in MemId,
           mem[m] # Blank, ~Is(m, "active"), InHand(Correctors, m) = {}
    PROVE  /\ InHand(Correctors, m)' = {}
           /\ mem'[m].status \in {mem[m].status, "deleted", "purged"}
           /\ OnlyLogs({"marked", "erased"}, m)
  <1>1. CASE Still
    BY <1>1 DEF Still, InHand, OnlyLogs
  <1>2. ASSUME NEW t \in Txn, Footprint(t), RowsLast(t)
        PROVE  /\ InHand(Correctors, m)' = {}
               /\ mem'[m].status \in {mem[m].status, "deleted", "purged"}
               /\ OnlyLogs({"marked", "erased"}, m)
    <2>1. InHand(Correctors, m)' = {}
      BY <1>2, NotInHand, CorrectorKinds DEF Allowed, Is
    <2>2. mem'[m].status \in {mem[m].status, "deleted", "purged"}
      <3>1. CASE mem'[m] = mem[m]
        BY <3>1
      <3>2. CASE lock[m] = t /\ Writes(t, m, mem'[m])
        <4>1. t \notin Correctors
          BY <3>2 DEF InHand
        <4>2. QED
          BY <3>2, <4>1, CorrectorKinds DEF Writes
      <3>3. QED
        BY <1>2, <3>1, <3>2, ChangedByHolder
    <2>3. ASSUME NEW e \in journal' \ journal, e.mem = m
          PROVE  e.kind \in {"marked", "erased"}
      <3>1. e \in pend[t]
        BY <1>2, <2>3, LoggedWasPending
      <3>2. t \notin Correctors
        BY <2>3, <3>1 DEF InHand
      <3>3. t \in Deletes \cup Retrieves \cup Lists \cup Healths \cup Purges
        BY <3>2, CorrectorKinds DEF Txn, Requests, Jobs
      <3>4. t \in Deletes => e.kind = "marked"
        <4>1. t \in Deletes => OneDeletion(t)
          BY GoodParts DEF SessionInv, Session
        <4>2. QED
          BY <3>1, <4>1 DEF OneDeletion, Log
      <3>5. QED
        BY <3>1, <3>3, <3>4 DEF SettledInv, LogKinds
    <2>4. QED
      BY <2>1, <2>2, <2>3 DEF OnlyLogs
  <1>3. QED
    BY <1>1, <1>2, EveryStep

(* Once the turns, feedback and sweeps that had read a memory before it left  *)
(* the active state are through, it is only deleted and purged.               *)
THEOREM InactiveIsSettled == Spec => InactiveSettles
  <1>1. TypeOK /\ PointersInv /\ HistoryInv /\ SettledInv /\ [Next]_vars =>
          [\A m \in MemId :
             mem[m] # Blank /\ ~Is(m, "active") /\ InHand(Correctors, m) = {} =>
               /\ InHand(Correctors, m)' = {}
               /\ mem'[m].status \in {mem[m].status, "deleted", "purged"}
               /\ OnlyLogs({"marked", "erased"}, m)]_vars
    BY InactiveStep DEF Good
  <1>2. QED
    BY <1>1, TypeCorrect, PointersSound, HistorySound, SettledSound, PTL
       DEF Spec, InactiveSettles

LEMMA DeletedStep ==
    ASSUME Good, SettledInv, [Next]_vars, NEW m \in MemId,
           Is(m, "deleted") \/ Is(m, "purged"), InHand(Deciders, m) = {}
    PROVE  /\ InHand(Deciders, m)' = {}
           /\ mem'[m].status \in {mem[m].status, "purged"}
           /\ OnlyLogs({"erased"}, m)
  <1>0. mem[m] # Blank
    BY DEF Is, Blank
  <1>1. CASE Still
    BY <1>1 DEF Still, InHand, OnlyLogs
  <1>2. ASSUME NEW t \in Txn, Footprint(t), RowsLast(t)
        PROVE  /\ InHand(Deciders, m)' = {}
               /\ mem'[m].status \in {mem[m].status, "purged"}
               /\ OnlyLogs({"erased"}, m)
    <2>1. InHand(Deciders, m)' = {}
      <3> SUFFICES ASSUME InHand(Deciders, m)' # {} PROVE FALSE
        OBVIOUS
      <3>1. t \in Deciders /\ Allowed(t, m) /\ View(t, m) = mem[m]
        BY <1>0, <1>2, NotInHand, CorrectorKinds
      <3>2. QED
        BY <3>1 DEF Allowed, Is, Deciders, Statuses, LeftByDelete
    <2>2. mem'[m].status \in {mem[m].status, "purged"}
      <3>1. CASE mem'[m] = mem[m]
        BY <3>1
      <3>2. CASE lock[m] = t /\ Writes(t, m, mem'[m])
        <4>1. t \notin Deciders
          BY <3>2 DEF InHand
        <4>2. QED
          BY <3>2, <4>1, CorrectorKinds DEF Writes
      <3>3. QED
        BY <1>0, <1>2, <3>1, <3>2, ChangedByHolder
    <2>3. ASSUME NEW e \in journal' \ journal, e.mem = m
          PROVE  e.kind = "erased"
      <3>1. e \in pend[t]
        BY <1>2, <2>3, LoggedWasPending
      <3>2. t \notin Deciders
        BY <2>3, <3>1 DEF InHand
      <3>3. t \in Retrieves \cup Lists \cup Healths \cup Purges
        BY <3>2, CorrectorKinds DEF Txn, Requests, Jobs
      <3>4. QED
        BY <3>1, <3>3 DEF SettledInv, LogKinds
    <2>4. QED
      BY <2>1, <2>2, <2>3 DEF OnlyLogs
  <1>3. QED
    BY <1>1, <1>2, EveryStep

(* Once nobody has a deleted memory in hand it stays deleted until it is      *)
(* purged, and no deletion of it is audited again.                            *)
THEOREM DeletionIsSettled == Spec => DeletionSettles
  <1>1. TypeOK /\ PointersInv /\ HistoryInv /\ SettledInv /\ [Next]_vars =>
          [\A m \in MemId :
             (Is(m, "deleted") \/ Is(m, "purged")) /\ InHand(Deciders, m) = {} =>
               /\ InHand(Deciders, m)' = {}
               /\ mem'[m].status \in {mem[m].status, "purged"}
               /\ OnlyLogs({"erased"}, m)]_vars
    BY DeletedStep DEF Good
  <1>2. QED
    BY <1>1, TypeCorrect, PointersSound, HistorySound, SettledSound, PTL
       DEF Spec, DeletionSettles
------------------------------------------------------------------------------
(* The formula puts no memory below the floor within the half-life, for any   *)
(* importance and any number of uses.                                         *)
LEMMA FadesLate ==
    ASSUME NEW i \in 1 .. 10, NEW u \in Nat, NEW d \in Nat, BelowFloor(i, u, d)
    PROVE  d > 1
  <1>1. ASSUME d = 0 PROVE FALSE
    <2>1. 2 ^ d = 1
      BY <1>1
    <2>2. 2 * i * (2 * u + 5) < u + 5
      BY <2>1 DEF BelowFloor
    <2>3. 2 * i * (2 * u + 5) >= 2 * (2 * u + 5)
      OBVIOUS
    <2>4. QED
      BY <2>2, <2>3
  <1>2. ASSUME d = 1 PROVE FALSE
    <2>1. 2 ^ d = 2
      BY <1>2
    <2>2. 2 * i * (2 * u + 5) < (u + 5) * 2
      BY <2>1 DEF BelowFloor
    <2>3. 2 * i * (2 * u + 5) >= 2 * (2 * u + 5)
      OBVIOUS
    <2>4. QED
      BY <2>2, <2>3
  <1>3. QED
    BY <1>1, <1>2

LEMMA NotFaded ==
    ASSUME Good, SettledInv, NEW t, NEW m \in MemId, Is(m, "active"),
           month <= mem[m].used + 1, lock[m] # t
    PROVE  ~MayHaveFaded(t, m)
  <1>1. /\ mem[m].used \in Nat /\ month \in Nat /\ mem[m].used <= month
    <2>1. mem[m] \in Row
      BY GoodParts DEF TypeOK, Is, Blank
    <2>2. mem[m] # Blank
      BY DEF Is, Blank
    <2>3. QED
      BY <2>1, <2>2, GoodParts, StoreAssumption
         DEF TypeOK, Row, SettledInv, UsedInv
  <1>2. View(t, m) = mem[m]
    BY DEF View
  <1>3. ASSUME NEW i \in Importances, NEW u \in 0 .. MaxUses,
               BelowFloor(i, u, month - mem[m].used)
        PROVE  FALSE
    <2>1. /\ i \in 1 .. 10 /\ u \in Nat /\ month - mem[m].used \in Nat
      BY <1>1, StoreAssumption
    <2>2. month - mem[m].used > 1
      BY <1>3, <2>1, FadesLate
    <2>3. QED
      BY <1>1, <2>2
  <1>4. QED
    BY <1>2, <1>3 DEF MayHaveFaded

LEMMA UsefulStep ==
    ASSUME Good, SettledInv, [Next]_vars, NEW m \in MemId,
           Is(m, "active"), month <= mem[m].used + 1, Fading(m) = {}
    PROVE  Fading(m)' = {} /\ mem'[m].status # "archived"
  <1>0. mem[m] # Blank /\ mem[m].status = "active"
    BY DEF Is, Blank
  <1>1. CASE Still
    BY <1>0, <1>1 DEF Still, Fading
  <1>2. ASSUME NEW t \in Txn, Footprint(t), RowsLast(t)
        PROVE  Fading(m)' = {} /\ mem'[m].status # "archived"
    <2>1. ASSUME NEW w \in Reweights,
                 \/ m \in todo'[w] \cap seen'[w]
                 \/ lock'[m] = w /\ draft'[m].status = "archived"
          PROVE  FALSE
      <3>1. /\ w \in Txn /\ m \notin todo[w] \cap seen[w]
            /\ ~(lock[m] = w /\ draft[m].status = "archived")
        BY <2>1 DEF Fading, Txn, Jobs
      <3>2. CASE w # t
        BY <1>2, <2>1, <3>1, <3>2 DEF Footprint, Resolves, Others, RowsLast
      <3>3. CASE w = t /\ m \in todo'[w] \cap seen'[w]
        BY <1>2, <3>1, <3>3, NotFaded DEF Footprint, Resolves
      <3>4. CASE w = t /\ lock'[m] = w /\ draft'[m].status = "archived"
        BY <1>0, <1>2, <3>1, <3>4 DEF Footprint, Touches, View
      <3>5. QED
        BY <2>1, <3>2, <3>3, <3>4
    <2>2. mem'[m].status # "archived"
      <3>1. CASE mem'[m] = mem[m]
        BY <1>0, <3>1
      <3>2. CASE mem'[m] # mem[m]
        <4>1. lock[m] = t /\ mem'[m] = draft[m] /\ Writes(t, m, mem'[m])
          BY <1>0, <1>2, <3>2, ChangedByHolder DEF Footprint, Touches
        <4>2. t \in Reweights => draft[m].status # "archived"
          BY <4>1 DEF Fading
        <4>3. QED
          BY <1>0, <4>1, <4>2 DEF Writes
      <3>3. QED
        BY <3>1, <3>2
    <2>3. QED
      BY <2>1, <2>2 DEF Fading
  <1>3. QED
    BY <1>1, <1>2, EveryStep

(* No sweep archives a memory that it read within the month of its last use.  *)
THEOREM UsefulIsKept == Spec => UsefulKept
  <1>1. TypeOK /\ PointersInv /\ HistoryInv /\ SettledInv /\ [Next]_vars =>
          [\A m \in MemId :
             Is(m, "active") /\ month <= mem[m].used + 1 /\ Fading(m) = {} =>
               Fading(m)' = {} /\ mem'[m].status # "archived"]_vars
    BY UsefulStep DEF Good
  <1>2. QED
    BY <1>1, TypeCorrect, PointersSound, HistorySound, SettledSound, PTL
       DEF Spec, UsefulKept
------------------------------------------------------------------------------
(* A newcomer against what was committed before it.  From its insertion to    *)
(* its commit, its turn has either still to supersede the older memory or     *)
(* holds a version of it that is no longer active; no other session can       *)
(* publish the newcomer without that.                                         *)
Above(new, old) == /\ new.tenant = old.tenant
                   /\ <<old.topic, new.topic>> \in SameSubject
                   /\ new.conf > old.conf

Beaten(t, m, n) ==
    /\ lock[n] = t /\ mem[n] = Blank
    /\ \/ m \in todo[t] /\ arg[t].mem = n
       \/ lock[m] = t /\ draft[m].status # "active"

Overtaken(m, n) ==
    /\ mem[m] # Blank
    /\ \/ ~Is(m, "active")
       \/ n >= next
       \/ draft[n] = Blank
       \/ ~Above(draft[n], mem[m])
       \/ \E t \in Turns : Beaten(t, m, n)

LEMMA NoRivals ==
    ASSUME Good, NEW m \in MemId, NEW n \in MemId, Overtaken(m, n)
    PROVE  ~Rivals(m, n)
  <1>0. RowInv
    BY GoodParts
  <1>1. mem[n] = Blank => ~Is(n, "active")
    BY DEF Is, Blank
  <1>2. mem[n] # Blank => draft[n] # Blank /\ SameMemory(mem[n], draft[n])
                          /\ ~(n >= next)
    BY <1>0 DEF RowInv
  <1>3. QED
    BY <1>1, <1>2 DEF Overtaken, Rivals, Above, Beaten, SameMemory

(* The turn that inserts n finds m, unless it has superseded it already.      *)
LEMMA BornOvertaken ==
    ASSUME Good, NEW t \in Turns, StoreCandidate(t),
           NEW m \in MemId, mem[m] # Blank, NEW n, n = next
    PROVE  next' = next + 1 /\ Overtaken(m, n)'
  <1>0. /\ t \in Txn /\ t \in Requests /\ TypeOK /\ RowInv /\ WriterInv
        /\ t # NoTxn
    BY GoodParts, RequestKinds, StoreAssumption
  <1>1. PICK topic \in Topics, c \in Confs :
          /\ Insert(t, [tenant |-> TenantOf[t], topic |-> topic,
                        conf |-> Round[c], turn |-> t, status |-> "active",
                        by |-> Null, used |-> at[t]])
          /\ todo' = [todo EXCEPT ![t] =
                        Outranked(t, SameSubjectAs(t, topic), c)]
          /\ arg' = [arg EXCEPT ![t] =
                       [mem |-> next, conf |-> c, left |-> @.left - 1]]
    BY DEF StoreCandidate
  <1>2. /\ n \in MemId /\ next' = n + 1 /\ lock'[n] = t /\ mem' = mem
        /\ draft'[n].tenant = TenantOf[t] /\ draft'[n].topic = topic
        /\ draft'[n].conf = Round[c]
        /\ \A k \in MemId \ {n} : draft'[k] = draft[k] /\ lock'[k] = lock[k]
        /\ todo'[t] = Outranked(t, SameSubjectAs(t, topic), c)
        /\ arg'[t].mem = n
    BY <1>0, <1>1 DEF Insert, TypeOK, StoreCandidate
  <1>3. draft[n] = Blank /\ mem[n] = Blank /\ m # n
    BY <1>0, <1>2 DEF RowInv, MemId
  <1>4. ASSUME Is(m, "active"), Above(draft'[n], mem[m])
        PROVE  Beaten(t, m, n)'
    <2>1. CASE lock[m] = t /\ draft[m].status # "active"
      BY <1>2, <1>3, <2>1 DEF Beaten
    <2>2. CASE ~(lock[m] = t /\ draft[m].status # "active")
      <3>1. /\ mem[m] \in Row /\ draft[m] \in Row
            /\ SameMemory(mem[m], draft[m]) /\ Round[mem[m].conf] = mem[m].conf
        BY <1>0, <1>4 DEF TypeOK, RowInv, SameMemory
      <3>2. /\ View(t, m).status = "active"
            /\ View(t, m).tenant = mem[m].tenant
            /\ View(t, m).topic = mem[m].topic
            /\ View(t, m).conf = mem[m].conf
        BY <1>4, <2>2, <3>1 DEF View, Is, SameMemory
      <3>3. m \in SameSubjectAs(t, topic)
        BY <1>2, <1>4, <3>2
           DEF SameSubjectAs, Select, Visible, Stored, Statuses, Above
      <3>4. mem[m].conf <= c
        <4>1. /\ mem[m].conf \in Confs /\ mem[m].conf \in Nat /\ c \in Nat
              /\ Round[c] \in Nat /\ Round[c] > mem[m].conf
          BY <1>2, <1>4, <3>1, StoreAssumption, RoundAssumption DEF Row, Above
        <4>2. c <= mem[m].conf => Round[c] <= Round[mem[m].conf]
          BY <4>1, RoundAssumption
        <4>3. QED
          BY <3>1, <4>1, <4>2
      <3>5. m \in todo'[t]
        BY <1>2, <3>2, <3>3, <3>4 DEF Outranked
      <3>6. QED
        BY <1>2, <1>3, <3>5 DEF Beaten
    <2>3. QED
      BY <2>1, <2>2
  <1>5. QED
    BY <1>2, <1>4 DEF Overtaken, Is

(* The turn keeps what it has begun: it supersedes m before it commits n, or  *)
(* loses both.                                                                *)
LEMMA BeatenTurn ==
    ASSUME Good, NEW t \in Turns, NEW m \in MemId, NEW n \in MemId,
           mem[m] # Blank, Beaten(t, m, n), RowsLast(t),
           \/ Ingest(t) \/ TurnStep(t)
           \/ Victim(t) \/ Crash(t) \/ LoseAck(t)
    PROVE  Overtaken(m, n)'
  <1>0. /\ t \in Txn /\ t \in Requests /\ TypeOK /\ RowInv /\ WriterInv
        /\ t # NoTxn /\ Session(t)
        /\ t \notin Retrieves \cup Feedbacks \cup Deletes \cup Jobs
        /\ mem'[m] # Blank
    BY GoodParts, RequestKinds, StoreAssumption DEF SessionInv, RowsLast
  <1>1. m # n
    BY DEF Beaten
  <1>2. ASSUME UNCHANGED <<mem, draft, lock, todo>>, arg'[t].mem = arg[t].mem
        PROVE  Overtaken(m, n)'
    BY <1>0, <1>2 DEF Overtaken, Beaten
  <1>3. CASE Ingest(t)
    BY <1>2, <1>3 DEF Ingest
  <1>4. CASE AnswerIngest(t) \/ StartTurn(t) \/ DropCandidate(t)
    <2>1. UNCHANGED <<mem, draft, lock, todo>> /\ arg'[t].mem = arg[t].mem
      BY <1>0, <1>4
         DEF AnswerIngest, StartTurn, DropCandidate, TypeOK, db
    <2>2. QED
      BY <1>2, <2>1
  <1>5. CASE StoreCandidate(t)
    <2>1. todo[t] = {} /\ mem' = mem
      BY <1>5 DEF StoreCandidate, NextCandidate
    <2>2. /\ lock'[m] = t /\ draft'[m] = draft[m] /\ lock'[n] = t
      <3>1. /\ next \in MemId
            /\ \A k \in MemId \ {next} : draft'[k] = draft[k] /\ lock'[k] = lock[k]
        BY <1>0, <1>5 DEF StoreCandidate, Insert, TypeOK
      <3>2. lock[next] = NoTxn
        BY <1>0, <3>1 DEF RowInv, MemId
      <3>3. QED
        BY <1>0, <2>1, <3>1, <3>2 DEF Beaten
    <2>3. QED
      BY <1>0, <2>1, <2>2 DEF Overtaken, Beaten
  <1>6. CASE Supersede(t)
    <2>1. PICK k \in todo[t] :
            /\ Update(t, k, [View(t, k) EXCEPT !.status = "superseded",
                                               !.by = arg[t].mem])
            /\ todo' = [todo EXCEPT ![t] = @ \ {k}]
      BY <1>6 DEF Supersede
    <2>2. /\ k \in MemId /\ mem' = mem /\ arg' = arg
          /\ todo'[t] = todo[t] \ {k}
          /\ \A j \in MemId \ {k} : draft'[j] = draft[j] /\ lock'[j] = lock[j]
      BY <1>0, <1>6, <2>1 DEF Supersede, Update, TypeOK
    <2>3. lock'[n] = t
      BY <1>0, <2>1 DEF Update, Beaten, TypeOK
    <2>4. CASE k # m
      BY <1>0, <2>2, <2>3, <2>4 DEF Overtaken, Beaten
    <2>5. CASE k = m /\ Visible(t, m)
      <3>1. View(t, m) \in Row
        BY <1>0, <2>5, ViewType
      <3>2. lock'[m] = t /\ draft'[m].status = "superseded"
        <4> DEFINE row == [View(t, m) EXCEPT !.status = "superseded",
                                             !.by = arg[t].mem]
        <4>1. row.status = "superseded"
          BY <3>1 DEF Row
        <4> HIDE DEF row
        <4>2. /\ draft' = [draft EXCEPT ![m] = row]
              /\ lock' = [lock EXCEPT ![m] = t]
          BY <2>1, <2>5 DEF Update, row
        <4>3. QED
          BY <1>0, <4>1, <4>2 DEF TypeOK
      <3>3. QED
        BY <1>0, <2>2, <2>3, <3>2 DEF Overtaken, Beaten
    <2>6. CASE k = m /\ ~Visible(t, m)
      <3>1. draft' = draft /\ lock' = lock
        BY <2>1, <2>6 DEF Update
      <3>2. View(t, m).tenant = TenantOf[t]
        <4>1. Owned(t, m)
          BY <1>0, <2>1, <2>6 DEF Session, OwnRows
        <4>2. draft[m] # Blank /\ SameMemory(mem[m], draft[m])
          BY <1>0 DEF RowInv
        <4>3. QED
          BY <4>1, <4>2 DEF Owned, View, SameMemory
      <3>3. View(t, m).status # "active"
        BY <2>6, <3>2 DEF Visible, Stored, Statuses
      <3>4. QED
        BY <1>0, <2>2, <2>3, <3>1, <3>3 DEF Overtaken, Beaten, View, Is
    <2>7. QED
      BY <2>4, <2>5, <2>6
  <1>7. ASSUME NEW rows, Commit(t, rows), todo[t] = {}
        PROVE  Overtaken(m, n)'
    <2>1. lock[m] = t /\ draft[m].status # "active"
      BY <1>7 DEF Beaten
    <2>2. mem'[m] = draft[m]
      BY <1>7, <2>1 DEF Commit, View
    <2>3. QED
      BY <1>0, <2>1, <2>2 DEF Overtaken, Is
  <1>8. CASE FinishTurn(t) \/ LoseAck(t)
    BY <1>0, <1>7, <1>8 DEF FinishTurn, LoseAck, TurnDone
  <1>9. CASE Victim(t) \/ Crash(t)
    <2>1. Rollback(t)
      BY <1>9 DEF Victim, Crash
    <2>2. draft'[n] = Blank
      BY <2>1 DEF Rollback, Beaten
    <2>3. QED
      BY <1>0, <2>2 DEF Overtaken
  <1>10. QED
    BY <1>3, <1>4, <1>5, <1>6, <1>8, <1>9 DEF TurnStep

LEMMA OvertakenStep ==
    ASSUME Good, [Next]_vars, NEW m \in MemId, NEW n \in MemId,
           Overtaken(m, n)
    PROVE  Overtaken(m, n)'
  <1>0. /\ TypeOK /\ RowInv /\ mem[m] # Blank
        /\ n \in Nat /\ next \in Nat
    BY GoodParts DEF TypeOK, MemId, Overtaken
  <1>1. CASE Still
    BY <1>1 DEF Still, Overtaken, Beaten, Is
  <1>2. ASSUME NEW t \in Txn, Footprint(t), RowsLast(t), Turning(t)
        PROVE  Overtaken(m, n)'
    <2>1. /\ mem'[m] # Blank /\ SameMemory(mem[m], mem'[m])
          /\ ~Is(m, "active") => ~Is(m, "active")'
          /\ next' \in Nat /\ next <= next'
      <3>1. next' \in Nat /\ next <= next'
        BY <1>2, TypeStep, GoodParts DEF TypeOK, MemId, Footprint, Clock
      <3>2. QED
        BY <1>0, <1>2, <3>1 DEF RowsLast, Is
    <2>2. CASE ~Is(m, "active")
      BY <2>1, <2>2 DEF Overtaken
    <2>3. CASE n >= next
      <3>1. CASE next' = next
        BY <2>1, <2>3, <3>1 DEF Overtaken
      <3>2. CASE next' # next
        <4>1. t \in Turns /\ StoreCandidate(t)
          BY <1>2, <3>2
             DEF Footprint, Clock, Turning, TurnStep, Ingest, AnswerIngest,
                 StartTurn, DropCandidate, Supersede, FinishTurn, Victim,
                 Crash, LoseAck, Commit, Rollback, db
        <4>2. next' = next + 1
          BY <4>1 DEF StoreCandidate, Insert
        <4>3. CASE n = next
          BY <1>0, <4>1, <4>3, BornOvertaken
        <4>4. CASE n >= next'
          BY <2>1, <4>4 DEF Overtaken
        <4>5. QED
          BY <1>0, <2>3, <4>2, <4>3, <4>4
      <3>3. QED
        BY <3>1, <3>2
    <2>4. CASE ~(n >= next) /\ (draft[n] = Blank \/ ~Above(draft[n], mem[m]))
      <3>1. mem[n] # Blank => draft[n] # Blank /\ SameMemory(mem[n], draft[n])
        BY <1>0 DEF RowInv
      <3>2. \/ draft'[n] \in {draft[n], mem[n]}
            \/ draft[n] # Blank /\ SameMemory(draft'[n], draft[n])
        BY <1>2, <2>4 DEF Footprint, Touches
      <3>3. draft'[n] = Blank
              \/ (draft[n] # Blank /\ SameMemory(draft'[n], draft[n]))
        BY <3>1, <3>2 DEF SameMemory
      <3>4. draft'[n] = Blank \/ ~Above(draft'[n], mem'[m])
        BY <2>1, <2>4, <3>3 DEF Above, SameMemory
      <3>5. QED
        BY <2>1, <3>4 DEF Overtaken
    <2>5. ASSUME NEW b \in Turns, Beaten(b, m, n)
          PROVE  Overtaken(m, n)'
      <3>1. CASE b = t
        BY <1>0, <1>2, <2>5, <3>1, BeatenTurn DEF Turning
      <3>2. CASE b # t
        <4>1. /\ b \in Txn /\ todo'[b] = todo[b] /\ arg'[b] = arg[b]
              /\ \A k \in MemId : /\ lock'[k] = b <=> lock[k] = b
                                  /\ lock[k] = b => draft'[k] = draft[k]
          BY <1>2, <3>2, RequestKinds
             DEF Footprint, Resolves, Others, RowsLast
        <4>2. mem'[n] = mem[n]
          BY <1>2, <2>5, <3>2 DEF Footprint, Touches, Beaten
        <4>3. Beaten(b, m, n)'
          BY <2>5, <4>1, <4>2 DEF Beaten
        <4>4. QED
          BY <2>1, <4>3 DEF Overtaken
      <3>3. QED
        BY <3>1, <3>2
    <2>6. QED
      BY <2>2, <2>3, <2>4, <2>5 DEF Overtaken
  <1>3. QED
    BY <1>1, <1>2, EveryStep

(* A memory that was committed before a more confident one on its subject was *)
(* inserted is never active beside it.                                        *)
THEOREM NewerWinsSound == Spec => NewerWinsOverCommitted
  <1>1. ASSUME NEW m \in MemId, NEW n \in MemId
        PROVE  Spec => [](mem[m] # Blank /\ n >= next => []~Rivals(m, n))
    <2>1. mem[m] # Blank /\ n >= next => Overtaken(m, n)
      BY DEF Overtaken
    <2>2. TypeOK /\ PointersInv /\ HistoryInv /\ Overtaken(m, n) /\ [Next]_vars
            => Overtaken(m, n)'
      BY OvertakenStep DEF Good
    <2>3. TypeOK /\ PointersInv /\ HistoryInv /\ Overtaken(m, n)
            => ~Rivals(m, n)
      BY NoRivals DEF Good
    <2>4. QED
      BY <2>1, <2>2, <2>3, TypeCorrect, PointersSound, HistorySound, PTL
         DEF Spec
  <1>2. QED
    BY <1>1 DEF NewerWinsOverCommitted
=============================================================================
