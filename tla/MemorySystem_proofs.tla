------------------------- MODULE MemorySystem_proofs -------------------------
(* Theorems about MemorySystem for every value of its constants, checked by   *)
(* TLAPS.                                                                     *)
EXTENDS MemoryInvariants, TLAPS

(* What a statement reads is a row, and a row it can act on is a stored one.  *)
LEMMA ViewType ==
    ASSUME TypeOK, NEW t \in Txn, NEW m \in MemId
    PROVE  /\ View(t, m) \in Row \cup {Blank}
           /\ Visible(t, m) => View(t, m) \in Row /\ View(t, m).status \in Statuses
  BY DEF TypeOK, View, Visible, Stored, Blank, Statuses

LEMMA SelectType ==
    ASSUME NEW t, NEW s PROVE Select(t, s) \in SUBSET MemId
  BY DEF Select

LEMMA LogType ==
    ASSUME NEW t \in Txn, NEW k \in Kinds, NEW m \in MemId \cup {Null}
    PROVE  Log(t, k, m) \in Entry
  BY DEF Log, Entry

(* The typing of the database after each kind of write.                       *)
LEMMA UpdateType ==
    ASSUME TypeOK, NEW t \in Txn, NEW m \in MemId, NEW row,
           Visible(t, m) => row \in Row, Update(t, m, row)
    PROVE  /\ draft' \in [MemId -> Row \cup {Blank}]
           /\ lock' \in [MemId -> Txn \cup {NoTxn}]
  BY DEF TypeOK, Update

LEMMA InsertType ==
    ASSUME TypeOK, NEW t \in Txn, NEW row \in Row, Insert(t, row)
    PROVE  /\ draft' \in [MemId -> Row \cup {Blank}]
           /\ lock' \in [MemId -> Txn \cup {NoTxn}]
           /\ next' \in 1 .. N + 1
  BY StoreAssumption DEF TypeOK, Insert, MemId

LEMMA AppendType ==
    ASSUME TypeOK, NEW t \in Txn, NEW rows \in SUBSET Entry, Append(t, rows)
    PROVE  pend' \in [Txn -> SUBSET Entry]
  BY DEF TypeOK, Append

LEMMA CommitType ==
    ASSUME TypeOK, NEW t \in Txn, NEW rows \in SUBSET Entry, Commit(t, rows)
    PROVE  /\ mem' \in [MemId -> Row \cup {Blank}]
           /\ draft' \in [MemId -> Row \cup {Blank}]
           /\ lock' \in [MemId -> Txn \cup {NoTxn}]
           /\ next' \in 1 .. N + 1
           /\ journal' \in SUBSET Entry
           /\ pend' \in [Txn -> SUBSET Entry]
  BY ViewType DEF TypeOK, Commit, Appended

LEMMA RollbackType ==
    ASSUME TypeOK, NEW t \in Txn, Rollback(t)
    PROVE  /\ mem' \in [MemId -> Row \cup {Blank}]
           /\ draft' \in [MemId -> Row \cup {Blank}]
           /\ lock' \in [MemId -> Txn \cup {NoTxn}]
           /\ next' \in 1 .. N + 1
           /\ journal' \in SUBSET Entry
           /\ pend' \in [Txn -> SUBSET Entry]
  BY DEF TypeOK, Rollback

LEMMA CloseType ==
    ASSUME TypeOK, NEW t \in Txn,
           NEW s \in OpenStates \cup ClosedStates, Close(t, s)
    PROVE  /\ pc' \in [Txn -> OpenStates \cup ClosedStates]
           /\ todo' \in [Txn -> SUBSET MemId]
           /\ at' \in [Txn -> 0 .. MaxMonth]
  BY StoreAssumption DEF TypeOK, Close

LEMMA FailType ==
    ASSUME TypeOK, NEW t \in Txn, NEW error, Fail(t, error)
    PROVE  /\ pc' \in [Txn -> OpenStates \cup ClosedStates]
           /\ todo' \in [Txn -> SUBSET MemId]
           /\ at' \in [Txn -> 0 .. MaxMonth]
           /\ seen' \in [Txn -> SUBSET MemId]
           /\ arg' \in [Txn -> [mem : MemId \cup {Null}, conf : Confs \cup {0},
                                left : 0 .. MaxFacts]]
           /\ reply' \in [Requests -> Replies]
           /\ counted' \in [Healths -> SUBSET Entry]
           /\ month' \in 0 .. MaxMonth
  <1>1. (IF t \in Jobs THEN "idle" ELSE "failed")
          \in OpenStates \cup ClosedStates
    BY DEF ClosedStates
  <1>2. NoArg \in [mem : MemId \cup {Null}, conf : Confs \cup {0},
                   left : 0 .. MaxFacts]
    BY StoreAssumption DEF NoArg, Null
  <1>3. t \in Requests => Told(t, error) \in Replies
    BY DEF TypeOK, Told, Replies
  <1>4. reply' \in [Requests -> Replies]
    BY <1>3 DEF TypeOK, Fail
  <1>5. QED
    BY <1>1, <1>2, <1>4, CloseType DEF TypeOK, Fail

(* The typing after each kind of session's steps.                             *)
LEMMA TurnType ==
    ASSUME TypeOK, NEW t \in Turns,
           Ingest(t) \/ TurnStep(t)
    PROVE  TypeOK'
  <1>0. t \in Txn /\ t \in Requests
    BY DEF Txn, Requests
  <1>1. CASE Ingest(t)
    <2>1. {Log(t, "blocked", Null), Log(t, "turn", Null)} \subseteq Entry
      BY <1>0, LogType DEF Kinds
    <2>2. journal' \in SUBSET Entry
      BY <1>1, <2>1 DEF TypeOK, Ingest
    <2>3. pc' \in [Txn -> OpenStates \cup ClosedStates]
      BY <1>0, <1>1 DEF TypeOK, Ingest, ClosedStates
    <2>4. QED
      BY <1>1, <2>2, <2>3 DEF TypeOK, Ingest
  <1>2. CASE AnswerIngest(t)
    <2>1. /\ pc' \in [Txn -> OpenStates \cup ClosedStates]
          /\ reply' \in [Requests -> Replies]
      BY <1>0, <1>2 DEF TypeOK, AnswerIngest, ClosedStates, Replies
    <2>2. QED
      BY <1>2, <2>1 DEF TypeOK, AnswerIngest, db
  <1>3. CASE StartTurn(t)
    <2>1. arg' \in [Txn -> [mem : MemId \cup {Null}, conf : Confs \cup {0},
                            left : 0 .. MaxFacts]]
      BY <1>0, <1>3 DEF TypeOK, StartTurn
    <2>2. QED
      BY <1>0, <1>3, <2>1 DEF TypeOK, StartTurn, OpenStates, db
  <1>4. CASE StoreCandidate(t)
    <2>1. PICK topic \in Topics, c \in Confs :
            /\ Insert(t, [tenant |-> TenantOf[t], topic |-> topic,
                          conf |-> Round[c], turn |-> t, status |-> "active",
                          by |-> Null, used |-> at[t]])
            /\ todo' = [todo EXCEPT ![t] =
                          Outranked(t, SameSubjectAs(t, topic), c)]
            /\ arg' = [arg EXCEPT ![t] =
                         [mem |-> next, conf |-> c, left |-> @.left - 1]]
      BY <1>4 DEF StoreCandidate
    <2>2. [tenant |-> TenantOf[t], topic |-> topic, conf |-> Round[c],
           turn |-> t, status |-> "active", by |-> Null, used |-> at[t]] \in Row
      BY <1>0, StoreAssumption, RoundAssumption
         DEF TypeOK, Row, Statuses, Null
    <2>3. /\ draft' \in [MemId -> Row \cup {Blank}]
          /\ lock' \in [MemId -> Txn \cup {NoTxn}]
          /\ next' \in 1 .. N + 1
      BY <1>0, <2>1, <2>2, InsertType
    <2>4. todo' \in [Txn -> SUBSET MemId]
      BY <2>1, SelectType DEF TypeOK, Outranked, SameSubjectAs
    <2>5. arg' \in [Txn -> [mem : MemId \cup {Null}, conf : Confs \cup {0},
                            left : 0 .. MaxFacts]]
      <3>1. next \in MemId
        BY <2>1 DEF Insert
      <3>2. arg[t].left \in 1 .. MaxFacts
        BY <1>0, <1>4, StoreAssumption DEF TypeOK, StoreCandidate, NextCandidate
      <3>3. arg[t].left - 1 \in 0 .. MaxFacts
        BY <3>2, StoreAssumption
      <3>4. QED
        BY <1>0, <2>1, <3>1, <3>3 DEF TypeOK
    <2>6. pend' \in [Txn -> SUBSET Entry]
      <3>1. next \in MemId
        BY <2>1 DEF Insert
      <3>2. {Log(t, "decision", next), Log(t, "stored", next)} \subseteq Entry
        BY <1>0, <3>1, LogType DEF Kinds
      <3>3. QED
        BY <1>0, <1>4, <3>2, AppendType DEF StoreCandidate
    <2>7. QED
      BY <1>4, <2>3, <2>4, <2>5, <2>6 DEF TypeOK, StoreCandidate
  <1>5. CASE DropCandidate(t)
    <2>1. arg[t].left - 1 \in 0 .. MaxFacts
      BY <1>0, <1>5, StoreAssumption DEF TypeOK, DropCandidate, NextCandidate
    <2>2. arg' \in [Txn -> [mem : MemId \cup {Null}, conf : Confs \cup {0},
                            left : 0 .. MaxFacts]]
      BY <1>0, <1>5, <2>1 DEF TypeOK, DropCandidate
    <2>3. pend' \in [Txn -> SUBSET Entry]
      <3>1. {Log(t, "decision", Null), Log(t, "rejected", Null)} \subseteq Entry
        BY <1>0, LogType DEF Kinds
      <3>2. QED
        BY <1>0, <1>5, <3>1, AppendType DEF DropCandidate
    <2>4. QED
      BY <1>5, <2>2, <2>3 DEF TypeOK, DropCandidate
  <1>6. CASE Supersede(t)
    <2>1. PICK m \in todo[t] :
            /\ Update(t, m, [View(t, m) EXCEPT !.status = "superseded",
                                               !.by = arg[t].mem])
            /\ todo' = [todo EXCEPT ![t] = @ \ {m}]
            /\ Append(t, {Log(t, "replaced", m)})
      BY <1>6 DEF Supersede
    <2>2. m \in MemId
      BY <1>0 DEF TypeOK
    <2>3. Visible(t, m) => [View(t, m) EXCEPT !.status = "superseded",
                                              !.by = arg[t].mem] \in Row
      BY <1>0, <2>2, ViewType DEF TypeOK, Row, Statuses
    <2>4. /\ draft' \in [MemId -> Row \cup {Blank}]
          /\ lock' \in [MemId -> Txn \cup {NoTxn}]
      BY <1>0, <2>1, <2>2, <2>3, UpdateType
    <2>5. pend' \in [Txn -> SUBSET Entry]
      <3>1. {Log(t, "replaced", m)} \subseteq Entry
        BY <1>0, <2>2, LogType DEF Kinds
      <3>2. QED
        BY <1>0, <2>1, <3>1, AppendType
    <2>6. QED
      BY <1>0, <1>6, <2>1, <2>4, <2>5 DEF TypeOK, Supersede
  <1>7. CASE FinishTurn(t)
    <2>1. TurnRows(t) \subseteq Entry
      BY <1>0, LogType DEF TurnRows, Kinds
    <2>2. NoArg \in [mem : MemId \cup {Null}, conf : Confs \cup {0},
                     left : 0 .. MaxFacts]
      BY StoreAssumption DEF NoArg, Null
    <2>3. Close(t, "done") /\ "done" \in OpenStates \cup ClosedStates
      BY <1>7 DEF FinishTurn, ClosedStates
    <2>4. QED
      BY <1>0, <1>7, <2>1, <2>2, <2>3, CommitType, CloseType
         DEF TypeOK, FinishTurn
  <1>8. QED
    BY <1>1, <1>2, <1>3, <1>4, <1>5, <1>6, <1>7 DEF TurnStep

LEMMA CorrectionType ==
    ASSUME TypeOK, NEW t \in Feedbacks \cup Deletes,
           \/ BeginFeedback(t) \/ WriteFeedback(t) \/ FinishFeedback(t)
           \/ BeginDelete(t) \/ WriteDelete(t) \/ FinishDelete(t)
    PROVE  TypeOK'
  <1>0. t \in Txn /\ t \in Requests
    BY DEF Txn, Requests
  <1>1. ASSUME NEW m \in MemId, NEW a \in Replies, Answer(t, m, a)
        PROVE  TypeOK'
    BY <1>0, <1>1 DEF TypeOK, Answer, ClosedStates, db
  <1>2. ASSUME NEW m \in MemId, Proceed(t, m)
        PROVE  TypeOK'
    BY <1>0, <1>2 DEF TypeOK, Proceed, OpenStates, db
  <1>3. ASSUME NEW left, Begin(t, left)
        PROVE  TypeOK'
    <2>1. PICK m \in MemId :
            \/ Answer(t, m, "not_found")
            \/ Visible(t, m) /\ Answer(t, m, View(t, m).status)
            \/ Proceed(t, m)
      BY <1>3 DEF Begin
    <2>2. Visible(t, m) => View(t, m).status \in Replies
      BY <1>0, ViewType DEF Replies
    <2>3. "not_found" \in Replies
      BY DEF Replies
    <2>4. QED
      BY <1>1, <1>2, <2>1, <2>2, <2>3
  <1>4. ASSUME NEW status \in Statuses, NEW kind \in Kinds,
               Write(t, status, kind)
        PROVE  TypeOK'
    <2>1. PICK m \in todo[t] :
            /\ Update(t, m, [View(t, m) EXCEPT !.status = status])
            /\ todo' = [todo EXCEPT ![t] = {}]
            /\ Append(t, {Log(t, kind, m)})
      BY <1>4 DEF Write
    <2>2. m \in MemId
      BY <1>0 DEF TypeOK
    <2>3. Visible(t, m) => [View(t, m) EXCEPT !.status = status] \in Row
      BY <1>0, <2>2, ViewType DEF Row
    <2>4. {Log(t, kind, m)} \subseteq Entry
      BY <1>0, <2>2, LogType
    <2>5. QED
      BY <1>0, <1>4, <2>1, <2>2, <2>3, <2>4, UpdateType, AppendType
         DEF TypeOK, Write
  <1>5. ASSUME NEW answer \in Replies, Finish(t, answer)
        PROVE  TypeOK'
    <2>1. Commit(t, {}) /\ Close(t, "done")
      BY <1>5 DEF Finish
    <2>2. "done" \in OpenStates \cup ClosedStates
      BY DEF ClosedStates
    <2>3. QED
      BY <1>0, <1>5, <2>1, <2>2, CommitType, CloseType DEF TypeOK, Finish
  <1>6. /\ {"superseded", "deleted"} \subseteq Statuses \cap Replies
        /\ {"replaced", "marked"} \subseteq Kinds
    BY DEF Statuses, Replies, Kinds
  <1>7. QED
    BY <1>3, <1>4, <1>5, <1>6
       DEF BeginFeedback, WriteFeedback, FinishFeedback,
           BeginDelete, WriteDelete, FinishDelete

LEMMA JobType ==
    ASSUME TypeOK, NEW t \in Jobs,
           \/ BeginReweight(t) \/ Reweigh(t) \/ FinishJob(t)
           \/ BeginPurge(t) \/ Erase(t) \/ EraseFails(t)
    PROVE  TypeOK'
  <1>0. t \in Txn
    BY DEF Txn
  <1>1. CASE BeginReweight(t)
    <2>1. PICK faded \in SUBSET {m \in Select(t, "active") :
                                   MayHaveFaded(t, m)} :
            seen' = [seen EXCEPT ![t] = faded]
      BY <1>1 DEF BeginReweight
    <2>2. faded \in SUBSET MemId
      BY SelectType
    <2>3. QED
      BY <1>0, <1>1, <2>1, <2>2, SelectType
         DEF TypeOK, BeginReweight, OpenStates, db
  <1>2. CASE Reweigh(t)
    <2>1. PICK m \in todo[t] :
            /\ todo' = [todo EXCEPT ![t] = @ \ {m}]
            /\ \/ /\ Update(t, m, [View(t, m) EXCEPT !.status = "archived"])
                  /\ Append(t, {Log(t, "archived", m)})
               \/ Update(t, m, View(t, m)) /\ UNCHANGED pend
      BY <1>2 DEF Reweigh, Reweighed
    <2>2. m \in MemId
      BY <1>0 DEF TypeOK
    <2>3. Visible(t, m) =>
            /\ [View(t, m) EXCEPT !.status = "archived"] \in Row
            /\ View(t, m) \in Row
      BY <1>0, <2>2, ViewType DEF Row, Statuses
    <2>4. {Log(t, "archived", m)} \subseteq Entry
      BY <1>0, <2>2, LogType DEF Kinds
    <2>5. pend' \in [Txn -> SUBSET Entry]
      BY <1>0, <2>1, <2>4, AppendType DEF TypeOK
    <2>6. /\ draft' \in [MemId -> Row \cup {Blank}]
          /\ lock' \in [MemId -> Txn \cup {NoTxn}]
      BY <1>0, <2>1, <2>2, <2>3, UpdateType
    <2>7. QED
      BY <1>0, <1>2, <2>1, <2>5, <2>6 DEF TypeOK, Reweigh
  <1>3. CASE FinishJob(t)
    <2>1. "idle" \in OpenStates \cup ClosedStates
      BY DEF ClosedStates
    <2>2. QED
      BY <1>0, <1>3, <2>1, CommitType, CloseType DEF TypeOK, FinishJob
  <1>4. CASE BeginPurge(t)
    BY <1>0, <1>4, SelectType
       DEF TypeOK, BeginPurge, Purgeable, OpenStates, db
  <1>5. CASE Erase(t)
    <2>1. PICK m \in todo[t] :
            /\ Update(t, m, [View(t, m) EXCEPT !.status = "purged"])
            /\ todo' = [todo EXCEPT ![t] = @ \ {m}]
            /\ Append(t, {Log(t, "erased", m)})
      BY <1>5 DEF Erase
    <2>2. m \in MemId
      BY <1>0 DEF TypeOK
    <2>3. Visible(t, m) => [View(t, m) EXCEPT !.status = "purged"] \in Row
      BY <1>0, <2>2, ViewType DEF Row
    <2>4. {Log(t, "erased", m)} \subseteq Entry
      BY <1>0, <2>2, LogType DEF Kinds
    <2>5. QED
      BY <1>0, <1>5, <2>1, <2>2, <2>3, <2>4, UpdateType, AppendType
         DEF TypeOK, Erase
  <1>6. CASE EraseFails(t)
    BY <1>0, <1>6, RollbackType, FailType DEF TypeOK, EraseFails
  <1>7. QED
    BY <1>1, <1>2, <1>3, <1>4, <1>5, <1>6

LEMMA ReadType ==
    ASSUME TypeOK, NEW t \in Retrieves \cup Lists \cup Healths,
           \/ t \in Retrieves /\ (BeginRetrieve(t) \/ RetrieveStep(t))
           \/ t \in Lists /\ ListMemories(t)
           \/ t \in Healths /\ (BeginHealth(t) \/ FinishHealth(t))
    PROVE  TypeOK'
  <1>0. t \in Txn /\ t \in Requests
    BY DEF Txn, Requests
  <1>1. ASSUME NEW from, NEW to \in OpenStates \cup ClosedStates,
               Search(t, from, to)
        PROVE  /\ pc' \in [Txn -> OpenStates \cup ClosedStates]
               /\ seen' \in [Txn -> SUBSET MemId]
    BY <1>0, <1>1, SelectType DEF TypeOK, Search, Readable
  <1>2. CASE BeginRetrieve(t)
    BY <1>0, <1>1, <1>2 DEF TypeOK, BeginRetrieve, OpenStates, db
  <1>3. CASE KeywordSearch(t)
    BY <1>0, <1>1, <1>3 DEF TypeOK, KeywordSearch, OpenStates, db
  <1>4. CASE EntitySearch(t)
    BY <1>0, <1>1, <1>4 DEF TypeOK, EntitySearch, OpenStates, db
  <1>5. CASE ListMemories(t)
    BY <1>0, <1>1, <1>5 DEF TypeOK, ListMemories, ClosedStates, Replies, db
  <1>6. CASE Rank(t)
    <2>1. PICK result \in SUBSET seen[t] :
            /\ seen' = [seen EXCEPT ![t] = result]
            /\ todo' = [todo EXCEPT ![t] = result]
      BY <1>6 DEF Rank
    <2>2. result \in SUBSET MemId
      BY <1>0 DEF TypeOK
    <2>3. QED
      BY <1>0, <1>6, <2>1, <2>2 DEF TypeOK, Rank, OpenStates, db
  <1>7. CASE Bump(t)
    <2>1. PICK m \in todo[t] :
            /\ Update(t, m, [View(t, m) EXCEPT !.used = at[t]])
            /\ todo' = [todo EXCEPT ![t] = @ \ {m}]
      BY <1>7 DEF Bump
    <2>2. m \in MemId
      BY <1>0 DEF TypeOK
    <2>3. Visible(t, m) => [View(t, m) EXCEPT !.used = at[t]] \in Row
      BY <1>0, <2>2, ViewType DEF TypeOK, Row
    <2>4. QED
      BY <1>0, <1>7, <2>1, <2>2, <2>3, UpdateType DEF TypeOK, Bump
  <1>8. CASE FinishRetrieve(t)
    <2>1. RetrieveRows(t) \subseteq Entry
      BY <1>0, LogType DEF RetrieveRows, Kinds
    <2>2. "answer" \in OpenStates \cup ClosedStates
      BY DEF ClosedStates
    <2>3. QED
      BY <1>0, <1>8, <2>1, <2>2, CommitType, CloseType
         DEF TypeOK, FinishRetrieve
  <1>9. CASE Respond(t)
    BY <1>0, <1>9 DEF TypeOK, Respond, ClosedStates, Replies, db
  <1>10. ASSUME NEW select, t \in Healths, Count(t, select)
         PROVE  counted' \in [Healths -> SUBSET Entry]
    BY <1>10 DEF TypeOK, Count
  <1>11. CASE t \in Healths /\ BeginHealth(t)
    BY <1>0, <1>10, <1>11 DEF TypeOK, BeginHealth, OpenStates, db
  <1>12. CASE t \in Healths /\ FinishHealth(t)
    BY <1>0, <1>10, <1>12
       DEF TypeOK, FinishHealth, ClosedStates, Replies, db
  <1>13. QED
    BY <1>2, <1>3, <1>4, <1>5, <1>6, <1>7, <1>8, <1>9, <1>11, <1>12
       DEF RetrieveStep

LEMMA LossType ==
    ASSUME TypeOK, NEW t \in Txn, Victim(t) \/ Crash(t) \/ LoseAck(t)
    PROVE  TypeOK'
  <1>1. crashes' \in 0 .. MaxCrashes
    BY StoreAssumption DEF TypeOK, Victim, Crash, LoseAck
  <1>2. PICK error \in {"database", "other"} : Fail(t, error)
    BY DEF Victim, Crash, LoseAck
  <1>3. CASE Victim(t) \/ Crash(t)
    BY <1>1, <1>2, <1>3, RollbackType, FailType DEF TypeOK, Victim, Crash
  <1>4. CASE LoseAck(t)
    <2>1. TurnRows(t) \subseteq Entry /\ RetrieveRows(t) \subseteq Entry
      BY LogType DEF TurnRows, RetrieveRows, Kinds
    <2>2. PICK rows \in SUBSET Entry : Commit(t, rows)
      BY <1>4, <2>1 DEF LoseAck
    <2>3. QED
      BY <1>1, <1>2, <2>2, CommitType, FailType DEF TypeOK
  <1>5. QED
    BY <1>3, <1>4

(* Every step keeps the types.                                                *)
LEMMA TypeStep ==
    ASSUME TypeOK, [Next]_vars PROVE TypeOK'
  <1>1. ASSUME NEW t \in Txn, BeginRequest(t) PROVE TypeOK'
    BY <1>1, TurnType, CorrectionType, ReadType DEF BeginRequest
  <1>2. ASSUME NEW t \in Txn, BeginJob(t) PROVE TypeOK'
    BY <1>2, JobType DEF BeginJob, Jobs
  <1>3. ASSUME NEW t \in Txn, Advance(t) PROVE TypeOK'
    BY <1>3, TurnType, CorrectionType, ReadType, JobType DEF Advance, Jobs
  <1>4. ASSUME NEW t \in Txn, Victim(t) \/ Crash(t) \/ LoseAck(t)
        PROVE  TypeOK'
    BY <1>4, LossType
  <1>5. CASE Tick
    <2>1. month' \in 0 .. MaxMonth
      BY <1>5, StoreAssumption DEF TypeOK, Tick
    <2>2. QED
      BY <1>5, <2>1 DEF TypeOK, Tick, db
  <1>6. CASE UNCHANGED vars
    BY <1>6 DEF TypeOK, vars
  <1>7. QED
    BY <1>1, <1>2, <1>3, <1>4, <1>5, <1>6 DEF Next

(* The state is well typed in every reachable state, for any number of        *)
(* tenants, memories, sessions, crashes and months.                             *)
THEOREM TypeCorrect == Spec => []TypeOK
  <1>1. Init => TypeOK
    BY StoreAssumption
       DEF Init, StoreInit, TypeOK, MemId, Null, NoArg, ClosedStates, Replies
  <1>2. TypeOK /\ [Next]_vars => TypeOK'
    BY TypeStep
  <1>3. QED
    BY <1>1, <1>2, PTL DEF Spec

=============================================================================
