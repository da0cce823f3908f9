---------------------------- MODULE Answers_proofs ----------------------------
(* What the rows and the log owe to whoever was promised something: the       *)
(* replacement a memory names stays as long as the memory does, and a client  *)
(* is told nothing the database does not hold.                                *)
EXTENDS History_proofs

(* A purge leaves only purged rows, a turn only memories that are there.      *)
LEMMA LockedRow ==
    ASSUME TypeOK, WriterInv, NEW t \in Txn, NEW m \in MemId, lock[m] = t
    PROVE  /\ draft[m] \in Row /\ draft[m] # Blank /\ ~Is(m, "purged")
           /\ t \in Purges => draft[m].status = "purged"
           /\ t \in Turns => draft[m].status \in {"active", "superseded"}
           /\ Stored(draft[m]) <=> draft[m].status # "purged"
  <1>1. t # NoTxn
    BY StoreAssumption
  <1>2. draft[m] # Blank /\ ~Is(m, "purged") /\ Writes(t, m, draft[m])
    BY <1>1 DEF WriterInv, Written
  <1>3. draft[m] \in Row
    BY <1>2 DEF TypeOK
  <1>4. /\ t \in Purges => t \notin Requests \cup Reweights
        /\ t \in Turns =>
             t \notin Feedbacks \cup Deletes \cup Retrieves \cup Jobs
    BY KindsAssumption, StoreAssumption DEF Jobs, Requests
  <1>5. Stored(draft[m]) <=> draft[m].status # "purged"
    BY <1>3 DEF Row, Stored, Statuses
  <1>6. QED
    BY <1>2, <1>3, <1>4, <1>5 DEF Writes, Requests, Jobs

LEMMA StoredRow ==
    ASSUME TypeOK, NEW m \in MemId
    PROVE  /\ Stored(mem[m]) <=> mem[m] # Blank /\ ~Is(m, "purged")
           /\ mem[m] # Blank => mem[m] \in Row
           /\ Stored(draft[m]) <=> draft[m] # Blank /\ draft[m].status # "purged"
           /\ draft[m] # Blank => draft[m] \in Row
  <1>1. mem[m] \in Row \cup {Blank} /\ draft[m] \in Row \cup {Blank}
    BY DEF TypeOK
  <1>2. Blank.status \notin Statuses
    BY DEF Blank, Statuses
  <1>3. \A row \in Row : row # Blank
    BY DEF Row, Blank, Statuses
  <1>4. \A row \in Row : Stored(row) <=> row.status # "purged"
    BY DEF Row, Stored, Statuses
  <1>5. QED
    BY <1>1, <1>2, <1>3, <1>4 DEF Stored, Is

(* An UPDATE: a pointer is set only by a turn, to a row it holds; a row is    *)
(* removed only by a purge that sees no pointer to it.                        *)
LEMMA UpdateHeld ==
    ASSUME TypeOK, RowsInv, WriterInv, HeldInv,
           NEW t \in Txn, NEW m \in MemId, NEW row,
           Update(t, m, row), UNCHANGED mem,
           Visible(t, m) =>
             /\ \/ row.by = draft[m].by
                \/ row.by \in MemId /\ lock[row.by] = t /\ t \in Turns
             /\ row.status = "purged" => t \in Purges /\ ~Referenced(t, m)
    PROVE  HeldInv'
  <1>1. CASE ~Visible(t, m)
    BY <1>1 DEF Update, HeldInv, Held
  <1>2. CASE Visible(t, m)
    <2>1. /\ lock[m] \in {NoTxn, t} /\ t # NoTxn /\ mem' = mem
          /\ draft'[m] = row /\ lock'[m] = t
          /\ \A k \in MemId \ {m} : draft'[k] = draft[k] /\ lock'[k] = lock[k]
      BY <1>2, StoreAssumption DEF Update, Free, TypeOK
    <2>2. draft[m] # Blank /\ draft[m].status # "purged"
      <3>1. draft[m] # Blank /\ draft[m].status \in Statuses
        BY <1>2, <2>1, VisibleDraft DEF RowsInv, Free
      <3>2. QED
        BY <3>1 DEF Statuses
    <2> SUFFICES ASSUME NEW k \in MemId, NEW n \in MemId PROVE Held(k, n)'
      BY DEF HeldInv
    <2>3. Held(k, n) /\ Held(m, n) /\ Held(k, m)
      BY DEF HeldInv
    <2>4. ASSUME draft'[k] # Blank, draft'[k].by = n
          PROVE  \/ mem[k] # Blank /\ mem[k].by = n
                 \/ lock'[n] \in Turns /\ lock'[n] = lock'[k]
      <3>1. CASE k = m
        <4>1. CASE draft[m].by = n
          <5>1. \/ mem[m] # Blank /\ mem[m].by = n
                \/ lock[n] \in Turns /\ lock[n] = lock[m]
            BY <2>2, <2>3, <4>1 DEF Held
          <5>2. lock[m] \in Turns => lock[m] = t
            BY <2>1, StoreAssumption DEF Txn, Requests
          <5>3. QED
            BY <2>1, <3>1, <5>1, <5>2
        <4>2. CASE draft[m].by # n
          <5>1. lock[n] = t /\ t \in Turns
            BY <1>2, <2>1, <2>4, <3>1, <4>2
          <5>2. QED
            BY <2>1, <3>1, <5>1
        <4>3. QED
          BY <4>1, <4>2
      <3>2. CASE k # m
        <4>1. \/ mem[k] # Blank /\ mem[k].by = n
              \/ lock[n] \in Turns /\ lock[n] = lock[k]
          BY <2>1, <2>3, <2>4, <3>2 DEF Held
        <4>2. n = m /\ lock[n] \in Turns => lock[n] = t
          BY <2>1, StoreAssumption DEF Txn, Requests
        <4>3. QED
          BY <2>1, <3>2, <4>1, <4>2
      <3>3. QED
        BY <3>1, <3>2
    <2>5. ASSUME Stored(mem[k]), mem[k].by = n, draft'[n].status = "purged"
          PROVE  lock'[k] = lock'[n] /\ draft'[k].status = "purged"
      <3>1. CASE n = m
        <4>1. t \in Purges /\ ~Referenced(t, m)
          BY <1>2, <2>1, <2>5, <3>1
        <4>2. lock[k] = t
          BY <2>5, <3>1, <4>1 DEF Referenced, View
        <4>3. draft[k].status = "purged"
          BY <4>1, <4>2, LockedRow
        <4>4. k # m
          BY <2>2, <4>3
        <4>5. QED
          BY <2>1, <3>1, <4>2, <4>3, <4>4
      <3>2. CASE n # m
        <4>1. lock[k] = lock[n] /\ draft[k].status = "purged"
          BY <2>1, <2>3, <2>5, <3>2 DEF Held
        <4>2. k # m
          BY <2>2, <4>1
        <4>3. QED
          BY <2>1, <3>2, <4>1, <4>2
      <3>3. QED
        BY <3>1, <3>2
    <2>6. QED
      BY <2>1, <2>3, <2>4, <2>5 DEF Held, Stored
  <1>3. QED
    BY <1>1, <1>2

LEMMA InsertHeld ==
    ASSUME TypeOK, RowsInv, HeldInv, NEW t \in Txn, NEW row,
           row.by = Null, row.status = "active",
           Insert(t, row), UNCHANGED mem
    PROVE  HeldInv'
  <1>1. /\ next \in MemId /\ mem' = mem /\ draft'[next] = row
        /\ \A k \in MemId \ {next} : draft'[k] = draft[k] /\ lock'[k] = lock[k]
    BY DEF Insert, TypeOK
  <1>2. /\ draft[next] = Blank /\ mem[next] = Blank /\ lock[next] = NoTxn
        /\ NoTxn \notin Turns /\ ~Stored(mem[next]) /\ Null \notin MemId
    BY <1>1, StoreAssumption
       DEF RowsInv, RowInv, MemId, Txn, Requests, Stored, Blank, Statuses, Null
  <1> SUFFICES ASSUME NEW k \in MemId, NEW n \in MemId PROVE Held(k, n)'
    BY DEF HeldInv
  <1>3. Held(k, n)
    BY DEF HeldInv
  <1>4. ASSUME draft'[k] # Blank, draft'[k].by = n
        PROVE  \/ mem[k] # Blank /\ mem[k].by = n
               \/ lock'[n] \in Turns /\ lock'[n] = lock'[k]
    <2>1. k # next
      BY <1>1, <1>2, <1>4
    <2>2. QED
      BY <1>1, <1>2, <1>3, <1>4, <2>1 DEF Held
  <1>5. ASSUME Stored(mem[k]), mem[k].by = n, draft'[n].status = "purged"
        PROVE  lock'[k] = lock'[n] /\ draft'[k].status = "purged"
    BY <1>1, <1>2, <1>3, <1>5 DEF Held
  <1>6. QED
    BY <1>1, <1>3, <1>4, <1>5 DEF Held, Stored

(* A COMMIT: with a memory removed go those that name it.                     *)
LEMMA CommitHeld ==
    ASSUME TypeOK, RowsInv, WriterInv, HeldInv,
           NEW t \in Txn, NEW rows, Commit(t, rows)
    PROVE  HeldInv'
  <1>1. /\ t # NoTxn /\ draft' = draft
        /\ \A m \in MemId :
             /\ mem'[m] = IF lock[m] = t THEN draft[m] ELSE mem[m]
             /\ lock'[m] = IF lock[m] = t THEN NoTxn ELSE lock[m]
    BY StoreAssumption DEF Commit, View
  <1> SUFFICES ASSUME NEW k \in MemId, NEW n \in MemId PROVE Held(k, n)'
    BY DEF HeldInv
  <1>2. Held(k, n)
    BY DEF HeldInv
  <1>3. ASSUME Stored(mem'[k]), mem'[k].by = n, lock[k] = t
        PROVE  \/ t \in Turns /\ lock[n] = t
               \/ /\ Stored(mem[k]) /\ mem[k].by = n
                  /\ draft[n].status # "purged"
    <2>1. mem'[k] = draft[k] /\ draft[k] # Blank /\ ~Is(k, "purged")
      BY <1>1, <1>3, LockedRow
    <2>2. draft[k].status # "purged"
      BY <1>3, <2>1, StoredRow
    <2>3. CASE mem[k] # Blank /\ mem[k].by = n
      <3>1. Stored(mem[k])
        BY <2>1, <2>3, StoredRow
      <3>2. QED
        BY <1>2, <2>2, <2>3, <3>1 DEF Held
    <2>4. CASE lock[n] \in Turns /\ lock[n] = lock[k]
      BY <1>3, <2>4
    <2>5. QED
      BY <1>2, <1>3, <2>1, <2>3, <2>4 DEF Held
  <1>4. ASSUME Stored(mem'[k]), mem'[k].by = n
        PROVE  Stored(mem'[n])
    <2>1. CASE t \in Turns /\ lock[n] = t
      BY <1>1, <2>1, LockedRow
    <2>2. CASE Stored(mem[k]) /\ mem[k].by = n
                 /\ (lock[n] = t => draft[n].status # "purged")
      <3>1. Stored(mem[n])
        BY <1>2, <2>2 DEF Held
      <3>2. lock[n] = t => Stored(draft[n])
        BY <2>2, LockedRow
      <3>3. QED
        BY <1>1, <3>1, <3>2
    <2>3. CASE lock[k] # t
      <3>1. Stored(mem[k]) /\ mem[k].by = n
        BY <1>1, <1>4, <2>3
      <3>2. lock[n] = t => draft[n].status # "purged"
        BY <1>2, <2>3, <3>1 DEF Held
      <3>3. QED
        BY <2>2, <3>1, <3>2
    <2>4. QED
      BY <1>3, <1>4, <2>1, <2>2, <2>3
  <1>5. ASSUME draft[k] # Blank, draft[k].by = n
        PROVE  \/ mem'[k] # Blank /\ mem'[k].by = n
               \/ lock'[n] \in Turns /\ lock'[n] = lock'[k]
    BY <1>1, <1>2, <1>5 DEF Held
  <1>6. ASSUME Stored(mem'[k]), mem'[k].by = n, draft[n].status = "purged"
        PROVE  lock'[k] = lock'[n] /\ draft[k].status = "purged"
    <2>1. CASE lock[k] = t
      <3>1. t \in Turns /\ lock[n] = t
        BY <1>3, <1>6, <2>1
      <3>2. QED
        BY <1>6, <3>1, LockedRow
    <2>2. CASE lock[k] # t
      <3>1. Stored(mem[k]) /\ mem[k].by = n
        BY <1>1, <1>6, <2>2
      <3>2. QED
        BY <1>1, <1>2, <1>6, <2>2, <3>1 DEF Held
    <2>3. QED
      BY <2>1, <2>2
  <1>7. QED
    BY <1>1, <1>4, <1>5, <1>6 DEF Held, Stored

LEMMA RollbackHeld ==
    ASSUME TypeOK, RowsInv, WriterInv, HeldInv, NEW t \in Txn, Rollback(t)
    PROVE  HeldInv'
  <1>1. /\ t # NoTxn /\ mem' = mem
        /\ \A m \in MemId :
             /\ draft'[m] = IF lock[m] = t THEN mem[m] ELSE draft[m]
             /\ lock'[m] = IF lock[m] = t THEN NoTxn ELSE lock[m]
    BY StoreAssumption DEF Rollback
  <1> SUFFICES ASSUME NEW k \in MemId, NEW n \in MemId PROVE Held(k, n)'
    BY DEF HeldInv
  <1>2. Held(k, n)
    BY DEF HeldInv
  <1>3. ASSUME draft'[k] # Blank, draft'[k].by = n
        PROVE  \/ mem[k] # Blank /\ mem[k].by = n
               \/ lock'[n] \in Turns /\ lock'[n] = lock'[k]
    BY <1>1, <1>2, <1>3 DEF Held
  <1>4. ASSUME Stored(mem[k]), mem[k].by = n, draft'[n].status = "purged"
        PROVE  lock'[k] = lock'[n] /\ draft'[k].status = "purged"
    <2>1. Stored(mem[n])
      BY <1>2, <1>4 DEF Held
    <2>2. lock[n] # t
      BY <1>1, <1>4, <2>1 DEF Stored, Statuses
    <2>3. lock[k] = lock[n] /\ draft[k].status = "purged"
      BY <1>1, <1>2, <1>4, <2>2 DEF Held
    <2>4. QED
      BY <1>1, <2>2, <2>3
  <1>5. QED
    BY <1>1, <1>2, <1>3, <1>4 DEF Held, Stored

LEMMA SameRowsHeld ==
    ASSUME HeldInv, UNCHANGED <<mem, draft, lock>>
    PROVE  HeldInv'
  BY DEF HeldInv, Held, Stored

(* An UPDATE that leaves the pointer as it was, by anybody but the purge.     *)
LEMMA ColumnHeld ==
    ASSUME Good, HeldInv, NEW t \in Txn, NEW m \in MemId, NEW row,
           Update(t, m, row), UNCHANGED mem,
           Visible(t, m) => /\ row.by = View(t, m).by
                            /\ row.status \in Statuses
    PROVE  HeldInv'
  <1>1. Visible(t, m) => row.by = draft[m].by /\ row.status # "purged"
    BY GoodParts, VisibleDraft DEF Update, Statuses
  <1>2. QED
    BY <1>1, GoodParts, UpdateHeld

LEMMA TurnHeld ==
    ASSUME Good, HeldInv, NEW t \in Turns, Ingest(t) \/ TurnStep(t)
    PROVE  HeldInv'
  <1>0. /\ t \in Txn /\ TypeOK /\ RowsInv /\ WriterInv /\ Pending(t)
    BY GoodParts DEF TurnInv, Txn, Requests
  <1>1. CASE \/ Ingest(t) \/ AnswerIngest(t) \/ StartTurn(t)
            \/ DropCandidate(t)
    <2>1. UNCHANGED <<mem, draft, lock>>
      BY <1>1 DEF Ingest, AnswerIngest, StartTurn, DropCandidate, db
    <2>2. QED
      BY <2>1, SameRowsHeld
  <1>2. CASE StoreCandidate(t)
    <2>1. PICK row : /\ Insert(t, row) /\ row.by = Null
                     /\ row.status = "active"
      BY <1>2 DEF StoreCandidate
    <2>2. UNCHANGED mem
      BY <1>2 DEF StoreCandidate
    <2>3. QED
      BY <1>0, <2>1, <2>2, InsertHeld
  <1>3. CASE Supersede(t)
    <2>1. PICK m \in todo[t] :
            Update(t, m, [View(t, m) EXCEPT !.status = "superseded",
                                            !.by = arg[t].mem])
      BY <1>3 DEF Supersede
    <2>2. /\ m \in MemId /\ UNCHANGED mem
          /\ arg[t].mem \in MemId /\ lock[arg[t].mem] = t
      BY <1>0, <1>3, <2>1 DEF TypeOK, Supersede, Pending
    <2> DEFINE row == [View(t, m) EXCEPT !.status = "superseded",
                                         !.by = arg[t].mem]
    <2>3. Visible(t, m) => row.by = arg[t].mem /\ row.status = "superseded"
      <3>1. Visible(t, m) => View(t, m) \in Row
        BY <1>0, <2>2, ViewType
      <3>2. QED
        BY <3>1 DEF Row
    <2>4. Update(t, m, row)
      BY <2>1
    <2> HIDE DEF row
    <2>5. QED
      BY <1>0, <2>2, <2>3, <2>4, UpdateHeld
  <1>4. CASE FinishTurn(t)
    BY <1>0, <1>4, CommitHeld DEF FinishTurn
  <1>5. QED
    BY <1>1, <1>2, <1>3, <1>4 DEF TurnStep

LEMMA CorrectionHeld ==
    ASSUME Good, HeldInv, NEW t \in Txn,
           \/ BeginFeedback(t) \/ WriteFeedback(t) \/ FinishFeedback(t)
           \/ BeginDelete(t) \/ WriteDelete(t) \/ FinishDelete(t)
    PROVE  HeldInv'
  <1>0. TypeOK /\ RowsInv /\ WriterInv
    BY GoodParts
  <1>1. ASSUME NEW left, Begin(t, left) PROVE HeldInv'
    <2>1. UNCHANGED <<mem, draft, lock>>
      BY <1>1 DEF Begin, Answer, Proceed, db
    <2>2. QED
      BY <2>1, SameRowsHeld
  <1>2. ASSUME NEW s \in Statuses, NEW kind, Write(t, s, kind) PROVE HeldInv'
    <2>1. PICK m \in todo[t] :
            Update(t, m, [View(t, m) EXCEPT !.status = s])
      BY <1>2 DEF Write
    <2>2. m \in MemId /\ UNCHANGED mem
      BY <1>0, <1>2, <2>1 DEF TypeOK, Write
    <2>3. Visible(t, m) =>
            /\ [View(t, m) EXCEPT !.status = s].by = View(t, m).by
            /\ [View(t, m) EXCEPT !.status = s].status = s
      BY <1>0, <2>2, ViewType DEF Row
    <2>4. QED
      BY <2>1, <2>2, <2>3, ColumnHeld
  <1>3. ASSUME NEW answer, Finish(t, answer) PROVE HeldInv'
    BY <1>0, <1>3, CommitHeld DEF Finish
  <1>4. "superseded" \in Statuses /\ "deleted" \in Statuses
    BY DEF Statuses
  <1>5. QED
    BY <1>1, <1>2, <1>3, <1>4
       DEF BeginFeedback, WriteFeedback, FinishFeedback,
           BeginDelete, WriteDelete, FinishDelete

LEMMA JobHeld ==
    ASSUME Good, HeldInv, NEW t \in Txn,
           \/ BeginReweight(t) \/ Reweigh(t) \/ BeginPurge(t)
           \/ t \in Purges /\ Erase(t)
           \/ EraseFails(t) \/ FinishJob(t)
    PROVE  HeldInv'
  <1>0. TypeOK /\ RowsInv /\ WriterInv
    BY GoodParts
  <1>1. CASE BeginReweight(t) \/ BeginPurge(t)
    <2>1. UNCHANGED <<mem, draft, lock>>
      BY <1>1 DEF BeginReweight, BeginPurge, db
    <2>2. QED
      BY <2>1, SameRowsHeld
  <1>2. CASE Reweigh(t)
    <2>1. PICK m \in todo[t] :
            \/ Update(t, m, [View(t, m) EXCEPT !.status = "archived"])
            \/ Update(t, m, View(t, m))
      BY <1>2 DEF Reweigh, Reweighed
    <2>2. m \in MemId /\ UNCHANGED mem
      BY <1>0, <1>2, <2>1 DEF TypeOK, Reweigh
    <2>3. Visible(t, m) =>
            /\ [View(t, m) EXCEPT !.status = "archived"].by = View(t, m).by
            /\ [View(t, m) EXCEPT !.status = "archived"].status \in Statuses
            /\ View(t, m).status \in Statuses
      BY <1>0, <2>2, ViewType DEF Row, Statuses
    <2>4. QED
      BY <2>1, <2>2, <2>3, ColumnHeld
  <1>3. CASE t \in Purges /\ Erase(t)
    <2>1. PICK m \in todo[t] :
            /\ Visible(t, m) => ~Referenced(t, m)
            /\ Update(t, m, [View(t, m) EXCEPT !.status = "purged"])
      BY <1>3 DEF Erase
    <2>2. m \in MemId /\ UNCHANGED mem
      BY <1>0, <1>3, <2>1 DEF TypeOK, Erase
    <2>3. Visible(t, m) =>
            [View(t, m) EXCEPT !.status = "purged"].by = draft[m].by
      <3>1. Visible(t, m) => View(t, m) \in Row /\ View(t, m) = draft[m]
        BY <1>0, <2>1, <2>2, VisibleDraft DEF Update, RowsInv
      <3>2. QED
        BY <3>1 DEF Row
    <2>4. QED
      BY <1>0, <1>3, <2>1, <2>2, <2>3, UpdateHeld
  <1>4. CASE EraseFails(t)
    BY <1>0, <1>4, RollbackHeld DEF EraseFails
  <1>5. CASE FinishJob(t)
    BY <1>0, <1>5, CommitHeld DEF FinishJob
  <1>6. QED
    BY <1>1, <1>2, <1>3, <1>4, <1>5

LEMMA ReadHeld ==
    ASSUME Good, HeldInv, NEW t \in Txn,
           \/ BeginRetrieve(t) \/ RetrieveStep(t) \/ ListMemories(t)
           \/ BeginHealth(t) \/ FinishHealth(t)
    PROVE  HeldInv'
  <1>0. TypeOK /\ RowsInv /\ WriterInv
    BY GoodParts
  <1>1. CASE Bump(t)
    <2>1. PICK m \in todo[t] :
            Update(t, m, [View(t, m) EXCEPT !.used = at[t]])
      BY <1>1 DEF Bump
    <2>2. m \in MemId /\ UNCHANGED mem
      BY <1>0, <1>1, <2>1 DEF TypeOK, Bump
    <2>3. Visible(t, m) =>
            /\ [View(t, m) EXCEPT !.used = at[t]].by = View(t, m).by
            /\ [View(t, m) EXCEPT !.used = at[t]].status \in Statuses
      BY <1>0, <2>2, ViewType DEF Row
    <2>4. QED
      BY <2>1, <2>2, <2>3, ColumnHeld
  <1>2. CASE FinishRetrieve(t)
    BY <1>0, <1>2, CommitHeld DEF FinishRetrieve
  <1>3. CASE \/ BeginRetrieve(t) \/ KeywordSearch(t) \/ EntitySearch(t)
             \/ Rank(t) \/ Respond(t) \/ ListMemories(t)
             \/ BeginHealth(t) \/ FinishHealth(t)
    <2>1. UNCHANGED <<mem, draft, lock>>
      BY <1>3 DEF BeginRetrieve, KeywordSearch, EntitySearch, Rank, Respond,
                  ListMemories, BeginHealth, FinishHealth, db
    <2>2. QED
      BY <2>1, SameRowsHeld
  <1>4. QED
    BY <1>1, <1>2, <1>3 DEF RetrieveStep

LEMMA HeldStep ==
    ASSUME Good, HeldInv, [Next]_vars
    PROVE  HeldInv'
  <1>0. TypeOK /\ RowsInv /\ WriterInv
    BY GoodParts
  <1>1. ASSUME NEW t \in Txn, BeginRequest(t) \/ BeginJob(t) PROVE HeldInv'
    BY <1>1, TurnHeld, CorrectionHeld, JobHeld, ReadHeld
       DEF BeginRequest, BeginJob
  <1>2. ASSUME NEW t \in Txn, Advance(t) PROVE HeldInv'
    BY <1>2, TurnHeld, CorrectionHeld, JobHeld, ReadHeld DEF Advance
  <1>3. ASSUME NEW t \in Txn, Victim(t) \/ Crash(t) \/ LoseAck(t)
        PROVE  HeldInv'
    <2>1. Rollback(t) \/ \E rows : Commit(t, rows)
      BY <1>3 DEF Victim, Crash, LoseAck
    <2>2. QED
      BY <1>0, <2>1, CommitHeld, RollbackHeld
  <1>4. CASE Tick \/ UNCHANGED vars
    <2>1. UNCHANGED <<mem, draft, lock>>
      BY <1>4 DEF Tick, vars, db
    <2>2. QED
      BY <2>1, SameRowsHeld
  <1>5. QED
    BY <1>1, <1>2, <1>3, <1>4 DEF Next

(* Pointers on their way into the table, and rows on their way out.           *)
THEOREM HeldSound == Spec => []HeldInv
  <1>1. Init => HeldInv
    BY DEF Init, StoreInit, HeldInv, Held, Stored, Blank, Statuses
  <1>2. TypeOK /\ PointersInv /\ HistoryInv /\ HeldInv /\ [Next]_vars
          => HeldInv'
    BY HeldStep DEF Good
  <1>3. QED
    BY <1>1, <1>2, TypeCorrect, PointersSound, HistorySound, PTL DEF Spec

(* The replacement a superseded memory names is still there, however many     *)
(* purges overlap and whichever of them fails.                                *)
THEOREM ReplacementStays == Spec => []ReplacementKept
  <1>1. TypeOK /\ HeldInv => ReplacementKept
    <2> SUFFICES ASSUME TypeOK, HeldInv, NEW m \in MemId,
                        Stored(mem[m]), mem[m].by # Null
                 PROVE  Stored(mem[mem[m].by])
      BY DEF ReplacementKept
    <2>1. mem[m].by \in MemId
      BY StoredRow DEF Row
    <2>2. QED
      BY <2>1 DEF HeldInv, Held
  <1>2. QED
    BY <1>1, TypeCorrect, HeldSound, PTL
------------------------------------------------------------------------------
(* Answers.  What a step of t leaves to every other request.                  *)
OtherRequests(t) ==
    \A u \in Requests \ {t} :
        /\ pc'[u] = pc[u] /\ todo'[u] = todo[u] /\ arg'[u] = arg[u]
        /\ pend'[u] = pend[u] /\ reply'[u] = reply[u]

(* Memories that are there stay there, and inactive ones inactive.            *)
RowsPersist ==
    \A m \in MemId : mem[m] # Blank =>
        mem'[m] # Blank /\ (~Is(m, "active") => mem'[m].status # "active")

LEMMA CorrectedStays ==
    ASSUME journal \subseteq journal', RowsPersist, NEW u, NEW kind,
           Corrected(u, kind),
           pc'[u] = pc[u], todo'[u] = todo[u], arg'[u] = arg[u],
           pend'[u] = pend[u], reply'[u] = reply[u]
    PROVE  Corrected(u, kind)'
  <1>1. arg[u].mem \in MemId /\ mem[arg[u].mem] # Blank
          => /\ mem'[arg[u].mem] # Blank
             /\ ~Is(arg[u].mem, "active") => ~Is(arg[u].mem, "active")'
    BY DEF RowsPersist, Is
  <1>2. Logged(ActionOf[reply[u]], arg[u].mem)
          => Logged(ActionOf[reply[u]], arg[u].mem)'
    BY DEF Logged, Log, ActionOf
  <1>3. QED
    BY <1>1, <1>2 DEF Corrected, Log, ActionOf

LEMMA AnsweredStays ==
    ASSUME journal \subseteq journal', RowsPersist, NEW u, Answered(u),
           pc'[u] = pc[u], todo'[u] = todo[u], arg'[u] = arg[u],
           pend'[u] = pend[u], reply'[u] = reply[u]
    PROVE  Answered(u)'
  <1>1. u \in Feedbacks => Corrected(u, "replaced")'
    BY CorrectedStays DEF Answered
  <1>2. u \in Deletes => Corrected(u, "marked")'
    BY CorrectedStays DEF Answered
  <1>3. QED
    BY <1>1, <1>2 DEF Answered, RetrieveRows, Log

LEMMA StepAnswers ==
    ASSUME AnswerInv, journal \subseteq journal', RowsPersist, NEW t,
           OtherRequests(t), t \in Requests => Answered(t)'
    PROVE  AnswerInv'
  BY AnsweredStays DEF AnswerInv, OtherRequests

(* The requests of each kind.                                                 *)
LEMMA RequestKinds ==
    /\ Turns \cup Feedbacks \cup Deletes \cup Retrieves \cup Lists \cup Healths
         = Requests
    /\ Requests \subseteq Txn /\ Requests \cap Jobs = {}
    /\ \A t \in Turns : t \notin Feedbacks \cup Deletes \cup Retrieves
                                   \cup Lists \cup Healths
    /\ \A t \in Feedbacks : t \notin Turns \cup Deletes \cup Retrieves
                                       \cup Lists \cup Healths
    /\ \A t \in Deletes : t \notin Turns \cup Feedbacks \cup Retrieves
                                     \cup Lists \cup Healths
    /\ \A t \in Retrieves : t \notin Turns \cup Feedbacks \cup Deletes
                                       \cup Lists \cup Healths
    /\ \A t \in Lists \cup Healths :
         t \notin Turns \cup Feedbacks \cup Deletes \cup Retrieves
  BY KindsAssumption, StoreAssumption DEF Requests, Txn

LEMMA TurnAnswer ==
    ASSUME Good, AnswerInv, NEW t \in Turns, Ingest(t) \/ TurnStep(t)
    PROVE  journal \subseteq journal' /\ OtherRequests(t) /\ Answered(t)'
  <1>0. TypeOK /\ t \in Requests /\ t \in Txn /\ Answered(t)
    BY GoodParts, RequestKinds DEF AnswerInv
  <1>1. t \notin Feedbacks \cup Deletes \cup Retrieves \cup Lists \cup Healths
    BY RequestKinds
  <1>2. CASE Ingest(t)
    <2>1. PICK text \in Texts :
            /\ journal \subseteq journal'
            /\ text # "clean" => Log(t, "blocked", Null) \in journal'
            /\ pc' = [pc EXCEPT ![t] =
                        IF text = "secret" THEN "refused" ELSE "accepted"]
      BY <1>2 DEF Ingest
    <2>2. UNCHANGED <<pend, todo, arg, reply>>
      BY <1>2 DEF Ingest
    <2>3. OtherRequests(t)
      BY <1>0, <2>1, <2>2 DEF OtherRequests, TypeOK
    <2>4. pc'[t] = "refused" => Log(t, "blocked", Null) \in journal'
      BY <1>0, <2>1 DEF TypeOK
    <2>5. QED
      BY <1>0, <1>1, <2>1, <2>2, <2>3, <2>4 DEF Answered, Log
  <1>3. CASE AnswerIngest(t)
    <2>1. UNCHANGED <<journal, pend, todo, arg>>
      BY <1>3 DEF AnswerIngest, db
    <2>2. \/ /\ pc[t] = "refused"
             /\ pc' = [pc EXCEPT ![t] = "done"]
             /\ reply' = [reply EXCEPT ![t] = "pii_rejected"]
          \/ /\ pc[t] = "accepted"
             /\ pc' = [pc EXCEPT ![t] = "queued"]
             /\ reply' = [reply EXCEPT ![t] = "queued"]
      BY <1>3 DEF AnswerIngest
    <2>3. OtherRequests(t)
      <3> SUFFICES ASSUME NEW u \in Requests, u # t
                   PROVE  /\ pc'[u] = pc[u] /\ todo'[u] = todo[u]
                          /\ arg'[u] = arg[u] /\ pend'[u] = pend[u]
                          /\ reply'[u] = reply[u]
        BY DEF OtherRequests
      <3>1. CASE pc[t] = "refused"
        BY <3>1, <1>0, <2>1, <2>2 DEF TypeOK, Txn
      <3>2. CASE pc[t] = "accepted"
        BY <3>2, <1>0, <2>1, <2>2 DEF TypeOK, Txn
      <3> QED
        BY <2>2, <3>1, <3>2
    <2>4. pc[t] = "accepted" => Log(t, "turn", Null) \in journal
      BY <1>0, GoodParts DEF SessionInv, Session, OwnTurn
    <2>5. \/ /\ pc[t] = "refused" /\ pc'[t] = "done"
             /\ reply'[t] = "pii_rejected"
          \/ /\ pc[t] = "accepted" /\ pc'[t] = "queued"
             /\ reply'[t] = "queued"
      BY <1>0, <2>2 DEF TypeOK
    <2>6. QED
      BY <1>0, <1>1, <2>1, <2>3, <2>4, <2>5 DEF Answered, Log
  <1>4. CASE TurnStep(t) /\ ~AnswerIngest(t)
    <2>1. journal \subseteq journal' /\ reply' = reply /\ pc'[t] # "refused"
      BY <1>0, <1>4 DEF TurnStep, StartTurn, StoreCandidate, DropCandidate,
                  Supersede, FinishTurn, Commit, Close, NextCandidate, TurnDone,
                  db, TypeOK
    <2>2. OtherRequests(t)
      BY <1>0, <1>4 DEF TurnStep, StartTurn, StoreCandidate, DropCandidate,
                  Supersede, FinishTurn, Commit, Close, Append, db,
                  OtherRequests, TypeOK, Txn
    <2>3. QED
      BY <1>0, <1>1, <2>1, <2>2 DEF Answered, Log
  <1>5. QED
    BY <1>2, <1>3, <1>4

(* The status a correction finds is on record.                                *)
LEMMA StatusOnRecord ==
    ASSUME Good, NEW t \in Requests, pc[t] = "idle", NEW m \in MemId,
           Visible(t, m)
    PROVE  /\ mem[m] # Blank /\ View(t, m) = mem[m]
           /\ ~Is(m, "active") =>
                /\ mem[m].status \in DOMAIN ActionOf
                /\ Logged(ActionOf[mem[m].status], m)
  <1>0. TypeOK /\ RecordInv /\ Session(t)
    BY GoodParts, RequestKinds DEF SessionInv
  <1>1. View(t, m) = mem[m]
    BY <1>0 DEF Session, View
  <1>2. mem[m] # Blank /\ mem[m].status \in Statuses
    BY <1>0, <1>1, StoredRow DEF Visible, Stored
  <1>3. Explains(journal, m, mem[m])
    BY <1>0, <1>2 DEF RecordInv, CommitRecorded
  <1>4. Statuses \ {"active"} \subseteq DOMAIN ActionOf
    BY DEF Statuses, ActionOf
  <1>5. QED
    BY <1>1, <1>2, <1>3, <1>4 DEF Explains, Logged, Is

LEMMA CorrectionAnswer ==
    ASSUME Good, AnswerInv, RowsPersist, NEW t \in Feedbacks \cup Deletes,
           \/ t \in Feedbacks /\ (BeginFeedback(t) \/ WriteFeedback(t) \/ FinishFeedback(t))
           \/ t \in Deletes /\ (BeginDelete(t) \/ WriteDelete(t) \/ FinishDelete(t))
    PROVE  journal \subseteq journal' /\ OtherRequests(t) /\ Answered(t)'
  <1> DEFINE kind == IF t \in Feedbacks THEN "replaced" ELSE "marked"
             mine == IF t \in Feedbacks THEN "superseded" ELSE "deleted"
  <1>0. /\ TypeOK /\ t \in Requests /\ t \in Txn /\ WriterInv
        /\ Session(t) /\ Corrected(t, kind)
    BY GoodParts, RequestKinds DEF AnswerInv, Answered, SessionInv
  <1>1. Corrected(t, kind)' => Answered(t)'
    BY RequestKinds DEF Answered
  <1>2. ASSUME NEW left, Begin(t, left), left = Statuses \ {"active"} \/ left = {"deleted"}
        PROVE  journal \subseteq journal' /\ OtherRequests(t) /\ Corrected(t, kind)'
    <2>1. PICK m \in MemId :
            \/ Answer(t, m, "not_found")
            \/ /\ Visible(t, m) /\ View(t, m).status \in left
               /\ Answer(t, m, View(t, m).status)
            \/ Visible(t, m) /\ Proceed(t, m)
      BY <1>2 DEF Begin
    <2>2. pc[t] = "idle" /\ todo[t] = {} /\ reply[t] = "none"
      BY <1>0, <1>2 DEF Begin, Session, Corrected
    <2>3. UNCHANGED <<mem, journal, pend>> /\ OtherRequests(t) /\ arg'[t].mem = m
      <3>1. ASSUME NEW a, Answer(t, m, a)
            PROVE  UNCHANGED <<mem, journal, pend>> /\ OtherRequests(t)
                     /\ arg'[t].mem = m
        BY <1>0, <3>1 DEF Answer, OtherRequests, TypeOK, db, Txn
      <3>2. ASSUME Proceed(t, m)
            PROVE  UNCHANGED <<mem, journal, pend>> /\ OtherRequests(t)
                     /\ arg'[t].mem = m
        BY <1>0, <3>2 DEF Proceed, OtherRequests, TypeOK, db, Txn
      <3>3. QED
        BY <2>1, <3>1, <3>2
    <2>4. CASE Answer(t, m, "not_found")
      <3>1. pc'[t] = "done" /\ reply'[t] = "not_found"
        BY <1>0, <2>4 DEF Answer, TypeOK
      <3>2. QED
        BY <2>3, <3>1 DEF Corrected, ActionOf
    <2>5. CASE /\ Visible(t, m) /\ View(t, m).status \in left
               /\ Answer(t, m, View(t, m).status)
      <3>1. pc'[t] = "done" /\ reply'[t] = mem[m].status /\ mem[m] # Blank
            /\ ~Is(m, "active")
            /\ mem[m].status \in DOMAIN ActionOf
            /\ Logged(ActionOf[mem[m].status], m)
        BY <1>0, <1>2, <2>2, <2>5, StatusOnRecord DEF Answer, TypeOK, Is
      <3>2. PICK u \in Txn : Log(u, ActionOf[mem[m].status], m) \in journal
        BY <3>1 DEF Logged
      <3>3. Logged(ActionOf[reply[t]], arg[t].mem)'
        BY <2>3, <3>1, <3>2 DEF Logged, Log, ActionOf
      <3>4. mem'[m] # Blank /\ ~Is(m, "active")'
        BY <2>3, <3>1 DEF Is
      <3>5. reply'[t] \in DOMAIN ActionOf
        BY <3>1
      <3>6. QED
        BY <2>3, <3>1, <3>3, <3>4, <3>5 DEF Corrected, Is
    <2>6. CASE Visible(t, m) /\ Proceed(t, m)
      <3>1. /\ pc'[t] = "open" /\ todo'[t] = {m} /\ reply'[t] = "none"
            /\ mem[m] # Blank
        BY <1>0, <2>2, <2>6, StatusOnRecord DEF Proceed, TypeOK
      <3>2. "none" \notin DOMAIN ActionOf
        BY DEF ActionOf
      <3>3. QED
        BY <2>3, <3>1, <3>2 DEF Corrected, ActionOf
    <2>7. QED
      BY <2>1, <2>3, <2>4, <2>5, <2>6
  <1>3. ASSUME NEW s, Write(t, s, kind)
        PROVE  journal \subseteq journal' /\ OtherRequests(t) /\ Corrected(t, kind)'
    <2>1. PICK m \in todo[t] :
            /\ todo' = [todo EXCEPT ![t] = {}]
            /\ pend' = [pend EXCEPT ![t] = @ \cup {Log(t, kind, m)}]
      BY <1>3 DEF Write, Append
    <2>2. UNCHANGED <<mem, journal, pc, arg, reply>> /\ pc[t] = "open"
      BY <1>3 DEF Write
    <2>3. m = arg[t].mem /\ mem[m] # Blank /\ reply[t] = "none" /\ m \in MemId
      BY <1>0, <2>1, <2>2 DEF Corrected
    <2>4. todo'[t] = {} /\ Log(t, kind, m) \in pend'[t] /\ OtherRequests(t)
      BY <1>0, <2>1, <2>2 DEF TypeOK, OtherRequests
    <2>5. "none" \notin DOMAIN ActionOf
      BY DEF ActionOf
    <2>6. QED
      BY <2>2, <2>3, <2>4, <2>5 DEF Corrected, Log, ActionOf
  <1>4. ASSUME Finish(t, mine)
        PROVE  journal \subseteq journal' /\ OtherRequests(t) /\ Corrected(t, kind)'
    <2> DEFINE m == arg[t].mem
    <2>1. /\ Commit(t, {}) /\ pc[t] = "open" /\ todo[t] = {}
          /\ pc'[t] = "done" /\ reply'[t] = mine /\ arg' = arg
          /\ OtherRequests(t)
      BY <1>0, <1>4 DEF Finish, Close, Commit, OtherRequests, TypeOK, Txn
    <2>2. journal' = journal \cup pend[t]
      BY <2>1 DEF Commit, Appended
    <2>3. Log(t, kind, m) \in journal' /\ m \in MemId /\ mem[m] # Blank
      BY <1>0, <2>1, <2>2 DEF Corrected
    <2>4. mine \in DOMAIN ActionOf /\ ActionOf[mine] = kind
      BY DEF ActionOf
    <2>5. Logged(ActionOf[reply[t]], arg[t].mem)'
      BY <1>0, <2>1, <2>3, <2>4 DEF Logged, Log, ActionOf
    <2>6. ASSUME mine = "deleted"
          PROVE  mem'[m] # Blank /\ mem'[m].status # "active"
      <3>1. t \in Deletes /\ t \notin Turns \cup Feedbacks \cup Retrieves \cup Jobs
        BY <1>0, <2>6, RequestKinds
      <3>2. lock[m] = t \/ Is(m, "purged")
        BY <1>0, <2>1, <2>3, <3>1 DEF Session, OneDeletion, Corrected
      <3>3. CASE Is(m, "purged")
        BY <2>3, <3>3 DEF RowsPersist, Is
      <3>4. CASE lock[m] = t
        <4>1. mem'[m] = draft[m]
          BY <2>1, <2>3, <3>4 DEF Commit, View
        <4>2. draft[m] # Blank /\ Writes(t, m, draft[m])
          BY <1>0, <2>3, <3>4, StoreAssumption DEF WriterInv, Written
        <4>3. draft[m].status = "deleted"
          BY <3>1, <4>2 DEF Writes, Jobs
        <4>4. QED
          BY <4>1, <4>2, <4>3
      <3>5. QED
        BY <3>2, <3>3, <3>4
    <2> HIDE DEF mine, kind
    <2>7. mine \in {"superseded", "deleted"}
      BY DEF mine
    <2>8. QED
      BY <2>1, <2>2, <2>3, <2>4, <2>5, <2>6, <2>7 DEF Corrected, Is
  <1>5. /\ BeginFeedback(t) \/ BeginDelete(t) =>
             \E left : Begin(t, left) /\ (left = Statuses \ {"active"} \/ left = {"deleted"})
    BY DEF BeginFeedback, BeginDelete, LeftByFeedback, LeftByDelete
  <1>6. /\ t \in Feedbacks /\ WriteFeedback(t) => \E s : Write(t, s, kind)
        /\ t \in Deletes /\ WriteDelete(t) => \E s : Write(t, s, kind)
        /\ t \in Feedbacks /\ FinishFeedback(t) => Finish(t, mine)
        /\ t \in Deletes /\ FinishDelete(t) => Finish(t, mine)
    BY RequestKinds DEF WriteFeedback, WriteDelete, FinishFeedback, FinishDelete
  <1> HIDE DEF kind, mine
  <1>7. QED
    BY <1>1, <1>2, <1>3, <1>4, <1>5, <1>6

LEMMA ReadAnswer ==
    ASSUME Good, AnswerInv, NEW t \in Retrieves \cup Lists \cup Healths,
           \/ t \in Retrieves /\ (BeginRetrieve(t) \/ RetrieveStep(t))
           \/ t \in Lists /\ ListMemories(t)
           \/ t \in Healths /\ (BeginHealth(t) \/ FinishHealth(t))
    PROVE  journal \subseteq journal' /\ OtherRequests(t) /\ Answered(t)'
  <1>0. TypeOK /\ t \in Requests /\ t \in Txn /\ Answered(t)
    BY GoodParts, RequestKinds DEF AnswerInv
  <1>1. t \notin Turns \cup Feedbacks \cup Deletes
    BY RequestKinds
  <1>2. CASE BeginRetrieve(t) \/ KeywordSearch(t) \/ EntitySearch(t)
    <2>1. /\ UNCHANGED <<journal, pend, todo, arg, reply>>
          /\ \E s \in {"keyword", "entity", "rank"} : pc' = [pc EXCEPT ![t] = s]
      BY <1>2 DEF BeginRetrieve, KeywordSearch, EntitySearch, Search, db
    <2>2. OtherRequests(t) /\ pc'[t] # "answer"
      BY <1>0, <2>1 DEF OtherRequests, TypeOK
    <2>3. QED
      BY <1>0, <1>1, <2>1, <2>2 DEF Answered, RetrieveRows, Log
  <1>3. CASE Rank(t) \/ Bump(t)
    <2>1. /\ UNCHANGED <<journal, pend, arg, reply>>
          /\ \A u \in Requests \ {t} : todo'[u] = todo[u] /\ pc'[u] = pc[u]
          /\ pc'[t] = "bump"
      <3>1. UNCHANGED <<journal, pend, arg, reply>>
        BY <1>3 DEF Rank, Bump, db
      <3>2. \E s : todo' = [todo EXCEPT ![t] = s]
        BY <1>3 DEF Rank, Bump
      <3>3. pc' = [pc EXCEPT ![t] = "bump"] \/ (pc' = pc /\ pc[t] = "bump")
        BY <1>3 DEF Rank, Bump
      <3>4. QED
        BY <1>0, <3>1, <3>2, <3>3, RequestKinds DEF TypeOK
    <2>2. OtherRequests(t)
      BY <2>1 DEF OtherRequests
    <2>3. QED
      BY <1>0, <1>1, <2>1, <2>2 DEF Answered, RetrieveRows, Log
  <1>4. CASE FinishRetrieve(t)
    <2>1. /\ Commit(t, RetrieveRows(t)) /\ reply' = reply
          /\ OtherRequests(t)
      BY <1>0, <1>4
         DEF FinishRetrieve, Close, Commit, OtherRequests, TypeOK, Txn
    <2>2. journal' = journal \cup pend[t] \cup RetrieveRows(t)
      BY <2>1 DEF Commit, Appended
    <2>3. QED
      BY <1>0, <1>1, <2>1, <2>2 DEF Answered, RetrieveRows, Log
  <1>5. CASE Respond(t) /\ t \in Retrieves
    <2>1. /\ UNCHANGED <<journal, pend, todo, arg>> /\ pc[t] = "answer"
          /\ pc' = [pc EXCEPT ![t] = "done"]
          /\ reply' = [reply EXCEPT ![t] = "ok"]
      BY <1>5 DEF Respond, db
    <2>2. OtherRequests(t) /\ reply'[t] = "ok"
      BY <1>0, <2>1 DEF OtherRequests, TypeOK
    <2>3. RetrieveRows(t) \subseteq journal
      BY <1>0, <1>5, <2>1 DEF Answered
    <2>4. QED
      BY <1>0, <1>1, <2>1, <2>2, <2>3 DEF Answered, RetrieveRows, Log
  <1>6. CASE /\ t \in Lists \cup Healths
             /\ ListMemories(t) \/ BeginHealth(t) \/ FinishHealth(t)
    <2>1. /\ UNCHANGED <<journal, pend, todo, arg>>
          /\ \E s \in {"done", "counting"} : pc' = [pc EXCEPT ![t] = s]
          /\ reply' = reply \/ reply' = [reply EXCEPT ![t] = "ok"]
      BY <1>6 DEF ListMemories, BeginHealth, FinishHealth, Search, db
    <2>2. OtherRequests(t) /\ reply'[t] \in {reply[t], "ok"}
      BY <1>0, <2>1 DEF OtherRequests, TypeOK
    <2>3. t \notin Retrieves
      BY <1>6, RequestKinds
    <2>4. QED
      BY <1>0, <1>1, <1>6, <2>1, <2>2, <2>3 DEF Answered
  <1>7. QED
    BY <1>2, <1>3, <1>4, <1>5, <1>6 DEF RetrieveStep

LEMMA JobAnswer ==
    ASSUME Good, NEW t \in Jobs, BeginJob(t) \/ Advance(t)
    PROVE  journal \subseteq journal' /\ OtherRequests(t)
  <1>0. TypeOK /\ t \in Txn /\ t \notin Requests
    BY GoodParts, RequestKinds DEF Txn
  <1>1. \/ BeginReweight(t) \/ Reweigh(t) \/ BeginPurge(t) \/ Erase(t)
        \/ EraseFails(t) \/ FinishJob(t)
    BY <1>0 DEF BeginJob, Advance, Requests
  <1>2. CASE BeginReweight(t) \/ BeginPurge(t)
    <2>1. /\ UNCHANGED <<journal, pend, arg, reply>>
          /\ \A u \in Txn \ {t} : todo'[u] = todo[u] /\ pc'[u] = pc[u]
      BY <1>0, <1>2 DEF BeginReweight, BeginPurge, db, TypeOK
    <2>2. QED
      BY <1>0, <2>1 DEF OtherRequests, Txn
  <1>3. CASE Reweigh(t) \/ Erase(t)
    <2>1. /\ UNCHANGED <<journal, pc, arg, reply>>
          /\ \E s : todo' = [todo EXCEPT ![t] = s]
          /\ pend' = pend \/ \E rows : pend' = [pend EXCEPT ![t] = @ \cup rows]
      BY <1>3 DEF Reweigh, Erase, Append
    <2>2. QED
      BY <1>0, <2>1 DEF OtherRequests, Txn, TypeOK
  <1>4. CASE FinishJob(t)
    BY <1>0, <1>4 DEF FinishJob, Close, Commit, OtherRequests, Txn, TypeOK
  <1>5. CASE EraseFails(t)
    BY <1>0, <1>5 DEF EraseFails, Rollback, Fail, Close, OtherRequests, Txn,
                      TypeOK
  <1>6. QED
    BY <1>1, <1>2, <1>3, <1>4, <1>5

(* A session that is lost: its client is told of an error at most.            *)
LEMMA LossAnswer ==
    ASSUME Good, AnswerInv, NEW t \in Txn, Victim(t) \/ Crash(t) \/ LoseAck(t)
    PROVE  /\ journal \subseteq journal' /\ OtherRequests(t)
           /\ t \in Requests => Answered(t)'
  <1>0. TypeOK
    BY GoodParts
  <1>1. /\ Rollback(t) \/ \E rows : Commit(t, rows)
        /\ \E error : Fail(t, error)
    BY DEF Victim, Crash, LoseAck
  <1>2. journal \subseteq journal' /\ pend' = [pend EXCEPT ![t] = {}]
    BY <1>1 DEF Rollback, Commit
  <1>3. PICK error : Fail(t, error)
    BY <1>1
  <1>4. /\ pc' = [pc EXCEPT ![t] = IF t \in Jobs THEN "idle" ELSE "failed"]
        /\ todo' = [todo EXCEPT ![t] = {}]
        /\ arg' = [arg EXCEPT ![t] = NoArg]
        /\ reply' = [u \in Requests |-> IF u = t THEN Told(t, error) ELSE reply[u]]
    BY <1>3 DEF Fail, Close
  <1>5. OtherRequests(t)
    BY <1>0, <1>2, <1>4 DEF OtherRequests, TypeOK, Txn
  <1>6. ASSUME t \in Requests PROVE Answered(t)'
    <2>1. /\ pc'[t] = "failed" /\ reply'[t] = Told(t, error) /\ Answered(t)
      BY <1>0, <1>4, <1>6, RequestKinds DEF TypeOK, AnswerInv
    <2>2. CASE t \in Turns
      <3>1. reply'[t] \in {reply[t], "error"}
        BY <2>1, <2>2, RequestKinds DEF Told
      <3>2. QED
        BY <1>2, <2>1, <2>2, <3>1, RequestKinds DEF Answered, Log
    <2>3. CASE t \in Feedbacks \cup Deletes
      <3>1. reply'[t] = "error"
        BY <2>1, <2>3, RequestKinds DEF Told
      <3>2. "error" \notin DOMAIN ActionOf
        BY DEF ActionOf
      <3>3. \A kind : Corrected(t, kind)'
        BY <2>1, <3>1, <3>2 DEF Corrected, ActionOf
      <3>4. QED
        BY <2>3, <3>3, RequestKinds DEF Answered
    <2>4. CASE t \in Retrieves
      <3>1. reply'[t] \in {"memory_unavailable", "error"}
        BY <2>1, <2>4, RequestKinds DEF Told
      <3>2. QED
        BY <2>1, <2>4, <3>1, RequestKinds DEF Answered
    <2>5. CASE t \in Lists \cup Healths
      <3>1. reply'[t] = "error"
        BY <2>1, <2>5, RequestKinds DEF Told
      <3>2. QED
        BY <2>5, <3>1, RequestKinds DEF Answered
    <2>6. QED
      BY <1>6, <2>2, <2>3, <2>4, <2>5 DEF Requests
  <1>7. QED
    BY <1>2, <1>5, <1>6
------------------------------------------------------------------------------
LEMMA AnswerStep ==
    ASSUME Good, AnswerInv, [Next]_vars
    PROVE  AnswerInv'
  <1>1. RowsPersist
    BY HistoryStep DEF RowsPersist, RowsLast
  <1>2. ASSUME NEW t \in Txn, journal \subseteq journal', OtherRequests(t),
               t \in Requests => Answered(t)'
        PROVE  AnswerInv'
    BY <1>1, <1>2, StepAnswers
  <1>3. ASSUME NEW t \in Txn, BeginRequest(t) PROVE AnswerInv'
    BY <1>1, <1>2, <1>3, TurnAnswer, CorrectionAnswer, ReadAnswer
       DEF BeginRequest
  <1>4. ASSUME NEW t \in Txn, BeginJob(t) PROVE AnswerInv'
    <2>1. t \in Jobs /\ t \notin Requests
      BY <1>4, RequestKinds DEF BeginJob, Jobs
    <2>2. QED
      BY <1>2, <1>4, <2>1, JobAnswer
  <1>5. ASSUME NEW t \in Txn, Advance(t) PROVE AnswerInv'
    <2>1. CASE t \in Jobs
      BY <1>2, <1>5, <2>1, JobAnswer, RequestKinds
    <2>2. CASE t \notin Jobs
      BY <1>1, <1>2, <1>5, <2>2, TurnAnswer, CorrectionAnswer, ReadAnswer
         DEF Advance, Jobs
    <2>3. QED
      BY <2>1, <2>2
  <1>6. ASSUME NEW t \in Txn, Victim(t) \/ Crash(t) \/ LoseAck(t)
        PROVE  AnswerInv'
    BY <1>2, <1>6, LossAnswer
  <1>7. CASE Tick \/ UNCHANGED vars
    <2>1. UNCHANGED <<journal, pc, todo, arg, pend, reply>>
      BY <1>7 DEF Tick, vars, db
    <2>2. QED
      BY <1>1, <2>1, AnsweredStays DEF AnswerInv
  <1>8. QED
    BY <1>3, <1>4, <1>5, <1>6, <1>7 DEF Next

(* A request's candidates are those it had and those it can read now.         *)
LEMMA SeenGrows ==
    ASSUME TypeOK, Next, NEW t \in Retrieves \cup Lists
    PROVE  seen'[t] \subseteq seen[t] \cup Readable(t)
  <1>0. t \in Txn /\ t \in Requests /\ t \notin Jobs
    BY RequestKinds
  <1>1. ASSUME NEW u \in Txn,
               \/ BeginRetrieve(u) \/ KeywordSearch(u) \/ EntitySearch(u)
               \/ ListMemories(u)
        PROVE  seen'[t] \subseteq seen[t] \cup Readable(t)
    <2>1. seen' = [seen EXCEPT ![u] = @ \cup Readable(u)]
      BY <1>1 DEF BeginRetrieve, KeywordSearch, EntitySearch, ListMemories,
                  Search
    <2>2. QED
      BY <1>0, <2>1 DEF TypeOK
  <1>2. ASSUME NEW u \in Txn, Rank(u)
        PROVE  seen'[t] \subseteq seen[t]
    <2>1. PICK result \in SUBSET seen[u] : seen' = [seen EXCEPT ![u] = result]
      BY <1>2 DEF Rank
    <2>2. QED
      BY <1>0, <2>1 DEF TypeOK
  <1>3. ASSUME NEW u \in Txn,
               \/ Ingest(u) \/ TurnStep(u)
               \/ BeginFeedback(u) \/ WriteFeedback(u) \/ FinishFeedback(u)
               \/ BeginDelete(u) \/ WriteDelete(u) \/ FinishDelete(u)
               \/ Bump(u) \/ FinishRetrieve(u) \/ Respond(u)
               \/ BeginHealth(u) \/ FinishHealth(u)
               \/ Reweigh(u) \/ BeginPurge(u) \/ Erase(u)
        PROVE  seen' = seen
    <2>1. CASE \/ BeginFeedback(u) \/ WriteFeedback(u) \/ FinishFeedback(u)
               \/ BeginDelete(u) \/ WriteDelete(u) \/ FinishDelete(u)
      BY <2>1 DEF BeginFeedback, WriteFeedback, FinishFeedback, BeginDelete,
                  WriteDelete, FinishDelete, Begin, Answer, Proceed, Write,
                  Finish
    <2>2. CASE Ingest(u) \/ TurnStep(u)
      BY <2>2 DEF Ingest, TurnStep, AnswerIngest, StartTurn, StoreCandidate,
                  DropCandidate, Supersede, FinishTurn
    <2>3. CASE \/ Bump(u) \/ FinishRetrieve(u) \/ Respond(u)
               \/ BeginHealth(u) \/ FinishHealth(u)
      BY <2>3 DEF Bump, FinishRetrieve, Respond, BeginHealth, FinishHealth
    <2>4. CASE Reweigh(u) \/ BeginPurge(u) \/ Erase(u)
      BY <2>4 DEF Reweigh, BeginPurge, Erase
    <2>5. QED
      BY <1>3, <2>1, <2>2, <2>3, <2>4
  <1>4. ASSUME NEW u \in Jobs, BeginReweight(u) \/ FinishJob(u)
        PROVE  seen'[t] = seen[t]
    <2>1. \E rows : seen' = [seen EXCEPT ![u] = rows]
      BY <1>4 DEF BeginReweight, FinishJob
    <2>2. QED
      BY <1>0, <1>4, <2>1 DEF TypeOK
  <1>5. ASSUME NEW u \in Txn,
               EraseFails(u) \/ Victim(u) \/ Crash(u) \/ LoseAck(u)
        PROVE  seen'[t] \subseteq seen[t]
    <2>1. seen' = [seen EXCEPT ![u] = {}]
      BY <1>5 DEF EraseFails, Victim, Crash, LoseAck, Fail
    <2>2. QED
      BY <1>0, <2>1 DEF TypeOK
  <1>6. ASSUME Tick PROVE seen' = seen
    BY <1>6 DEF Tick
  <1> DEFINE Grows == seen'[t] \subseteq seen[t] \cup Readable(t)
  <1>7. ASSUME NEW u \in Txn, BeginRequest(u) \/ BeginJob(u) PROVE Grows
    BY <1>1, <1>3, <1>4, <1>7 DEF BeginRequest, BeginJob, Jobs
  <1>8. ASSUME NEW u \in Txn, Advance(u) PROVE Grows
    BY <1>1, <1>2, <1>3, <1>4, <1>5, <1>8 DEF Advance, RetrieveStep, Jobs
  <1>9. QED
    BY <1>5, <1>6, <1>7, <1>8 DEF Next

(* The invariant behind the two theorems that follow.                         *)
THEOREM AnswersSound == Spec => []AnswerInv
  <1>1. Init => AnswerInv
    BY RequestKinds DEF Init, StoreInit, AnswerInv, Answered, Corrected,
                        ActionOf
  <1>2. TypeOK /\ PointersInv /\ HistoryInv /\ AnswerInv /\ [Next]_vars
          => AnswerInv'
    BY AnswerStep DEF Good
  <1>3. QED
    BY <1>1, <1>2, TypeCorrect, PointersSound, HistorySound, PTL DEF Spec

(* No answer runs ahead of the database, wherever the server fails.           *)
THEOREM AnswersOnRecord == Spec => []AnswersDurable
  <1>1. AnswerInv => AnswersDurable
    <2> SUFFICES ASSUME AnswerInv, NEW t \in Requests
                 PROVE  /\ reply[t] \in {"superseded", "archived", "deleted"}
                             => Logged(RecordOf(reply[t]), arg[t].mem)
                        /\ reply[t] = "queued" => Log(t, "turn", Null) \in journal
                        /\ reply[t] = "pii_rejected"
                             => Log(t, "blocked", Null) \in journal
                        /\ t \in Retrieves /\ reply[t] = "ok"
                             => RetrieveRows(t) \subseteq journal
      BY DEF AnswersDurable
    <2>1. Answered(t)
      BY DEF AnswerInv
    <2>2. \A s \in {"superseded", "archived", "deleted"} :
            s \in DOMAIN ActionOf /\ RecordOf(s) = ActionOf[s]
      BY DEF ActionOf, RecordOf
    <2>3. CASE t \in Feedbacks \cup Deletes
      <3>1. PICK kind : Corrected(t, kind)
        BY <2>1, <2>3 DEF Answered
      <3>2. reply[t] \notin {"queued", "pii_rejected"} /\ t \notin Retrieves
        BY <2>3, <3>1, RequestKinds DEF Corrected, ActionOf
      <3>3. QED
        BY <2>2, <3>1, <3>2 DEF Corrected
    <2>4. CASE t \notin Feedbacks \cup Deletes
      BY <2>1, <2>4 DEF Answered, Requests
    <2>5. QED
      BY <2>3, <2>4
  <1>2. QED
    BY <1>1, AnswersSound, PTL

(* No search that runs after a deletion was answered finds the memory.        *)
THEOREM DeletedNotFound == Spec => NoSearchFindsDeleted
  <1>1. TypeOK /\ PointersInv /\ HistoryInv /\ AnswerInv /\ [Next]_vars =>
          [\A t \in Retrieves \cup Lists, d \in Deletes :
             Deleting(d) => arg[d].mem \notin seen'[t] \ seen[t]]_vars
    <2> SUFFICES ASSUME TypeOK, WriterInv, SessionInv, AnswerInv, Next,
                        NEW t \in Retrieves \cup Lists, NEW d \in Deletes,
                        Deleting(d)
                 PROVE  arg[d].mem \notin seen'[t] \ seen[t]
      BY DEF HistoryInv
    <2>1. arg[d].mem \in MemId /\ mem[arg[d].mem] # Blank
          /\ ~Is(arg[d].mem, "active")
      BY RequestKinds DEF AnswerInv, Answered, Corrected, Deleting
    <2>2. ASSUME NEW m \in MemId, m \in Readable(t) PROVE Is(m, "active")
      <3>1. t \in Txn /\ t # NoTxn
              /\ t \notin Turns \cup Feedbacks \cup Deletes \cup Jobs
        BY RequestKinds, StoreAssumption
      <3>2. View(t, m).status = "active"
        BY <2>2 DEF Readable, Select
      <3>3. CASE lock[m] = t
        <4>1. Writes(t, m, draft[m])
          BY <3>1, <3>3 DEF WriterInv, Written
        <4>2. draft[m].status = mem[m].status
          BY <3>1, <4>1 DEF Writes, Jobs
        <4>3. QED
          BY <3>2, <3>3, <4>2 DEF View, Is
      <3>4. CASE lock[m] # t
        BY <3>2, <3>4 DEF View, Is
      <3>5. QED
        BY <3>3, <3>4
    <2>3. seen'[t] \subseteq seen[t] \cup Readable(t)
      BY SeenGrows
    <2>4. QED
      BY <2>1, <2>2, <2>3
  <1>2. QED
    BY <1>1, TypeCorrect, PointersSound, HistorySound, AnswersSound, PTL
       DEF Spec, NoSearchFindsDeleted
------------------------------------------------------------------------------
(* Health.  What a step of t adds to the log is t's, and measured.            *)
LogsOwn(t) ==
    /\ OwnLog'
    /\ \A e \in journal' \ journal :
         /\ e.txn = t
         /\ t \in Turns \cup Retrieves
              /\ e.kind \in CountedAt(1) \cup CountedAt(2)
              => Log(t, "metric", Null) \in journal'

LEMMA QuietLog ==
    ASSUME OwnLog, UNCHANGED <<journal, pend>>, NEW t
    PROVE  LogsOwn(t)
  BY DEF LogsOwn, OwnLog

LEMMA AppendLog ==
    ASSUME TypeOK, OwnLog, NEW t \in Txn, NEW rows, UNCHANGED journal,
           Append(t, rows), \A e \in rows : e.txn = t
    PROVE  LogsOwn(t)
  BY DEF Append, LogsOwn, OwnLog, TypeOK

LEMMA CommitLog ==
    ASSUME TypeOK, OwnLog, NEW t \in Txn, NEW rows, Commit(t, rows),
           \A e \in rows : e.txn = t,
           t \in Turns \cup Retrieves => Log(t, "metric", Null) \in rows
    PROVE  LogsOwn(t)
  <1>1. /\ journal' = journal \cup pend[t] \cup rows
        /\ pend' = [pend EXCEPT ![t] = {}]
    BY DEF Commit, Appended
  <1>2. OwnLog'
    BY <1>1 DEF OwnLog, TypeOK
  <1>3. QED
    BY <1>1, <1>2 DEF LogsOwn, OwnLog

LEMMA RollbackLog ==
    ASSUME TypeOK, OwnLog, NEW t \in Txn, Rollback(t)
    PROVE  LogsOwn(t)
  BY DEF Rollback, LogsOwn, OwnLog, TypeOK

LEMMA RequestLog ==
    ASSUME TypeOK, OwnLog, NEW t \in Txn,
           BeginRequest(t) \/ (Advance(t) /\ t \in Requests)
    PROVE  LogsOwn(t)
  <1>0. \A k, m : Log(t, k, m).txn = t
    BY DEF Log
  <1>1. /\ \A r \in TurnRows(t) \cup RetrieveRows(t) : r.txn = t
        /\ Log(t, "metric", Null) \in TurnRows(t) \cap RetrieveRows(t)
    BY DEF TurnRows, RetrieveRows, Log
  <1>2. ASSUME Ingest(t) PROVE LogsOwn(t)
    <2>1. /\ pend' = pend
          /\ \A e \in journal' \ journal :
               e.txn = t /\ e.kind \in {"turn", "blocked"}
      BY <1>2 DEF Ingest, Log
    <2>2. {"turn", "blocked"} \cap (CountedAt(1) \cup CountedAt(2)) = {}
      BY DEF CountedAt
    <2>3. QED
      BY <2>1, <2>2 DEF LogsOwn, OwnLog
  <1>3. ASSUME t \in Turns, TurnStep(t) PROVE LogsOwn(t)
    <2>1. CASE AnswerIngest(t) \/ StartTurn(t)
      BY <2>1, QuietLog DEF AnswerIngest, StartTurn, db
    <2>2. CASE StoreCandidate(t) \/ DropCandidate(t) \/ Supersede(t)
      <3>1. CASE StoreCandidate(t)
        <4>1. Append(t, {Log(t, "decision", next), Log(t, "stored", next)})
          BY <3>1 DEF StoreCandidate
        <4>2. UNCHANGED journal
          BY <3>1 DEF StoreCandidate
        <4>3. QED
          BY <1>0, <4>1, <4>2, AppendLog
      <3>2. CASE DropCandidate(t)
        <4>1. Append(t, {Log(t, "decision", Null), Log(t, "rejected", Null)})
          BY <3>2 DEF DropCandidate
        <4>2. UNCHANGED journal
          BY <3>2 DEF DropCandidate
        <4>3. QED
          BY <1>0, <4>1, <4>2, AppendLog
      <3>3. CASE Supersede(t)
        <4>1. PICK m : Append(t, {Log(t, "replaced", m)})
          BY <3>3 DEF Supersede
        <4>2. UNCHANGED journal
          BY <3>3 DEF Supersede
        <4>3. QED
          BY <1>0, <4>1, <4>2, AppendLog
      <3>4. QED
        BY <2>2, <3>1, <3>2, <3>3
    <2>3. CASE FinishTurn(t)
      BY <1>1, <2>3, CommitLog DEF FinishTurn
    <2>4. QED
      BY <1>3, <2>1, <2>2, <2>3 DEF TurnStep
  <1>4. ASSUME NEW left, Begin(t, left) PROVE LogsOwn(t)
    BY <1>4, QuietLog DEF Begin, Answer, Proceed, db
  <1>5. ASSUME NEW s, NEW k, Write(t, s, k) PROVE LogsOwn(t)
    <2>1. PICK m : Append(t, {Log(t, k, m)})
      BY <1>5 DEF Write
    <2>2. UNCHANGED journal
      BY <1>5 DEF Write
    <2>3. QED
      BY <1>0, <2>1, <2>2, AppendLog
  <1>6. ASSUME NEW answer, Finish(t, answer), t \notin Turns \cup Retrieves
        PROVE  LogsOwn(t)
    BY <1>6, CommitLog DEF Finish
  <1>7. ASSUME t \in Feedbacks \cup Deletes,
               \/ BeginFeedback(t) \/ WriteFeedback(t) \/ FinishFeedback(t)
               \/ BeginDelete(t) \/ WriteDelete(t) \/ FinishDelete(t)
        PROVE  LogsOwn(t)
    BY <1>4, <1>5, <1>6, <1>7, RequestKinds
       DEF BeginFeedback, WriteFeedback, FinishFeedback,
           BeginDelete, WriteDelete, FinishDelete
  <1>8. ASSUME BeginRetrieve(t) \/ RetrieveStep(t) \/ ListMemories(t)
                 \/ BeginHealth(t) \/ FinishHealth(t)
        PROVE  LogsOwn(t)
    <2>1. CASE FinishRetrieve(t)
      BY <1>1, <2>1, CommitLog DEF FinishRetrieve
    <2>2. CASE \/ BeginRetrieve(t) \/ KeywordSearch(t) \/ EntitySearch(t)
               \/ Rank(t) \/ Bump(t) \/ Respond(t) \/ ListMemories(t)
               \/ BeginHealth(t) \/ FinishHealth(t)
      <3>1. UNCHANGED <<journal, pend>>
        BY <2>2 DEF BeginRetrieve, KeywordSearch, EntitySearch, Rank, Bump,
                    Respond, ListMemories, BeginHealth, FinishHealth, db
      <3>2. QED
        BY <3>1, QuietLog
    <2>3. QED
      BY <1>8, <2>1, <2>2 DEF RetrieveStep
  <1>9. QED
    BY <1>2, <1>3, <1>7, <1>8, RequestKinds DEF BeginRequest, Advance, Jobs

LEMMA OtherLog ==
    ASSUME TypeOK, OwnLog, NEW t \in Txn,
           \/ t \in Jobs /\ (BeginJob(t) \/ Advance(t))
           \/ Victim(t) \/ Crash(t) \/ LoseAck(t)
    PROVE  LogsOwn(t)
  <1>0. \A k, m : Log(t, k, m).txn = t
    BY DEF Log
  <1>1. t \in Jobs => t \notin Requests /\ t \notin Turns \cup Retrieves
    BY RequestKinds
  <1>2. CASE t \in Jobs /\ (BeginReweight(t) \/ BeginPurge(t))
    BY <1>2, QuietLog DEF BeginReweight, BeginPurge, db
  <1>3. CASE t \in Jobs /\ (Reweigh(t) \/ Erase(t))
    <2>1. UNCHANGED journal
      BY <1>3 DEF Reweigh, Erase
    <2>2. PICK m : \/ UNCHANGED pend
                   \/ Append(t, {Log(t, "archived", m)})
                   \/ Append(t, {Log(t, "erased", m)})
      BY <1>3 DEF Reweigh, Erase
    <2>3. CASE UNCHANGED pend
      BY <2>1, <2>3, QuietLog
    <2>4. CASE Append(t, {Log(t, "archived", m)})
      BY <1>0, <2>1, <2>4, AppendLog
    <2>5. CASE Append(t, {Log(t, "erased", m)})
      BY <1>0, <2>1, <2>5, AppendLog
    <2>6. QED
      BY <2>2, <2>3, <2>4, <2>5
  <1>4. CASE t \in Jobs /\ FinishJob(t)
    BY <1>1, <1>4, CommitLog DEF FinishJob
  <1>5. CASE EraseFails(t) \/ Victim(t) \/ Crash(t)
    BY <1>5, RollbackLog DEF EraseFails, Victim, Crash
  <1>6. CASE LoseAck(t)
    <2>1. /\ \A r \in TurnRows(t) \cup RetrieveRows(t) : r.txn = t
          /\ Log(t, "metric", Null) \in TurnRows(t) \cap RetrieveRows(t)
      BY DEF TurnRows, RetrieveRows, Log
    <2>2. PICK rows :
            /\ Commit(t, rows) /\ \A e \in rows : e.txn = t
            /\ t \in Turns \cup Retrieves => Log(t, "metric", Null) \in rows
      BY <1>1, <1>6, <2>1, RequestKinds DEF LoseAck
    <2>3. QED
      BY <2>2, CommitLog
  <1>7. QED
    BY <1>1, <1>2, <1>3, <1>4, <1>5, <1>6 DEF BeginJob, Advance, Requests

LEMMA MeasuredStep ==
    ASSUME Measured(journal), journal \subseteq journal', NEW t, LogsOwn(t)
    PROVE  Measured(journal)'
  <1> SUFFICES ASSUME NEW e \in journal', e.txn \in Turns \cup Retrieves,
                      e.kind \in CountedAt(1) \cup CountedAt(2)
               PROVE  Log(e.txn, "metric", Null) \in journal'
    BY DEF Measured, CountedAt, Log
  <1>1. CASE e \in journal
    BY <1>1 DEF Measured
  <1>2. CASE e \notin journal
    BY <1>2 DEF LogsOwn
  <1>3. QED
    BY <1>1, <1>2

LEMMA TalliedStays ==
    ASSUME journal \subseteq journal', NEW h, Tallied(h),
           pc'[h] = pc[h], reply'[h] = reply[h], counted'[h] = counted[h]
    PROVE  Tallied(h)'
  BY DEF Tallied, Measured, CountedAt, Log

(* The second SELECT finds the metric of everything the first one counted.    *)
LEMMA HealthTallied ==
    ASSUME TypeOK, TallyInv, NEW h \in Healths, BeginHealth(h) \/ FinishHealth(h)
    PROVE  Tallied(h)' /\ counted' = [counted EXCEPT ![h] = counted'[h]]
  <1>0. h \in Requests /\ Tallied(h) /\ journal' = journal
    BY RequestKinds DEF TallyInv, BeginHealth, FinishHealth, db
  <1> DEFINE Found(select) ==
        {e \in journal : /\ e.kind \in CountedAt(select)
                         /\ e.txn \in Requests
                         /\ TenantOf[e.txn] = TenantOf[h]}
  <1>1. CASE BeginHealth(h)
    <2>1. /\ counted' = [counted EXCEPT ![h] = @ \cup Found(1)]
          /\ pc[h] = "idle" /\ pc' = [pc EXCEPT ![h] = "counting"]
          /\ reply' = reply
      BY <1>1 DEF BeginHealth, Count
    <2>2. /\ counted'[h] = counted[h] \cup Found(1)
          /\ pc'[h] = "counting" /\ reply'[h] = "none"
      BY <1>0, <2>1, RequestKinds DEF TypeOK, Tallied
    <2>3. QED
      BY <1>0, <2>1, <2>2 DEF Tallied, TypeOK, CountedAt
  <1>2. CASE FinishHealth(h)
    <2>1. /\ counted' = [counted EXCEPT ![h] = @ \cup Found(2)]
          /\ pc[h] = "counting" /\ pc' = [pc EXCEPT ![h] = "done"]
      BY <1>2 DEF FinishHealth, Count
    <2>2. counted'[h] = counted[h] \cup Found(2) /\ pc'[h] = "done"
      BY <1>0, <2>1, RequestKinds DEF TypeOK
    <2>3. counted'[h] \subseteq
            {e \in journal : /\ e.txn \in Requests
                             /\ TenantOf[e.txn] = TenantOf[h]
                             /\ e.kind \in CountedAt(1) \cup CountedAt(2)}
      BY <1>0, <2>2 DEF Tallied
    <2>4. ASSUME NEW e \in counted'[h], e.txn \in Turns \cup Retrieves
          PROVE  Log(e.txn, "metric", Null) \in counted'[h]
      <3>1. Log(e.txn, "metric", Null) \in journal
        BY <2>3, <2>4 DEF TallyInv, Measured
      <3>2. Log(e.txn, "metric", Null) \in Found(2)
        BY <2>3, <3>1 DEF Log, CountedAt
      <3>3. QED
        BY <2>2, <3>2
    <2>5. Measured(counted[h])'
      BY <2>4 DEF Measured, Log, CountedAt
    <2>6. QED
      BY <1>0, <2>1, <2>2, <2>3, <2>5 DEF Tallied, TypeOK, CountedAt
  <1>3. QED
    BY <1>1, <1>2

(* A step of a session that is no health request's counts nothing.            *)
LEMMA CountedStays ==
    ASSUME NEW t \in Txn,
           \/ BeginRequest(t) /\ t \notin Healths
           \/ BeginJob(t)
           \/ Advance(t) /\ t \notin Healths
           \/ Victim(t) \/ Crash(t) \/ LoseAck(t)
    PROVE  UNCHANGED counted
  <1>1. CASE BeginRequest(t) /\ t \notin Healths
    BY <1>1 DEF BeginRequest, Ingest, BeginFeedback, BeginDelete, Begin, Answer,
                Proceed, BeginRetrieve, ListMemories
  <1>2. CASE BeginJob(t)
    BY <1>2 DEF BeginJob, BeginReweight, BeginPurge
  <1>3. CASE Advance(t) /\ t \in Turns \cup Retrieves /\ t \notin Healths
    <2>1. CASE TurnStep(t)
      BY <2>1 DEF TurnStep, AnswerIngest, StartTurn, StoreCandidate,
                  DropCandidate, Supersede, FinishTurn
    <2>2. CASE RetrieveStep(t)
      BY <2>2 DEF RetrieveStep, KeywordSearch, EntitySearch, Rank, Bump,
                  FinishRetrieve, Respond
    <2>3. QED
      BY <1>3, <2>1, <2>2, RequestKinds DEF Advance, Jobs
  <1>4. CASE Advance(t) /\ t \notin Turns \cup Retrieves \cup Healths
    BY <1>4 DEF Advance, WriteFeedback, FinishFeedback, WriteDelete,
                FinishDelete, Write, Finish, Reweigh, FinishJob, Erase,
                EraseFails, Fail
  <1>5. CASE Victim(t) \/ Crash(t) \/ LoseAck(t)
    BY <1>5 DEF Victim, Crash, LoseAck, Fail
  <1>6. QED
    BY <1>1, <1>2, <1>3, <1>4, <1>5

LEMMA SessionTally ==
    ASSUME Good, AnswerInv, RowsPersist, TallyInv, NEW t \in Txn,
           \/ BeginRequest(t) \/ BeginJob(t) \/ Advance(t)
           \/ Victim(t) \/ Crash(t) \/ LoseAck(t)
    PROVE  TallyInv'
  <1>0. TypeOK /\ OwnLog /\ Measured(journal)
    BY GoodParts DEF TallyInv
  <1>1. LogsOwn(t)
    BY <1>0, RequestLog, OtherLog, RequestKinds DEF BeginJob, Advance, Jobs,
       Requests
  <1>2. journal \subseteq journal' /\ OtherRequests(t)
    <2>1. CASE BeginRequest(t)
      BY <2>1, TurnAnswer, CorrectionAnswer, ReadAnswer DEF BeginRequest
    <2>2. CASE t \in Jobs /\ (BeginJob(t) \/ Advance(t))
      BY <2>2, JobAnswer
    <2>3. CASE t \notin Jobs /\ Advance(t)
      BY <2>3, TurnAnswer, CorrectionAnswer, ReadAnswer DEF Advance, Jobs
    <2>4. CASE Victim(t) \/ Crash(t) \/ LoseAck(t)
      BY <2>4, LossAnswer
    <2>5. QED
      BY <2>1, <2>2, <2>3, <2>4 DEF BeginJob, Jobs
  <1>3. ASSUME NEW h \in Healths \ {t}, counted'[h] = counted[h]
        PROVE  Tallied(h)'
    <2>1. h \in Requests \ {t} /\ Tallied(h)
      BY <1>3, RequestKinds DEF TallyInv
    <2>2. QED
      BY <1>2, <1>3, <2>1, TalliedStays DEF OtherRequests
  <1>4. ASSUME NEW h \in Healths PROVE Tallied(h)'
    <2>1. CASE t \notin Healths
      <3>1. UNCHANGED counted
        BY <2>1, CountedStays
      <3>2. QED
        BY <1>3, <2>1, <3>1
    <2>2. CASE t \in Healths /\ (BeginHealth(t) \/ FinishHealth(t))
      <3>1. Tallied(t)' /\ counted' = [counted EXCEPT ![t] = counted'[t]]
        BY <1>0, <2>2, HealthTallied
      <3>2. h # t => counted'[h] = counted[h]
        BY <1>0, <3>1 DEF TypeOK
      <3>3. QED
        BY <1>3, <3>1, <3>2
    <2>3. CASE t \in Healths /\ (Victim(t) \/ Crash(t) \/ LoseAck(t))
      <3>1. UNCHANGED counted
        BY <2>3, CountedStays
      <3>2. PICK error : Fail(t, error)
        BY <2>3 DEF Victim, Crash, LoseAck
      <3>3. pc'[t] = "failed" /\ reply'[t] = "error"
        BY <1>0, <2>3, <3>2, RequestKinds DEF Fail, Close, Told, TypeOK
      <3>4. Tallied(t)
        BY <2>3 DEF TallyInv
      <3>5. Tallied(t)'
        BY <1>2, <3>1, <3>3, <3>4 DEF Tallied, CountedAt
      <3>6. QED
        BY <1>3, <3>1, <3>5
    <2>4. t \in Healths => t \notin Turns \cup Feedbacks \cup Deletes \cup
                                    Retrieves \cup Lists \cup Jobs
      BY RequestKinds, KindsAssumption
    <2>5. t \in Healths /\ (BeginRequest(t) \/ Advance(t))
            => BeginHealth(t) \/ FinishHealth(t)
      BY <2>4 DEF BeginRequest, Advance, Jobs
    <2>6. t \in Healths => ~BeginJob(t)
      BY <2>4 DEF BeginJob, Jobs
    <2>7. QED
      BY <2>1, <2>2, <2>3, <2>5, <2>6
  <1>5. QED
    BY <1>0, <1>1, <1>2, <1>4, MeasuredStep DEF TallyInv, LogsOwn

LEMMA TallyStep ==
    ASSUME Good, AnswerInv, TallyInv, [Next]_vars
    PROVE  TallyInv'
  <1>1. ASSUME NEW t \in Txn,
               \/ BeginRequest(t) \/ BeginJob(t) \/ Advance(t)
               \/ Victim(t) \/ Crash(t) \/ LoseAck(t)
        PROVE  TallyInv'
    <2>1. RowsPersist
      BY HistoryStep DEF RowsPersist, RowsLast
    <2>2. QED
      BY <1>1, <2>1, SessionTally
  <1>2. CASE Tick \/ UNCHANGED vars
    <2>1. UNCHANGED <<journal, pend, pc, reply, counted>>
      BY <1>2 DEF Tick, vars, db
    <2>2. OwnLog' /\ Measured(journal)'
      BY <2>1 DEF TallyInv, OwnLog, Measured, CountedAt, Log
    <2>3. \A h \in Healths : Tallied(h)'
      BY <2>1, TalliedStays DEF TallyInv
    <2>4. QED
      BY <2>2, <2>3 DEF TallyInv
  <1>3. QED
    BY <1>1, <1>2 DEF Next

(* What the log holds, and what a health request has counted of it.           *)
THEOREM TallySound == Spec => []TallyInv
  <1>1. Init => TallyInv
    BY RequestKinds DEF Init, StoreInit, TallyInv, OwnLog, Measured, Tallied
  <1>2. /\ TypeOK /\ PointersInv /\ HistoryInv /\ AnswerInv /\ TallyInv
        /\ [Next]_vars
        => TallyInv'
    BY TallyStep DEF Good
  <1>3. QED
    BY <1>1, <1>2, TypeCorrect, PointersSound, HistorySound, AnswersSound, PTL
       DEF Spec

(* Whatever a health request's first SELECT counted, its second one found the *)
(* metric of: the numbers of one answer describe the same writes and reads.   *)
THEOREM HealthAgrees == Spec => []HealthCoherent
  <1>1. TallyInv => HealthCoherent
    <2> SUFFICES ASSUME TallyInv, NEW h \in Healths, reply[h] = "ok",
                        NEW e \in counted[h], e.txn \in Turns \cup Retrieves
                 PROVE  Log(e.txn, "metric", Null) \in counted[h]
      BY DEF HealthCoherent
    <2>1. Tallied(h)
      BY DEF TallyInv
    <2>2. e.kind \in CountedAt(1) \cup CountedAt(2) /\ Measured(counted[h])
      BY <2>1 DEF Tallied
    <2>3. QED
      BY <2>2 DEF Measured
  <1>2. QED
    BY <1>1, TallySound, PTL

(* All that is said of work in progress holds under every interleaving and    *)
(* failure.                                                                   *)
THEOREM WorkSound == Spec => []WorkInv
  BY PointersSound, HistorySound, HeldSound, AnswersSound, TallySound, PTL
     DEF WorkInv
=============================================================================
