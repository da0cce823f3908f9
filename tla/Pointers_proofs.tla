--------------------------- MODULE Pointers_proofs ---------------------------
(* SupersededByBetter holds for every number of turns, memories and sessions. *)
EXTENDS MemorySystem_proofs

RowsInv == RowInv /\ CommittedPointerInv /\ DraftPointerInv

LEMMA Rounded ==
    ASSUME NEW a \in Confs, NEW b \in Confs, Round[a] = a, a <= b
    PROVE  a <= Round[b]
  BY RoundAssumption

(* A row version read by a statement has the row's fixed columns.             *)
LEMMA ViewSame ==
    ASSUME TypeOK, RowInv, NEW t \in Txn, NEW m \in MemId, View(t, m) # Blank
    PROVE  /\ draft[m] # Blank /\ SameMemory(View(t, m), draft[m])
           /\ mem[m] # Blank \/ lock[m] = t
  BY DEF RowInv, View, SameMemory

(* An UPDATE that leaves the fixed columns and the pointer as they were.      *)
LEMMA UpdateRows ==
    ASSUME TypeOK, RowsInv, NEW t \in Txn, NEW m \in MemId, NEW row,
           Visible(t, m) => /\ row \in Row
                            /\ SameMemory(row, View(t, m))
                            /\ row.by = View(t, m).by,
           Update(t, m, row), UNCHANGED <<mem, next>>
    PROVE  RowsInv'
  <1>1. CASE ~Visible(t, m)
    BY <1>1 DEF Update, RowsInv, RowInv, CommittedPointerInv, DraftPointerInv
  <1>2. CASE Visible(t, m)
    <2>1. /\ lock[m] \in {NoTxn, t}
          /\ draft' = [draft EXCEPT ![m] = row]
          /\ lock' = [lock EXCEPT ![m] = t]
          /\ mem' = mem /\ next' = next
      BY <1>2 DEF Update, Free
    <2>2. /\ row \in Row /\ row # Blank
          /\ View(t, m) # Blank /\ draft[m] # Blank
          /\ View(t, m) = draft[m]
      <3>1. View(t, m) \in Row
        BY <1>2, ViewType
      <3>2. View(t, m) # Blank /\ row # Blank
        BY <1>2, <3>1 DEF Row, Blank, Statuses
      <3>3. View(t, m) = draft[m]
        BY <2>1 DEF View, RowsInv, RowInv
      <3>4. QED
        BY <1>2, <3>2, <3>3
    <2>3. SameMemory(row, draft[m]) /\ row.by = draft[m].by
      BY <1>2, <2>2
    <2>4. t # NoTxn /\ draft \in [MemId -> Row \cup {Blank}]
          /\ lock \in [MemId -> Txn \cup {NoTxn}]
      BY StoreAssumption DEF TypeOK
    <2>5. RowInv'
      <3> SUFFICES ASSUME NEW k \in MemId
                   PROVE  /\ lock'[k] = NoTxn => draft'[k] = mem'[k]
                          /\ mem'[k] # Blank =>
                               draft'[k] # Blank /\ SameMemory(mem'[k], draft'[k])
                          /\ k >= next' => draft'[k] = Blank /\ lock'[k] = NoTxn
                          /\ draft'[k] # Blank =>
                               Round[draft'[k].conf] = draft'[k].conf
        BY DEF RowInv, SameMemory
      <3>1. CASE k = m
        BY <2>1, <2>2, <2>3, <2>4, <3>1 DEF RowsInv, RowInv, SameMemory
      <3>2. CASE k # m
        BY <2>1, <2>4, <3>2 DEF RowsInv, RowInv
      <3>3. QED
        BY <3>1, <3>2
    <2>6. CommittedPointerInv'
      BY <2>1 DEF RowsInv, CommittedPointerInv, Outranks
    <2>7. DraftPointerInv'
      <3> SUFFICES ASSUME NEW k \in MemId, NEW n \in MemId,
                          draft'[k] # Blank, draft'[k].by = n
                   PROVE  /\ n > k /\ draft'[n] # Blank
                          /\ Outranks(draft'[n], draft'[k])
                          /\ \/ mem'[n] # Blank
                             \/ lock'[k] # NoTxn /\ lock'[n] = lock'[k]
        BY DEF DraftPointerInv, Outranks
      <3>1. draft[k] # Blank /\ draft[k].by = n /\ SameMemory(draft'[k], draft[k])
        BY <2>1, <2>2, <2>3, <2>4 DEF SameMemory
      <3>2. /\ n > k /\ draft[n] # Blank /\ Outranks(draft[n], draft[k])
            /\ mem[n] # Blank \/ (lock[k] # NoTxn /\ lock[n] = lock[k])
        BY <3>1 DEF RowsInv, DraftPointerInv
      <3>3. draft'[n] # Blank /\ SameMemory(draft'[n], draft[n])
        BY <2>1, <2>2, <2>3, <2>4, <3>2 DEF SameMemory
      <3>4. mem[n] # Blank \/ (lock'[k] # NoTxn /\ lock'[n] = lock'[k])
        BY <2>1, <2>4, <3>2
      <3>5. QED
        BY <2>1, <3>1, <3>2, <3>3, <3>4 DEF Outranks, SameMemory
    <2>8. QED
      BY <2>5, <2>6, <2>7 DEF RowsInv
  <1>3. QED
    BY <1>1, <1>2

(* INSERT gives out an id nothing points at yet.                              *)
LEMMA InsertRows ==
    ASSUME TypeOK, RowsInv, NEW t \in Txn, NEW row \in Row,
           row.by = Null, Round[row.conf] = row.conf,
           Insert(t, row), UNCHANGED mem
    PROVE  RowsInv'
  <1>1. /\ next \in MemId /\ next' = next + 1 /\ mem' = mem
        /\ draft' = [draft EXCEPT ![next] = row]
        /\ lock' = [lock EXCEPT ![next] = t]
    BY DEF Insert
  <1>2. /\ draft[next] = Blank /\ mem[next] = Blank
        /\ row # Blank /\ t # NoTxn
        /\ draft \in [MemId -> Row \cup {Blank}]
        /\ lock \in [MemId -> Txn \cup {NoTxn}]
    <2>1. draft[next] = Blank /\ mem[next] = Blank
      BY <1>1 DEF RowsInv, RowInv, MemId
    <2>2. row # Blank
      BY DEF Row, Blank, Statuses
    <2>3. QED
      BY <2>1, <2>2, StoreAssumption DEF TypeOK
  <1>3. RowInv'
    <2> SUFFICES ASSUME NEW k \in MemId
                 PROVE  /\ lock'[k] = NoTxn => draft'[k] = mem'[k]
                        /\ mem'[k] # Blank =>
                             draft'[k] # Blank /\ SameMemory(mem'[k], draft'[k])
                        /\ k >= next' => draft'[k] = Blank /\ lock'[k] = NoTxn
                        /\ draft'[k] # Blank =>
                             Round[draft'[k].conf] = draft'[k].conf
      BY DEF RowInv, SameMemory
    <2>1. CASE k = next
      BY <1>1, <1>2, <2>1 DEF MemId
    <2>2. CASE k # next
      BY <1>1, <1>2, <2>2 DEF RowsInv, RowInv, MemId
    <2>3. QED
      BY <2>1, <2>2
  <1>4. CommittedPointerInv'
    BY <1>1 DEF RowsInv, CommittedPointerInv, Outranks
  <1>5. DraftPointerInv'
    <2> SUFFICES ASSUME NEW k \in MemId, NEW n \in MemId,
                        draft'[k] # Blank, draft'[k].by = n
                 PROVE  /\ n > k /\ draft'[n] # Blank
                        /\ Outranks(draft'[n], draft'[k])
                        /\ \/ mem'[n] # Blank
                           \/ lock'[k] # NoTxn /\ lock'[n] = lock'[k]
      BY DEF DraftPointerInv, Outranks
    <2>1. k # next
      BY <1>1, <1>2 DEF MemId, Null
    <2>2. draft'[k] = draft[k] /\ lock'[k] = lock[k]
      BY <1>1, <1>2, <2>1
    <2>3. /\ n > k /\ draft[n] # Blank /\ Outranks(draft[n], draft[k])
          /\ mem[n] # Blank \/ (lock[k] # NoTxn /\ lock[n] = lock[k])
      BY <2>2 DEF RowsInv, DraftPointerInv
    <2>4. n # next
      BY <1>2, <2>3
    <2>5. QED
      BY <1>1, <1>2, <2>2, <2>3, <2>4
  <1>6. QED
    BY <1>3, <1>4, <1>5 DEF RowsInv

(* A commit publishes both ends of every pointer its transaction made.        *)
LEMMA CommitRows ==
    ASSUME TypeOK, RowsInv, NEW t \in Txn, NEW rows, Commit(t, rows)
    PROVE  RowsInv'
  <1>1. /\ mem' = [m \in MemId |-> IF lock[m] = t THEN draft[m] ELSE mem[m]]
        /\ lock' = [m \in MemId |-> IF lock[m] = t THEN NoTxn ELSE lock[m]]
        /\ draft' = draft /\ next' = next
    BY DEF Commit, View
  <1>2. t # NoTxn
    BY StoreAssumption
  <1>3. \A m \in MemId : mem[m] # Blank => mem'[m] # Blank
    BY <1>1 DEF RowsInv, RowInv
  <1>4. \A m \in MemId : mem'[m] # Blank =>
          draft[m] # Blank /\ SameMemory(mem'[m], draft[m])
    BY <1>1 DEF RowsInv, RowInv, SameMemory
  <1>5. RowInv'
    <2> SUFFICES ASSUME NEW k \in MemId
                 PROVE  /\ lock'[k] = NoTxn => draft'[k] = mem'[k]
                        /\ mem'[k] # Blank =>
                             draft'[k] # Blank /\ SameMemory(mem'[k], draft'[k])
                        /\ k >= next' => draft'[k] = Blank /\ lock'[k] = NoTxn
                        /\ draft'[k] # Blank =>
                             Round[draft'[k].conf] = draft'[k].conf
      BY DEF RowInv, SameMemory
    <2>1. QED
      BY <1>1, <1>4 DEF RowsInv, RowInv
  <1>6. CommittedPointerInv'
    <2> SUFFICES ASSUME NEW k \in MemId, NEW n \in MemId,
                        mem'[k] # Blank, mem'[k].by = n
                 PROVE  n > k /\ mem'[n] # Blank /\ Outranks(mem'[n], mem'[k])
      BY DEF CommittedPointerInv, Outranks
    <2>1. CASE lock[k] = t
      <3>1. mem'[k] = draft[k]
        BY <1>1, <2>1
      <3>2. /\ n > k /\ draft[n] # Blank /\ Outranks(draft[n], draft[k])
            /\ mem[n] # Blank \/ lock[n] = t
        BY <2>1, <3>1 DEF RowsInv, DraftPointerInv
      <3>3. mem'[n] # Blank
        BY <1>1, <1>3, <3>2
      <3>4. QED
        BY <1>4, <3>1, <3>2, <3>3 DEF Outranks, SameMemory
    <2>2. CASE lock[k] # t
      <3>1. mem'[k] = mem[k]
        BY <1>1, <2>2
      <3>2. n > k /\ mem[n] # Blank /\ Outranks(mem[n], mem[k])
        BY <3>1 DEF RowsInv, CommittedPointerInv
      <3>3. mem'[n] # Blank /\ SameMemory(mem[n], mem'[n])
        BY <1>3, <1>4, <3>2 DEF RowsInv, RowInv, SameMemory
      <3>4. QED
        BY <3>1, <3>2, <3>3 DEF Outranks, SameMemory
    <2>3. QED
      BY <2>1, <2>2
  <1>7. DraftPointerInv'
    <2> SUFFICES ASSUME NEW k \in MemId, NEW n \in MemId,
                        draft[k] # Blank, draft[k].by = n
                 PROVE  /\ n > k /\ draft[n] # Blank
                        /\ Outranks(draft[n], draft[k])
                        /\ \/ mem'[n] # Blank
                           \/ lock'[k] # NoTxn /\ lock'[n] = lock'[k]
      BY <1>1 DEF DraftPointerInv, Outranks
    <2>1. /\ n > k /\ draft[n] # Blank /\ Outranks(draft[n], draft[k])
          /\ mem[n] # Blank \/ (lock[k] # NoTxn /\ lock[n] = lock[k])
      BY DEF RowsInv, DraftPointerInv
    <2>2. QED
      BY <1>1, <1>2, <1>3, <2>1
  <1>8. QED
    BY <1>5, <1>6, <1>7 DEF RowsInv

(* A rollback takes both ends back.                                           *)
LEMMA RollbackRows ==
    ASSUME TypeOK, RowsInv, NEW t \in Txn, Rollback(t)
    PROVE  RowsInv'
  <1>1. /\ draft' = [m \in MemId |-> IF lock[m] = t THEN mem[m] ELSE draft[m]]
        /\ lock' = [m \in MemId |-> IF lock[m] = t THEN NoTxn ELSE lock[m]]
        /\ mem' = mem /\ next' = next
    BY DEF Rollback
  <1>2. t # NoTxn
    BY StoreAssumption
  <1>3. \A m \in MemId : mem[m] # Blank \/ (lock[m] # t /\ draft[m] # Blank) =>
          draft'[m] # Blank /\ SameMemory(draft'[m], draft[m])
    BY <1>1 DEF RowsInv, RowInv, SameMemory
  <1>4. RowInv'
    <2> SUFFICES ASSUME NEW k \in MemId
                 PROVE  /\ lock'[k] = NoTxn => draft'[k] = mem'[k]
                        /\ mem'[k] # Blank =>
                             draft'[k] # Blank /\ SameMemory(mem'[k], draft'[k])
                        /\ k >= next' => draft'[k] = Blank /\ lock'[k] = NoTxn
                        /\ draft'[k] # Blank =>
                             Round[draft'[k].conf] = draft'[k].conf
      BY DEF RowInv, SameMemory
    <2>1. CASE lock[k] = t
      BY <1>1, <2>1 DEF RowsInv, RowInv, SameMemory
    <2>2. CASE lock[k] # t
      BY <1>1, <2>2 DEF RowsInv, RowInv
    <2>3. QED
      BY <2>1, <2>2
  <1>5. CommittedPointerInv'
    BY <1>1 DEF RowsInv, CommittedPointerInv, Outranks
  <1>6. DraftPointerInv'
    <2> SUFFICES ASSUME NEW k \in MemId, NEW n \in MemId,
                        draft'[k] # Blank, draft'[k].by = n
                 PROVE  /\ n > k /\ draft'[n] # Blank
                        /\ Outranks(draft'[n], draft'[k])
                        /\ \/ mem'[n] # Blank
                           \/ lock'[k] # NoTxn /\ lock'[n] = lock'[k]
      BY DEF DraftPointerInv, Outranks
    <2>1. CASE lock[k] = t
      <3>1. draft'[k] = mem[k]
        BY <1>1, <2>1
      <3>2. n > k /\ mem[n] # Blank /\ Outranks(mem[n], mem[k])
        BY <3>1 DEF RowsInv, CommittedPointerInv
      <3>3. draft'[n] # Blank /\ SameMemory(draft'[n], mem[n])
        BY <1>3, <3>2 DEF RowsInv, RowInv, SameMemory
      <3>4. QED
        BY <1>1, <3>1, <3>2, <3>3 DEF Outranks, SameMemory
    <2>2. CASE lock[k] # t
      <3>1. draft'[k] = draft[k] /\ lock'[k] = lock[k]
        BY <1>1, <2>2
      <3>2. /\ n > k /\ draft[n] # Blank /\ Outranks(draft[n], draft[k])
            /\ mem[n] # Blank \/ (lock[k] # NoTxn /\ lock[n] = lock[k])
        BY <3>1 DEF RowsInv, DraftPointerInv
      <3>3. draft'[n] # Blank /\ SameMemory(draft'[n], draft[n])
        BY <1>3, <2>2, <3>2
      <3>4. mem[n] # Blank \/ (lock'[k] # NoTxn /\ lock'[n] = lock'[k])
        BY <1>1, <2>2, <3>1, <3>2
      <3>5. QED
        BY <1>1, <3>1, <3>2, <3>3, <3>4 DEF Outranks, SameMemory
    <2>3. QED
      BY <2>1, <2>2
  <1>7. QED
    BY <1>4, <1>5, <1>6 DEF RowsInv

(* The one UPDATE that sets a pointer: to the turn's own new memory, still    *)
(* under its lock, from a row that memory outranks.                           *)
LEMMA SupersedeRows ==
    ASSUME TypeOK, RowsInv, NEW t \in Turns, Pending(t), NEW m \in todo[t],
           Update(t, m, [View(t, m) EXCEPT !.status = "superseded",
                                           !.by = arg[t].mem]),
           UNCHANGED <<mem, next>>
    PROVE  RowsInv'
  <1> DEFINE n == arg[t].mem
             row == [View(t, m) EXCEPT !.status = "superseded", !.by = n]
  <1>0. t \in Txn /\ t \in Requests /\ m \in MemId
    BY DEF Txn, Requests, TypeOK
  <1>1. CASE ~Visible(t, m)
    BY <1>1 DEF Update, RowsInv, RowInv, CommittedPointerInv, DraftPointerInv
  <1>2. CASE Visible(t, m)
    <2>1. /\ lock[m] \in {NoTxn, t}
          /\ draft' = [draft EXCEPT ![m] = row]
          /\ lock' = [lock EXCEPT ![m] = t]
          /\ mem' = mem /\ next' = next
      BY <1>2 DEF Update, Free
    <2>2. View(t, m) \in Row /\ View(t, m) # Blank /\ View(t, m) = draft[m]
      <3>1. View(t, m) \in Row
        BY <1>0, <1>2, ViewType
      <3>2. View(t, m) # Blank
        BY <1>0, <1>2, <3>1 DEF Row, Blank, Statuses
      <3>3. View(t, m) = draft[m]
        BY <1>0, <2>1 DEF View, RowsInv, RowInv
      <3>4. QED
        BY <3>1, <3>2, <3>3
    <2>3. /\ n \in MemId /\ n > m /\ n # m
          /\ lock[n] = t /\ draft[n] # Blank /\ draft[n] \in Row
          /\ draft[n].tenant = TenantOf[t]
          /\ <<draft[m].topic, draft[n].topic>> \in SameSubject
      <3>1. n \in MemId /\ n > m
        BY DEF Pending
      <3>2. n # m
        BY <1>0, <3>1 DEF MemId
      <3>3. QED
        BY <3>1, <3>2 DEF Pending, TypeOK
    <2>4. draft[m].conf <= draft[n].conf
      <3>1. draft[m].conf \in Confs /\ Round[draft[m].conf] = draft[m].conf
        BY <1>0, <2>2 DEF RowsInv, RowInv, Row
      <3>2. arg[t].conf \in Confs /\ draft[m].conf <= arg[t].conf
        BY DEF Pending
      <3>3. draft[n].conf = Round[arg[t].conf]
        BY DEF Pending
      <3>4. QED
        BY <3>1, <3>2, <3>3, Rounded
    <2>5. draft[m].tenant = TenantOf[t]
      BY <1>0, <1>2, <2>2 DEF Visible
    <2>6. row \in Row /\ SameMemory(row, draft[m]) /\ row.by = n
      BY <2>2, <2>3 DEF Row, Statuses, SameMemory
    <2>7. row # Blank
      BY <2>6 DEF Row, Blank, Statuses
    <2>8. t # NoTxn /\ draft \in [MemId -> Row \cup {Blank}]
          /\ lock \in [MemId -> Txn \cup {NoTxn}]
      BY <1>0, StoreAssumption DEF TypeOK
    <2> HIDE DEF row, n
    <2>9. RowInv'
      <3> SUFFICES ASSUME NEW k \in MemId
                   PROVE  /\ lock'[k] = NoTxn => draft'[k] = mem'[k]
                          /\ mem'[k] # Blank =>
                               draft'[k] # Blank /\ SameMemory(mem'[k], draft'[k])
                          /\ k >= next' => draft'[k] = Blank /\ lock'[k] = NoTxn
                          /\ draft'[k] # Blank =>
                               Round[draft'[k].conf] = draft'[k].conf
        BY DEF RowInv, SameMemory
      <3>1. CASE k = m
        BY <1>0, <2>1, <2>2, <2>6, <2>7, <2>8, <3>1
           DEF RowsInv, RowInv, SameMemory
      <3>2. CASE k # m
        BY <1>0, <2>1, <2>8, <3>2 DEF RowsInv, RowInv
      <3>3. QED
        BY <3>1, <3>2
    <2>10. CommittedPointerInv'
      BY <2>1 DEF RowsInv, CommittedPointerInv, Outranks
    <2>11. DraftPointerInv'
      <3> SUFFICES ASSUME NEW k \in MemId, NEW j \in MemId,
                          draft'[k] # Blank, draft'[k].by = j
                   PROVE  /\ j > k /\ draft'[j] # Blank
                          /\ Outranks(draft'[j], draft'[k])
                          /\ \/ mem'[j] # Blank
                             \/ lock'[k] # NoTxn /\ lock'[j] = lock'[k]
        BY DEF DraftPointerInv, Outranks
      <3>1. CASE k = m
        <4>1. draft'[k] = row /\ lock'[k] = t /\ j = n
          BY <1>0, <2>1, <2>6, <2>8, <3>1
        <4>2. draft'[j] = draft[n] /\ lock'[j] = t
          BY <2>1, <2>3, <2>8, <4>1
        <4>3. Outranks(draft[n], row)
          BY <2>3, <2>4, <2>5, <2>6 DEF Outranks, SameMemory
        <4>4. QED
          BY <2>3, <2>8, <3>1, <4>1, <4>2, <4>3
      <3>2. CASE k # m
        <4>1. draft'[k] = draft[k] /\ lock'[k] = lock[k]
          BY <1>0, <2>1, <2>8, <3>2
        <4>2. /\ j > k /\ draft[j] # Blank /\ Outranks(draft[j], draft[k])
              /\ mem[j] # Blank \/ (lock[k] # NoTxn /\ lock[j] = lock[k])
          BY <4>1 DEF RowsInv, DraftPointerInv
        <4>3. draft'[j] # Blank /\ SameMemory(draft'[j], draft[j])
          BY <1>0, <2>1, <2>6, <2>7, <2>8, <4>2 DEF SameMemory
        <4>4. mem[j] # Blank \/ (lock'[k] # NoTxn /\ lock'[j] = lock'[k])
          BY <1>0, <2>1, <2>8, <4>1, <4>2
        <4>5. QED
          BY <2>1, <4>1, <4>2, <4>3, <4>4 DEF Outranks, SameMemory
      <3>3. QED
        BY <3>1, <3>2
    <2>12. QED
      BY <2>9, <2>10, <2>11 DEF RowsInv
  <1>3. QED
    BY <1>1, <1>2
------------------------------------------------------------------------------
(* What a step must leave alone for the rows a turn has read to stay as the   *)
(* turn knows them.                                                           *)
Steady(u) ==
    \A m \in MemId :
        /\ mem[m] # Blank => mem'[m] # Blank
        /\ lock[m] = u => lock'[m] = u
        /\ draft[m] # Blank /\ (mem[m] # Blank \/ lock[m] = u) =>
             draft'[m] # Blank /\ SameMemory(draft'[m], draft[m])

LEMMA PendingStable ==
    ASSUME TypeOK, NEW u \in Turns, Pending(u),
           Steady(u), arg'[u] = arg[u], todo'[u] \subseteq todo[u]
    PROVE  Pending(u)'
  <1> SUFFICES ASSUME NEW m \in todo'[u]
               PROVE  LET n == arg'[u].mem IN
                        /\ n \in MemId /\ n > m
                        /\ lock'[n] = u /\ draft'[n] # Blank
                        /\ draft'[n].tenant = TenantOf[u]
                        /\ arg'[u].conf \in Confs
                        /\ draft'[n].conf = Round[arg'[u].conf]
                        /\ draft'[m] # Blank /\ (mem'[m] # Blank \/ lock'[m] = u)
                        /\ <<draft'[m].topic, draft'[n].topic>> \in SameSubject
                        /\ draft'[m].conf <= arg'[u].conf
    BY DEF Pending
  <1> DEFINE n == arg[u].mem
  <1>1. m \in todo[u] /\ m \in MemId /\ u \in Txn
    BY DEF TypeOK, Txn, Requests
  <1>2. /\ n \in MemId /\ n > m
        /\ lock[n] = u /\ draft[n] # Blank
        /\ draft[n].tenant = TenantOf[u]
        /\ arg[u].conf \in Confs /\ draft[n].conf = Round[arg[u].conf]
        /\ draft[m] # Blank /\ (mem[m] # Blank \/ lock[m] = u)
        /\ <<draft[m].topic, draft[n].topic>> \in SameSubject
        /\ draft[m].conf <= arg[u].conf
    BY <1>1 DEF Pending
  <1>3. /\ lock'[n] = u /\ draft'[n] # Blank /\ SameMemory(draft'[n], draft[n])
        /\ draft'[m] # Blank /\ SameMemory(draft'[m], draft[m])
        /\ mem'[m] # Blank \/ lock'[m] = u
    BY <1>1, <1>2 DEF Steady
  <1>4. QED
    BY <1>2, <1>3 DEF SameMemory

LEMMA UpdateSteady ==
    ASSUME TypeOK, RowsInv, NEW t \in Txn, NEW u \in Txn, NEW m \in MemId,
           NEW row,
           Visible(t, m) => row \in Row /\ SameMemory(row, View(t, m)),
           Update(t, m, row), UNCHANGED mem
    PROVE  Steady(u)
  <1>1. CASE ~Visible(t, m)
    BY <1>1 DEF Update, Steady, SameMemory
  <1>2. CASE Visible(t, m)
    <2>1. /\ lock[m] \in {NoTxn, t}
          /\ draft' = [draft EXCEPT ![m] = row]
          /\ lock' = [lock EXCEPT ![m] = t]
          /\ mem' = mem
      BY <1>2 DEF Update, Free
    <2>2. row \in Row /\ row # Blank /\ SameMemory(row, draft[m])
      <3>1. View(t, m) = draft[m]
        BY <2>1 DEF View, RowsInv, RowInv
      <3>2. QED
        BY <1>2, <3>1 DEF Row, Blank, Statuses
    <2>3. /\ draft \in [MemId -> Row \cup {Blank}]
          /\ lock \in [MemId -> Txn \cup {NoTxn}]
          /\ u # NoTxn
      BY StoreAssumption DEF TypeOK
    <2>4. QED
      BY <2>1, <2>2, <2>3 DEF Steady, SameMemory
  <1>3. QED
    BY <1>1, <1>2

LEMMA InsertSteady ==
    ASSUME TypeOK, RowsInv, NEW t \in Txn, NEW u \in Txn, NEW row,
           Insert(t, row), UNCHANGED mem
    PROVE  Steady(u)
  <1>1. /\ next \in MemId /\ mem' = mem
        /\ draft' = [draft EXCEPT ![next] = row]
        /\ lock' = [lock EXCEPT ![next] = t]
    BY DEF Insert
  <1>2. draft[next] = Blank /\ lock[next] = NoTxn /\ u # NoTxn
    BY <1>1, StoreAssumption DEF RowsInv, RowInv, MemId
  <1>3. QED
    BY <1>1, <1>2 DEF TypeOK, Steady, SameMemory

LEMMA EndSteady ==
    ASSUME TypeOK, RowsInv, NEW t \in Txn, NEW u \in Txn, t # u,
           Rollback(t) \/ \E rows \in SUBSET Entry : Commit(t, rows)
    PROVE  Steady(u)
  <1>1. CASE Rollback(t)
    BY <1>1 DEF Rollback, RowsInv, RowInv, Steady, SameMemory
  <1>2. CASE \E rows \in SUBSET Entry : Commit(t, rows)
    <2>1. /\ mem' = [m \in MemId |-> IF lock[m] = t THEN draft[m] ELSE mem[m]]
          /\ lock' = [m \in MemId |-> IF lock[m] = t THEN NoTxn ELSE lock[m]]
          /\ draft' = draft
      BY <1>2 DEF Commit, View
    <2>2. QED
      BY <2>1 DEF RowsInv, RowInv, Steady, SameMemory
  <1>3. QED
    BY <1>1, <1>2

LEMMA IdleRows ==
    ASSUME RowsInv, UNCHANGED <<mem, draft, lock, next>>
    PROVE  RowsInv' /\ \A u \in Turns : Steady(u)
  BY DEF RowsInv, RowInv, CommittedPointerInv, DraftPointerInv, Outranks,
         SameMemory, Steady

(* A step of one session that keeps the turns' knowledge: every turn but the  *)
(* session itself keeps its locals.                                           *)
Elsewhere(t) ==
    \A u \in Turns : u # t => arg'[u] = arg[u] /\ todo'[u] = todo[u]

LEMMA TurnKnowledge ==
    ASSUME TypeOK, TurnInv, NEW t \in Txn, Elsewhere(t),
           \A u \in Turns : u # t => Steady(u),
           t \in Turns => Pending(t)'
    PROVE  TurnInv'
  <1> SUFFICES ASSUME NEW u \in Turns PROVE Pending(u)'
    BY DEF TurnInv
  <1>1. CASE u = t
    BY <1>1
  <1>2. CASE u # t
    BY <1>2, PendingStable DEF Elsewhere, TurnInv
  <1>3. QED
    BY <1>1, <1>2

LEMMA NothingPending ==
    ASSUME NEW t, todo'[t] = {} PROVE Pending(t)'
  BY DEF Pending

LEMMA TurnPointers ==
    ASSUME TypeOK, RowsInv, TurnInv, NEW t \in Turns,
           Ingest(t) \/ TurnStep(t)
    PROVE  RowsInv' /\ TurnInv'
  <1>0. t \in Txn /\ t \in Requests /\ Pending(t)
    BY DEF Txn, Requests, TurnInv
  <1>1. CASE \/ Ingest(t) \/ AnswerIngest(t) \/ StartTurn(t)
            \/ DropCandidate(t)
    <2>1. UNCHANGED <<mem, draft, lock, next, todo>>
      BY <1>1 DEF Ingest, AnswerIngest, StartTurn, DropCandidate, db
    <2>2. RowsInv' /\ \A u \in Turns : Steady(u)
      BY <2>1, IdleRows
    <2>3. Elsewhere(t)
      BY <1>0, <1>1, <2>1
         DEF TypeOK, Elsewhere, Ingest, AnswerIngest, StartTurn, DropCandidate,
             Txn, Requests
    <2>4. Pending(t)'
      <3>1. CASE Ingest(t) \/ AnswerIngest(t)
        <4>1. arg' = arg
          BY <3>1 DEF Ingest, AnswerIngest
        <4>2. QED
          BY <1>0, <2>1, <2>2, <4>1, PendingStable
      <3>2. CASE DropCandidate(t)
        BY <2>1, <3>2, NothingPending DEF DropCandidate, NextCandidate
      <3>3. CASE StartTurn(t)
        <4>1. /\ arg'[t].mem = arg[t].mem /\ arg'[t].conf = arg[t].conf
          BY <1>0, <3>3 DEF StartTurn, TypeOK
        <4>2. QED
          BY <1>0, <2>1, <4>1 DEF Pending
      <3>4. QED
        BY <1>1, <3>1, <3>2, <3>3
    <2>5. QED
      BY <1>0, <2>2, <2>3, <2>4, TurnKnowledge
  <1>2. CASE StoreCandidate(t)
    <2>1. PICK topic \in Topics, c \in Confs :
            /\ Insert(t, [tenant |-> TenantOf[t], topic |-> topic,
                          conf |-> Round[c], turn |-> t, status |-> "active",
                          by |-> Null, used |-> at[t]])
            /\ todo' = [todo EXCEPT ![t] =
                          Outranked(t, SameSubjectAs(t, topic), c)]
            /\ arg' = [arg EXCEPT ![t] =
                         [mem |-> next, conf |-> c, left |-> @.left - 1]]
      BY <1>2 DEF StoreCandidate
    <2> DEFINE row == [tenant |-> TenantOf[t], topic |-> topic,
                       conf |-> Round[c], turn |-> t, status |-> "active",
                       by |-> Null, used |-> at[t]]
    <2>2. row \in Row
      BY <1>0, StoreAssumption, RoundAssumption
         DEF TypeOK, Row, Statuses, Null
    <2>3. row.by = Null /\ Round[row.conf] = row.conf
      BY RoundAssumption
    <2>4. mem' = mem
      BY <1>2 DEF StoreCandidate
    <2>5. RowsInv'
      BY <1>0, <2>1, <2>2, <2>3, <2>4, InsertRows
    <2>6. \A u \in Turns : Steady(u)
      BY <1>0, <2>1, <2>4, InsertSteady DEF Txn, Requests
    <2>7. Elsewhere(t)
      BY <1>0, <2>1 DEF TypeOK, Elsewhere, Txn, Requests
    <2>8. Pending(t)'
      <3> SUFFICES ASSUME NEW m \in todo'[t]
                   PROVE  LET n == arg'[t].mem IN
                            /\ n \in MemId /\ n > m
                            /\ lock'[n] = t /\ draft'[n] # Blank
                            /\ draft'[n].tenant = TenantOf[t]
                            /\ arg'[t].conf \in Confs
                            /\ draft'[n].conf = Round[arg'[t].conf]
                            /\ draft'[m] # Blank
                            /\ mem'[m] # Blank \/ lock'[m] = t
                            /\ <<draft'[m].topic, draft'[n].topic>> \in SameSubject
                            /\ draft'[m].conf <= arg'[t].conf
        BY DEF Pending
      <3>1. arg'[t].mem = next /\ arg'[t].conf = c
        BY <1>0, <2>1 DEF TypeOK
      <3>2. /\ next \in MemId /\ lock'[next] = t /\ draft'[next] = row
            /\ draft' = [draft EXCEPT ![next] = row]
            /\ lock' = [lock EXCEPT ![next] = t]
        BY <2>1 DEF Insert, TypeOK
      <3>3. row # Blank
        BY <2>2 DEF Row, Blank, Statuses
      <3>4. /\ m \in MemId /\ Visible(t, m) /\ View(t, m).conf <= c
            /\ <<View(t, m).topic, topic>> \in SameSubject
        BY <1>0, <2>1 DEF TypeOK, Outranked, SameSubjectAs, Select
      <3>5. View(t, m) # Blank
        BY <1>0, <3>4, ViewType DEF Row, Blank, Statuses
      <3>6. /\ draft[m] # Blank /\ SameMemory(View(t, m), draft[m])
            /\ mem[m] # Blank \/ lock[m] = t
        BY <1>0, <3>4, <3>5, ViewSame DEF RowsInv
      <3>7. m < next /\ m # next
        BY <3>2, <3>4, <3>6 DEF RowsInv, RowInv, MemId
      <3>8. draft'[m] = draft[m] /\ lock'[m] = lock[m]
        BY <3>2, <3>4, <3>7 DEF TypeOK
      <3>9. QED
        BY <2>4, <3>1, <3>2, <3>3, <3>4, <3>6, <3>7, <3>8 DEF SameMemory, MemId
    <2>9. QED
      BY <1>0, <2>5, <2>6, <2>7, <2>8, TurnKnowledge
  <1>3. CASE Supersede(t)
    <2>1. PICK m \in todo[t] :
            /\ Update(t, m, [View(t, m) EXCEPT !.status = "superseded",
                                               !.by = arg[t].mem])
            /\ todo' = [todo EXCEPT ![t] = @ \ {m}]
      BY <1>3 DEF Supersede
    <2>2. UNCHANGED <<mem, next, arg>>
      BY <1>3 DEF Supersede
    <2>3. RowsInv'
      BY <1>0, <2>1, <2>2, SupersedeRows
    <2>4. m \in MemId
      BY <1>0 DEF TypeOK
    <2>5. Visible(t, m) =>
            /\ [View(t, m) EXCEPT !.status = "superseded", !.by = arg[t].mem]
                 \in Row
            /\ SameMemory([View(t, m) EXCEPT !.status = "superseded",
                                             !.by = arg[t].mem], View(t, m))
      BY <1>0, <2>4, ViewType DEF TypeOK, Row, Statuses, SameMemory
    <2>6. \A u \in Turns : Steady(u)
      BY <1>0, <2>1, <2>2, <2>4, <2>5, UpdateSteady DEF Txn, Requests
    <2>7. Elsewhere(t) /\ todo'[t] \subseteq todo[t]
      BY <1>0, <2>1, <2>2 DEF TypeOK, Elsewhere, Txn, Requests
    <2>8. Pending(t)'
      BY <1>0, <2>2, <2>6, <2>7, PendingStable
    <2>9. QED
      BY <1>0, <2>3, <2>6, <2>7, <2>8, TurnKnowledge
  <1>4. CASE FinishTurn(t)
    <2>1. /\ Commit(t, TurnRows(t))
          /\ todo' = [todo EXCEPT ![t] = {}]
          /\ arg' = [arg EXCEPT ![t] = NoArg]
      BY <1>4 DEF FinishTurn, Close
    <2>2. TurnRows(t) \in SUBSET Entry
      BY <1>0, LogType DEF TurnRows, Kinds
    <2>3. RowsInv'
      BY <1>0, <2>1, CommitRows
    <2>4. \A u \in Turns : u # t => Steady(u)
      BY <1>0, <2>1, <2>2, EndSteady DEF Txn, Requests
    <2>5. Elsewhere(t) /\ todo'[t] = {}
      BY <1>0, <2>1 DEF TypeOK, Elsewhere, Txn, Requests
    <2>6. QED
      BY <1>0, <2>3, <2>4, <2>5, NothingPending, TurnKnowledge
  <1>5. QED
    BY <1>1, <1>2, <1>3, <1>4 DEF TurnStep

(* Every other step writes rows without setting a pointer, or commits or      *)
(* rolls back, and leaves the turns' locals alone.                            *)
LEMMA OtherPointers ==
    ASSUME TypeOK, RowsInv, TurnInv, NEW t \in Txn \ Turns,
           \/ UNCHANGED <<mem, draft, lock, next>>
           \/ Rollback(t) \/ \E rows \in SUBSET Entry : Commit(t, rows)
           \/ /\ UNCHANGED <<mem, next>>
              /\ \E m \in MemId : \E row :
                   /\ Visible(t, m) => /\ row \in Row
                                       /\ SameMemory(row, View(t, m))
                                       /\ row.by = View(t, m).by
                   /\ Update(t, m, row),
           \E x, y : /\ arg' = arg \/ arg' = [arg EXCEPT ![t] = x]
                     /\ todo' = todo \/ todo' = [todo EXCEPT ![t] = y]
    PROVE  RowsInv' /\ TurnInv'
  <1>1. Elsewhere(t)
    BY DEF TypeOK, Elsewhere, Txn, Requests
  <1>2. RowsInv' /\ \A u \in Turns : Steady(u)
    <2>1. CASE UNCHANGED <<mem, draft, lock, next>>
      BY <2>1, IdleRows
    <2>2. CASE Rollback(t) \/ \E rows \in SUBSET Entry : Commit(t, rows)
      BY <2>2, RollbackRows, CommitRows, EndSteady DEF Txn, Requests
    <2>3. ASSUME UNCHANGED <<mem, next>>,
                 NEW m \in MemId, NEW row,
                 Visible(t, m) => /\ row \in Row
                                  /\ SameMemory(row, View(t, m))
                                  /\ row.by = View(t, m).by,
                 Update(t, m, row)
          PROVE  RowsInv' /\ \A u \in Turns : Steady(u)
      BY <2>3, UpdateRows, UpdateSteady DEF Txn, Requests
    <2>4. QED
      BY <2>1, <2>2, <2>3
  <1>3. QED
    BY <1>1, <1>2, TurnKnowledge

LEMMA StatusWrite ==
    ASSUME TypeOK, NEW t \in Txn, NEW m \in MemId, Visible(t, m),
           NEW s \in Statuses \cup {"purged"}
    PROVE  LET row == [View(t, m) EXCEPT !.status = s] IN
             /\ row \in Row
             /\ SameMemory(row, View(t, m)) /\ row.by = View(t, m).by
  BY ViewType DEF Row, SameMemory

LEMMA UseWrite ==
    ASSUME TypeOK, NEW t \in Txn, NEW m \in MemId, Visible(t, m)
    PROVE  LET row == [View(t, m) EXCEPT !.used = at[t]] IN
             /\ row \in Row
             /\ SameMemory(row, View(t, m)) /\ row.by = View(t, m).by
  BY ViewType DEF TypeOK, Row, SameMemory

LEMMA CorrectionPointers ==
    ASSUME TypeOK, RowsInv, TurnInv, NEW t \in Feedbacks \cup Deletes,
           \/ BeginFeedback(t) \/ WriteFeedback(t) \/ FinishFeedback(t)
           \/ BeginDelete(t) \/ WriteDelete(t) \/ FinishDelete(t)
    PROVE  RowsInv' /\ TurnInv'
  <1>0. t \in Txn \ Turns
    BY KindsAssumption DEF Txn, Requests
  <1>1. ASSUME NEW left, Begin(t, left)
        PROVE  RowsInv' /\ TurnInv'
    <2>1. /\ UNCHANGED <<mem, draft, lock, next>>
          /\ \E x, y : /\ arg' = [arg EXCEPT ![t] = x]
                       /\ todo' = todo \/ todo' = [todo EXCEPT ![t] = y]
      BY <1>1 DEF Begin, Answer, Proceed, db
    <2>2. QED
      BY <1>0, <2>1, OtherPointers
  <1>2. ASSUME NEW s \in Statuses, NEW k, Write(t, s, k)
        PROVE  RowsInv' /\ TurnInv'
    <2>1. PICK m \in todo[t] :
            /\ Update(t, m, [View(t, m) EXCEPT !.status = s])
            /\ todo' = [todo EXCEPT ![t] = {}]
            /\ UNCHANGED <<mem, next, arg>>
      BY <1>2 DEF Write
    <2>2. m \in MemId /\ s \in Statuses \cup {"purged"}
      BY <1>0 DEF TypeOK
    <2>3. QED
      BY <1>0, <2>1, <2>2, StatusWrite, OtherPointers
  <1>3. ASSUME NEW answer, Finish(t, answer)
        PROVE  RowsInv' /\ TurnInv'
    <2>1. /\ Commit(t, {}) /\ {} \in SUBSET Entry
          /\ arg' = arg /\ todo' = [todo EXCEPT ![t] = {}]
      BY <1>3 DEF Finish, Close
    <2>2. QED
      BY <1>0, <2>1, OtherPointers
  <1>4. {"superseded", "deleted"} \subseteq Statuses
    BY DEF Statuses
  <1>5. QED
    BY <1>1, <1>2, <1>3, <1>4
       DEF BeginFeedback, WriteFeedback, FinishFeedback,
           BeginDelete, WriteDelete, FinishDelete

LEMMA JobPointers ==
    ASSUME TypeOK, RowsInv, TurnInv, NEW t \in Jobs,
           \/ BeginReweight(t) \/ Reweigh(t) \/ FinishJob(t)
           \/ BeginPurge(t) \/ Erase(t) \/ EraseFails(t)
    PROVE  RowsInv' /\ TurnInv'
  <1>0. t \in Txn \ Turns
    BY StoreAssumption DEF Txn, Requests
  <1>1. CASE BeginReweight(t) \/ BeginPurge(t)
    <2>1. /\ UNCHANGED <<mem, draft, lock, next, arg>>
          /\ \E y : todo' = [todo EXCEPT ![t] = y]
      BY <1>1 DEF BeginReweight, BeginPurge, db
    <2>2. QED
      BY <1>0, <2>1, OtherPointers
  <1>2. CASE Reweigh(t)
    <2>1. PICK m \in todo[t] :
            /\ todo' = [todo EXCEPT ![t] = @ \ {m}]
            /\ \/ Update(t, m, [View(t, m) EXCEPT !.status = "archived"])
               \/ Update(t, m, View(t, m))
            /\ UNCHANGED <<mem, next, arg>>
      BY <1>2 DEF Reweigh, Reweighed
    <2>2. m \in MemId /\ "archived" \in Statuses \cup {"purged"}
      BY <1>0 DEF TypeOK, Statuses
    <2>3. CASE Update(t, m, [View(t, m) EXCEPT !.status = "archived"])
      BY <1>0, <2>1, <2>2, <2>3, StatusWrite, OtherPointers
    <2>4. CASE Update(t, m, View(t, m))
      <3>1. Visible(t, m) => View(t, m) \in Row
        BY <1>0, <2>2, ViewType
      <3>2. SameMemory(View(t, m), View(t, m))
        BY DEF SameMemory
      <3>3. QED
        BY <1>0, <2>1, <2>2, <2>4, <3>1, <3>2, OtherPointers
    <2>5. QED
      BY <2>1, <2>3, <2>4
  <1>3. CASE FinishJob(t)
    <2>1. /\ Commit(t, {}) /\ {} \in SUBSET Entry
          /\ arg' = arg /\ todo' = [todo EXCEPT ![t] = {}]
      BY <1>3 DEF FinishJob, Close
    <2>2. QED
      BY <1>0, <2>1, OtherPointers
  <1>4. CASE Erase(t)
    <2>1. PICK m \in todo[t] :
            /\ Update(t, m, [View(t, m) EXCEPT !.status = "purged"])
            /\ todo' = [todo EXCEPT ![t] = @ \ {m}]
            /\ UNCHANGED <<mem, next, arg>>
      BY <1>4 DEF Erase
    <2>2. m \in MemId
      BY <1>0 DEF TypeOK
    <2>3. QED
      BY <1>0, <2>1, <2>2, StatusWrite, OtherPointers
  <1>5. CASE EraseFails(t)
    BY <1>0, <1>5, OtherPointers DEF EraseFails, Fail, Close
  <1>6. QED
    BY <1>1, <1>2, <1>3, <1>4, <1>5

LEMMA ReadPointers ==
    ASSUME TypeOK, RowsInv, TurnInv,
           NEW t \in Retrieves \cup Lists \cup Healths,
           \/ BeginRetrieve(t) \/ RetrieveStep(t) \/ ListMemories(t)
           \/ BeginHealth(t) \/ FinishHealth(t)
    PROVE  RowsInv' /\ TurnInv'
  <1>0. t \in Txn \ Turns
    BY KindsAssumption DEF Txn, Requests
  <1>1. CASE \/ BeginRetrieve(t) \/ ListMemories(t) \/ Rank(t)
             \/ KeywordSearch(t) \/ EntitySearch(t) \/ Respond(t)
             \/ BeginHealth(t) \/ FinishHealth(t)
    <2>1. /\ UNCHANGED <<mem, draft, lock, next, arg>>
          /\ \E y : todo' = todo \/ todo' = [todo EXCEPT ![t] = y]
      BY <1>1 DEF BeginRetrieve, ListMemories, Rank, KeywordSearch,
                  EntitySearch, Respond, BeginHealth, FinishHealth, db
    <2>2. QED
      BY <1>0, <2>1, OtherPointers
  <1>2. CASE Bump(t)
    <2>1. PICK m \in todo[t] :
            /\ Update(t, m, [View(t, m) EXCEPT !.used = at[t]])
            /\ todo' = [todo EXCEPT ![t] = @ \ {m}]
            /\ UNCHANGED <<mem, next, arg>>
      BY <1>2 DEF Bump
    <2>2. m \in MemId
      BY <1>0 DEF TypeOK
    <2>3. QED
      BY <1>0, <2>1, <2>2, UseWrite, OtherPointers
  <1>3. CASE FinishRetrieve(t)
    <2>1. /\ Commit(t, RetrieveRows(t))
          /\ arg' = arg /\ todo' = [todo EXCEPT ![t] = {}]
      BY <1>3 DEF FinishRetrieve, Close
    <2>2. RetrieveRows(t) \in SUBSET Entry
      BY <1>0, LogType DEF RetrieveRows, Kinds
    <2>3. QED
      BY <1>0, <2>1, <2>2, OtherPointers
  <1>4. QED
    BY <1>1, <1>2, <1>3 DEF RetrieveStep

LEMMA LossPointers ==
    ASSUME TypeOK, RowsInv, TurnInv, NEW t \in Txn,
           Victim(t) \/ Crash(t) \/ LoseAck(t)
    PROVE  RowsInv' /\ TurnInv'
  <1>1. arg' = [arg EXCEPT ![t] = NoArg] /\ todo' = [todo EXCEPT ![t] = {}]
    BY DEF Victim, Crash, LoseAck, Fail, Close
  <1>2. Rollback(t) \/ \E rows \in SUBSET Entry : Commit(t, rows)
    <2>1. TurnRows(t) \subseteq Entry /\ RetrieveRows(t) \subseteq Entry
      BY LogType DEF TurnRows, RetrieveRows, Kinds
    <2>2. QED
      BY <2>1 DEF Victim, Crash, LoseAck
  <1>3. RowsInv'
    BY <1>2, RollbackRows, CommitRows
  <1>4. \A u \in Turns : u # t => Steady(u)
    BY <1>2, EndSteady DEF Txn, Requests
  <1>5. Elsewhere(t) /\ todo'[t] = {}
    BY <1>1 DEF TypeOK, Elsewhere, Txn, Requests
  <1>6. QED
    BY <1>3, <1>4, <1>5, NothingPending, TurnKnowledge

(* The same holds of the uncommitted rows from which a commit takes its       *)
(* pointers, and of what a turn has read and has still to write: the          *)
(* invariant behind SupersessionSound is inductive, given the types.          *)
THEOREM PointersSound == Spec => []PointersInv
  <1>1. Init => TypeOK /\ PointersInv
    <2> SUFFICES ASSUME Init PROVE TypeOK /\ PointersInv
      OBVIOUS
    <2>1. TypeOK
      BY StoreAssumption
         DEF Init, StoreInit, TypeOK, MemId, Null, NoArg, ClosedStates, Replies
    <2>2. RowInv /\ CommittedPointerInv /\ DraftPointerInv
      BY DEF Init, StoreInit, RowInv, CommittedPointerInv, DraftPointerInv
    <2>3. TurnInv
      BY DEF Init, StoreInit, TurnInv, Pending, Txn, Requests
    <2>4. QED
      BY <2>1, <2>2, <2>3 DEF PointersInv
  <1>2. TypeOK /\ PointersInv /\ [Next]_vars => PointersInv'
    <2> SUFFICES ASSUME TypeOK, RowsInv, TurnInv, [Next]_vars
                 PROVE  RowsInv' /\ TurnInv'
      BY DEF PointersInv, RowsInv
    <2>1. ASSUME NEW t \in Txn, BeginRequest(t) PROVE RowsInv' /\ TurnInv'
      BY <2>1, TurnPointers, CorrectionPointers, ReadPointers DEF BeginRequest
    <2>2. ASSUME NEW t \in Txn, BeginJob(t) PROVE RowsInv' /\ TurnInv'
      BY <2>2, JobPointers DEF BeginJob, Jobs
    <2>3. ASSUME NEW t \in Txn, Advance(t) PROVE RowsInv' /\ TurnInv'
      BY <2>3, TurnPointers, CorrectionPointers, ReadPointers, JobPointers
         DEF Advance, Jobs
    <2>4. ASSUME NEW t \in Txn, Victim(t) \/ Crash(t) \/ LoseAck(t)
          PROVE  RowsInv' /\ TurnInv'
      BY <2>4, LossPointers
    <2>5. CASE Tick \/ UNCHANGED vars
      <3>1. UNCHANGED <<mem, draft, lock, next, arg, todo>>
        BY <2>5 DEF Tick, vars, db
      <3>2. RowsInv' /\ \A u \in Turns : Steady(u)
        BY <3>1, IdleRows
      <3>3. TurnInv'
        BY <3>1, <3>2, PendingStable DEF TurnInv
      <3>4. QED
        BY <3>2, <3>3
    <2>6. QED
      BY <2>1, <2>2, <2>3, <2>4, <2>5 DEF Next
  <1>3. QED
    BY <1>1, <1>2, TypeCorrect, PTL DEF Spec

(* The history of a subject is sound in every reachable state: a superseded   *)
(* memory names a later memory of the same tenant on the same subject with at *)
(* least its confidence.                                                      *)
THEOREM SupersessionSound == Spec => []SupersededByBetter
  <1>1. TypeOK /\ PointersInv => SupersededByBetter
    <2> SUFFICES ASSUME TypeOK, PointersInv, NEW m \in MemId,
                        Stored(mem[m]), mem[m].by # Null
                 PROVE  LET n == mem[m].by IN
                          /\ n > m
                          /\ mem[n] # Blank
                          /\ mem[n].tenant = mem[m].tenant
                          /\ <<mem[m].topic, mem[n].topic>> \in SameSubject
                          /\ mem[m].conf <= mem[n].conf
      BY DEF SupersededByBetter
    <2>1. mem[m] # Blank
      BY DEF Stored, Blank, Statuses
    <2>2. mem[m].by \in MemId
      BY <2>1 DEF TypeOK, Row
    <2>3. QED
      BY <2>1, <2>2 DEF PointersInv, CommittedPointerInv, Outranks
  <1>2. QED
    BY <1>1, TypeCorrect, PointersSound, PTL
=============================================================================
