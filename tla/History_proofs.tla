---------------------------- MODULE History_proofs ----------------------------
(* What statuses and audit rows say of each other, for every number of        *)
(* memories and sessions: HistoryInv is inductive, and with it the promises   *)
(* about deletion, about reading what was hidden, and about the audit log,    *)
(* and the refinement of module Promise.                                      *)
EXTENDS Pointers_proofs

(* More entries explain at least as much.                                     *)
LEMMA ExplainsMore ==
    ASSUME NEW log, NEW more, log \subseteq more, NEW m, NEW row, NEW same,
           same.turn = row.turn, same.status = row.status,
           Explains(log, m, row)
    PROVE  Explains(more, m, same)
  BY DEF Explains

(* A new status is explained by the entry logged with it.                     *)
LEMMA ExplainsStatus ==
    ASSUME NEW log, NEW more, log \subseteq more, NEW m, NEW row, NEW changed,
           changed.turn = row.turn, Explains(log, m, row),
           NEW t \in Txn,
           changed.status \in DOMAIN ActionOf =>
             Log(t, ActionOf[changed.status], m) \in more,
           changed.status = "purged" =>
             \E u \in Txn : Log(u, "marked", m) \in more
    PROVE  Explains(more, m, changed)
  BY DEF Explains

(* What a step of t leaves of the rows to every other session, and to the     *)
(* history of each memory.                                                    *)
RowsLast(t) ==
    \A m \in MemId :
        /\ mem[m] # Blank =>
             /\ mem'[m] # Blank /\ SameMemory(mem[m], mem'[m])
             /\ ~Is(m, "active") => mem'[m].status # "active"
        /\ Is(m, "purged") => mem'[m].status = "purged"
        /\ \A u \in Txn \ {t} :
             /\ lock'[m] = u <=> lock[m] = u
             /\ lock[m] = u => draft'[m] = draft[m]

(* A visible row under t's lock, or under nobody's, is its draft.             *)
LEMMA VisibleDraft ==
    ASSUME TypeOK, RowInv, WriterInv, NEW t \in Txn, NEW m \in MemId,
           Visible(t, m), Free(t, m)
    PROVE  /\ View(t, m) = draft[m] /\ draft[m] \in Row /\ draft[m] # Blank
           /\ draft[m].status \in Statuses
           /\ ~Is(m, "purged")
           /\ mem[m] = Blank => lock[m] = t /\ draft[m].turn = t
           /\ Trail(m) \subseteq journal \cup pend[t]
  <1>1. View(t, m) = draft[m]
    BY DEF Free, View, RowInv
  <1>2. draft[m] \in Row /\ draft[m].status \in Statuses
    BY <1>1, ViewType
  <1>3. draft[m] # Blank
    BY <1>2 DEF Row, Blank, Statuses
  <1>4. t # NoTxn
    BY StoreAssumption
  <1>5. lock[m] = NoTxn => mem[m] = draft[m]
    BY DEF RowInv
  <1>6. ~Is(m, "purged")
    <2>1. CASE lock[m] = NoTxn
      BY <1>2, <1>5, <2>1 DEF Is, Statuses
    <2>2. CASE lock[m] = t
      BY <1>4, <2>2 DEF WriterInv, Written
    <2>3. QED
      BY <2>1, <2>2 DEF Free
  <1>7. mem[m] = Blank => lock[m] = t /\ draft[m].turn = t
    BY <1>3, <1>4, <1>5 DEF Free, WriterInv, Written
  <1>8. Trail(m) \subseteq journal \cup pend[t]
    BY StoreAssumption DEF Free, Trail
  <1>9. QED
    BY <1>1, <1>2, <1>3, <1>6, <1>7, <1>8

(* A row no step touched stays recorded while entries are only added.         *)
LEMMA CommitStays ==
    ASSUME NEW k \in MemId, CommitRecorded(k), UNCHANGED mem,
           journal \subseteq journal'
    PROVE  CommitRecorded(k)'
  <1>1. mem[k] # Blank => Explains(journal', k, mem[k])
    BY ExplainsMore DEF CommitRecorded
  <1>2. QED
    BY <1>1 DEF CommitRecorded, Explains

LEMMA DraftStays ==
    ASSUME NEW k \in MemId, DraftRecorded(k),
           draft'[k] = draft[k], Trail(k) \subseteq Trail(k)',
           draft[k] # Blank /\ draft[k].by # Null =>
             draft'[draft[k].by].turn = draft[draft[k].by].turn
    PROVE  DraftRecorded(k)'
  <1>1. draft[k] # Blank => Explains(Trail(k)', k, draft[k])
    BY ExplainsMore DEF DraftRecorded
  <1>2. QED
    BY <1>1 DEF DraftRecorded, Explains

(* An UPDATE, with the entries logged beside it.                              *)
LEMMA UpdateHistory ==
    ASSUME TypeOK, RowInv, WriterInv, RecordInv,
           NEW t \in Txn, NEW m \in MemId, NEW row, NEW rows,
           Update(t, m, row), UNCHANGED <<mem, next, journal>>,
           pend' = [pend EXCEPT ![t] = @ \cup rows],
           Visible(t, m) =>
             /\ row \in Row /\ SameMemory(row, draft[m]) /\ Writes(t, m, row)
             /\ row.status = "active" => draft[m].status = "active"
             /\ Explains(journal \cup pend'[t], m, row)
             /\ row.by # Null =>
                  Log(draft[row.by].turn, "replaced", m)
                    \in journal \cup pend'[t]
    PROVE  WriterInv' /\ RecordInv' /\ RowsLast(t)
  <1>0. /\ t # NoTxn /\ draft \in [MemId -> Row \cup {Blank}]
        /\ lock \in [MemId -> Txn \cup {NoTxn}] /\ pend \in [Txn -> SUBSET Entry]
        /\ mem' = mem /\ journal' = journal
    BY StoreAssumption DEF TypeOK
  <1>1. \A u \in Txn : pend[u] \subseteq pend'[u]
    BY <1>0
  <1>2. \A k \in MemId : CommitRecorded(k)'
    BY <1>0, CommitStays DEF RecordInv
  <1>3. CASE ~Visible(t, m)
    <2>1. draft' = draft /\ lock' = lock
      BY <1>3 DEF Update
    <2>2. \A k \in MemId : Trail(k) \subseteq Trail(k)'
      BY <1>0, <1>1, <2>1 DEF Trail
    <2>3. \A k \in MemId : DraftRecorded(k)'
      BY <2>1, <2>2, DraftStays DEF RecordInv
    <2>4. WriterInv' /\ RowsLast(t)
      BY <1>0, <2>1
         DEF WriterInv, Written, Writes, Is, RowsLast, SameMemory
    <2>5. QED
      BY <1>2, <2>3, <2>4 DEF RecordInv
  <1>4. CASE Visible(t, m)
    <2>1. /\ Free(t, m)
          /\ draft' = [draft EXCEPT ![m] = row]
          /\ lock' = [lock EXCEPT ![m] = t]
      BY <1>4 DEF Update
    <2>2. /\ row \in Row /\ SameMemory(row, draft[m]) /\ Writes(t, m, row)
          /\ row.status = "active" => draft[m].status = "active"
          /\ Explains(journal \cup pend'[t], m, row)
          /\ row.by # Null =>
               Log(draft[row.by].turn, "replaced", m) \in journal \cup pend'[t]
      BY <1>4
    <2>3. /\ draft[m] # Blank /\ ~Is(m, "purged")
          /\ mem[m] = Blank => lock[m] = t /\ draft[m].turn = t
      BY <1>4, <2>1, VisibleDraft
    <2>4. row # Blank /\ row.turn = draft[m].turn
      BY <2>2 DEF Row, Blank, Statuses, SameMemory
    <2>5. draft'[m] = row /\ lock'[m] = t
      BY <1>0, <2>1
    <2>6. ASSUME NEW k \in MemId, k # m
          PROVE  draft'[k] = draft[k] /\ lock'[k] = lock[k]
      BY <1>0, <2>1, <2>6
    <2>7. WriterInv'
      <3> SUFFICES ASSUME NEW k \in MemId PROVE Written(k)'
        BY DEF WriterInv
      <3>1. CASE k = m
        <4>1. Writes(t, m, row)'
          BY <1>0, <2>2 DEF Writes, Is
        <4>2. QED
          BY <1>0, <2>2, <2>3, <2>4, <2>5, <3>1, <4>1
             DEF WriterInv, Written, Is, Writes
      <3>2. CASE k # m
        BY <1>0, <2>6, <3>2 DEF WriterInv, Written, Is, Writes
      <3>3. QED
        BY <3>1, <3>2
    <2>8. ASSUME NEW n \in MemId PROVE draft'[n].turn = draft[n].turn
      BY <2>4, <2>5, <2>6
    <2>9. ASSUME NEW k \in MemId PROVE DraftRecorded(k)'
      <3>1. CASE k = m
        <4>1. Trail(m)' = journal \cup pend'[t]
          BY <1>0, <2>5 DEF Trail
        <4>2. row.by # Null => row.by \in MemId
          BY <2>2 DEF Row
        <4>3. QED
          BY <2>2, <2>5, <2>8, <3>1, <4>1, <4>2 DEF DraftRecorded, Explains
      <3>2. CASE k # m
        <4>1. Trail(k) \subseteq Trail(k)'
          BY <1>0, <1>1, <2>6, <3>2 DEF Trail
        <4>2. draft[k] # Blank /\ draft[k].by # Null => draft[k].by \in MemId
          BY <1>0 DEF Row
        <4>3. QED
          BY <2>6, <2>8, <3>2, <4>1, <4>2, DraftStays DEF RecordInv
      <3>3. QED
        BY <3>1, <3>2
    <2>10. RowsLast(t)
      <3> SUFFICES ASSUME NEW k \in MemId, NEW u \in Txn \ {t}
                   PROVE  /\ lock'[k] = u <=> lock[k] = u
                          /\ lock[k] = u => draft'[k] = draft[k]
        BY <1>0 DEF RowsLast, SameMemory, Is
      <3>1. CASE k = m
        BY <2>1, <2>5, <3>1, StoreAssumption DEF Free
      <3>2. CASE k # m
        BY <2>6, <3>2
      <3>3. QED
        BY <3>1, <3>2
    <2>11. QED
      BY <1>2, <2>7, <2>9, <2>10 DEF RecordInv
  <1>5. QED
    BY <1>3, <1>4

(* A step that writes no row, with the entries it logs.                       *)
LEMMA NoRowHistory ==
    ASSUME TypeOK, WriterInv, RecordInv, NEW t \in Txn,
           UNCHANGED <<mem, draft, lock>>, journal \subseteq journal',
           \A u \in Txn : pend[u] \subseteq pend'[u]
    PROVE  WriterInv' /\ RecordInv' /\ RowsLast(t)
  <1>1. WriterInv' /\ RowsLast(t)
    BY DEF WriterInv, Written, Writes, Is, RowsLast, SameMemory
  <1>2. \A k \in MemId : Trail(k) \subseteq Trail(k)'
    BY DEF Trail
  <1>3. RecordInv'
    BY <1>2, CommitStays, DraftStays DEF RecordInv
  <1>4. QED
    BY <1>1, <1>3

(* An INSERT by a turn, with its decision and its audit row.                  *)
LEMMA InsertHistory ==
    ASSUME TypeOK, RowsInv, WriterInv, RecordInv, NEW t \in Turns,
           NEW row \in Row, row.turn = t, row.status = "active",
           row.by = Null, Log(t, "turn", Null) \in journal,
           Insert(t, row), UNCHANGED <<mem, journal>>,
           Append(t, {Log(t, "decision", next), Log(t, "stored", next)})
    PROVE  WriterInv' /\ RecordInv' /\ RowsLast(t)
  <1>0. /\ t \in Txn /\ t # NoTxn /\ mem' = mem /\ journal' = journal
        /\ lock \in [MemId -> Txn \cup {NoTxn}]
        /\ draft \in [MemId -> Row \cup {Blank}] /\ pend \in [Txn -> SUBSET Entry]
    BY StoreAssumption DEF TypeOK, Txn, Requests
  <1>1. /\ next \in MemId /\ draft'[next] = row /\ lock'[next] = t
        /\ \A k \in MemId \ {next} : draft'[k] = draft[k] /\ lock'[k] = lock[k]
    BY <1>0 DEF Insert
  <1>2. draft[next] = Blank /\ lock[next] = NoTxn /\ mem[next] = Blank
    BY <1>1 DEF RowsInv, RowInv, MemId
  <1>3. row # Blank
    BY DEF Row, Blank, Statuses
  <1>4. /\ \A u \in Txn : pend[u] \subseteq pend'[u]
        /\ {Log(t, "decision", next), Log(t, "stored", next)} \subseteq pend'[t]
    BY <1>0 DEF Append
  <1>5. WriterInv'
    <2> SUFFICES ASSUME NEW k \in MemId PROVE Written(k)'
      BY DEF WriterInv
    <2>1. CASE k = next
      BY <1>0, <1>1, <1>2, <1>3, <2>1 DEF Written, Is, Writes, Blank
    <2>2. CASE k # next
      BY <1>0, <1>1, <2>2 DEF WriterInv, Written, Is, Writes
    <2>3. QED
      BY <2>1, <2>2
  <1>6. ASSUME NEW k \in MemId PROVE DraftRecorded(k)'
    <2>1. CASE k = next
      <3>1. Trail(k)' = journal \cup pend'[t]
        BY <1>0, <1>1, <2>1 DEF Trail
      <3>2. row.status \notin DOMAIN ActionOf
        BY DEF ActionOf
      <3>3. Explains(journal \cup pend'[t], k, row)
        BY <1>4, <2>1, <3>2 DEF Explains
      <3>4. QED
        BY <1>1, <2>1, <3>1, <3>3 DEF DraftRecorded, Explains
    <2>2. CASE k # next
      <3>1. Trail(k) \subseteq Trail(k)'
        BY <1>0, <1>1, <1>4, <2>2 DEF Trail
      <3>2. ASSUME draft[k] # Blank, draft[k].by # Null
            PROVE  draft'[draft[k].by].turn = draft[draft[k].by].turn
        <4>1. draft[k].by \in MemId
          BY <1>0, <3>2 DEF Row
        <4>2. draft[draft[k].by] # Blank
          BY <3>2, <4>1 DEF RowsInv, DraftPointerInv
        <4>3. QED
          BY <1>1, <1>2, <4>1, <4>2
      <3>3. QED
        BY <1>1, <2>2, <3>1, <3>2, DraftStays DEF RecordInv
    <2>3. QED
      BY <2>1, <2>2
  <1>7. RowsLast(t)
    <2> SUFFICES ASSUME NEW k \in MemId, NEW u \in Txn \ {t}
                 PROVE  /\ lock'[k] = u <=> lock[k] = u
                        /\ lock[k] = u => draft'[k] = draft[k]
      BY <1>0 DEF RowsLast, SameMemory, Is
    <2>1. QED
      BY <1>1, <1>2, StoreAssumption
  <1>8. QED
    BY <1>0, <1>5, <1>6, <1>7, CommitStays DEF RecordInv

(* A COMMIT: the entries logged become the record of the rows published.  A   *)
(* turn's commit adds its metric, so that of its new memories is there too.   *)
LEMMA CommitHistory ==
    ASSUME TypeOK, RowsInv, WriterInv, RecordInv, NEW t \in Txn,
           NEW rows \in SUBSET Entry, Commit(t, rows),
           t \in Turns => Log(t, "metric", Null) \in rows
    PROVE  WriterInv' /\ RecordInv' /\ RowsLast(t)
  <1>0. /\ t # NoTxn /\ lock \in [MemId -> Txn \cup {NoTxn}]
        /\ draft \in [MemId -> Row \cup {Blank}]
        /\ mem \in [MemId -> Row \cup {Blank}]
        /\ pend \in [Txn -> SUBSET Entry]
    BY StoreAssumption DEF TypeOK
  <1>1. /\ \A m \in MemId :
              /\ mem'[m] = IF lock[m] = t THEN draft[m] ELSE mem[m]
              /\ lock'[m] = IF lock[m] = t THEN NoTxn ELSE lock[m]
        /\ draft' = draft
        /\ journal' = journal \cup pend[t] \cup rows
        /\ \A u \in Txn \ {t} : pend'[u] = pend[u]
    BY <1>0 DEF Commit, View, Appended
  <1>2. ASSUME NEW m \in MemId PROVE Trail(m) \subseteq Trail(m)'
    BY <1>0, <1>1, StoreAssumption DEF Trail
  <1>3. ASSUME NEW m \in MemId PROVE DraftRecorded(m)'
    BY <1>1, <1>2, DraftStays DEF RecordInv
  <1>4. \A m \in MemId :
          /\ mem[m] # Blank => mem'[m] # Blank /\ SameMemory(mem[m], mem'[m])
          /\ mem'[m] # Blank => draft[m] # Blank /\ SameMemory(mem'[m], draft[m])
    BY <1>1 DEF RowsInv, RowInv, SameMemory
  <1>5. ASSUME NEW m \in MemId, mem[m] # Blank, ~Is(m, "active")
        PROVE  mem'[m].status # "active"
    BY <1>1, <1>5 DEF WriterInv, Written, Is
  <1>6. WriterInv'
    <2> SUFFICES ASSUME NEW m \in MemId PROVE Written(m)'
      BY DEF WriterInv
    <2>1. CASE lock[m] = t
      BY <1>0, <1>1, <2>1 DEF Written, Is
    <2>2. CASE lock[m] # t
      BY <1>1, <2>2 DEF WriterInv, Written, Is, Writes
    <2>3. QED
      BY <2>1, <2>2
  <1>7. ASSUME NEW m \in MemId PROVE CommitRecorded(m)'
    <2>1. CASE lock[m] = t
      <3>1. /\ mem'[m] = draft[m] /\ draft[m] # Blank
            /\ Trail(m) \subseteq journal'
        BY <1>0, <1>1, <2>1 DEF Trail, WriterInv, Written
      <3>2. Explains(journal', m, mem'[m])
        BY <3>1, ExplainsMore DEF RecordInv, DraftRecorded
      <3>3. Log(mem'[m].turn, "metric", Null) \in journal'
        <4>1. CASE mem[m] = Blank
          <5>1. draft[m].turn = t /\ draft[m] \in Row
            BY <1>0, <2>1, <3>1, <4>1 DEF WriterInv, Written
          <5>2. t \in Turns
            BY <5>1 DEF Row
          <5>3. QED
            BY <1>1, <3>1, <5>1, <5>2
        <4>2. CASE mem[m] # Blank
          BY <1>1, <1>4, <4>2 DEF RecordInv, CommitRecorded, SameMemory
        <4>3. QED
          BY <4>1, <4>2
      <3>4. ASSUME mem'[m].by # Null
            PROVE  Log(mem'[mem'[m].by].turn, "replaced", m) \in journal'
        <4> DEFINE n == draft[m].by
        <4>1. n \in MemId
          BY <1>0, <3>1, <3>4 DEF Row
        <4>2. /\ draft[n] # Blank
              /\ mem[n] # Blank \/ lock[n] = t
          BY <2>1, <3>1, <4>1 DEF RowsInv, DraftPointerInv
        <4>3. mem'[n] # Blank
          BY <1>1, <1>4, <4>1, <4>2
        <4>4. mem'[n].turn = draft[n].turn
          BY <1>4, <4>1, <4>3 DEF SameMemory
        <4>5. Log(draft[n].turn, "replaced", m) \in Trail(m)
          BY <3>1, <3>4 DEF RecordInv, DraftRecorded
        <4>6. QED
          BY <3>1, <4>4, <4>5
      <3>5. QED
        BY <3>1, <3>2, <3>3, <3>4 DEF CommitRecorded, Explains
    <2>2. CASE lock[m] # t
      <3>1. mem'[m] = mem[m] /\ journal \subseteq journal'
        BY <1>1, <2>2
      <3>2. mem[m] # Blank => Explains(journal', m, mem[m])
        BY <3>1, ExplainsMore DEF RecordInv, CommitRecorded
      <3>3. ASSUME mem[m] # Blank, mem[m].by # Null
            PROVE  mem'[mem[m].by].turn = mem[mem[m].by].turn
        <4>1. mem[m].by \in MemId
          BY <1>0, <3>3 DEF Row
        <4>2. mem[mem[m].by] # Blank
          BY <3>3, <4>1 DEF RowsInv, CommittedPointerInv
        <4>3. QED
          BY <1>4, <4>1, <4>2 DEF SameMemory
      <3>4. QED
        BY <3>1, <3>2, <3>3 DEF RecordInv, CommitRecorded, Explains
    <2>3. QED
      BY <2>1, <2>2
  <1>8. RowsLast(t)
    <2>1. ASSUME NEW m \in MemId, Is(m, "purged")
          PROVE  mem'[m].status = "purged"
      <3>1. lock[m] # t
        BY <1>0, <2>1 DEF WriterInv, Written
      <3>2. QED
        BY <1>1, <2>1, <3>1 DEF Is
    <2>2. ASSUME NEW m \in MemId, NEW u \in Txn \ {t}
          PROVE  /\ lock'[m] = u <=> lock[m] = u
                 /\ lock[m] = u => draft'[m] = draft[m]
      BY <1>1, StoreAssumption
    <2>3. QED
      BY <1>4, <1>5, <2>1, <2>2 DEF RowsLast
  <1>9. QED
    BY <1>3, <1>6, <1>7, <1>8 DEF RecordInv

(* A ROLLBACK: what is left was recorded before.                              *)
LEMMA RollbackHistory ==
    ASSUME TypeOK, RowsInv, WriterInv, RecordInv, NEW t \in Txn, Rollback(t)
    PROVE  WriterInv' /\ RecordInv' /\ RowsLast(t)
  <1>0. /\ t # NoTxn /\ lock \in [MemId -> Txn \cup {NoTxn}]
        /\ mem \in [MemId -> Row \cup {Blank}]
        /\ draft \in [MemId -> Row \cup {Blank}]
        /\ pend \in [Txn -> SUBSET Entry]
    BY StoreAssumption DEF TypeOK
  <1>1. /\ \A m \in MemId :
              /\ draft'[m] = IF lock[m] = t THEN mem[m] ELSE draft[m]
              /\ lock'[m] = IF lock[m] = t THEN NoTxn ELSE lock[m]
        /\ mem' = mem /\ journal' = journal
        /\ \A u \in Txn \ {t} : pend'[u] = pend[u]
    BY <1>0 DEF Rollback
  <1>2. WriterInv'
    <2> SUFFICES ASSUME NEW m \in MemId PROVE Written(m)'
      BY DEF WriterInv
    <2>1. CASE lock[m] = t
      BY <1>0, <1>1, <2>1 DEF Written, Is
    <2>2. CASE lock[m] # t
      BY <1>1, <2>2 DEF WriterInv, Written, Is, Writes
    <2>3. QED
      BY <2>1, <2>2
  <1>3. ASSUME NEW m \in MemId PROVE CommitRecorded(m)'
    BY <1>1, CommitStays DEF RecordInv
  <1>4. ASSUME NEW n \in MemId, mem[n] # Blank \/ lock[n] # t
        PROVE  draft'[n].turn = draft[n].turn
    BY <1>1, <1>4 DEF RowsInv, RowInv, SameMemory
  <1>5. ASSUME NEW m \in MemId PROVE DraftRecorded(m)'
    <2>1. CASE lock[m] = t
      <3>1. draft'[m] = mem[m] /\ Trail(m)' = journal
        BY <1>0, <1>1, <2>1, StoreAssumption DEF Trail
      <3>2. ASSUME mem[m] # Blank, mem[m].by # Null
            PROVE  draft'[mem[m].by].turn = mem[mem[m].by].turn
        <4>1. mem[m].by \in MemId
          BY <1>0, <3>2 DEF Row
        <4>2. mem[mem[m].by] # Blank
          BY <3>2, <4>1 DEF RowsInv, CommittedPointerInv
        <4>3. draft'[mem[m].by].turn = draft[mem[m].by].turn
          BY <1>4, <4>1, <4>2
        <4>4. draft[mem[m].by].turn = mem[mem[m].by].turn
          BY <4>1, <4>2 DEF RowsInv, RowInv, SameMemory
        <4>5. QED
          BY <4>3, <4>4
      <3>3. QED
        BY <3>1, <3>2 DEF RecordInv, CommitRecorded, DraftRecorded, Explains
    <2>2. CASE lock[m] # t
      <3>1. draft'[m] = draft[m] /\ Trail(m) \subseteq Trail(m)'
        BY <1>0, <1>1, <2>2, StoreAssumption DEF Trail
      <3>2. ASSUME draft[m] # Blank, draft[m].by # Null
            PROVE  draft'[draft[m].by].turn = draft[draft[m].by].turn
        <4>1. draft[m].by \in MemId
          BY <1>0, <3>2 DEF Row
        <4>2. \/ mem[draft[m].by] # Blank
              \/ lock[m] # NoTxn /\ lock[draft[m].by] = lock[m]
          BY <3>2, <4>1 DEF RowsInv, DraftPointerInv
        <4>3. QED
          BY <1>4, <2>2, <4>1, <4>2
      <3>3. QED
        BY <3>1, <3>2, DraftStays DEF RecordInv
    <2>3. QED
      BY <2>1, <2>2
  <1>6. RowsLast(t)
    <2>1. ASSUME NEW m \in MemId, NEW u \in Txn \ {t}
          PROVE  /\ lock'[m] = u <=> lock[m] = u
                 /\ lock[m] = u => draft'[m] = draft[m]
      BY <1>1, StoreAssumption
    <2>2. QED
      BY <1>1, <2>1 DEF RowsLast, SameMemory, Is
  <1>7. QED
    BY <1>2, <1>3, <1>5, <1>6 DEF RecordInv
------------------------------------------------------------------------------
(* The other sessions.  What holds of them and of the rows they have read     *)
(* outlasts a step of t.                                                      *)
Good == TypeOK /\ PointersInv /\ HistoryInv

Others(t) ==
    \A u \in Txn \ {t} :
        /\ pc'[u] = pc[u] /\ todo'[u] = todo[u] /\ seen'[u] = seen[u]
        /\ arg'[u] = arg[u] /\ pend'[u] = pend[u]

Kept(t) == WriterInv' /\ RecordInv' /\ RowsLast(t) /\ SessionInv'

LEMMA GoodParts ==
    ASSUME Good
    PROVE  /\ TypeOK /\ RowsInv /\ RowInv /\ TurnInv
           /\ WriterInv /\ RecordInv /\ SessionInv
  BY DEF Good, PointersInv, HistoryInv, RowsInv

LEMMA SessionsLast ==
    ASSUME Good, NEW t \in Txn, RowsLast(t), journal \subseteq journal',
           Others(t), NEW u \in Txn \ {t}
    PROVE  Session(u)'
  <1>0. TypeOK /\ TurnInv /\ Session(u)
    BY GoodParts DEF SessionInv
  <1>1. /\ todo[u] \subseteq MemId /\ seen[u] \subseteq MemId
        /\ pc'[u] = pc[u] /\ todo'[u] = todo[u] /\ seen'[u] = seen[u]
        /\ arg'[u] = arg[u] /\ pend'[u] = pend[u]
    BY <1>0 DEF TypeOK, Others
  <1>2. \A m \in MemId :
          /\ lock'[m] = u <=> lock[m] = u
          /\ lock[m] = u => draft'[m] = draft[m]
          /\ mem[m] # Blank => mem'[m] # Blank /\ mem'[m].tenant = mem[m].tenant
          /\ mem[m] # Blank /\ ~Is(m, "active") => mem'[m].status # "active"
          /\ Is(m, "purged") => mem'[m].status = "purged"
    BY DEF RowsLast, SameMemory
  <1>3. pc'[u] = "idle" =>
          todo'[u] = {} /\ pend'[u] = {} /\ \A m \in MemId : lock'[m] # u
    BY <1>0, <1>1, <1>2 DEF Session
  <1>4. ASSUME u \in Turns PROVE OwnTurn(u)'
    <2>1. todo[u] # {} => arg[u].mem \in MemId /\ lock[arg[u].mem] = u
      BY <1>0, <1>4 DEF TurnInv, Pending
    <2>2. QED
      BY <1>0, <1>1, <1>2, <1>4, <2>1 DEF Session, OwnTurn, Log
  <1>5. ASSUME u \in Deletes PROVE OneDeletion(u)'
    BY <1>0, <1>1, <1>2, <1>5 DEF Session, OneDeletion, Is, Log
  <1>6. ASSUME u \in Purges PROVE Marked(u)'
    BY <1>0, <1>1, <1>2, <1>6 DEF Session, Marked, Is, Logged, Log
  <1>7. ASSUME u \in Requests PROVE OwnRows(u)'
    BY <1>0, <1>1, <1>2, <1>7 DEF Session, OwnRows, Owned
  <1>8. u \notin Deletes => \A e \in pend'[u] : e.kind # "marked"
    BY <1>0, <1>1 DEF Session
  <1>9. QED
    BY <1>3, <1>4, <1>5, <1>6, <1>7, <1>8 DEF Session

LEMMA StepKept ==
    ASSUME Good, NEW t \in Txn, WriterInv' /\ RecordInv' /\ RowsLast(t),
           journal \subseteq journal', Others(t), Session(t)'
    PROVE  Kept(t)
  BY SessionsLast DEF Kept, SessionInv

(* The rows a request reads are its own, and stay so.                         *)
LEMMA VisibleOwned ==
    ASSUME TypeOK, NEW t \in Requests, NEW m \in MemId, Visible(t, m)
    PROVE  Owned(t, m)
  <1>1. t \in Txn
    BY DEF Txn
  <1>2. View(t, m) # Blank
    BY <1>1, ViewType DEF Row, Blank, Statuses
  <1>3. QED
    BY <1>2 DEF Visible, View, Owned

LEMMA OwnedStays ==
    ASSUME RowsInv, NEW t, NEW m \in MemId, Owned(t, m), RowsLast(t),
           Steady(t) \/ \E rows : Commit(t, rows)
    PROVE  Owned(t, m)'
  <1>1. CASE mem[m] # Blank /\ mem[m].tenant = TenantOf[t]
    BY <1>1 DEF RowsLast, SameMemory, Owned
  <1>2. CASE lock[m] = t /\ draft[m] # Blank /\ draft[m].tenant = TenantOf[t]
    <2>1. CASE Steady(t)
      BY <1>2, <2>1 DEF Steady, SameMemory, Owned
    <2>2. CASE \E rows : Commit(t, rows)
      <3>1. mem'[m] = draft[m]
        BY <1>2, <2>2 DEF Commit, View
      <3>2. QED
        BY <1>2, <3>1 DEF Owned
    <2>3. QED
      BY <2>1, <2>2
  <1>3. QED
    BY <1>1, <1>2 DEF Owned

(* A step that changes no row, logs nothing, and reads no more than it may.   *)
LEMMA QuietKept ==
    ASSUME Good, NEW t \in Txn,
           UNCHANGED <<mem, draft, lock, pend>>, journal \subseteq journal',
           Others(t), pc'[t] # "idle",
           t \in Requests =>
             \A m \in seen'[t] \cup todo'[t] :
                 m \in seen[t] \cup todo[t] \/ (m \in MemId /\ Visible(t, m)),
           t \in Turns => OwnTurn(t)',
           t \in Deletes => OneDeletion(t)',
           t \in Purges => Marked(t)'
    PROVE  Kept(t)
  <1>0. TypeOK /\ RowsInv /\ WriterInv /\ RecordInv /\ Session(t)
    BY GoodParts DEF SessionInv
  <1>1. WriterInv' /\ RecordInv' /\ RowsLast(t)
    BY <1>0, NoRowHistory
  <1>2. t \in Requests => OwnRows(t)'
    BY <1>0, VisibleOwned DEF Session, OwnRows, Owned
  <1>3. t \notin Deletes => \A e \in pend'[t] : e.kind # "marked"
    BY <1>0 DEF Session
  <1>4. Session(t)'
    BY <1>2, <1>3 DEF Session
  <1>5. QED
    BY <1>0, <1>1, <1>4, StepKept

(* A session that commits or rolls back for the last time.                    *)
LEMMA EndKept ==
    ASSUME Good, NEW t \in Txn, Others(t),
           \/ /\ Rollback(t) /\ seen'[t] = {}
           \/ \E rows \in SUBSET Entry :
                /\ Commit(t, rows)
                /\ t \in Turns => Log(t, "metric", Null) \in rows,
           todo'[t] = {}, seen'[t] \subseteq seen[t],
           pc'[t] \notin {"accepted", "queued", "open"}
    PROVE  Kept(t)
  <1>0. TypeOK /\ RowsInv /\ WriterInv /\ RecordInv /\ Session(t)
    BY GoodParts DEF SessionInv
  <1>1. WriterInv' /\ RecordInv' /\ RowsLast(t)
    BY <1>0, CommitHistory, RollbackHistory
  <1>2. /\ pend'[t] = {} /\ \A m \in MemId : lock'[m] # t
        /\ journal \subseteq journal'
    BY <1>0, StoreAssumption DEF TypeOK, Commit, Rollback
  <1>3. ASSUME t \in Requests PROVE OwnRows(t)'
    <2>1. \A m \in seen[t] : m \in MemId /\ Owned(t, m)
      BY <1>0, <1>3 DEF TypeOK, Session, OwnRows
    <2>2. seen'[t] # {} => \E rows : Commit(t, rows)
      OBVIOUS
    <2>3. QED
      BY <1>0, <1>1, <2>1, <2>2, OwnedStays DEF OwnRows, Owned
  <1>4. Session(t)'
    BY <1>2, <1>3 DEF Session, OwnTurn, OneDeletion, Marked
  <1>5. QED
    BY <1>0, <1>1, <1>2, <1>4, StepKept

LEMMA TurnHistory ==
    ASSUME Good, NEW t \in Turns, Ingest(t) \/ TurnStep(t)
    PROVE  Kept(t)
  <1>0. /\ t \in Txn /\ t \in Requests /\ t \notin Deletes /\ t \notin Purges
        /\ TypeOK /\ RowsInv /\ RowInv /\ TurnInv /\ WriterInv /\ RecordInv
        /\ Session(t) /\ OwnTurn(t) /\ OwnRows(t) /\ Pending(t)
    <2>1. t \in Txn /\ t \in Requests
      BY DEF Txn, Requests
    <2>2. t \notin Deletes /\ t \notin Purges
      BY <2>1, KindsAssumption, StoreAssumption DEF Jobs
    <2>3. QED
      BY <2>1, <2>2, GoodParts DEF SessionInv, Session, TurnInv
  <1>1. CASE Ingest(t)
    <2>1. /\ UNCHANGED <<mem, draft, lock, pend, todo, seen, arg>>
          /\ \E s \in {"refused", "accepted"} : pc' = [pc EXCEPT ![t] = s]
      BY <1>1 DEF Ingest
    <2>2. journal \subseteq journal'
      BY <1>1 DEF Ingest
    <2>3. pc'[t] # "refused" => Log(t, "turn", Null) \in journal'
      BY <1>0, <1>1 DEF Ingest, TypeOK
    <2>4. Others(t) /\ pc'[t] \in {"refused", "accepted"}
      BY <1>0, <2>1 DEF Others, TypeOK
    <2>5. OwnTurn(t)'
      BY <1>0, <2>1, <2>3, <2>4 DEF OwnTurn, Log
    <2>6. QED
      BY <1>0, <2>1, <2>2, <2>4, <2>5, QuietKept
  <1>2. CASE AnswerIngest(t)
    <2>1. /\ UNCHANGED <<mem, draft, lock, journal, pend, todo, seen, arg>>
          /\ \/ pc[t] = "accepted" /\ pc' = [pc EXCEPT ![t] = "queued"]
             \/ pc' = [pc EXCEPT ![t] = "done"]
      BY <1>2 DEF AnswerIngest, db
    <2>2. Others(t) /\ (pc'[t] = "done" \/ pc[t] = "accepted")
          /\ pc'[t] \in {"done", "queued"}
      BY <1>0, <2>1 DEF Others, TypeOK
    <2>3. OwnTurn(t)'
      BY <1>0, <2>1, <2>2 DEF OwnTurn, Log
    <2>4. QED
      BY <1>0, <2>1, <2>2, <2>3, QuietKept
  <1>3. CASE StartTurn(t)
    <2>1. /\ UNCHANGED <<mem, draft, lock, pend, journal, todo, seen>>
          /\ Others(t) /\ pc[t] = "queued" /\ pc'[t] = "open"
          /\ arg'[t].mem = arg[t].mem
      BY <1>0, <1>3 DEF StartTurn, Others, TypeOK, db
    <2>2. OwnTurn(t)'
      BY <1>0, <2>1 DEF OwnTurn, Log
    <2>3. QED
      BY <1>0, <2>1, <2>2, QuietKept
  <1>4. CASE StoreCandidate(t)
    <2>1. PICK topic \in Topics, c \in Confs :
            /\ Insert(t, [tenant |-> TenantOf[t], topic |-> topic,
                          conf |-> Round[c], turn |-> t, status |-> "active",
                          by |-> Null, used |-> at[t]])
            /\ todo' = [todo EXCEPT ![t] =
                          Outranked(t, SameSubjectAs(t, topic), c)]
            /\ arg' = [arg EXCEPT ![t] =
                         [mem |-> next, conf |-> c, left |-> @.left - 1]]
            /\ Append(t, {Log(t, "decision", next), Log(t, "stored", next)})
      BY <1>4 DEF StoreCandidate
    <2> DEFINE row == [tenant |-> TenantOf[t], topic |-> topic,
                       conf |-> Round[c], turn |-> t, status |-> "active",
                       by |-> Null, used |-> at[t]]
    <2>2. row \in Row
      BY <1>0, StoreAssumption, RoundAssumption
         DEF TypeOK, Row, Statuses, Null
    <2>3. /\ UNCHANGED <<mem, journal, pc, seen>> /\ pc[t] = "open"
      BY <1>4 DEF StoreCandidate, NextCandidate
    <2>4. Log(t, "turn", Null) \in journal
      BY <1>0, <2>3 DEF OwnTurn
    <2>5. row.turn = t /\ row.status = "active" /\ row.by = Null
      OBVIOUS
    <2> HIDE DEF row
    <2>6. Insert(t, row)
      BY <2>1 DEF row
    <2>7. WriterInv' /\ RecordInv' /\ RowsLast(t)
      BY <1>0, <2>1, <2>2, <2>3, <2>4, <2>5, <2>6, InsertHistory
    <2>8. Others(t)
      BY <1>0, <2>1, <2>3 DEF Others, TypeOK, Append
    <2>9. Steady(t)
      BY <1>0, <2>3, <2>6, InsertSteady
    <2>10. OwnRows(t)'
      <3>1. \A m \in seen[t] : m \in MemId /\ Owned(t, m)
        BY <1>0 DEF TypeOK, OwnRows
      <3>2. \A m \in todo'[t] : m \in MemId /\ Owned(t, m)
        BY <1>0, <2>1, VisibleOwned
           DEF TypeOK, Outranked, SameSubjectAs, Select
      <3>3. QED
        BY <1>0, <2>3, <2>7, <2>9, <3>1, <3>2, OwnedStays DEF OwnRows
    <2>11. OwnTurn(t)'
      <3>1. arg'[t].mem = next /\ draft'[next] = row
        BY <1>0, <2>1, <2>6 DEF TypeOK, Insert
      <3>2. QED
        BY <2>3, <2>4, <2>5, <3>1 DEF OwnTurn, Log
    <2>12. \A e \in pend'[t] : e.kind # "marked"
      BY <1>0, <2>1 DEF TypeOK, Append, Log, Session
    <2>13. Session(t)'
      BY <1>0, <2>3, <2>10, <2>11, <2>12 DEF Session
    <2>14. QED
      BY <1>0, <2>3, <2>7, <2>8, <2>13, StepKept
  <1>5. CASE DropCandidate(t)
    <2>1. /\ UNCHANGED <<mem, draft, lock, journal, pc, todo, seen>>
          /\ pc[t] = "open" /\ todo[t] = {}
          /\ pend' = [pend EXCEPT ![t] = @ \cup
               {Log(t, "decision", Null), Log(t, "rejected", Null)}]
          /\ \A u \in Txn \ {t} : arg'[u] = arg[u]
      BY <1>0, <1>5 DEF DropCandidate, NextCandidate, Append, TypeOK
    <2>2. Others(t) /\ \A u \in Txn : pend[u] \subseteq pend'[u]
      BY <1>0, <2>1 DEF Others, TypeOK
    <2>3. WriterInv' /\ RecordInv' /\ RowsLast(t)
      BY <1>0, <2>1, <2>2, NoRowHistory
    <2>4. OwnTurn(t)' /\ OwnRows(t)'
      BY <1>0, <2>1 DEF OwnTurn, OwnRows, Owned, Log
    <2>5. \A e \in pend'[t] : e.kind # "marked"
      BY <1>0, <2>1 DEF TypeOK, Log, Session
    <2>6. Session(t)'
      BY <1>0, <2>1, <2>4, <2>5 DEF Session
    <2>7. QED
      BY <1>0, <2>1, <2>2, <2>3, <2>6, StepKept
  <1>6. CASE Supersede(t)
    <2>1. PICK m \in todo[t] :
            /\ Update(t, m, [View(t, m) EXCEPT !.status = "superseded",
                                               !.by = arg[t].mem])
            /\ todo' = [todo EXCEPT ![t] = @ \ {m}]
            /\ pend' = [pend EXCEPT ![t] = @ \cup {Log(t, "replaced", m)}]
      BY <1>6 DEF Supersede, Append
    <2> DEFINE n == arg[t].mem
               row == [View(t, m) EXCEPT !.status = "superseded", !.by = n]
    <2>2. UNCHANGED <<mem, next, journal, pc, seen, arg>> /\ pc[t] = "open"
      BY <1>6 DEF Supersede
    <2>3. m \in MemId /\ n \in MemId /\ draft[n].turn = t
      BY <1>0, <2>1 DEF TypeOK, Pending, OwnTurn
    <2>4. /\ pend[t] \subseteq pend'[t] /\ Log(t, "replaced", m) \in pend'[t]
          /\ Others(t)
      BY <1>0, <2>1, <2>2 DEF TypeOK, Others
    <2>5. ASSUME Visible(t, m)
          PROVE  /\ row \in Row /\ SameMemory(row, draft[m])
                 /\ row.status = "superseded" /\ row.by = n
                 /\ row.turn = draft[m].turn
                 /\ Explains(journal \cup pend'[t], m, row)
      <3>1. Free(t, m)
        BY <2>1 DEF Update
      <3>2. /\ View(t, m) = draft[m] /\ draft[m] \in Row
            /\ Trail(m) \subseteq journal \cup pend[t] /\ draft[m] # Blank
        BY <1>0, <2>3, <2>5, <3>1, VisibleDraft
      <3>3. /\ row \in Row /\ SameMemory(row, draft[m])
            /\ row.status = "superseded" /\ row.by = n
            /\ row.turn = draft[m].turn
        BY <2>3, <3>2 DEF Row, Statuses, SameMemory
      <3> HIDE DEF row
      <3>4. Explains(Trail(m), m, draft[m])
        BY <2>3, <1>0, <3>2 DEF RecordInv, DraftRecorded
      <3>5. Trail(m) \subseteq journal \cup pend'[t]
        BY <2>4, <3>2
      <3>6. Log(t, ActionOf[row.status], m) \in journal \cup pend'[t]
        BY <2>4, <3>3 DEF ActionOf
      <3>7. Explains(journal \cup pend'[t], m, row)
        BY <1>0, <3>3, <3>4, <3>5, <3>6, ExplainsStatus
      <3>8. QED
        BY <3>3, <3>7
    <2> HIDE DEF row, n
    <2>6. Update(t, m, row)
      BY <2>1 DEF row, n
    <2>7. Visible(t, m) =>
            /\ row \in Row /\ SameMemory(row, draft[m]) /\ Writes(t, m, row)
            /\ row.status = "active" => draft[m].status = "active"
            /\ Explains(journal \cup pend'[t], m, row)
            /\ row.by # Null =>
                 Log(draft[row.by].turn, "replaced", m) \in journal \cup pend'[t]
      BY <2>3, <2>4, <2>5 DEF Writes
    <2>8. WriterInv' /\ RecordInv' /\ RowsLast(t)
      BY <1>0, <2>1, <2>2, <2>3, <2>6, <2>7, UpdateHistory
    <2>9. Steady(t)
      <3>1. Visible(t, m) => row \in Row /\ SameMemory(row, View(t, m))
        <4>1. Visible(t, m) => View(t, m) = draft[m]
          BY <1>0, <2>3, <2>6, VisibleDraft DEF Update
        <4>2. QED
          BY <2>5, <4>1
      <3>2. QED
        BY <1>0, <2>2, <2>3, <2>6, <3>1, UpdateSteady
    <2>10. OwnRows(t)'
      <3>1. \A k \in seen[t] \cup todo[t] : k \in MemId /\ Owned(t, k)
        BY <1>0 DEF TypeOK, OwnRows
      <3>2. seen'[t] \cup todo'[t] \subseteq seen[t] \cup todo[t]
        BY <1>0, <2>1, <2>2 DEF TypeOK
      <3>3. QED
        BY <1>0, <2>8, <2>9, <3>1, <3>2, OwnedStays DEF OwnRows
    <2>11. OwnTurn(t)'
      <3>1. lock[n] = t /\ draft[n] # Blank
        BY <1>0, <2>1 DEF Pending, n
      <3>2. draft'[n].turn = t
        BY <2>3, <2>9, <3>1 DEF Steady, SameMemory
      <3>3. Log(t, "turn", Null) \in journal
        BY <1>0, <2>2 DEF OwnTurn
      <3>4. QED
        BY <2>2, <3>2, <3>3 DEF OwnTurn, Log, n
    <2>12. \A e \in pend'[t] : e.kind # "marked"
      BY <1>0, <2>1 DEF TypeOK, Log, Session
    <2>13. Session(t)'
      BY <1>0, <2>2, <2>10, <2>11, <2>12 DEF Session
    <2>14. QED
      BY <1>0, <2>2, <2>4, <2>8, <2>13, StepKept
  <1>7. CASE FinishTurn(t)
    <2>1. /\ Commit(t, TurnRows(t)) /\ Log(t, "metric", Null) \in TurnRows(t)
          /\ TurnRows(t) \subseteq Entry
      BY <1>0, <1>7, LogType DEF FinishTurn, TurnRows, Kinds
    <2>2. /\ Others(t) /\ todo'[t] = {} /\ seen' = seen /\ pc'[t] = "done"
      BY <1>0, <1>7 DEF FinishTurn, Close, Commit, Others, TypeOK
    <2>3. QED
      BY <1>0, <2>1, <2>2, EndKept
  <1>8. QED
    BY <1>1, <1>2, <1>3, <1>4, <1>5, <1>6, <1>7 DEF TurnStep

(* An UPDATE of the status alone, with the entry of that status.              *)
LEMMA StatusHistory ==
    ASSUME Good, NEW t \in Txn, NEW m \in MemId, NEW s \in DOMAIN ActionOf,
           Update(t, m, [View(t, m) EXCEPT !.status = s]),
           UNCHANGED <<mem, next, journal>>,
           pend' = [pend EXCEPT ![t] = @ \cup {Log(t, ActionOf[s], m)}],
           Writes(t, m, [status |-> s]),
           s = "purged" => Logged("marked", m)
    PROVE  WriterInv' /\ RecordInv' /\ RowsLast(t) /\ Steady(t)
  <1> DEFINE row == [View(t, m) EXCEPT !.status = s]
  <1>0. TypeOK /\ RowsInv /\ RowInv /\ WriterInv /\ RecordInv
    BY GoodParts
  <1>1. s \in Statuses \cup {"purged"} /\ s # "active"
    BY DEF ActionOf, Statuses
  <1>2. /\ pend[t] \subseteq pend'[t] /\ Log(t, ActionOf[s], m) \in pend'[t]
    BY <1>0 DEF TypeOK
  <1>3. ASSUME Visible(t, m)
        PROVE  /\ row \in Row /\ SameMemory(row, draft[m])
               /\ SameMemory(row, View(t, m))
               /\ row.status = s /\ row.by = draft[m].by
               /\ Explains(journal \cup pend'[t], m, row)
               /\ row.by # Null =>
                    Log(draft[row.by].turn, "replaced", m)
                      \in journal \cup pend'[t]
    <2>1. /\ View(t, m) = draft[m] /\ draft[m] # Blank /\ draft[m] \in Row
          /\ Trail(m) \subseteq journal \cup pend[t]
      BY <1>0, <1>3, VisibleDraft DEF Update
    <2>2. /\ row \in Row /\ SameMemory(row, View(t, m))
          /\ row.by = View(t, m).by /\ row.status = s
      <3>1. row.status = s
        BY <2>1 DEF Row
      <3>2. QED
        BY <1>0, <1>1, <1>3, <3>1, StatusWrite
    <2>3. row.turn = draft[m].turn
      BY <2>1, <2>2 DEF SameMemory
    <2> HIDE DEF row
    <2>4. /\ Explains(Trail(m), m, draft[m])
          /\ draft[m].by # Null =>
               Log(draft[draft[m].by].turn, "replaced", m) \in Trail(m)
      BY <1>0, <2>1 DEF RecordInv, DraftRecorded
    <2>5. Trail(m) \subseteq journal \cup pend'[t]
      BY <1>2, <2>1
    <2>6. row.status = "purged" =>
            \E u \in Txn : Log(u, "marked", m) \in journal \cup pend'[t]
      BY <2>2 DEF Logged
    <2>7. Explains(journal \cup pend'[t], m, row)
      BY <1>2, <2>2, <2>3, <2>4, <2>5, <2>6, ExplainsStatus
    <2>8. QED
      BY <2>1, <2>2, <2>4, <2>5, <2>7
  <1> HIDE DEF row
  <1>4. Update(t, m, row)
    BY DEF row
  <1>5. Visible(t, m) =>
          /\ row \in Row /\ SameMemory(row, draft[m]) /\ Writes(t, m, row)
          /\ row.status = "active" => draft[m].status = "active"
          /\ Explains(journal \cup pend'[t], m, row)
          /\ row.by # Null =>
               Log(draft[row.by].turn, "replaced", m) \in journal \cup pend'[t]
    BY <1>1, <1>3 DEF Writes
  <1>6. WriterInv' /\ RecordInv' /\ RowsLast(t)
    BY <1>0, <1>4, <1>5, UpdateHistory
  <1>7. Steady(t)
    BY <1>0, <1>3, <1>4, UpdateSteady
  <1>8. QED
    BY <1>6, <1>7

(* What a request that wrote one row knows of the rows it read.               *)
LEMMA OwnRowsKept ==
    ASSUME Good, NEW t \in Requests, RowsLast(t), Steady(t),
           seen'[t] \cup todo'[t] \subseteq seen[t] \cup todo[t]
    PROVE  OwnRows(t)'
  <1>1. TypeOK /\ RowsInv /\ t \in Txn /\ OwnRows(t)
    BY GoodParts DEF SessionInv, Session, Txn
  <1>2. \A k \in seen[t] \cup todo[t] : k \in MemId /\ Owned(t, k)
    BY <1>1 DEF TypeOK, OwnRows
  <1>3. QED
    BY <1>1, <1>2, OwnedStays DEF OwnRows

LEMMA CorrectionHistory ==
    ASSUME Good,
           NEW t \in Feedbacks \cup Deletes,
           \/ t \in Feedbacks /\ (BeginFeedback(t) \/ WriteFeedback(t) \/ FinishFeedback(t))
           \/ t \in Deletes /\ (BeginDelete(t) \/ WriteDelete(t) \/ FinishDelete(t))
    PROVE  Kept(t)
  <1>0. /\ t \in Txn /\ t \in Requests /\ t \notin Turns /\ t \notin Purges
        /\ (t \in Deletes => t \notin Feedbacks)
        /\ TypeOK /\ RowsInv /\ WriterInv /\ RecordInv /\ RowInv
        /\ Session(t) /\ (t \in Deletes => OneDeletion(t)) /\ OwnRows(t)
    <2>1. t \in Txn /\ t \in Requests
      BY DEF Txn, Requests
    <2>2. t \notin Turns /\ t \notin Purges /\ (t \in Deletes => t \notin Feedbacks)
      BY <2>1, KindsAssumption, StoreAssumption DEF Jobs
    <2>3. QED
      BY <2>1, <2>2, GoodParts DEF SessionInv, Session
  <1>1. ASSUME NEW left, Begin(t, left) PROVE Kept(t)
    <2>1. PICK m \in MemId :
            \/ \E a : Answer(t, m, a)
            \/ Visible(t, m) /\ Proceed(t, m)
      BY <1>1 DEF Begin
    <2>2. /\ pc[t] = "idle" /\ todo[t] = {} /\ pend[t] = {}
          /\ \A k \in MemId : lock[k] # t
      BY <1>0, <1>1 DEF Begin, Session
    <2>3. /\ UNCHANGED <<mem, draft, lock, pend, journal, seen>>
          /\ Others(t) /\ pc'[t] \in {"done", "open"} /\ arg'[t].mem = m
          /\ todo'[t] = {} \/ (todo'[t] = {m} /\ Visible(t, m))
      <3>1. CASE \E a : Answer(t, m, a)
        <4>1. /\ UNCHANGED <<mem, draft, lock, pend, journal, seen, todo>>
              /\ pc' = [pc EXCEPT ![t] = "done"]
              /\ arg' = [arg EXCEPT ![t].mem = m]
          BY <3>1 DEF Answer, db
        <4>2. QED
          BY <1>0, <2>2, <4>1 DEF Others, TypeOK
      <3>2. CASE Visible(t, m) /\ Proceed(t, m)
        BY <1>0, <2>2, <3>2 DEF Proceed, Others, TypeOK, db
      <3>3. QED
        BY <2>1, <3>1, <3>2
    <2>4. Visible(t, m) => mem[m] # Blank
      BY <2>2 DEF Visible, View, Stored, Blank, Statuses
    <2>5. OneDeletion(t)'
      BY <1>0, <2>2, <2>3, <2>4 DEF OneDeletion, Is, Log
    <2>6. QED
      BY <1>0, <2>3, <2>5, QuietKept
  <1>2. ASSUME NEW s \in DOMAIN ActionOf, Write(t, s, ActionOf[s]),
               \/ t \in Feedbacks /\ s = "superseded"
               \/ t \in Deletes /\ s = "deleted"
        PROVE  Kept(t)
    <2>1. PICK m \in todo[t] :
            /\ Update(t, m, [View(t, m) EXCEPT !.status = s])
            /\ todo' = [todo EXCEPT ![t] = {}]
            /\ pend' = [pend EXCEPT ![t] = @ \cup {Log(t, ActionOf[s], m)}]
      BY <1>2 DEF Write, Append
    <2>2. UNCHANGED <<mem, next, journal, pc, seen, arg>> /\ pc[t] = "open"
      BY <1>2 DEF Write
    <2>3. m \in MemId
      BY <1>0, <2>1 DEF TypeOK
    <2>4. Writes(t, m, [status |-> s])
      BY <1>2 DEF Writes
    <2>5. WriterInv' /\ RecordInv' /\ RowsLast(t) /\ Steady(t)
      BY <1>0, <1>2, <2>1, <2>2, <2>3, <2>4, StatusHistory
    <2>6. Others(t)
      BY <1>0, <2>1, <2>2 DEF Others, TypeOK
    <2>7. /\ todo'[t] = {} /\ pend'[t] = pend[t] \cup {Log(t, ActionOf[s], m)}
          /\ pc'[t] = "open" /\ seen'[t] = seen[t] /\ arg'[t] = arg[t]
      BY <1>0, <2>1, <2>2 DEF TypeOK
    <2>8. OwnRows(t)'
      BY <1>0, <2>5, <2>7, OwnRowsKept
    <2>9. ASSUME t \in Deletes PROVE OneDeletion(t)'
      <3>1. s = "deleted" /\ ActionOf[s] = "marked" /\ m = arg[t].mem
        BY <1>0, <1>2, <2>1, <2>9 DEF OneDeletion, ActionOf
      <3>2. mem[m] # Blank /\ mem[m].tenant = TenantOf[t]
        <4>1. mem[m] # Blank
          BY <1>0, <2>1, <2>9, <3>1 DEF OneDeletion
        <4>2. Owned(t, m)
          BY <1>0, <2>1 DEF OwnRows
        <4>3. lock[m] = t => SameMemory(mem[m], draft[m])
          BY <1>0, <2>3, <4>1 DEF RowInv
        <4>4. QED
          BY <4>1, <4>2, <4>3 DEF Owned, SameMemory
      <3>3. lock'[m] = t \/ Is(m, "purged")
        <4>1. CASE Visible(t, m)
          BY <1>0, <2>1, <2>3, <4>1 DEF Update, TypeOK
        <4>2. CASE ~Visible(t, m)
          <5>1. lock[m] = t \/ ~Stored(mem[m])
            BY <3>2, <4>2 DEF Visible, View
          <5>2. mem[m] \in Row
            BY <1>0, <2>3, <3>2 DEF TypeOK
          <5>3. ~Stored(mem[m]) => Is(m, "purged")
            BY <5>2 DEF Stored, Row, Is
          <5>4. lock[m] = t => lock'[m] = t
            BY <2>3, <2>5 DEF Steady
          <5>5. QED
            BY <5>1, <5>3, <5>4
        <4>3. QED
          BY <4>1, <4>2
      <3>4. \A k \in MemId : lock'[k] = t => k = m
        <4>1. \A k \in MemId : lock[k] = t => k = m
          BY <1>0, <2>9, <3>1 DEF OneDeletion
        <4>2. \A k \in MemId \ {m} : lock'[k] = lock[k]
          BY <1>0, <2>1 DEF Update, TypeOK
        <4>3. QED
          BY <4>1, <4>2
      <3>5. pend'[t] \subseteq {Log(t, "marked", m)}
        BY <1>0, <2>7, <2>9, <3>1 DEF OneDeletion
      <3>6. QED
        BY <2>2, <2>3, <2>7, <3>1, <3>2, <3>3, <3>4, <3>5
           DEF OneDeletion, Is, Log
    <2>10. t \notin Deletes => \A e \in pend'[t] : e.kind # "marked"
      BY <1>0, <1>2, <2>7 DEF Session, Log, ActionOf
    <2>11. Session(t)'
      BY <1>0, <2>7, <2>8, <2>9, <2>10 DEF Session
    <2>12. QED
      BY <1>0, <2>2, <2>5, <2>6, <2>11, StepKept
  <1>3. ASSUME NEW answer, Finish(t, answer) PROVE Kept(t)
    <2>1. Commit(t, {}) /\ {} \in SUBSET Entry
      BY <1>3 DEF Finish
    <2>2. Others(t) /\ todo'[t] = {} /\ seen' = seen /\ pc'[t] = "done"
      BY <1>0, <1>3 DEF Finish, Close, Commit, Others, TypeOK
    <2>3. QED
      BY <1>0, <2>1, <2>2, EndKept
  <1>4. CASE t \in Feedbacks /\ WriteFeedback(t)
    <2>1. /\ "superseded" \in DOMAIN ActionOf /\ ActionOf["superseded"] = "replaced"
      BY DEF ActionOf
    <2>2. QED
      BY <1>2, <1>4, <2>1 DEF WriteFeedback
  <1>5. CASE t \in Deletes /\ WriteDelete(t)
    <2>1. /\ "deleted" \in DOMAIN ActionOf /\ ActionOf["deleted"] = "marked"
      BY DEF ActionOf
    <2>2. QED
      BY <1>2, <1>5, <2>1 DEF WriteDelete
  <1>6. QED
    BY <1>1, <1>3, <1>4, <1>5
       DEF BeginFeedback, FinishFeedback, BeginDelete, FinishDelete

(* An UPDATE that leaves the status alone and logs nothing.                   *)
LEMMA SameStatusHistory ==
    ASSUME Good, NEW t \in Reweights \cup Retrieves, NEW m \in MemId, NEW row,
           Update(t, m, row), UNCHANGED <<mem, next, journal, pend>>,
           Visible(t, m) => /\ row \in Row /\ SameMemory(row, View(t, m))
                            /\ row.by = View(t, m).by
                            /\ row.status = View(t, m).status
    PROVE  WriterInv' /\ RecordInv' /\ RowsLast(t) /\ Steady(t)
  <1>0. /\ TypeOK /\ RowsInv /\ RowInv /\ WriterInv /\ RecordInv /\ t \in Txn
        /\ t \in Reweights =>
             t \notin Turns \cup Feedbacks \cup Deletes \cup Retrieves \cup Purges
        /\ t \in Retrieves =>
             t \notin Turns \cup Feedbacks \cup Deletes \cup Reweights \cup Purges
    BY GoodParts, KindsAssumption, StoreAssumption DEF Txn, Requests, Jobs
  <1>1. pend' = [pend EXCEPT ![t] = @ \cup {}] /\ pend'[t] = pend[t]
    BY <1>0 DEF TypeOK
  <1>2. ASSUME Visible(t, m)
        PROVE  /\ row \in Row /\ SameMemory(row, draft[m]) /\ Writes(t, m, row)
               /\ row.status = "active" => draft[m].status = "active"
               /\ Explains(journal \cup pend'[t], m, row)
               /\ row.by # Null =>
                    Log(draft[row.by].turn, "replaced", m)
                      \in journal \cup pend'[t]
    <2>1. /\ View(t, m) = draft[m] /\ draft[m] # Blank
          /\ Trail(m) \subseteq journal \cup pend[t]
          /\ Free(t, m)
      BY <1>0, <1>2, VisibleDraft DEF Update
    <2>2. /\ row \in Row /\ SameMemory(row, draft[m])
          /\ row.by = draft[m].by /\ row.status = draft[m].status
          /\ row.turn = draft[m].turn
      BY <1>2, <2>1 DEF SameMemory
    <2>3. Writes(t, m, row)
      <3>1. CASE lock[m] = NoTxn
        BY <1>0, <2>2, <3>1 DEF RowInv, Writes
      <3>2. CASE lock[m] = t
        <4>1. Writes(t, m, draft[m])
          BY <1>0, <3>2, StoreAssumption DEF WriterInv, Written
        <4>2. QED
          BY <1>0, <2>2, <4>1 DEF Writes
      <3>3. QED
        BY <2>1, <3>1, <3>2 DEF Free
    <2>4. /\ Explains(Trail(m), m, draft[m])
          /\ draft[m].by # Null =>
               Log(draft[draft[m].by].turn, "replaced", m) \in Trail(m)
      BY <1>0, <2>1 DEF RecordInv, DraftRecorded
    <2>5. Explains(journal \cup pend'[t], m, row)
      BY <1>1, <2>1, <2>2, <2>4, ExplainsMore
    <2>6. QED
      BY <1>1, <2>1, <2>2, <2>3, <2>4, <2>5
  <1>3. WriterInv' /\ RecordInv' /\ RowsLast(t)
    BY <1>0, <1>1, <1>2, UpdateHistory
  <1>4. Steady(t)
    BY <1>0, UpdateSteady
  <1>5. QED
    BY <1>3, <1>4

LEMMA JobHistory ==
    ASSUME Good,
           NEW t \in Jobs,
           \/ t \in Reweights /\ (BeginReweight(t) \/ Reweigh(t) \/ FinishJob(t))
           \/ t \in Purges /\ (BeginPurge(t) \/ Erase(t) \/ EraseFails(t) \/ FinishJob(t))
    PROVE  Kept(t)
  <1>0. /\ t \in Txn /\ t \notin Requests /\ t \notin Turns /\ t \notin Deletes
        /\ (t \in Reweights => t \notin Purges)
        /\ TypeOK /\ RowsInv /\ WriterInv /\ RecordInv /\ Session(t)
        /\ (t \in Purges => Marked(t))
    <2>1. t \in Txn /\ t \notin Requests
      BY StoreAssumption DEF Txn
    <2>2. /\ t \notin Turns /\ t \notin Deletes
          /\ (t \in Reweights => t \notin Purges)
      BY <2>1, KindsAssumption DEF Requests
    <2>3. QED
      BY <2>1, <2>2, GoodParts DEF SessionInv, Session
  <1>1. CASE t \in Reweights /\ BeginReweight(t)
    <2>1. /\ UNCHANGED <<mem, draft, lock, pend, journal>>
          /\ Others(t) /\ pc'[t] = "open"
      BY <1>0, <1>1 DEF BeginReweight, Others, TypeOK, db
    <2>2. QED
      BY <1>0, <1>1, <2>1, QuietKept
  <1>2. CASE t \in Purges /\ BeginPurge(t)
    <2>1. /\ UNCHANGED <<mem, draft, lock, pend, journal>>
          /\ Others(t) /\ pc'[t] = "open" /\ todo'[t] = Select(t, "deleted")
          /\ pc[t] = "idle"
      BY <1>0, <1>2 DEF BeginPurge, Purgeable, Others, TypeOK, db
    <2>2. Marked(t)'
      <3> SUFFICES ASSUME NEW m \in todo'[t]
                   PROVE  /\ mem[m] # Blank /\ ~Is(m, "active")
                          /\ Logged("marked", m)
        BY <2>1 DEF Marked, Is, Logged
      <3>1. m \in MemId /\ View(t, m).status = "deleted" /\ lock[m] # t
        BY <1>0, <2>1 DEF Select, Session
      <3>2. mem[m].status = "deleted"
        BY <3>1 DEF View
      <3>3. mem[m] # Blank
        BY <3>2 DEF Blank
      <3>4. Explains(journal, m, mem[m])
        BY <1>0, <3>1, <3>3 DEF RecordInv, CommitRecorded
      <3>5. Logged("marked", m)
        BY <3>2, <3>4 DEF Explains, ActionOf, Logged
      <3>6. QED
        BY <3>2, <3>3, <3>5 DEF Is
    <2>3. QED
      BY <1>0, <2>1, <2>2, QuietKept
  <1>3. CASE t \in Reweights /\ Reweigh(t)
    <2>1. PICK m \in todo[t] :
            /\ todo' = [todo EXCEPT ![t] = @ \ {m}]
            /\ \/ /\ Update(t, m, [View(t, m) EXCEPT !.status = "archived"])
                  /\ Append(t, {Log(t, "archived", m)})
               \/ Update(t, m, View(t, m)) /\ UNCHANGED pend
      BY <1>3 DEF Reweigh, Reweighed
    <2>2. /\ UNCHANGED <<mem, next, journal, pc, seen, arg>> /\ pc[t] = "open"
          /\ m \in MemId
      BY <1>0, <1>3, <2>1 DEF Reweigh, TypeOK
    <2>3. /\ WriterInv' /\ RecordInv' /\ RowsLast(t)
          /\ \A u \in Txn \ {t} : pend'[u] = pend[u]
          /\ \A e \in pend'[t] : e.kind # "marked"
      <3>1. CASE /\ Update(t, m, [View(t, m) EXCEPT !.status = "archived"])
                 /\ Append(t, {Log(t, "archived", m)})
        <4>1. /\ "archived" \in DOMAIN ActionOf /\ ActionOf["archived"] = "archived"
              /\ Writes(t, m, [status |-> "archived"])
          BY <1>3 DEF ActionOf, Writes
        <4>2. pend' = [pend EXCEPT ![t] = @ \cup {Log(t, "archived", m)}]
          BY <3>1 DEF Append
        <4>3. WriterInv' /\ RecordInv' /\ RowsLast(t)
          BY <1>0, <2>2, <3>1, <4>1, <4>2, StatusHistory
        <4>4. QED
          BY <1>0, <4>2, <4>3 DEF TypeOK, Session, Log
      <3>2. CASE Update(t, m, View(t, m)) /\ UNCHANGED pend
        <4>1. Visible(t, m) => View(t, m) \in Row
          BY <1>0, <2>2, ViewType
        <4>2. SameMemory(View(t, m), View(t, m))
          BY DEF SameMemory
        <4>3. WriterInv' /\ RecordInv' /\ RowsLast(t)
          BY <1>3, <2>2, <3>2, <4>1, <4>2, SameStatusHistory
        <4>4. QED
          BY <1>0, <3>2, <4>3 DEF Session
      <3>3. QED
        BY <2>1, <3>1, <3>2
    <2>4. Others(t) /\ Session(t)'
      BY <1>0, <1>3, <2>1, <2>2, <2>3 DEF Others, Session, TypeOK
    <2>5. QED
      BY <1>0, <2>2, <2>3, <2>4, StepKept
  <1>4. CASE t \in Purges /\ Erase(t)
    <2>1. PICK m \in todo[t] :
            /\ Update(t, m, [View(t, m) EXCEPT !.status = "purged"])
            /\ todo' = [todo EXCEPT ![t] = @ \ {m}]
            /\ pend' = [pend EXCEPT ![t] = @ \cup {Log(t, "erased", m)}]
      BY <1>4 DEF Erase, Append
    <2>2. /\ UNCHANGED <<mem, next, journal, pc, seen, arg>> /\ pc[t] = "open"
          /\ m \in MemId /\ Logged("marked", m) /\ ~Is(m, "active")
      BY <1>0, <1>4, <2>1 DEF Erase, TypeOK, Marked
    <2>3. /\ "purged" \in DOMAIN ActionOf /\ ActionOf["purged"] = "erased"
          /\ Writes(t, m, [status |-> "purged"])
      BY <1>4, <2>2 DEF ActionOf, Writes
    <2>4. WriterInv' /\ RecordInv' /\ RowsLast(t)
      BY <1>0, <2>1, <2>2, <2>3, StatusHistory
    <2>5. Others(t)
      BY <1>0, <2>1, <2>2 DEF Others, TypeOK
    <2>6. Marked(t)'
      <3>1. todo'[t] \subseteq todo[t] /\ mem' = mem /\ journal' = journal
        BY <1>0, <2>1, <2>2 DEF TypeOK
      <3>2. QED
        BY <1>0, <1>4, <3>1 DEF Marked, Is, Logged
    <2>7. \A e \in pend'[t] : e.kind # "marked"
      BY <1>0, <2>1 DEF TypeOK, Session, Log
    <2>8. Session(t)'
      BY <1>0, <2>2, <2>6, <2>7 DEF Session
    <2>9. QED
      BY <1>0, <2>2, <2>4, <2>5, <2>8, StepKept
  <1>5. CASE FinishJob(t)
    <2>1. Commit(t, {}) /\ {} \in SUBSET Entry
      BY <1>5 DEF FinishJob
    <2>2. Others(t) /\ todo'[t] = {} /\ seen'[t] = {} /\ pc'[t] = "idle"
      BY <1>0, <1>5 DEF FinishJob, Close, Commit, Others, TypeOK
    <2>3. QED
      BY <1>0, <2>1, <2>2, EndKept
  <1>6. CASE EraseFails(t)
    <2>1. Rollback(t) /\ Others(t) /\ todo'[t] = {} /\ seen'[t] = {}
      BY <1>0, <1>6 DEF EraseFails, Fail, Close, Rollback, Others, TypeOK
    <2>2. pc'[t] = "idle"
      BY <1>0, <1>6 DEF EraseFails, Fail, Close, TypeOK
    <2>3. QED
      BY <1>0, <2>1, <2>2, EndKept
  <1>7. QED
    BY <1>1, <1>2, <1>3, <1>4, <1>5, <1>6

LEMMA ReadHistory ==
    ASSUME Good,
           NEW t \in Retrieves \cup Lists \cup Healths,
           \/ t \in Retrieves /\ (BeginRetrieve(t) \/ RetrieveStep(t))
           \/ t \in Lists /\ ListMemories(t)
           \/ t \in Healths /\ (BeginHealth(t) \/ FinishHealth(t))
    PROVE  Kept(t)
  <1>0. /\ t \in Txn /\ t \in Requests
        /\ t \notin Turns /\ t \notin Deletes /\ t \notin Purges
        /\ TypeOK /\ RowsInv /\ WriterInv /\ RecordInv /\ Session(t)
    <2>1. t \in Txn /\ t \in Requests
      BY DEF Txn, Requests
    <2>2. t \notin Turns /\ t \notin Deletes /\ t \notin Purges
      BY <2>1, KindsAssumption, StoreAssumption DEF Jobs
    <2>3. QED
      BY <2>1, <2>2, GoodParts DEF SessionInv
  <1>1. ASSUME NEW from, NEW to, to # "idle", Search(t, from, to),
               UNCHANGED <<mem, draft, lock, pend, journal, todo, arg>>
        PROVE  Kept(t)
    <2>1. /\ Others(t) /\ pc'[t] # "idle"
          /\ seen'[t] = seen[t] \cup Select(t, "active") /\ todo'[t] = todo[t]
      BY <1>0, <1>1 DEF Search, Readable, Others, TypeOK
    <2>2. \A m \in seen'[t] \cup todo'[t] :
            m \in seen[t] \cup todo[t] \/ (m \in MemId /\ Visible(t, m))
      BY <2>1 DEF Select
    <2>3. QED
      BY <1>0, <1>1, <2>1, <2>2, QuietKept
  <1>2. CASE BeginRetrieve(t) \/ KeywordSearch(t) \/ EntitySearch(t)
               \/ ListMemories(t)
    <2>1. /\ \E from, to \in {"idle", "keyword", "entity", "rank", "done"} :
                to # "idle" /\ Search(t, from, to)
          /\ UNCHANGED <<mem, draft, lock, pend, journal, todo, arg>>
      BY <1>2 DEF BeginRetrieve, KeywordSearch, EntitySearch, ListMemories, db
    <2>2. QED
      BY <1>1, <2>1
  <1>3. CASE Rank(t)
    <2>1. /\ UNCHANGED <<mem, draft, lock, pend, journal>>
          /\ Others(t) /\ pc'[t] = "bump"
          /\ seen'[t] \subseteq seen[t] /\ todo'[t] \subseteq seen[t]
      BY <1>0, <1>3 DEF Rank, Others, TypeOK, db
    <2>2. QED
      BY <1>0, <2>1, QuietKept
  <1>4. CASE Bump(t) /\ t \in Retrieves
    <2>1. PICK m \in todo[t] :
            /\ Update(t, m, [View(t, m) EXCEPT !.used = at[t]])
            /\ todo' = [todo EXCEPT ![t] = @ \ {m}]
      BY <1>4 DEF Bump
    <2>2. /\ UNCHANGED <<mem, next, journal, pend, pc, seen, arg>>
          /\ pc[t] = "bump" /\ m \in MemId
      BY <1>0, <1>4, <2>1 DEF Bump, TypeOK
    <2>3. Visible(t, m) =>
            /\ [View(t, m) EXCEPT !.used = at[t]].status = View(t, m).status
      BY <1>0, <2>2, ViewType DEF Row
    <2>4. WriterInv' /\ RecordInv' /\ RowsLast(t) /\ Steady(t)
      BY <1>0, <1>4, <2>1, <2>2, <2>3, UseWrite, SameStatusHistory
    <2>5. Others(t)
      BY <1>0, <2>1, <2>2 DEF Others, TypeOK
    <2>6. OwnRows(t)'
      <3>1. seen'[t] \cup todo'[t] \subseteq seen[t] \cup todo[t]
        BY <1>0, <2>1, <2>2 DEF TypeOK
      <3>2. QED
        BY <1>0, <2>4, <3>1, OwnRowsKept
    <2>7. Session(t)'
      BY <1>0, <2>2, <2>6 DEF Session
    <2>8. QED
      BY <1>0, <2>2, <2>4, <2>5, <2>7, StepKept
  <1>5. CASE FinishRetrieve(t)
    <2>1. Commit(t, RetrieveRows(t)) /\ RetrieveRows(t) \in SUBSET Entry
      BY <1>0, <1>5, LogType DEF FinishRetrieve, RetrieveRows, Kinds
    <2>2. Others(t) /\ todo'[t] = {} /\ seen' = seen /\ pc'[t] = "answer"
      BY <1>0, <1>5 DEF FinishRetrieve, Close, Commit, Others, TypeOK
    <2>3. QED
      BY <1>0, <2>1, <2>2, EndKept
  <1>6. CASE Respond(t) \/ BeginHealth(t) \/ FinishHealth(t)
    <2>1. /\ UNCHANGED <<mem, draft, lock, pend, journal, seen, todo, arg>>
          /\ \E s \in {"done", "counting"} : pc' = [pc EXCEPT ![t] = s]
      BY <1>6 DEF Respond, BeginHealth, FinishHealth, db
    <2>2. Others(t) /\ pc'[t] # "idle"
      BY <1>0, <2>1 DEF Others, TypeOK
    <2>3. QED
      BY <1>0, <2>1, <2>2, QuietKept
  <1>7. QED
    BY <1>2, <1>3, <1>4, <1>5, <1>6 DEF RetrieveStep

LEMMA LossHistory ==
    ASSUME Good, NEW t \in Txn, Victim(t) \/ Crash(t) \/ LoseAck(t)
    PROVE  Kept(t)
  <1>0. TypeOK
    BY GoodParts
  <1>1. /\ \/ Rollback(t)
           \/ \E rows \in SUBSET Entry :
                /\ Commit(t, rows)
                /\ t \in Turns => Log(t, "metric", Null) \in rows
        /\ \E error : Fail(t, error)
    <2>1. /\ TurnRows(t) \subseteq Entry /\ RetrieveRows(t) \subseteq Entry
          /\ Log(t, "metric", Null) \in TurnRows(t)
      BY LogType DEF TurnRows, RetrieveRows, Kinds
    <2>2. t \in Retrieves \cup Feedbacks \cup Deletes \cup Jobs => t \notin Turns
      BY KindsAssumption, StoreAssumption DEF Requests
    <2>3. QED
      BY <2>1, <2>2 DEF Victim, Crash, LoseAck
  <1>2. /\ pend' = [pend EXCEPT ![t] = {}]
        /\ pc' = [pc EXCEPT ![t] = IF t \in Jobs THEN "idle" ELSE "failed"]
        /\ todo' = [todo EXCEPT ![t] = {}] /\ seen' = [seen EXCEPT ![t] = {}]
        /\ arg' = [arg EXCEPT ![t] = NoArg]
    BY <1>1 DEF Rollback, Commit, Fail, Close
  <1>3. /\ Others(t) /\ todo'[t] = {} /\ seen'[t] = {}
        /\ pc'[t] \notin {"accepted", "queued", "open"}
    BY <1>0, <1>2 DEF Others, TypeOK
  <1>4. QED
    BY <1>1, <1>3, EndKept
------------------------------------------------------------------------------
LEMMA IdleHistory ==
    ASSUME Good, UNCHANGED <<mem, draft, lock, journal, pend,
                             pc, todo, seen, arg>>
    PROVE  HistoryInv' /\ \A t : RowsLast(t)
  <1>1. WriterInv' /\ \A t : RowsLast(t)
    BY GoodParts
       DEF WriterInv, Written, Writes, Is, RowsLast, SameMemory
  <1>2. RecordInv'
    BY GoodParts DEF RecordInv, CommitRecorded, DraftRecorded, Trail, Explains
  <1>3. SessionInv'
    BY GoodParts DEF SessionInv, Session, OwnTurn, OneDeletion, Marked,
                     OwnRows, Owned, Is, Logged, Log
  <1>4. QED
    BY <1>1, <1>2, <1>3 DEF HistoryInv

(* Every step keeps the history and the rows of every memory.                 *)
LEMMA HistoryStep ==
    ASSUME Good, [Next]_vars
    PROVE  HistoryInv' /\ \E t : RowsLast(t)
  <1>1. ASSUME NEW t, Kept(t) PROVE HistoryInv' /\ RowsLast(t)
    BY <1>1 DEF Kept, HistoryInv
  <1>2. ASSUME NEW t \in Txn, BeginRequest(t) PROVE Kept(t)
    BY <1>2, TurnHistory, CorrectionHistory, ReadHistory DEF BeginRequest
  <1>3. ASSUME NEW t \in Txn, BeginJob(t) PROVE Kept(t)
    BY <1>3, JobHistory DEF BeginJob, Jobs
  <1>4. ASSUME NEW t \in Txn, Advance(t) PROVE Kept(t)
    BY <1>4, TurnHistory, CorrectionHistory, ReadHistory, JobHistory
       DEF Advance, Jobs
  <1>5. ASSUME NEW t \in Txn, Victim(t) \/ Crash(t) \/ LoseAck(t)
        PROVE  Kept(t)
    BY <1>5, LossHistory
  <1>6. CASE Tick \/ UNCHANGED vars
    <2>1. UNCHANGED <<mem, draft, lock, journal, pend, pc, todo, seen, arg>>
      BY <1>6 DEF Tick, vars, db
    <2>2. QED
      BY <2>1, IdleHistory
  <1>7. QED
    BY <1>1, <1>2, <1>3, <1>4, <1>5, <1>6 DEF Next

(* The invariant behind the four theorems that follow: what each session has  *)
(* read, locked and logged agrees with the rows, before and after commits.    *)
THEOREM HistorySound == Spec => []HistoryInv
  <1>1. Init => HistoryInv
    <2> SUFFICES ASSUME Init PROVE HistoryInv
      OBVIOUS
    <2>1. WriterInv /\ RecordInv
      BY DEF Init, StoreInit, WriterInv, Written, RecordInv, CommitRecorded,
             DraftRecorded
    <2>2. SessionInv
      BY StoreAssumption
         DEF Init, StoreInit, SessionInv, Session, OwnTurn, OneDeletion,
             Marked, OwnRows, Txn
    <2>3. QED
      BY <2>1, <2>2 DEF HistoryInv
  <1>2. TypeOK /\ PointersInv /\ HistoryInv /\ [Next]_vars => HistoryInv'
    BY HistoryStep DEF Good
  <1>3. QED
    BY <1>1, <1>2, TypeCorrect, PointersSound, PTL DEF Spec

(* A memory that has left the active state is never readable again: no stale  *)
(* row that a sweep, a turn or a retrieval writes back revives it.            *)
THEOREM NothingRevived == Spec => NeverReactivated
  <1>1. TypeOK /\ PointersInv /\ HistoryInv /\ [Next]_vars =>
          [\A m \in MemId : mem[m] # Blank /\ ~Is(m, "active")
                              => mem'[m].status # "active"]_vars
    BY HistoryStep DEF Good, RowsLast
  <1>2. QED
    BY <1>1, TypeCorrect, PointersSound, HistorySound, PTL
       DEF Spec, NeverReactivated

(* Only what its user asked to delete is ever removed.                        *)
THEOREM PurgedOnlyOnRequest == Spec => []PurgeOnlyRequested
  <1>1. TypeOK /\ HistoryInv => PurgeOnlyRequested
    <2> SUFFICES ASSUME TypeOK, RecordInv, NEW m \in MemId, Is(m, "purged")
                 PROVE  Logged("marked", m) /\ Logged("erased", m)
      BY DEF HistoryInv, PurgeOnlyRequested
    <2>1. mem[m] # Blank
      BY DEF Is, Blank
    <2>2. Explains(journal, m, mem[m]) /\ mem[m].status = "purged"
      BY <2>1 DEF RecordInv, CommitRecorded, Is
    <2>3. QED
      BY <2>2 DEF Explains, ActionOf, Logged
  <1>2. QED
    BY <1>1, TypeCorrect, HistorySound, PTL

(* The audit log explains every memory and every status, whatever order the   *)
(* writers overlapped in and wherever they failed.                            *)
THEOREM HistoryExplained == Spec => []JournalExplains
  <1>1. HistoryInv => JournalExplains
    <2> SUFFICES ASSUME RecordInv, NEW m \in MemId, mem[m] # Blank
                 PROVE
                   /\ {Log(mem[m].turn, k, Null) : k \in {"turn", "metric"}}
                        \subseteq journal
                   /\ {Log(mem[m].turn, k, m) : k \in {"decision", "stored"}}
                        \subseteq journal
                   /\ Is(m, "superseded") => Logged("replaced", m)
                   /\ Is(m, "archived") => Logged("archived", m)
                   /\ Is(m, "deleted") => Logged("marked", m)
                   /\ mem[m].by # Null =>
                        Log(mem[mem[m].by].turn, "replaced", m) \in journal
      BY DEF HistoryInv, JournalExplains
    <2>1. /\ Explains(journal, m, mem[m])
          /\ Log(mem[m].turn, "metric", Null) \in journal
          /\ mem[m].by # Null =>
               Log(mem[mem[m].by].turn, "replaced", m) \in journal
      BY DEF RecordInv, CommitRecorded
    <2>2. /\ Is(m, "superseded") => Logged("replaced", m)
          /\ Is(m, "archived") => Logged("archived", m)
          /\ Is(m, "deleted") => Logged("marked", m)
      BY <2>1 DEF Explains, ActionOf, Logged, Is
    <2>3. QED
      BY <2>1, <2>2 DEF Explains
  <1>2. QED
    BY <1>1, HistorySound, PTL

(* No request sees or writes a row of another tenant, although no statement   *)
(* but the policy on the connection names the tenant.                         *)
THEOREM TenantsIsolated == Spec => []TenantIsolation
  <1>1. TypeOK /\ PointersInv /\ HistoryInv => TenantIsolation
    <2> SUFFICES ASSUME TypeOK, RowInv, SessionInv, NEW t \in Requests,
                        NEW m \in seen[t] \cup todo[t], View(t, m) # Blank
                 PROVE  View(t, m).tenant = TenantOf[t]
      BY DEF PointersInv, HistoryInv, TenantIsolation
    <2>1. m \in MemId /\ Owned(t, m)
      BY DEF TypeOK, SessionInv, Session, OwnRows, Txn
    <2>2. QED
      BY <2>1 DEF Owned, View, RowInv, SameMemory
  <1>2. QED
    BY <1>1, TypeCorrect, PointersSound, HistorySound, PTL
------------------------------------------------------------------------------
(* Module Promise.  Read off the committed rows and the audit log, every step *)
(* of every session is a step of the promise, or none.                        *)
Phase == [m \in MemId |-> PhaseOf(mem[m])]
Asked == {m \in MemId : Logged("marked", m)}

LEMMA PhaseOfRow ==
    ASSUME NEW row \in Row \cup {Blank}
    PROVE  /\ PhaseOf(row) = "unborn" <=> row = Blank
           /\ PhaseOf(row) = "readable" <=> row.status = "active"
           /\ PhaseOf(row) = "erased" <=> row.status = "purged"
           /\ PhaseOf(row) \in {"unborn", "readable", "hidden", "erased"}
  <1>1. row = Blank <=> row.status = "none"
    BY DEF Row, Blank, Statuses
  <1>2. QED
    BY <1>1 DEF PhaseOf

(* A step that commits nothing is not seen at this level.                     *)
LEMMA StutterPromise ==
    ASSUME mem' = mem, journal \subseteq journal',
           \A e \in journal' \ journal : e.kind # "marked"
    PROVE  UNCHANGED <<Phase, Asked>>
  <1>1. \A m \in MemId : Logged("marked", m)' <=> Logged("marked", m)
    BY DEF Logged, Log
  <1>2. QED
    BY <1>1 DEF Phase, Asked

(* What a commit publishes, row by row.                                       *)
LEMMA CommitPhases ==
    ASSUME Good, NEW t \in Txn, NEW rows, Commit(t, rows),
           \A e \in rows : e.kind # "marked"
    PROVE  /\ \A m \in MemId :
                /\ mem[m] \in Row \cup {Blank} /\ mem'[m] \in Row \cup {Blank}
                /\ Phase[m] = PhaseOf(mem[m]) /\ Phase'[m] = PhaseOf(mem'[m])
                /\ lock[m] # t => Phase'[m] = Phase[m]
                /\ lock[m] = t =>
                     /\ mem'[m] = draft[m] /\ draft[m] # Blank
                     /\ draft[m] \in Row /\ Writes(t, m, draft[m])
                     /\ ~Is(m, "purged")
                     /\ mem[m] = Blank => t \in Turns
                     /\ mem[m] # Blank /\ ~Is(m, "active") =>
                          draft[m].status # "active"
           /\ \A m \in MemId : m \in Asked' <=>
                m \in Asked \/ \E u \in Txn : Log(u, "marked", m) \in pend[t]
  <1>0. TypeOK /\ WriterInv /\ t # NoTxn
    BY GoodParts, StoreAssumption
  <1>1. /\ \A m \in MemId : mem'[m] = IF lock[m] = t THEN draft[m] ELSE mem[m]
        /\ journal' = journal \cup pend[t] \cup rows
    BY DEF Commit, View, Appended
  <1>2. ASSUME NEW m \in MemId
        PROVE  /\ mem[m] \in Row \cup {Blank} /\ mem'[m] \in Row \cup {Blank}
               /\ Phase[m] = PhaseOf(mem[m]) /\ Phase'[m] = PhaseOf(mem'[m])
    BY <1>0, <1>1 DEF TypeOK, Phase
  <1>3. ASSUME NEW m \in MemId, lock[m] # t
        PROVE  Phase'[m] = Phase[m]
    BY <1>1, <1>2, <1>3
  <1>4. ASSUME NEW m \in MemId, lock[m] = t
        PROVE  /\ mem'[m] = draft[m] /\ draft[m] # Blank
               /\ draft[m] \in Row /\ Writes(t, m, draft[m])
               /\ ~Is(m, "purged")
               /\ mem[m] = Blank => t \in Turns
               /\ mem[m] # Blank /\ ~Is(m, "active") =>
                    draft[m].status # "active"
    <2>1. /\ mem'[m] = draft[m] /\ draft[m] # Blank /\ Writes(t, m, draft[m])
          /\ ~Is(m, "purged")
          /\ mem[m] = Blank => t = draft[m].turn
          /\ mem[m] # Blank /\ ~Is(m, "active") => draft[m].status # "active"
      BY <1>0, <1>1, <1>4 DEF WriterInv, Written
    <2>2. draft[m] \in Row
      BY <1>0, <2>1 DEF TypeOK
    <2>3. QED
      BY <2>1, <2>2 DEF Row
  <1>5. ASSUME NEW m \in MemId
        PROVE  m \in Asked' <=>
                 m \in Asked \/ \E u \in Txn : Log(u, "marked", m) \in pend[t]
    <2>1. \A u \in Txn : Log(u, "marked", m) \notin rows
      BY DEF Log
    <2>2. QED
      BY <1>1, <2>1 DEF Asked, Logged
  <1>6. QED
    BY <1>2, <1>3, <1>4, <1>5

(* Only deletions ask.                                                        *)
LEMMA AskedSame ==
    ASSUME Good, NEW t \in Txn \ Deletes, NEW rows, Commit(t, rows),
           \A e \in rows : e.kind # "marked"
    PROVE  Asked' = Asked
  <1>1. \A e \in pend[t] : e.kind # "marked"
    BY GoodParts DEF SessionInv, Session
  <1>2. \A u \in Txn, m \in MemId : Log(u, "marked", m) \notin pend[t]
    BY <1>1 DEF Log
  <1>3. \A m \in MemId : m \in Asked' <=> m \in Asked
    BY <1>2, CommitPhases
  <1>4. Asked' \subseteq MemId /\ Asked \subseteq MemId
    BY DEF Asked
  <1>5. QED
    BY <1>3, <1>4

(* The commit of a turn: it brings memories and outdates others.              *)
LEMMA TurnPromise ==
    ASSUME Good, NEW t \in Turns, NEW rows, Commit(t, rows),
           \A e \in rows : e.kind # "marked"
    PROVE  P!Learn
  <1>0. t \in Txn /\ Session(t)
         /\ t \notin Feedbacks \cup Deletes \cup Retrieves \cup Jobs
    BY GoodParts, KindsAssumption, StoreAssumption
       DEF SessionInv, Txn, Requests
  <1> DEFINE fresh == {m \in MemId : Phase[m] = "unborn" /\ Phase'[m] = "readable"}
             born  == {m \in MemId : Phase[m] = "unborn" /\ Phase'[m] = "hidden"}
             outdated == {m \in MemId : Phase[m] = "readable" /\ Phase'[m] = "hidden"}
  <1>1. Asked' = Asked
    BY <1>0, AskedSame
  <1>2. ASSUME NEW m \in MemId
        PROVE  Phase'[m] = IF m \in fresh THEN "readable"
                           ELSE IF m \in born \cup outdated THEN "hidden"
                           ELSE Phase[m]
    <2>1. CASE lock[m] # t
      BY <1>0, <2>1, CommitPhases
    <2>2. CASE lock[m] = t
      <3>1. /\ mem[m] \in Row \cup {Blank}
            /\ Phase[m] = PhaseOf(mem[m]) /\ Phase'[m] = PhaseOf(draft[m])
            /\ draft[m] # Blank /\ draft[m] \in Row
            /\ draft[m].status \in {"active", "superseded"} /\ ~Is(m, "purged")
            /\ mem[m] # Blank /\ ~Is(m, "active") => draft[m].status # "active"
        BY <1>0, <2>2, CommitPhases DEF Writes, Jobs
      <3>2. QED
        BY <3>1, PhaseOfRow DEF Is
    <2>3. QED
      BY <2>1, <2>2
  <1>3. /\ fresh \in SUBSET {m \in MemId : Phase[m] = "unborn"}
        /\ born \in SUBSET {m \in MemId : Phase[m] = "unborn"}
        /\ outdated \in SUBSET {m \in MemId : Phase[m] = "readable"}
    OBVIOUS
  <1>4. Phase' = [m \in MemId |-> IF m \in fresh THEN "readable"
                                   ELSE IF m \in born \cup outdated THEN "hidden"
                                   ELSE Phase[m]]
    BY <1>2 DEF Phase
  <1> HIDE DEF fresh, born, outdated
  <1>5. QED
    BY <1>1, <1>3, <1>4 DEF P!Learn, P!InPhase, Phase, Asked

(* The commit of feedback, a retrieval or a sweep that archives: it hides     *)
(* what was readable, at most.                                                *)
LEMMA RetirePromise ==
    ASSUME Good, NEW t \in Txn \ (Turns \cup Deletes \cup Purges), NEW rows,
           Commit(t, rows), \A e \in rows : e.kind # "marked"
    PROVE  P!Retire
  <1> DEFINE faded == {m \in MemId : Phase[m] = "readable" /\ Phase'[m] = "hidden"}
  <1>1. Asked' = Asked
    BY AskedSame
  <1>2. ASSUME NEW m \in MemId
        PROVE  Phase'[m] = IF m \in faded THEN "hidden" ELSE Phase[m]
    <2>1. CASE lock[m] # t
      BY <2>1, CommitPhases
    <2>2. CASE lock[m] = t
      <3>1. /\ mem[m] \in Row \cup {Blank} /\ mem[m] # Blank
            /\ Phase[m] = PhaseOf(mem[m]) /\ Phase'[m] = PhaseOf(draft[m])
            /\ draft[m] # Blank /\ draft[m] \in Row
            /\ draft[m].status \in {mem[m].status, "archived", "superseded"}
            /\ ~Is(m, "purged")
            /\ ~Is(m, "active") => draft[m].status # "active"
        BY <2>2, CommitPhases DEF Writes
      <3>2. QED
        BY <3>1, PhaseOfRow DEF Is
    <2>3. QED
      BY <2>1, <2>2
  <1>3. faded \in SUBSET {m \in MemId : Phase[m] = "readable"}
    OBVIOUS
  <1>4. Phase' = [m \in MemId |-> IF m \in faded THEN "hidden" ELSE Phase[m]]
    BY <1>2 DEF Phase
  <1> HIDE DEF faded
  <1>5. QED
    BY <1>1, <1>3, <1>4 DEF P!Retire, P!InPhase, Phase, Asked

(* The commit of a purge: it erases what was hidden and asked for.            *)
LEMMA ErasePromise ==
    ASSUME Good, NEW t \in Purges, NEW rows,
           Commit(t, rows), \A e \in rows : e.kind # "marked"
    PROVE  P!EraseAsked
  <1>0. /\ t \in Txn /\ t \notin Requests /\ t \notin Reweights
        /\ TypeOK /\ RecordInv /\ Session(t)
    BY GoodParts, KindsAssumption, StoreAssumption DEF SessionInv, Txn, Jobs
  <1>1. t \notin Turns \cup Feedbacks \cup Deletes \cup Retrieves
    BY <1>0 DEF Requests
  <1> DEFINE gone == {m \in MemId : lock[m] = t}
  <1>2. Asked' = Asked
    BY <1>0, <1>1, AskedSame
  <1>3. ASSUME NEW m \in MemId, lock[m] = t
        PROVE  Phase[m] = "hidden" /\ Phase'[m] = "erased" /\ m \in Asked
    <2>1. /\ mem[m] \in Row \cup {Blank} /\ mem[m] # Blank
          /\ Phase[m] = PhaseOf(mem[m]) /\ Phase'[m] = PhaseOf(draft[m])
          /\ draft[m] # Blank /\ draft[m] \in Row
          /\ draft[m].status = "purged"
          /\ ~Is(m, "purged") /\ ~Is(m, "active")
      BY <1>0, <1>1, <1>3, CommitPhases DEF Writes
    <2>2. Phase[m] = "hidden" /\ Phase'[m] = "erased"
      BY <2>1, PhaseOfRow DEF Is
    <2>3. \E u \in Txn : Log(u, "marked", m) \in journal \cup pend[t]
      BY <1>0, <1>3, <2>1 DEF RecordInv, DraftRecorded, Explains, Trail
    <2>4. \A u \in Txn : Log(u, "marked", m) \notin pend[t]
      BY <1>0, <1>1 DEF Session, Log
    <2>5. QED
      BY <2>2, <2>3, <2>4 DEF Asked, Logged
  <1>4. ASSUME NEW m \in MemId, lock[m] # t
        PROVE  Phase'[m] = Phase[m]
    BY <1>0, <1>4, CommitPhases
  <1>5. Phase' = [m \in MemId |-> IF m \in gone THEN "erased" ELSE Phase[m]]
    BY <1>3, <1>4 DEF Phase
  <1>6. gone \in SUBSET ({m \in MemId : Phase[m] = "hidden"} \cap Asked)
    BY <1>3
  <1> HIDE DEF gone
  <1>7. QED
    BY <1>2, <1>5, <1>6 DEF P!EraseAsked, P!InPhase, Phase, Asked

(* The commit of a deletion: it asks for the one memory it is about, which is *)
(* hidden now or has been erased meanwhile.                                   *)
LEMMA AskPromise ==
    ASSUME Good, NEW t \in Deletes, NEW rows,
           Commit(t, rows), \A e \in rows : e.kind # "marked"
    PROVE  P!Ask \/ UNCHANGED <<Phase, Asked>>
  <1>0. /\ t \in Txn /\ t \in Requests /\ t \notin Jobs
        /\ TypeOK /\ RecordInv /\ OneDeletion(t)
    BY GoodParts, StoreAssumption DEF SessionInv, Session, Txn, Requests
  <1>1. t \notin Turns \cup Feedbacks \cup Retrieves
    BY KindsAssumption
  <1> DEFINE k == arg[t].mem
  <1>2. ASSUME NEW m \in MemId, m # k
        PROVE  Phase'[m] = Phase[m] /\ (m \in Asked' <=> m \in Asked)
    <2>1. lock[m] # t /\ \A u \in Txn : Log(u, "marked", m) \notin pend[t]
      BY <1>0, <1>2 DEF OneDeletion, Log
    <2>2. QED
      BY <1>0, <2>1, CommitPhases
  <1>3. CASE k \in MemId /\ (lock[k] = t \/ pend[t] # {})
    <2>1. k \in MemId /\ mem[k] \in Row \cup {Blank} /\ mem[k] # Blank
      <3>1. lock[k] = t => mem[k] # Blank
        BY <1>0, <1>1, <1>3, CommitPhases
      <3>2. pend[t] # {} => mem[k] # Blank
        BY <1>0 DEF OneDeletion
      <3>3. QED
        BY <1>0, <1>3, <3>1, <3>2, CommitPhases
    <2>2. Phase'[k] = IF Phase[k] = "erased" THEN "erased" ELSE "hidden"
      <3>1. CASE lock[k] = t
        <4>1. /\ Phase[k] = PhaseOf(mem[k]) /\ Phase'[k] = PhaseOf(draft[k])
              /\ draft[k] \in Row /\ draft[k] # Blank
              /\ draft[k].status = "deleted" /\ ~Is(k, "purged")
          BY <1>0, <1>1, <2>1, <3>1, CommitPhases DEF Writes, Jobs
        <4>2. QED
          BY <2>1, <4>1, PhaseOfRow DEF Is
      <3>2. CASE lock[k] # t
        <4>1. Is(k, "purged")
          BY <1>0, <1>3, <3>2 DEF OneDeletion
        <4>2. Phase'[k] = Phase[k] /\ Phase[k] = PhaseOf(mem[k])
          BY <1>0, <2>1, <3>2, CommitPhases
        <4>3. QED
          BY <2>1, <4>1, <4>2, PhaseOfRow DEF Is
      <3>3. QED
        BY <3>1, <3>2
    <2>3. k \in Asked'
      <3>1. CASE pend[t] # {}
        <4>1. Log(t, "marked", k) \in pend[t]
          BY <1>0, <3>1 DEF OneDeletion
        <4>2. QED
          BY <1>0, <2>1, <4>1, CommitPhases
      <3>2. CASE pend[t] = {}
        <4>1. lock[k] = t /\ draft[k] # Blank /\ draft[k].status = "deleted"
          BY <1>0, <1>1, <1>3, <3>2, CommitPhases DEF Writes, Jobs
        <4>2. \E u \in Txn : Log(u, "marked", k) \in journal
          <5>1. Explains(Trail(k), k, draft[k])
            BY <1>0, <2>1, <4>1 DEF RecordInv, DraftRecorded
          <5>2. Trail(k) \subseteq journal
            BY <1>0, <3>2, <4>1 DEF Trail
          <5>3. "deleted" \in DOMAIN ActionOf /\ ActionOf["deleted"] = "marked"
            BY DEF ActionOf
          <5>4. QED
            BY <4>1, <5>1, <5>2, <5>3 DEF Explains
        <4>3. k \in Asked
          BY <2>1, <4>2 DEF Asked, Logged
        <4>4. QED
          BY <1>0, <2>1, <4>3, CommitPhases
      <3>3. QED
        BY <3>1, <3>2
    <2>4. Asked' = Asked \cup {k}
      <3>1. Asked' \subseteq MemId /\ Asked \subseteq MemId
        BY DEF Asked
      <3>2. k \in Asked => k \in Asked'
        BY <2>3
      <3>3. QED
        BY <1>2, <2>1, <2>3, <3>1
    <2>5. Phase' = [Phase EXCEPT ![k] = IF @ = "erased" THEN @ ELSE "hidden"]
      BY <1>2, <2>1, <2>2 DEF Phase
    <2>6. k \in MemId \ {m \in MemId : Phase[m] = "unborn"}
      BY <1>0, <2>1, PhaseOfRow, CommitPhases
    <2> HIDE DEF k
    <2>7. QED
      BY <2>4, <2>5, <2>6 DEF P!Ask, P!InPhase, Phase, Asked
  <1>4. CASE ~(k \in MemId /\ (lock[k] = t \/ pend[t] # {}))
    <2>1. pend[t] = {} /\ \A m \in MemId : lock[m] # t
      BY <1>0, <1>4 DEF OneDeletion
    <2>2. \A m \in MemId : Phase'[m] = Phase[m] /\ (m \in Asked' <=> m \in Asked)
      BY <1>0, <2>1, CommitPhases
    <2>3. QED
      BY <2>2 DEF Phase, Asked
  <1>5. QED
    BY <1>3, <1>4
------------------------------------------------------------------------------
(* Whoever commits, the promise takes a step or stutters.                     *)
LEMMA CommitPromise ==
    ASSUME Good, NEW t \in Txn, NEW rows, Commit(t, rows),
           \A e \in rows : e.kind # "marked"
    PROVE  P!Next \/ UNCHANGED <<Phase, Asked>>
  <1>1. t \in Turns \cup Deletes \cup Purges
          \/ t \in Txn \ (Turns \cup Deletes \cup Purges)
    OBVIOUS
  <1>2. QED
    BY <1>1, TurnPromise, AskPromise, ErasePromise, RetirePromise DEF P!Next

(* Only the commit of a session changes the committed rows; all else that the *)
(* log gains is not the mark of a deletion.                                   *)
LEMMA SilentOrCommit ==
    ASSUME [Next]_vars
    PROVE  \/ /\ mem' = mem /\ journal \subseteq journal'
              /\ \A e \in journal' \ journal : e.kind # "marked"
           \/ \E t \in Txn : \E rows :
                Commit(t, rows) /\ \A e \in rows : e.kind # "marked"
  <1> DEFINE Silent == /\ mem' = mem /\ journal \subseteq journal'
                       /\ \A e \in journal' \ journal : e.kind # "marked"
             Commits(t) == \E rows : /\ Commit(t, rows)
                                     /\ \A e \in rows : e.kind # "marked"
  <1>1. ASSUME NEW t, Ingest(t) PROVE Silent
    BY <1>1 DEF Ingest, Log
  <1>2. \A t : /\ \A e \in TurnRows(t) \cup RetrieveRows(t) : e.kind # "marked"
               /\ \A e \in {} : e.kind # "marked"
    BY DEF TurnRows, RetrieveRows, Log
  <1>3. ASSUME NEW t,
               \/ AnswerIngest(t) \/ StartTurn(t) \/ StoreCandidate(t)
               \/ DropCandidate(t)
               \/ Supersede(t)
               \/ BeginFeedback(t) \/ WriteFeedback(t)
               \/ BeginDelete(t) \/ WriteDelete(t)
        PROVE  Silent
    BY <1>3 DEF AnswerIngest, StartTurn, StoreCandidate, DropCandidate, Supersede,
                BeginFeedback, WriteFeedback, BeginDelete, WriteDelete,
                Begin, Answer, Proceed, Write, db
  <1>4. ASSUME NEW t,
               \/ BeginReweight(t) \/ Reweigh(t) \/ BeginPurge(t)
               \/ Erase(t) \/ EraseFails(t)
               \/ BeginRetrieve(t) \/ KeywordSearch(t) \/ EntitySearch(t)
               \/ Rank(t) \/ Bump(t) \/ Respond(t) \/ ListMemories(t)
               \/ BeginHealth(t) \/ FinishHealth(t)
        PROVE  Silent
    BY <1>4 DEF BeginReweight, Reweigh, BeginPurge, Erase, EraseFails,
                BeginRetrieve, KeywordSearch, EntitySearch, Rank, Bump,
                Respond, ListMemories, BeginHealth, FinishHealth,
                Rollback, db
  <1>5. ASSUME NEW t \in Txn,
               \/ FinishTurn(t) \/ FinishFeedback(t) \/ FinishDelete(t)
               \/ FinishJob(t) \/ FinishRetrieve(t) \/ LoseAck(t)
        PROVE  Commits(t)
    BY <1>2, <1>5 DEF FinishTurn, FinishFeedback, FinishDelete, Finish,
                      FinishJob, FinishRetrieve, LoseAck
  <1>6. ASSUME NEW t, Victim(t) \/ Crash(t) PROVE Silent
    BY <1>6 DEF Victim, Crash, Rollback
  <1>7. ASSUME Tick \/ UNCHANGED vars PROVE Silent
    BY <1>7 DEF Tick, vars, db
  <1>8. (\E t \in Txn : Commits(t)) \/ Silent
    <2> HIDE DEF Commits, Silent
    <2>1. ASSUME NEW t \in Txn, BeginRequest(t) \/ BeginJob(t) PROVE Silent
      BY <1>1, <1>3, <1>4, <2>1 DEF BeginRequest, BeginJob
    <2>2. ASSUME NEW t \in Txn, Advance(t) PROVE Silent \/ Commits(t)
      <3>1. CASE TurnStep(t)
        BY <1>3, <1>5, <3>1 DEF TurnStep
      <3>2. CASE RetrieveStep(t)
        BY <1>4, <1>5, <3>2 DEF RetrieveStep
      <3>3. QED
        BY <1>3, <1>4, <1>5, <2>2, <3>1, <3>2 DEF Advance
    <2>3. ASSUME NEW t \in Txn, Victim(t) \/ Crash(t) \/ LoseAck(t)
          PROVE  Silent \/ Commits(t)
      BY <1>5, <1>6, <2>3
    <2>4. CASE Next
      <3>1. CASE Tick
        BY <1>7, <3>1
      <3>2. CASE ~Tick
        <4>1. PICK t \in Txn : \/ BeginRequest(t) \/ BeginJob(t) \/ Advance(t)
                               \/ Victim(t) \/ Crash(t) \/ LoseAck(t)
          BY <2>4, <3>2 DEF Next
        <4>2. Silent \/ Commits(t)
          BY <2>1, <2>2, <2>3, <4>1
        <4>3. QED
          BY <4>2
      <3>3. QED
        BY <3>1, <3>2
    <2>5. QED
      BY <1>7, <2>4
  <1>9. QED
    BY <1>8

LEMMA StepPromise ==
    ASSUME Good, [Next]_vars
    PROVE  P!Next \/ UNCHANGED <<Phase, Asked>>
  BY SilentOrCommit, StutterPromise, CommitPromise

(* The system keeps the promises of module Promise: whatever the sessions do, *)
(* a memory that was hidden is never readable again, and only what a user     *)
(* asked to delete is erased.                                                 *)
THEOREM PromiseKept == Spec => KeepsPromise
  <1>1. Init => P!Init
    BY DEF Init, StoreInit, P!Init, PhaseOf, Blank, Logged
  <1>2. TypeOK /\ PointersInv /\ HistoryInv /\ [Next]_vars =>
          [P!Next]_<<Phase, Asked>>
    BY StepPromise DEF Good
  <1>3. KeepsPromise <=> P!Init /\ [][P!Next]_<<Phase, Asked>>
    BY DEF KeepsPromise, P!Spec, Phase, Asked
  <1>4. QED
    BY <1>1, <1>2, <1>3, TypeCorrect, PointersSound, HistorySound, PTL DEF Spec
=============================================================================
