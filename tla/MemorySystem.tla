---------------------------- MODULE MemorySystem -----------------------------
(* The whole system: requests, background tasks and job processes running     *)
(* against one database, with exceptions, crashes, deadlock victims and the   *)
(* passing of time; and the properties of their composition.                  *)
EXTENDS WriteGate, Corrections, Forgetting, Retrieval

(* The next statement of a session may have to wait for these transactions.   *)
WaitsFor(t, m) ==
    IF t \in Purges THEN EraseWaitsFor(t, m) ELSE {lock[m]} \ {NoTxn, t}

(* Mutant: nobody looks for deadlocks.                                        *)
Deadlocked_Ignored(t) == FALSE

(* The database aborts one member of a set of transactions that wait for one  *)
(* another.                                                                   *)
Deadlocked(t) ==
    \E D \in SUBSET {u \in Txn : Open(u)} :
        /\ t \in D
        /\ \A u \in D : \E m \in todo[u] : WaitsFor(u, m) \cap D # {}

Victim(t) ==
    /\ Deadlocked(t)
    /\ Rollback(t)
    /\ Fail(t, "database")
    /\ UNCHANGED crashes

(* A session is lost at any point of its life: it cannot connect, a model     *)
(* provider, a CHECK, the connection or the reranker raises, or the process   *)
(* dies.  A queued turn dies with the server, whose memory alone holds it.    *)
(* What is uncommitted is rolled back, what is committed stays, and nothing   *)
(* is retried.                                                                *)
Crash(t) ==
    /\ pc[t] \notin {"done", "failed"}
    /\ t \in Jobs => Open(t)
    /\ crashes < MaxCrashes
    /\ crashes' = crashes + 1
    /\ Rollback(t)
    /\ \E error \in {"database", "other"} : Fail(t, error)

(* The connection breaks after the database has committed and before the      *)
(* session hears of it.  (An ingest that has committed is "accepted" or       *)
(* "refused": there Crash is this, a row stored and a client told 500.)       *)
LoseAck(t) ==
    /\ crashes < MaxCrashes
    /\ crashes' = crashes + 1
    /\ \/ t \in Turns /\ TurnDone(t) /\ Commit(t, TurnRows(t))
       \/ t \in Retrieves /\ Bumped(t) /\ Commit(t, RetrieveRows(t))
       \/ /\ t \in Feedbacks \cup Deletes \cup Jobs
          /\ pc[t] = "open" /\ todo[t] = {}
          /\ Commit(t, {})
    /\ Fail(t, "database")

Tick ==
    /\ month + Step <= MaxMonth
    /\ month' = month + Step
    /\ UNCHANGED <<db, pc, todo, seen, arg, at, reply, counted, crashes>>

TurnStep(t) == AnswerIngest(t) \/ StartTurn(t) \/ StoreCandidate(t) \/ DropCandidate(t)
                 \/ Supersede(t) \/ FinishTurn(t)

RetrieveStep(t) == KeywordSearch(t) \/ EntitySearch(t) \/ Rank(t) \/ Bump(t)
                     \/ FinishRetrieve(t) \/ Respond(t)

(* What a session does once its request or job has begun.                     *)
Advance(t) ==
    \/ t \in Turns /\ TurnStep(t)
    \/ t \in Feedbacks /\ (WriteFeedback(t) \/ FinishFeedback(t))
    \/ t \in Deletes /\ (WriteDelete(t) \/ FinishDelete(t))
    \/ t \in Retrieves /\ RetrieveStep(t)
    \/ t \in Healths /\ FinishHealth(t)
    \/ t \in Reweights /\ (Reweigh(t) \/ FinishJob(t))
    \/ t \in Purges /\ (Erase(t) \/ EraseFails(t) \/ FinishJob(t))

BeginRequest(t) ==
    \/ t \in Turns /\ Ingest(t)
    \/ t \in Feedbacks /\ BeginFeedback(t)
    \/ t \in Deletes /\ BeginDelete(t)
    \/ t \in Retrieves /\ BeginRetrieve(t)
    \/ t \in Lists /\ ListMemories(t)
    \/ t \in Healths /\ BeginHealth(t)

BeginJob(t) ==
    \/ t \in Reweights /\ BeginReweight(t)
    \/ t \in Purges /\ BeginPurge(t)

Next ==
    \/ \E t \in Txn : \/ BeginRequest(t) \/ BeginJob(t) \/ Advance(t)
                      \/ Victim(t) \/ Crash(t) \/ LoseAck(t)
    \/ Tick

Init == StoreInit

Spec == Init /\ [][Next]_vars

(* The server, the database and the scheduler keep working: a session's next  *)
(* statement gets its turn (row-lock waiters queue, hence strong fairness), a *)
(* deadlock is broken, the jobs are started again and again.  Users need not  *)
(* send anything, and nothing is assumed about time passing.                  *)
Fairness ==
    \A t \in Txn : SF_vars(Advance(t)) /\ WF_vars(Victim(t))
                     /\ WF_vars(BeginJob(t))

FairSpec == Spec /\ Fairness
------------------------------------------------------------------------------
TypeOK ==
    /\ mem \in [MemId -> Row \cup {Blank}]
    /\ draft \in [MemId -> Row \cup {Blank}]
    /\ lock \in [MemId -> Txn \cup {NoTxn}]
    /\ next \in 1 .. N + 1
    /\ journal \in SUBSET Entry
    /\ pend \in [Txn -> SUBSET Entry]
    /\ pc \in [Txn -> OpenStates \cup ClosedStates]
    /\ todo \in [Txn -> SUBSET MemId]
    /\ seen \in [Txn -> SUBSET MemId]
    /\ arg \in [Txn -> [mem : MemId \cup {Null}, conf : Confs \cup {0},
                        left : 0 .. MaxFacts]]
    /\ at \in [Txn -> 0 .. MaxMonth]
    /\ reply \in [Requests -> Replies]
    /\ counted \in [Healths -> SUBSET Entry]
    /\ month \in 0 .. MaxMonth
    /\ crashes \in 0 .. MaxCrashes

Is(m, s)      == mem[m].status = s
Logged(k, m)  == \E t \in Txn : Log(t, k, m) \in journal
Deleting(d)   == d \in Deletes /\ reply[d] = "deleted"

(* A superseded memory names as its replacement a later memory of the same    *)
(* tenant, on the same subject, stored with at least its confidence: however  *)
(* turns, feedback and jobs interleave, the history of a subject never runs   *)
(* in circles or across tenants (resolver.py, detector.py).                   *)
SupersededByBetter ==
    \A m \in MemId : Stored(mem[m]) /\ mem[m].by # Null =>
        LET n == mem[m].by IN
          /\ n > m
          /\ mem[n] # Blank
          /\ mem[n].tenant = mem[m].tenant
          /\ <<mem[m].topic, mem[n].topic>> \in SameSubject
          /\ mem[m].conf <= mem[n].conf

(* The replacement a superseded memory names is still in the table: the purge *)
(* of any tenant's memories, even by two overlapping runs, leaves no dangling *)
(* pointer (schema.sql's foreign key under purge.py's DELETEs).               *)
ReplacementKept ==
    \A m \in MemId : Stored(mem[m]) /\ mem[m].by # Null =>
        Stored(mem[mem[m].by])

(* Every state a memory is in has the audit rows that explain it, committed   *)
(* with it: what was stored came from a stored turn and a logged decision,    *)
(* and each later status from the action of that name.                        *)
JournalExplains ==
    \A m \in MemId : mem[m] # Blank =>
        /\ {Log(mem[m].turn, k, Null) : k \in {"turn", "metric"}}
             \subseteq journal
        /\ {Log(mem[m].turn, k, m) : k \in {"decision", "stored"}}
             \subseteq journal
        /\ Is(m, "superseded") => Logged("replaced", m)
        /\ Is(m, "archived") => Logged("archived", m)
        /\ Is(m, "deleted") => Logged("marked", m)
        /\ mem[m].by # Null => Log(mem[mem[m].by].turn, "replaced", m) \in journal

(* What a client was told is on the record: the audit row behind the status   *)
(* it was given, the row of the turn that was queued or the secret refused,   *)
(* what its retrieval cost.  However the server fails around a commit, no     *)
(* answer runs ahead of the database (main.py's returns against               *)
(* connection.py's commit).                                                   *)
RecordOf(status) == CASE status = "superseded" -> "replaced"
                      [] status = "archived"   -> "archived"
                      [] status = "deleted"    -> "marked"

AnswersDurable ==
    \A t \in Requests :
        /\ reply[t] \in {"superseded", "archived", "deleted"}
             => Logged(RecordOf(reply[t]), arg[t].mem)
        /\ reply[t] = "queued" => Log(t, "turn", Null) \in journal
        /\ reply[t] = "pii_rejected" => Log(t, "blocked", Null) \in journal
        /\ t \in Retrieves /\ reply[t] = "ok" => RetrieveRows(t) \subseteq journal

(* The health numbers agree with each other: of every write and retrieval     *)
(* that usage and correction rates count, latency and cost are counted too,   *)
(* though the two SELECTs see different moments (metrics.compute_health).     *)
HealthCoherent ==
    \A h \in Healths : reply[h] = "ok" =>
        \A e \in counted[h] :
            e.txn \in Turns \cup Retrieves
              => Log(e.txn, "metric", Null) \in counted[h]

(* Only what its user asked to delete is ever removed from the table.         *)
PurgeOnlyRequested ==
    \A m \in MemId : Is(m, "purged") => Logged("marked", m) /\ Logged("erased", m)

(* A memory that has left the active state never becomes readable again,      *)
(* whatever stale rows a job or a background task still writes back.          *)
NeverReactivated ==
    [][\A m \in MemId : mem[m] # Blank /\ ~Is(m, "active")
                          => mem'[m].status # "active"]_vars

(* A search that runs after a deletion was answered does not find the memory. *)
NoSearchFindsDeleted ==
    [][\A t \in Retrieves \cup Lists, d \in Deletes :
         Deleting(d) => arg[d].mem \notin seen'[t] \ seen[t]]_vars

(* No request sees, marks or writes another tenant's memory.                  *)
TenantIsolation ==
    \A t \in Requests : \A m \in seen[t] \cup todo[t] :
        View(t, m) # Blank => View(t, m).tenant = TenantOf[t]

(* The promises of module Promise, kept under every interleaving: what a      *)
(* client can observe of a memory is its committed status.                    *)
PhaseOf(row) == CASE row.status = "none"   -> "unborn"
                  [] row.status = "active" -> "readable"
                  [] row.status = "purged" -> "erased"
                  [] OTHER                 -> "hidden"

P == INSTANCE Promise WITH
       phase <- [m \in MemId |-> PhaseOf(mem[m])],
       asked <- {m \in MemId : Logged("marked", m)}

KeepsPromise == P!Spec
------------------------------------------------------------------------------
(* What the races between a SELECT and the UPDATE by id that follows it can   *)
(* do, and when they are over.  Deciders change the status of memories on the *)
(* strength of the status they have read; one has m in hand from its read of  *)
(* m until what it wrote and logged about m is committed or rolled back.      *)
Correctors == Turns \cup Feedbacks \cup Reweights
Deciders   == Correctors \cup Deletes

InHand(deciders, m) ==
    {t \in deciders : m \in todo[t] \/ lock[m] = t
                        \/ \E e \in pend[t] : e.mem = m}

(* About m, only entries of these kinds are added to the journal.             *)
OnlyLogs(kinds, m) ==
    \A e \in journal' \ journal : e.mem = m => e.kind \in kinds

(* Once the turns, feedback and sweeps that had read a memory before it left  *)
(* the active state are through, no later one touches it: from then on it is  *)
(* only deleted and purged, and nothing else is logged about it (feedback's   *)
(* docstring "left as-is", resolver.py's and reweight.py's active only).      *)
InactiveSettles ==
    [][\A m \in MemId :
         mem[m] # Blank /\ ~Is(m, "active") /\ InHand(Correctors, m) = {} =>
           /\ InHand(Correctors, m)' = {}
           /\ mem'[m].status \in {mem[m].status, "deleted", "purged"}
           /\ OnlyLogs({"marked", "erased"}, m)]_vars

(* Once nobody has a deleted memory in hand it stays deleted until it is      *)
(* purged, and a deletion asked for again is not audited again (data_model.md,*)
(* delete_memory's docstring).                                                *)
DeletionSettles ==
    [][\A m \in MemId :
         (Is(m, "deleted") \/ Is(m, "purged")) /\ InHand(Deciders, m) = {} =>
           /\ InHand(Deciders, m)' = {}
           /\ mem'[m].status \in {mem[m].status, "purged"}
           /\ OnlyLogs({"erased"}, m)]_vars

(* A sweep that has found m faded, until it is through with it.               *)
Fading(m) ==
    {w \in Reweights : \/ m \in todo[w] \cap seen[w]
                       \/ lock[m] = w /\ draft[m].status = "archived"}

(* A memory is archived only by a sweep that found it unused for longer than  *)
(* the half-life, also when the memory has been retrieved since: no sweep     *)
(* that reads it within the month of its last use does so, at the floor       *)
(* itself it stays (reweight.py's "below a floor").                           *)
UsefulKept ==
    [][\A m \in MemId :
         Is(m, "active") /\ month <= mem[m].used + 1 /\ Fading(m) = {} =>
           Fading(m)' = {} /\ mem'[m].status # "archived"]_vars

(* m and n are both active although n, with more confidence, is on m's        *)
(* subject.                                                                   *)
Rivals(m, n) ==
    /\ Is(m, "active") /\ Is(n, "active")
    /\ mem[m].tenant = mem[n].tenant
    /\ <<mem[m].topic, mem[n].topic>> \in SameSubject
    /\ mem[n].conf > mem[m].conf

(* A memory that was committed before a more confident one on its subject was *)
(* inserted is not active beside it, whoever else holds or changes the two    *)
(* meanwhile (INV-5, as far as READ COMMITTED lets resolver.py keep it).      *)
NewerWinsOverCommitted ==
    \A m, n \in MemId :
        m < n => [](mem[m] # Blank /\ n >= next => []~Rivals(m, n))
------------------------------------------------------------------------------
(* Claims of the documents and comments that the code does not keep.          *)

(* A memory marked deleted stays so until it is purged (data_model.md).       *)
DeletionIsFinal ==
    [][\A m \in MemId : Is(m, "deleted")
                          => mem'[m].status \in {"deleted", "purged"}]_vars

(* Of two memories of a tenant on one subject, the one stored later and with  *)
(* more confidence does not leave the other active (INV-5).                   *)
NewerWins == \A m, n \in MemId : m < n => ~Rivals(m, n)

(* From the instant a memory is marked deleted no read returns it             *)
(* (delete_memory's docstring).                                               *)
NoAnswerShowsDeleted ==
    [][\A t \in Retrieves, d \in Deletes :
         Deleting(d) /\ reply[t] # "ok" /\ reply'[t] = "ok"
           => arg[d].mem \notin seen[t]]_vars
------------------------------------------------------------------------------
(* Liveness.  Every transaction ends: no wait for a row lock lasts for ever.  *)
EveryTransactionEnds == \A t \in Txn : Open(t) ~> ~Open(t)

(* Every turn in the table is queued and processed.                           *)
EveryTurnProcessed ==
    \A t \in Turns : pc[t] = "accepted" ~> pc[t] \in {"done", "failed"}

(* What is marked deleted is removed (INV-4).                                 *)
DeletionCompletes == \A m \in MemId : Is(m, "deleted") ~> Is(m, "purged")

(* A deletion that no stale write can undo any more is carried out unless the *)
(* purge is stuck on the foreign key: some memory marked deleted is the       *)
(* replacement of one that is still there.                                    *)
PurgeBlocked ==
    \E k \in MemId : Stored(mem[k]) /\ mem[k].by # Null
                       /\ Is(mem[k].by, "deleted")

DeletionCompletesUnlessBlocked ==
    \A m \in MemId :
        Is(m, "deleted") /\ InHand(Correctors, m) = {}
          ~> Is(m, "purged") \/ PurgeBlocked
=============================================================================
