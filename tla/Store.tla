-------------------------------- MODULE Store --------------------------------
(* The PostgreSQL database of the memory system as its callers use it: one    *)
(* table of memories, the append-only tables written beside it (audit_log,    *)
(* write_gate_decision, request_metric, conversation_turn), transactions at   *)
(* READ COMMITTED, row locks held until the transaction ends, row-level       *)
(* security on the tenant, and the foreign key memory.superseded_by.          *)
(*                                                                            *)
(* Every request, background task and job run is a session.  Each SQL         *)
(* statement that reads or writes shared rows is one atomic step of one       *)
(* session; inserts that nobody else can see before the commit are folded     *)
(* into the step that follows them.  The modules that EXTEND this one give    *)
(* the steps of each kind of session.                                         *)
EXTENDS Naturals, FiniteSets

CONSTANTS
    N,            \* bound: memory ids 1..N, given out in insertion order
    Tenants,      \* tenant ids
    Topics,       \* what a memory is about (stands for its embedding)
    SameSubject,  \* pairs of topics whose similarity reaches the threshold
    Texts,        \* kinds of message users send (see Ingest)
    Confs,        \* confidences a judge may report
    Round,        \* the confidence read back from the REAL column
    Importances,  \* importances a judge may report, of 1 .. 10
    MaxUses,      \* bound: retrievals of one memory the forgetting job counts
    Step,         \* bound: months (of 30 days) that pass at a time
    MaxMonth,     \* bound: the clock stops here
    MaxFacts,     \* bound: candidates extracted from one turn
    MaxOpen,      \* transactions the server and database run at once
    MaxCrashes,   \* bound: transactions that end in an exception or a crash
    Turns,        \* ingested turns, numbered in the order they arrive
    Feedbacks,    \* POST /v1/memories:feedback requests
    Deletes,      \* DELETE /v1/memories/{id} requests
    Retrieves,    \* POST /v1/memories:retrieve requests
    Lists,        \* GET /v1/memories requests
    Healths,      \* GET /v1/observability/health requests
    Reweights,    \* processes running the nightly reweight job
    Purges,       \* processes running the purge job
    TenantOf,     \* the tenant in each request's verified token
    NoTxn         \* holder of a free row

MemId    == 1 .. N
Null     == 0                          \* SQL NULL in superseded_by
Requests == Turns \cup Feedbacks \cup Deletes \cup Retrieves \cup Lists
              \cup Healths
Jobs     == Reweights \cup Purges      \* connect as cmis_job, BYPASSRLS
Txn      == Requests \cup Jobs

ASSUME StoreAssumption ==
    /\ N \in Nat /\ MaxMonth \in Nat /\ MaxFacts \in Nat /\ MaxCrashes \in Nat
    /\ MaxOpen \in Nat \ {0} /\ Step \in Nat \ {0}
    /\ Importances \subseteq 1 .. 10 /\ MaxUses \in Nat
    /\ Turns \subseteq Nat
    /\ Texts \subseteq {"clean", "mixed", "secret"}
    /\ Jobs \cap Requests = {}
    /\ NoTxn \notin Txn
    /\ TenantOf \in [Requests -> Tenants]
    /\ SameSubject \subseteq Topics \X Topics
    /\ Confs \subseteq Nat

(* Storing a confidence rounds it: rounding keeps the order and a value that  *)
(* was read back is stored unchanged.                                         *)
ASSUME RoundAssumption ==
    /\ Round \in [Confs -> Confs]
    /\ \A a, b \in Confs : a <= b => Round[a] <= Round[b]
    /\ \A a \in Confs : Round[Round[a]] = Round[a]

ASSUME KindsAssumption ==
    /\ Turns \cap (Feedbacks \cup Deletes \cup Retrieves \cup Lists \cup Healths) = {}
    /\ Feedbacks \cap (Deletes \cup Retrieves \cup Lists \cup Healths) = {}
    /\ Deletes \cap (Retrieves \cup Lists \cup Healths) = {}
    /\ Retrieves \cap (Lists \cup Healths) = {}
    /\ Lists \cap Healths = {}
    /\ Reweights \cap Purges = {}

VARIABLES
    mem,      \* the committed version of every row of table memory
    draft,    \* the version written under a row lock (= mem when not locked)
    lock,     \* the transaction holding each row's lock, or NoTxn
    next,     \* the next unused memory id
    journal,  \* committed rows of the append-only tables
    pend,     \* each transaction's uncommitted rows of those tables
    pc,       \* where each session is
    todo,     \* rows a session has read and has still to write
    seen,     \* rows a session has picked (results; rows below the floor)
    arg,      \* the other locals of a session
    at,       \* the `now` a session took when it started
    reply,    \* what a request was answered
    counted,  \* what a health request has read of the append-only tables
    month,    \* the wall clock
    crashes   \* sessions lost so far to exceptions and crashes

db   == <<mem, draft, lock, next, journal, pend>>
vars == <<mem, draft, lock, next, journal, pend,
          pc, todo, seen, arg, at, reply, counted, month, crashes>>
------------------------------------------------------------------------------
(* Rows of table memory.  "purged" is a row deleted from the table, kept here *)
(* to state what became of it; Blank is an id not inserted yet.               *)
Statuses == {"active", "archived", "superseded", "deleted"}

Row == [tenant : Tenants, topic : Topics, conf : Confs, turn : Turns,
        status : Statuses \cup {"purged"}, by : MemId \cup {Null},
        used : 0 .. MaxMonth]

Blank == [status |-> "none"]

(* Append-only rows: which transaction wrote them, what they record, about    *)
(* which memory (Null if about none).  "marked" and "erased" are the audit    *)
(* action 'deleted' by user_request and by forgetting_job.                    *)
Kinds == {"turn", "blocked", "decision", "stored", "rejected", "replaced",
          "archived", "marked", "erased", "retrieved", "metric"}

Entry == [txn : Txn, kind : Kinds, mem : MemId \cup {Null}]

Log(t, kind, m) == [txn |-> t, kind |-> kind, mem |-> m]

Append(t, rows) == pend' = [pend EXCEPT ![t] = @ \cup rows]

(* Where a session may be.  Between OpenStates it holds a transaction.        *)
OpenStates   == {"open", "keyword", "entity", "rank", "bump", "counting"}
ClosedStates == {"idle", "accepted", "refused", "queued", "answer", "done",
                 "failed"}

Open(t)   == pc[t] \in OpenStates
CanOpen   == Cardinality({t \in Txn : Open(t)}) < MaxOpen

Replies == {"none", "ok", "queued", "pii_rejected", "not_found", "error",
            "memory_unavailable"} \cup Statuses

NoArg == [mem |-> Null, conf |-> 0, left |-> 0]
------------------------------------------------------------------------------
(* What a statement of transaction t reads: its own writes and, for the other *)
(* rows, what is committed when the statement runs (READ COMMITTED).          *)
View(t, m) == IF lock[m] = t THEN draft[m] ELSE mem[m]

Stored(row) == row.status \in Statuses

(* Mutant: the tenant_isolation policy is not in force.                       *)
Visible_NoPolicy(t, m) == Stored(View(t, m))

(* The policy tenant_isolation: the tenant bound to the connection by         *)
(* tenant_connection; job_connection's role has BYPASSRLS.                    *)
Visible(t, m) ==
    /\ Stored(View(t, m))
    /\ t \in Requests => View(t, m).tenant = TenantOf[t]

(* SELECT ... WHERE status = s.                                               *)
Select(t, s) == {m \in MemId : Visible(t, m) /\ View(t, m).status = s}

(* INSERT: the row stays its transaction's own until the commit.              *)
Insert(t, row) ==
    /\ next \in MemId
    /\ next' = next + 1
    /\ draft' = [draft EXCEPT ![next] = row]
    /\ lock' = [lock EXCEPT ![next] = t]

Free(t, m) == lock[m] \in {NoTxn, t}

(* UPDATE ... WHERE id = m: waits for the row lock, then applies to the       *)
(* newest committed version, whatever an earlier SELECT had read.  The        *)
(* statement affects no row when the row is gone by then.                     *)
Update(t, m, row) ==
    /\ Free(t, m)
    /\ IF Visible(t, m)
         THEN /\ draft' = [draft EXCEPT ![m] = row]
              /\ lock' = [lock EXCEPT ![m] = t]
         ELSE UNCHANGED <<draft, lock>>

(* Mutant: the rows appended before the last statement are lost.              *)
Appended_LastOnly(t, rows) == rows

(* The append-only rows of a transaction that commits.                        *)
Appended(t, rows) == pend[t] \cup rows

(* conn.commit(), after the last appended rows: all of the transaction's      *)
(* rows become visible at once.                                               *)
Commit(t, rows) ==
    /\ mem' = [m \in MemId |-> View(t, m)]
    /\ lock' = [m \in MemId |-> IF lock[m] = t THEN NoTxn ELSE lock[m]]
    /\ journal' = journal \cup Appended(t, rows)
    /\ pend' = [pend EXCEPT ![t] = {}]
    /\ UNCHANGED <<draft, next>>

(* conn.rollback(), or the database dropping a dead client: nothing the       *)
(* transaction wrote survives.  Ids it used stay used.                        *)
Rollback(t) ==
    /\ draft' = [m \in MemId |-> IF lock[m] = t THEN mem[m] ELSE draft[m]]
    /\ lock' = [m \in MemId |-> IF lock[m] = t THEN NoTxn ELSE lock[m]]
    /\ pend' = [pend EXCEPT ![t] = {}]
    /\ UNCHANGED <<mem, next, journal>>

(* The session's locals go with its connection; a job process starts afresh   *)
(* at the scheduler's next firing, a request or a background task never does. *)
Close(t, state) ==
    /\ pc' = [pc EXCEPT ![t] = state]
    /\ todo' = [todo EXCEPT ![t] = {}]
    /\ at' = [at EXCEPT ![t] = 0]

(* What the client is told of an exception: 500, except that retrieve turns   *)
(* psycopg.OperationalError (here "database": no connection, a connection     *)
(* lost, a deadlock victim) into 503 as long as it holds its connection.  A   *)
(* background task has nobody to tell.                                        *)
Told(t, error) ==
    CASE t \in Turns /\ pc[t] \in {"queued", "open"} -> reply[t]
      [] t \in Retrieves /\ error = "database" /\ pc[t] # "answer"
           -> "memory_unavailable"
      [] OTHER -> "error"

Fail(t, error) ==
    /\ Close(t, IF t \in Jobs THEN "idle" ELSE "failed")
    /\ seen' = [seen EXCEPT ![t] = {}]
    /\ arg' = [arg EXCEPT ![t] = NoArg]
    /\ reply' = [u \in Requests |-> IF u = t THEN Told(t, error) ELSE reply[u]]
    /\ UNCHANGED <<counted, month>>
------------------------------------------------------------------------------
StoreInit ==
    /\ mem = [m \in MemId |-> Blank]
    /\ draft = mem
    /\ lock = [m \in MemId |-> NoTxn]
    /\ next = 1
    /\ journal = {}
    /\ pend = [t \in Txn |-> {}]
    /\ pc = [t \in Txn |-> "idle"]
    /\ todo = [t \in Txn |-> {}]
    /\ seen = [t \in Txn |-> {}]
    /\ arg = [t \in Txn |-> NoArg]
    /\ at = [t \in Txn |-> 0]
    /\ reply = [t \in Requests |-> "none"]
    /\ counted = [t \in Healths |-> {}]
    /\ month = 0
    /\ crashes = 0
=============================================================================
