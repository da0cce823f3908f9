------------------------------ MODULE Retrieval ------------------------------
(* The reads: retrieve, which runs up to three searches, ranks what they      *)
(* found, tops up the access count of what it returns and answers after its   *)
(* transaction closed; list_memories, a single SELECT; and health, two of     *)
(* them over the append-only tables.                                          *)
EXTENDS Store

(* Mutant: a search forgets to ask for active memories.                       *)
Readable_AnyStatus(t) == {m \in MemId : Visible(t, m)}

Readable(t) == Select(t, "active")

(* One search of hybrid_search adds the active memories it sees to the        *)
(* candidates.  Which of them a search really matches is left to Rank, which  *)
(* returns any of the candidates.                                             *)
Search(t, from, to) ==
    /\ pc[t] = from
    /\ pc' = [pc EXCEPT ![t] = to]
    /\ seen' = [seen EXCEPT ![t] = @ \cup Readable(t)]

(* The connection, `now` and the vector search.                               *)
BeginRetrieve(t) ==
    /\ CanOpen
    /\ Search(t, "idle", "keyword")
    /\ at' = [at EXCEPT ![t] = month]
    /\ UNCHANGED <<db, todo, arg, reply, counted, month, crashes>>

KeywordSearch(t) ==
    /\ Search(t, "keyword", "entity")
    /\ UNCHANGED <<db, todo, arg, at, reply, counted, month, crashes>>

(* Runs only when the query names an entity; Rank may come before it.         *)
EntitySearch(t) ==
    /\ Search(t, "entity", "rank")
    /\ UNCHANGED <<db, todo, arg, at, reply, counted, month, crashes>>

(* Scoring, the relevance floor and the token budget: some of the candidates  *)
(* are returned, or none and the request abstains.                            *)
Rank(t) ==
    /\ pc[t] \in {"entity", "rank"}
    /\ \E result \in SUBSET seen[t] :
         /\ seen' = [seen EXCEPT ![t] = result]
         /\ todo' = [todo EXCEPT ![t] = result]
    /\ pc' = [pc EXCEPT ![t] = "bump"]
    /\ UNCHANGED <<db, arg, at, reply, counted, month, crashes>>

(* UPDATE ... SET last_accessed_at WHERE id = ANY(...) takes its rows one at  *)
(* a time.                                                                    *)
Bump(t) ==
    /\ pc[t] = "bump"
    /\ \E m \in todo[t] :
         /\ Update(t, m, [View(t, m) EXCEPT !.used = at[t]])
         /\ todo' = [todo EXCEPT ![t] = @ \ {m}]
    /\ UNCHANGED <<mem, next, journal, pend,
                   pc, seen, arg, at, reply, counted, month, crashes>>

Bumped(t) == pc[t] = "bump" /\ todo[t] = {}

RetrieveRows(t) == {Log(t, "retrieved", Null), Log(t, "metric", Null)}

(* The audit row, the metric and the commit.                                  *)
FinishRetrieve(t) ==
    /\ Bumped(t)
    /\ Commit(t, RetrieveRows(t))
    /\ Close(t, "answer")
    /\ UNCHANGED <<seen, arg, reply, counted, month, crashes>>

(* The reranker has permuted the results and the response leaves.             *)
Respond(t) ==
    /\ pc[t] = "answer"
    /\ pc' = [pc EXCEPT ![t] = "done"]
    /\ reply' = [reply EXCEPT ![t] = "ok"]
    /\ UNCHANGED <<db, todo, seen, arg, at, counted, month, crashes>>

(* GET /v1/memories.                                                          *)
ListMemories(t) ==
    /\ CanOpen
    /\ Search(t, "idle", "done")
    /\ reply' = [reply EXCEPT ![t] = "ok"]
    /\ UNCHANGED <<db, todo, arg, at, counted, month, crashes>>

(* Mutant: the metrics are read before the audit log.                         *)
CountedAt_Swapped(select) ==
    IF select = 1 THEN {"metric"} ELSE {"stored", "retrieved", "replaced"}

(* What each of compute_health's two SELECTs counts.                          *)
CountedAt(select) ==
    IF select = 1 THEN {"stored", "retrieved", "replaced"} ELSE {"metric"}

(* A SELECT over the committed rows of the tenant's append-only tables.       *)
Count(t, select) ==
    counted' = [counted EXCEPT ![t] = @ \cup
        {e \in journal : /\ e.kind \in CountedAt(select)
                        /\ e.txn \in Requests
                        /\ TenantOf[e.txn] = TenantOf[t]}]

(* GET /v1/observability/health: its first SELECT, and its second.            *)
BeginHealth(t) ==
    /\ pc[t] = "idle" /\ CanOpen
    /\ Count(t, 1)
    /\ pc' = [pc EXCEPT ![t] = "counting"]
    /\ UNCHANGED <<db, todo, seen, arg, at, reply, month, crashes>>

FinishHealth(t) ==
    /\ pc[t] = "counting"
    /\ Count(t, 2)
    /\ pc' = [pc EXCEPT ![t] = "done"]
    /\ reply' = [reply EXCEPT ![t] = "ok"]
    /\ UNCHANGED <<db, todo, seen, arg, at, month, crashes>>
=============================================================================
