# A specification of the conversational memory service

TLA+ models of the service under `src/implementation/` and of the measuring
programs beside it: what they say, what TLC
checks on small instances and what TLAPS proves for every instance.  Every
definition is translated from the code; the documents of the repository are used
only as a source of claims to hold the code to.

## 1. The system

The service keeps *memories*: facts extracted from conversation turns, one row
of table `memory` each, belonging to a *tenant* (a user).  A turn is stored at
once and processed later by a background task; reads never wait for it.  All
state that survives is in PostgreSQL.  The server keeps only its queue of
background tasks, and that queue is lost with the process.

| Component | Source (`src/implementation/`) | State | Operations |
|---|---|---|---|
| Database store | `db/schema.sql`, `db/connection.py` | `memory`, `memory_entity`; append-only `audit_log`, `write_gate_decision`, `request_metric`, `conversation_turn` | transactions through `tenant_connection` (row-level security) and `job_connection` (all tenants) |
| Secrets filter | `secrets_filter/detector.py` | none | `scan`, `redact`, `is_entirely_secret` |
| HTTP API | `api/main.py` | the queue of background tasks | ingest, retrieve, list, feedback, delete, health |
| Write gate | `write_gate/pipeline.py`, `retrieval/indexer.py` | one turn's loop | `process_turn`: judge, store, index, supersede |
| Contradictions | `contradiction/detector.py`, `resolver.py` | `status`, `superseded_by` | `find_same_subject`, `resolve_contradictions` |
| Retrieval | `retrieval/search.py`, `entity_extractor.py` | `access_count`, `last_accessed_at` | `hybrid_search` |
| Forgetting | `forgetting/reweight.py`, `purge.py`, `jobs/*.py` | `weight`, `status`, rows removed | nightly reweight, purge |
| Observability | `observability/metrics.py` | rows of `request_metric` | `record_metric`, `compute_health`, `_percentile` |
| Authentication | `api/auth.py` | none | token to tenant id |
| Remote models | `extraction/extractor.py`, `write_gate/judge.py`, `retrieval/embedder.py` | none | extract, judge, embed |
| Reranker | `prototypes/reranker.py`, `rerank_experiment.py` | none | permute an answer; the adoption experiment |
| Write-gate classifier | `prototypes/classifier.py`, `classifier_experiment.py` | word and label counts | `train`, `predict`, `load_examples` |
| Benchmarks | `benchmark.py`, `src/experiments/naive_baseline/` | sums over probes | `run_size`, `run_probes`, `collect_error_examples` |

**How they interact.**  They share the database and nothing else.  A request
runs in a worker thread in one transaction; a turn runs later, in one
transaction, in some order relative to other turns; each job is a process of its
own that an external scheduler starts, and two runs may overlap.  The isolation
level is PostgreSQL's default, READ COMMITTED: each statement sees what was
committed when *it* started, and an `UPDATE ... WHERE id = ...` waits for the row
lock and then changes the newest version, whatever an earlier `SELECT` returned.

**What is hard.**

- *Check, then act.*  `feedback`, `delete_memory`, `run_reweight_job`,
  `run_purge_job` and `resolve_contradictions` all read in one statement and
  write by id in another.  In between, the row may change status or be gone.
- *Invisible writers.*  Two turns on one subject, processed at once, do not see
  each other's uncommitted memories.  Nor does the order of the tasks have to be
  the order in which the turns were said.
- *Row locks.*  Turns, retrievals and sweeps lock rows in different orders.
- *A key that points the wrong way.*  `superseded_by` refers to a memory without
  an `ON DELETE` clause, so the purge of a replacement fails while what it
  replaced is there, and takes the whole sweep down with it.
- *Crashes.*  A turn must leave its memories and their audit rows or neither.
  Around a commit there are two moments to be lost in: before it, when nothing
  happened, and after it, when everything did but nobody was told.  Nothing is
  retried in either case.
- *Two statements, one answer.*  `health` counts the audit log in one `SELECT`
  and the metrics in the next; writers commit between the two.
- *Numbers laid side by side.*  The two benchmarks compute measures of the same
  name over different lists; the reranking experiment fixes the delay and the
  budget that its verdict compares; a percentile of a few samples rounds ties.
- *Rounding.*  The judge's confidence is a double, the stored one a `REAL`.
- *Loops over overlapping data.*  The redaction loop meets nested, adjacent and
  partly overlapping findings; the ranking loop works on searches that were cut
  off, under a budget.

**What makes each part correct.**  *Store*: a tenant's session touches only its
rows; a transaction commits as a whole.  *Write gate and contradictions*:
`superseded_by` leads to a later, at least as confident memory of the same
tenant and subject; of two memories on a subject the outdated one is not left
active.  *API*: every change is audited once; a deletion, once answered, is
final.  *Forgetting*: nothing is removed that no user asked to remove, what was
asked for is removed in the end, what is in use is not archived.  *Retrieval*:
deleted memories are not found; the budget is kept; irrelevant memories are not
returned and a relevant one is not lost to them.  *Secrets filter*: no secret is
stored, no other text is lost.  *API and observability*: no answer claims what is
not in the database; what a health answer counts as used, it has counted the cost
of.  *Benchmarks and prototypes*: a number counts what its name says; a model's
counters are those of the examples it was shown.

## 2. Modules

```
Store ── WriteGate ──┐
      ── Corrections ┤
      ── Forgetting  ┼─ MemorySystem ─┬─ MemoryInvariants ── MCMemory
      ── Retrieval ──┘       │        └─ MemorySystem_proofs
                    (implements Promise)        │
                              MemoryInvariants ─┴─ Pointers_proofs
                                                        │
                    Settled_proofs ── Answers_proofs ── History_proofs

Redaction ─┬─ Redaction_proofs
           └──────────────┐
Evaluation  ┐             │
Classifier  ┼─┬───────── MCOffline      Ranking ─┬─ MCRanking
Percentiles ┤ └─ Offline_proofs                  └─ Ranking_proofs
Rerank      ┘
```

**Store** is the database as its clients use it.  Every request, task and job
run is a *session* (an element of `Txn`).  `mem` is the committed version of
each row, `draft` the version written under `lock`, `journal` the committed rows
of the append-only tables, and `pend` those not yet committed.  `View`, `Select`,
`Insert`, `Update`, `Commit` and `Rollback` are SQL statements at READ
COMMITTED; `Visible` is the policy `tenant_isolation` (jobs bypass it).  `pc`,
`todo`, `seen`, `arg` and `at` are the locals of the Python functions, `reply`
is what the client was told, `counted` what a health request has read.  A purged
row stays in `mem` with status `"purged"`, only to let properties speak of it.

An action is one SQL statement on shared rows with the Python code around it.
Inserts nobody else can see before the commit are part of the statement they
follow; a loop over rows is one action per row, because each `UPDATE` may have
to wait for a different session.

| Module | Actions | Code |
|---|---|---|
| WriteGate | `Ingest`, `AnswerIngest`, `StartTurn`, `StoreCandidate`, `DropCandidate`, `Supersede`, `FinishTurn` | `ingest`, `process_turn`, `resolve_contradictions` |
| Corrections | `BeginFeedback`, `WriteFeedback`, `FinishFeedback`, `BeginDelete`, `WriteDelete`, `FinishDelete`, which are `Begin`, `Write` and `Finish` with the statuses and words of either endpoint | `feedback`, `delete_memory` |
| Forgetting | `BeginReweight`, `Reweigh`, `BeginPurge`, `Erase`, `EraseFails`, `FinishJob` | `run_reweight_job`, `run_purge_job`, `job_connection` |
| Retrieval | `BeginRetrieve`, `KeywordSearch`, `EntitySearch`, `Rank`, `Bump`, `FinishRetrieve`, `Respond`, `ListMemories`, `BeginHealth`, `FinishHealth` | `hybrid_search`, `retrieve`, `list_memories`, `health`, `compute_health` |
| MemorySystem | the above for every session; `Victim`, `Crash`, `LoseAck`, `Tick` | the server, the scheduler, failures, the clock |

`find_same_subject` has no tenant condition of its own, nor does the model's
`SameSubjectAs`: both rely on `Visible`.  A topic stands for an embedding, and
`SameSubject` is any relation between topics; it need not be transitive, just as
similarity above a threshold is not.  `Round` is any monotonic, idempotent
rounding of confidences.  `BelowFloor` is the weight formula of
`run_reweight_job` compared with the archive floor, multiplied out to integers:
the half-life is 30 days, which is the month by which the clock moves.  A
memory's importance and number of retrievals are not kept, so a sweep may see
any of `Importances` and any number up to `MaxUses`.

**Failures.**  `Crash` ends a session at any point of its life.  It stands for
everything that raises or dies there: no connection, a broken one, a `CHECK`, a
remote model, the reranker, the process.  What is uncommitted is rolled back.
`LoseAck` is the opposite half: PostgreSQL committed, and the session was lost
before it heard so.  An ingest that has committed is `"accepted"` or `"refused"`
until it has queued its turn and answered (`AnswerIngest`); a `Crash` in that state
is its lost acknowledgement, and leaves a turn in the table that no task will ever
process.  `Victim` is the deadlock detector.  `Told` says what the
client learns: 500, or 503 for a retrieval that loses its database while it
holds its connection (`psycopg.OperationalError` around the transaction in
`retrieve`), or nothing for a background task, whose client was answered long
before.  A reranker that fails after the transaction makes it 500 although the
retrieval is counted and audited.  No code retries: a lost request is over, and
only the scheduler starts a lost job again.

**Promise** is the abstract specification: a memory is born readable or already
outdated, once hidden stays hidden, and is erased only after its user asked.
`MemorySystem!KeepsPromise` is the refinement: the phase of a memory is read off
its committed status, and the deletions asked for off the audit log.

**Redaction** is the secrets filter on one message.  `Scan` reports any set of
findings such that those of one pattern are disjoint (`finditer`) while those of
two patterns overlap in any way.  `Skip`, `Replace` and `Finish` are the loop of
`redact`, one action per round; `kept` is the set of positions copied to the
output.

**Ranking** is what `hybrid_search` does with its rows: `Search` (three queries
with their limits), `Filter` (the relevance floor), then one action per round of
the loop over candidates (`Take`, `PassOver`) and `Stop`.  Scores are scaled to
integers; `Scale` is a similarity of 1.0, and the weights 0.5, 0.3, 0.2 and 0.4,
0.2 become exact.  A double may land just off an exact value on the floor; this
is not modelled.  `memory.embedding` has an HNSW index.  PostgreSQL may sort the
tenant's rows exactly or scan that index, which is approximate, and apply the
tenant's policy to what it found; the variable `indexed` is that choice, and
with it the vector search may miss any row.

The programs beside the service keep no shared state; MCOffline runs one of them,
or Redaction, at a time.  **Evaluation** asks the probes of `build_workload`, one
per round, of both benchmarks.  The naive store may rank its memories in any
order, a bijection from the store to the places from 1 on.  The real system may
return any results (`Results`): up to `K` of the memories its user owns, in any
order, independent of the naive ranking, for it has a blend and an embedder of its
own, and its floor, search limits and abstention may hide the right memory as well
as others.  That only the user's own memories come back is TenantIsolation of
MemorySystem.  **Classifier** is the naive Bayes prototype; the examples are
texts with a label each, and one text may come with both.  Sums of
logarithms are compared as products of fractions, and where two different
products are equal the rounding of the logarithms decides, so `Predict` is a set
of answers.  **Rerank** is `rerank_experiment.py`: scenarios, the reranker's
delay, the verdict.  **Percentiles** is `_percentile` with Python's rounding.

Operators whose names have a suffix (`Outranked_Swapped`, `LeftByDelete_None`,
...) are *mutants*: the definition with a plausible bug in it.  No specification
uses them.  Each property is known to fail when some mutant takes the place of
the original, so none holds for want of the behaviour it is about.

## 3. What is checked

All of it with TLC.  The runs are instances of MCMemory, except `ranking`
(MCRanking), `offline` (MCOffline) and `redaction_tail` (Redaction).

### Properties that hold

| Run | Shows | Bounds |
|---|---|---|
| `subjects` | `TypeOK`, `SupersededByBetter`, `HealthCoherent`, `WorkInv` | two turns at once, two facts each, three ids, three topics in a row (neighbours alike, ends not), three confidences of which one rounds up, clean and all-secret messages, a health request beside them, one failure anywhere |
| `purge` | `ReplacementKept`, `PurgeOnlyRequested`, `KeepsPromise`, `DeletionSettles`, `WorkInv` | two turns, a list, two deletions, two purge processes, three of them open at once; three ids make chains of two replacements |
| `lifecycle` | `TenantIsolation`, `JournalExplains`, `AnswersDurable`, `NoSearchFindsDeleted`, `NeverReactivated`, `InactiveSettles` | two tenants with a turn each; feedback, a deletion, a retrieve and the sweep, two open at once; two months pass; one failure or lost acknowledgement anywhere |
| `progress` | `EveryTransactionEnds`, `UsefulKept` | a turn of two facts, a retrieve and both jobs, all open at once; the bump of the retrieve and the sweep can deadlock over two rows; two months in steps of one, so that a memory can be exactly on the floor or below it |
| `completion` | `EveryTurnProcessed`, `DeletionCompletesUnlessBlocked`, `NewerWinsOverCommitted`, `InactiveSettles` | two turns of a fact each on one subject, two confidences, feedback, a deletion and the purge job, all open at once; a turn may have to wait for the row that feedback or the deletion holds |
| `ranking` | `WithinBudget`, `OnlyRelevant`, `AbstainsHonestly`, `LeftOutForBetter`, `RankingInv` | three memories, pools of two, `k_max` 2, budget 3; similarity off, below and on the floor, three keyword ranks, entity or not, popular or not, too long or not |
| `offline` | `MrrFitsHits`, `ExamplesExplainRates`, `DroppedOnlyIfMissed`; `CountersExact`, `LearnsWhatItIsTold`; `NeverAdopts`; `PercentilesHold`; `InnocentTextKept`, `NoSecretKeptWithoutTails`, `VerdictFits`, `RedactionInv` | all six shapes of probe over every ranking of four memories and every list of results, `K` 2, two of the longest memories just fit the budget; up to five examples of four texts that share and repeat words, with either label; three scenarios; up to 13 samples of four latencies; a message of five positions, three patterns, three findings: enough for any two to be apart, adjacent, nested or crossing, beside a third |

`WorkInv` is the conjunction of the invariants behind the proofs of section 4, of
which `RedactionInv` and `RankingInv` are the counterparts.  The invariants of the
other offline programs add to the properties of `offline` only what type the state
has.

**After the races.**  Between a `SELECT` and the `UPDATE` by id that follows it,
much can happen to a row, and the violations below show some of it.  Four
properties say how far that goes, under any interleaving.  `InHand(S, m)` are the
sessions of kind S that have read m and not yet committed or rolled back what
they write because of it.

- `InactiveSettles`: once m has left the active state and no turn, feedback or
  sweep has it in hand, none will take it in hand, its status changes only by
  deletion and purge, and nothing else is logged about it.
- `DeletionSettles`: once m is deleted and nobody, deletions included, has it in
  hand, it stays deleted until it is purged, and is audited no second time.
- `UsefulKept`: within the half-life of its last use a memory is archived only by
  a sweep that found it faded before that use.
- `NewerWinsOverCommitted`: a memory committed before a more confident one on its
  subject is inserted does not end up active beside it, whatever feedback,
  deletions, other turns and failures do in between.

So every loss of a documented promise needs a session that read before and writes
after another's commit.

`CHECK_DEADLOCK FALSE` is set where everything requested has been done and
nothing starts a job again (or the program modelled has come to its end).  The
other runs have jobs that the scheduler restarts for ever.

**Bounds.**  In the guards: `N` ids, `MaxFacts` candidates per turn, `MaxOpen`
transactions, `MaxCrashes` failures, `MaxMonth` months in steps of `Step`,
`MaxUses` retrievals in the weight formula; `MaxFindings` in Redaction,
`MaxExamples` in Classifier, `MaxSamples` in Percentiles, `Scenarios` in Rerank.
Each request runs at most once, so a client that repeats a call is two requests.
A run leaves out the sessions its properties do not depend on.  One failure is
enough where failures count: two sessions lost have no state in common but the
rows, which a rollback restores, and after the first loss everything else is
still to come.  Thirteen samples cover both parities and both roundings of the
95th percentile's index.  `offline` has 10^-4 where `predict` has 1e-9, as the
prior of a label without examples.  `LearnsWhatItIsTold` is about texts whose words
are all known, and needs no bound on their length.  A new word is one
more in the vocabulary, which smooths every share: keep "i", drop "i i" twice,
and the classifier keeps "i i i i it", but once it has been told so in training
it drops it (found by TLC on those three texts).  Nor does the classifier follow
its evidence whenever that is unanimous: trained on one label only, it answers
with the other for a long text of unseen words, whose smoothed shares under the
empty label outweigh even the prior of 1e-9.

**Symmetry.**  `purge` treats deletions as alike, and purge processes as alike:
all of one kind belong to one tenant, and no definition tells
them apart.  It checks no liveness.  `ranking` is symmetric in its memories.

**Fairness.**  `progress`, `completion` and `purge_stuck` assume, for each session,
strong fairness of its next
step: PostgreSQL queues waiters for a row lock, so a statement that can run
again and again does run; and the server's threads and the job processes are
scheduled.  They assume weak fairness of the deadlock detector and of the
scheduler starting jobs.  They do *not* assume that a user sends anything or that
months pass; a turn that is a deadlock victim is counted as ended because nothing
retries it.  No session is lost in these runs: a crashed server loses its queue,
and nothing promises that it does not.

### Claims the code does not keep

Each of these runs checks one claim of a document, comment or docstring, and TLC
finds a behaviour of the code that violates it.

| Run | Claim | What happens |
|---|---|---|
| `lost_deletion` | a memory marked deleted stays so until it is purged (`design/data_model.md:124`) | the reweight sweep reads it active; `delete_memory` commits; the sweep's `UPDATE ... WHERE id` archives it (`reweight.py:73`).  No purge will remove it. |
| `both_active` | the current preference always beats the outdated one (INV-5, `data_model.md:120`) | two turns at once do not see each other; both memories stay active (`pipeline.py:111`). |
| `purge_stuck` | a deleted memory is removed within its window (`purge.py:1-4`) | it is the replacement of a memory still there; the foreign key makes this and every later sweep of all tenants fail (`purge.py:38`). |
| `stale_answer` | from the instant of its deletion no read returns a memory (`api/main.py:297-298`) | a retrieve has searched; the deletion commits and is answered; the retrieve, which may be reranking meanwhile, answers with the memory (`main.py:230`). |
| `redaction_tail` | an overlapping match is already covered (`secrets_filter/detector.py:109`) | it starts inside an earlier finding, or together with it, and ends later; it is skipped whole and its tail is stored. |

More races of the same kind exist, all of them instances of what the properties
under "After the races" still allow.  Two sweeps, two deletions, two feedbacks, or
feedback beside a turn, record one
change twice; feedback that read an active memory overwrites a deletion committed
since with `superseded` (`main.py:275`, against the docstring at
`main.py:259-261`), and so does a turn (`resolver.py:31`); feedback overwrites
what a sweep has just archived; a sweep archives a memory that was retrieved
after the sweep read its last use (`reweight.py:73`).  (Two overlapping
purges of one memory both audit it; the promise of one audit row is only made
for deletions.)

`NewerWins` speaks of the order in which memories are *stored*.  Background tasks
may run in another order than their turns were said in, and then the memory of
the earlier turn replaces that of the later one (`resolver.py:29`).  No line of
the code or the documents says what should happen then, so no property does.

`is_entirely_secret` counts a position as often as some finding covers it.
`VerdictFits` says what its verdict is worth all the same: a message that is one
secret is always rejected, and nothing is stored of which no more than a fifth is
left; but a message may be rejected although only 4/(5p) of it is in findings of p
patterns, two fifths of it with two.

### What the offline programs' numbers mean

`benchmark.py:4-6` prints both systems' numbers side by side as the "same metric
set".  `MrrFitsHits` says what two MRRs side by side mean: both are over the same
questions, each hit counts between 1/K and 1, but a miss of the naive store, whose
whole ranking is looked at, counts up to 1/(K+1), and one of the real system
nothing.  With as many hits on either side the MRRs may still be far apart, by the
order in which the hits were ranked; that is what the recorded 0.938 against 0.792
with hit@5 1.000 on both sides are
(`src/verification/results/benchmark_comparison.md:16-17`).  Leaks, too, are counted
over every probe of a known user in one and over scenario S4 only in the other.

`NeverAdopts` says that the reranking experiment cannot print ADOPT with the
settings it has: a gain in accuracy needs a scenario in which both memories were
found, and its reranker's two calls of 80 ms exceed the budget of 100 ms.

## 4. What is proved

TLAPS checks these for every value of the constants that satisfies the
assumptions named in Store, Redaction, Ranking, Evaluation, Classifier,
Percentiles and Rerank.  Every safety property that the passing runs check is among
them - invariants, action properties, the refinement - except `LearnsWhatItIsTold`;
for that one and for liveness see section 5.

| Module | Theorem | States `Spec =>` |
|---|---|---|
| MemorySystem_proofs | `TypeCorrect` | `[]TypeOK` |
| Pointers_proofs | `PointersSound`, `SupersessionSound` | `[]PointersInv`, `[]SupersededByBetter` |
| History_proofs | `HistorySound` | `[]HistoryInv` |
| | `NothingRevived` | `NeverReactivated` |
| | `PurgedOnlyOnRequest` | `[]PurgeOnlyRequested` |
| | `HistoryExplained` | `[]JournalExplains` |
| | `TenantsIsolated` | `[]TenantIsolation` |
| | `PromiseKept` | `KeepsPromise`, the refinement |
| Answers_proofs | `ReplacementStays` | `[]ReplacementKept` |
| | `AnswersSound`, `AnswersOnRecord` | `[]AnswerInv`, `[]AnswersDurable` |
| | `DeletedNotFound` | `NoSearchFindsDeleted` |
| | `HealthAgrees` | `[]HealthCoherent` |
| | `HeldSound`, `TallySound`, `WorkSound` | `[]HeldInv`, `[]TallyInv`, `[]WorkInv` |
| Settled_proofs | `SettledSound` | `[]SettledInv` |
| | `InactiveIsSettled`, `DeletionIsSettled` | `InactiveSettles`, `DeletionSettles` |
| | `UsefulIsKept`, `NewerWinsSound` | `UsefulKept`, `NewerWinsOverCommitted` |
| Redaction_proofs | `RedactionInductive`, `InnocentTextIsKept`, `SecretsAreRemoved` | `[]RedactionInv`, `[]InnocentTextKept`, `[]NoSecretKeptWithoutTails` |
| | `VerdictsFit` | `[]VerdictFits` |
| Ranking_proofs | `RankingInductive`, `AnswerWithinBudget`, `NothingIrrelevant`, `AbstainsOnlyWhenItMust` | `[]RankingInv`, `[]WithinBudget`, `[]OnlyRelevant`, `[]AbstainsHonestly` |
| | `BestAreReturned` | `[]LeftOutForBetter` |
| Offline_proofs | `EvalInductive` | `[]EvalInv` |
| | `MrrsFitHits`, `ExamplesMatchRates`, `TopFitsBudget` | `[]MrrFitsHits`, `[]ExamplesExplainRates`, `[]DroppedOnlyIfMissed` |
| | `PercentilesSound`, `CountersInductive`, `CountersSound` | `[]PercentilesHold`, `[]CountersInv`, `[]CountersExact` |
| | `RerankInductive`, `VerdictIsSettled` | `[]RerankInv`, `[]NeverAdopts` |

`Spec` is the specification of the component: `EvalSpec`, `PercentilesSpec`,
`ClassSpec` and `RerankSpec` in Offline_proofs, of which MCOffline runs one at a
time.

**Assumptions.**  Store: bounds are naturals, session names are distinct from
each other and from `NoTxn`, every request has a tenant, rounding is monotonic
and idempotent.  Nothing is assumed of `SameSubject`, not even symmetry.
Redaction: lengths and bounds are naturals.  Ranking: finitely many memories,
positive limits, every memory has at least one word (`_estimate_tokens` never
returns 0).  Evaluation: `K` is positive, `K` memories of any length fit the
budget (the workload's texts are a sentence each), and a reciprocal rank is a
natural number of units.  Classifier: the examples are sequences of words.
Percentiles: latencies are naturals, of which there may
be infinitely many.  Rerank: times are naturals and the latency budget is at most that
of two candidates, as in the code (100 and 80 ms).

**Why strengthenings are needed.**  A property of committed rows is never
inductive here: what a transaction commits it has built in drafts, from what
statements before had returned, while other sessions committed.  The invariants
of MemoryInvariants, together `WorkInv`, say what holds of work in progress.  In all of them the
proof goes action by action, through lemmas about `Insert`, `Update`, `Commit`
and `Rollback`.

*PointersInv*, behind `SupersededByBetter`.  `RowInv`: an unlocked row has no
draft of its own, a draft keeps the columns no statement updates, ids not yet
given out are unlocked, and a stored confidence is its own rounding.
`DraftPointerInv`: a pointer in a draft leads to a committed row or to a draft
of the same transaction, so that a commit publishes both and a rollback neither.
`TurnInv`: what `find_same_subject` returned to a turn remains true of those
rows until they are written, because only columns that play no part in the
comparison may change meanwhile; this is where monotonic rounding is needed,
since the comparison uses the judge's confidence and the pointer's claim the
stored one.

*HistoryInv*, behind what statuses and audit rows say of each other.
`WriterInv`: which status each kind of session may leave in a row it has locked,
and that no version of a row that left the active state is active.  `RecordInv`:
a committed row is explained by the committed entries, and a draft by those and
the uncommitted entries of whoever holds its lock.  `SessionInv`: what a session
has read and not yet written is its tenant's, what a purge has read was marked
deleted, a deletion has logged no more than the row it holds.  It gives the four
theorems of History_proofs and, with a case for each kind of commit, the
refinement: a turn's commit is `Learn`, a correction's or sweep's `Retire`, a
deletion's `Ask`, a purge's `EraseAsked`, and everything else a stutter.

*HeldInv*, behind `ReplacementKept`: a pointer not yet committed leads to a row
of the same turn, and a transaction that has removed a replacement has removed
its predecessor, which is what the foreign key checks at each `DELETE` and what
must then survive until the commit, beside a second purge that fails halfway.

*AnswerInv*, behind what clients are told: a correction in progress was answered
nothing yet, and has logged its action once it has written; one that was
answered has it on record.  *TallyInv*, behind `HealthCoherent`: every session
logs in its own name, so the metric of a write is committed with the write, and
a second `SELECT` finds the metric of everything the first one counted.

*The settling properties* speak of one step and of who has a memory in hand before
it.  `EveryStep` gives each step a footprint: whose draft it may touch, what it
may log, and what it may resolve to write, which the version of the row it has
read must allow.  A memory that nobody of a group has in hand can then be taken
up only by a session that reads it anew, and its status no longer allows the
write; rows change only when the holder of their lock commits.  For `UsefulKept`
*UsedInv* says that no time read or stored lies ahead of the month, and
`FadesLate` that the formula puts nothing below the floor within the half-life.
For `NewerWinsOverCommitted`, `Overtaken` follows the newcomer from its insertion
to its commit: its turn still has the older memory to supersede, or holds a
version of it that is no longer active.

**Redaction.**  `LoopInv` says that text before the cursor is kept or inside a
finding, and that findings are dealt with in the order of `Before`; `CoveredInv`
that, without tails, every finding dealt with ends before the cursor.  The
hypothesis `NoTails` is what `redaction_tail` shows to be necessary.  For
`VerdictFits` the characters the code adds up are pairs of a finding and a
position, at least as many as there are positions covered, and at most one for each
pattern and position, because findings of one pattern are disjoint.

**Ranking.**  `SearchInv` says what a truncated search still guarantees: for each
memory it left out it returned one with that signal at least as strong.  One
signal that was strong enough to put the memory left out on the bar by itself
puts the other there too; every memory on the bar owes it to a keyword (whose
best match is always relevant), to an entity, or to its similarity alone.
`OrderInv` says that the candidates considered are no worse than the rest, and
that one passed over did not fit beside the better ones taken by then; what was
taken since only made it fit less, so it still does not fit in the answer.

**The benchmarks.**  `EvalInv` is the conjunction of the three properties and the
types; the work is in one probe, whose ranking or list of results gives the right
memory a rank, and the rank a reciprocal within the bounds of `Fits`
(`ReciprocalLemma`, `DivisionLemma`, `RankLemma`, `ResultLemma`).

**The counters and percentiles.**  `CountersInv`: the places of words in the
examples of a label are counted, and one more example adds a row of places.
Percentiles: samples up to a latency are counted; among finitely many samples
below a latency there is a greatest (`BoundLemma`, a least-counterexample
argument in place of induction), so at most `index` samples lie below the one at
`index`, and Python's rounding misses the true index by at most a half.

**Rerank.**  `RerankInv` adds that a gain so far means that some scenario took
at least the budget.

## 5. What is only checked, and what is not modelled

*Only model-checked:* liveness (out of the prover's reach) and
`LearnsWhatItIsTold` of the classifier.  That one more example of known words
does not weaken its label is an inequality between products of as many powers as
the text has words (by hand: the inequality of arithmetic and geometric means,
applied to the words' shares before and after), an induction over data that the
provers do not do.

*Abstracted:* what a pattern of the filter matches, the Luhn test, tokenising,
stemming, embeddings and entity extraction (data of the models); the columns
`content`, `importance`, `weight`, `access_count` and timestamps other than the
last use, in MemorySystem; costs and latencies.  `Retrieval!Rank` returns any
subset of what the searches saw; module Ranking says which.  A health request
keeps which rows it counted; the rates and costs made of them are quotients of
those counts.

*Not modelled:* `auth.py` (a pure function of the token; its result is
`TenantOf`); the LLM and embedding clients (their answers are nondeterministic
inputs, their failures `Crash`); request validation and the wire format; the
sentences that `classifier_experiment.py` generates, its split and its verdict
against a bar of its own, which are one computation over fixed data; the
benchmarks' similarity scores, timing, CSV files and printed tables; tests.

## 6. Plan

The life of a memory under concurrency (Store to MemorySystem, Promise), the two
algorithms users depend on (Redaction, Ranking) and the measuring programs are
modelled, and the safety of MemorySystem is proved.  What would come next:

1. The remedies for `lost_deletion`, `both_active`, `stale_answer` and
   `purge_stuck` as variants of `Reweigh`, `SameSubjectAs`, `Respond` and
   `Referenced`, once the code adopts one: `InactiveSettles` and
   `DeletionSettles` without their conditions on `InHand` say what the first must
   restore.
2. A queue that survives the server, should the code get one: a turn that is
   committed would then have to be processed in spite of `Crash`.
