# V10 engine: TLA+ models, checks and proofs

The V10 engine produces the documents and the code of a software project by
running a DAG of nodes. A *TASK* node has a language model write an artifact, its
*QA* node judges it, a *GATE* waits between two phases. One asyncio process holds
the whole engine; SQLite holds its state. This directory models what decides what
runs, what counts as done and what is run again, together with the operators,
the restarts and the services around it. TLC checks the models on small
instances; TLAPS proves the properties of the engine's core and of sixteen of the parts
around it for every instance (section 5).

Paths below are relative to `src/`.

## 1. Inventory

### Parts, state, operations

| part | source | state it keeps | operations |
|---|---|---|---|
| DAG advancer, node state machine | `engine/core/dag_advancer.py`, `state_machine.py` | the request queue, one snapshot per advance, the semaphore, the running tasks; the transition table | `run`, `_advance_dag`, `_transition_node`, `_launch_node`, `_run_node_safe`, `_handle_gate` |
| skill executor, cascade | `engine/skills/executor.py`, `executor_cascade.py`, `engine/core/cascade.py` | rows of `nodes`, `artifacts`, `artifact_qa_stamps` | guards, budget check, model call, save, QA checks, verdict, completion, invalidation of what follows or of what a test finds at fault |
| operator API | `api/server.py`, `engine/core/validation_gateway.py`, `engine/lifecycle/dag_repair.py`, `engine_version.py` | rows of `nodes`, `dags` | approve, reject, feedback, skip, retry, start, pause, suspend, resume, repair, force_close, revise, edit, retroactive-validate |
| life cycle | `engine/lifecycle/*.py`, `engine/skills/executor_heartbeat.py` | heartbeats, `agent_processes` | watchdog, startup recovery, shutdown |
| intake | `engine/intake/processor.py`, `project_planner.py`, `api/server.py` | `intake_submissions`, `engagements`, `dags`, the graph | submit, convert, reset, delete, purge, create_dag, dag start |
| generation in parts | `engine/skills/executor.py`, `batch.py`, `engine/core/state_store.py`, `coverage.py` | `nodes.task_snapshot`, `atomic_state`, `coverage_report`, the sections in memory | HTML items, documents, JSON categories and items, batches of pages |
| pages and splits | `engine/composition/*.py`, `engine/skills/assembly.py`, `splitting.py`, `codegen/page_builder.py` | `composition_recipes`, `composition_components`, the nodes and edges of groups | recipes, rendering, split of the frontend and of DESIGN TASKs |
| checks of the QA | `engine/skills/qa/harness.py`, `harness_auto_fix.py`, `retroactive.py` | artifact versions, stamps | programmatic checks, automatic fixes, the audit |
| artifact versions | `engine/skills/artifact/saver.py`, `api/server.py` | `artifacts.current_version`, `artifact_versions` | the saves of executors and operators |
| model calls | `engine/ai/account_router.py`, `model_adapter.py` | account statistics, cool-downs, slots | choose an account, call the CLI, retry, fail over |
| budgets | `engine/core/budget_enforcer.py`, `budget_scaler.py` | `agent_token_usage`, `phase_budget_override`, the log of reallocations | check before a call, reallocate, block |
| deployment | `engine/workspace/*.py` | `workspace_deployments`, ports, processes | polling, one deployment, health monitor |
| dynamic DAG, sort | `engine/core/dynamic_dag.py`, `dag_advancer.py` | added nodes and edges | `inject_node`, `topological_sort` |
| circuit breaker | `engine/core/circuit_breaker.py` | one row per provider | `check`, `record_success`, `record_failure` |
| database adapter | `engine/db/adapter.py` | one connection, a re-entrant lock | `execute`, `begin_immediate`, `executescript` |

`PROJECT.json` lists the components one by one, with those that carry no protocol
(prompts, rendering, authentication, logging), and maps every definition to its lines.

### How they interact

The API and the executors put a DAG on the advancer's queue. The advancer, the
only consumer, reads all rows of the DAG once, walks them in topological order and
writes transitions under an optimistic lock on `nodes.version`; for a runnable node
it creates an asyncio task. The task takes a slot of the semaphore and calls the
executor, which reads and writes the same rows *without* the lock, in many separate
statements. What the executor raises decides between a retry, FAILED and SUSPENDED;
then the DAG goes back on the queue. An approval also starts a cascade, at times as
a further background task. Operators, the watchdog and the startup recovery write the
same rows, some of them under the version and some not.

The executor also calls the services: the model through the account router, the
budget enforcer before each call, the artifact store after it, the splits before it.
They share tables and nothing else with each other.

### What is hard

* Every `await` is a point where another task may run. The advance works from a
  snapshot that is stale after its first statement, and executors write COMPLETED,
  INVALID and NOT_STARTED over whatever a row holds by then.
* `_transition_node` gives up silently after a conflict. The caller goes on.
* A task that fails late moves a row that may belong to another execution by now.
* The retry counter is written from the task's own copy and reset by the cascade.
* A QA's stamp outlives the artifact version it judged.
* Most protocols are several statements without a transaction: a conversion, a split,
  a save, a reallocation, a deployment. Others may read in between, and a crash or a
  swallowed exception leaves the rest undone.
* Requests must not be lost, and rework must end, also after a restart.

The list `hazards` of `PROJECT.json` has each at its line, with the properties that
catch it or the reason why none does.

### What makes each part correct

* advancer: no more executors than slots, none for a gate, one per node; no
  forbidden transition attempted; a DAG is COMPLETED only when its nodes are; nothing
  runnable is left behind; every DAG comes to rest.
* executor and cascade: only transitions of the table; a COMPLETED QA stands for a
  finished TASK; an approval judges the current artifact; retries are bounded.
* operators: no request leaves behind a node that could run; an approval is written only
  over the row its handler has read; what a revision invalidates runs again.
* life cycle: an execution whose process died is found again; a restart loses nothing.
* intake: one conversion per submission, whole, and a graph that can be run.
* generation in parts: one worker per new item; each part once; an honest report.
* pages and splits: no page without a TASK; the order of the graph survives a split.
* checks: those who repeat a check agree with those who made it.
* saves: a reader always finds the text of the current version.
* model calls: fail over before failing; no slot lost.
* budgets: reallocation makes no budget and ends.
* deployment: tries are bounded. Dynamic DAG: the sort takes every node. Breaker: no
  change of state without the streak it needs. Lock: first come, first served, and
  transactions whole.

## 2. Modules

### The engine

| module | role |
|---|---|
| `StateMachine` | states, node types, the transition table, the sets of states the advancer tests |
| `DagAdvancer` | the nodes table, the queue, the advance step by step, the wrapper around an executor |
| `Executor` | EXTENDS `DagAdvancer`: what an executor and its cascade do between launch and return; composes both in `Next`; the properties of the pair |
| `OperatorApi` | EXTENDS `Executor`: the requests of operators, each handler statement by statement |
| `Revision` | EXTENDS `OperatorApi`: the two handlers that change an artifact; `RevisedSpec` |
| `Lifecycle` | EXTENDS `Revision`: heartbeats, watchdog, a process that stops at any step, startup recovery; `LifecycleFair` |
| `MCExecutor`, `MCOperated`, `MCLifecycle` | graphs: a TASK/QA pair, a pair with its gate, two phases, two independent pairs |
| `ExecutorProofs` | proofs: the types, the slots, the gates |
| `ExecutorCalm` | EXTENDS `ExecutorProofs`: the inductive invariant of the engine for the calm outcomes (section 5) |
| `ExecutorTheorems` | EXTENDS `ExecutorCalm`: the properties that follow from it, and what is left at rest |

| variable | code |
|---|---|
| `node` | `nodes`: `state`, `version`, `retry_count` |
| `dag` | `dags.status` |
| `queue` | requests in `DAGAdvancer._queue` |
| `adv` | local variables of `_advance_dag` and `_transition_node`: snapshot, loop index, `_in_progress_count`, target, attempts |
| `run` | a `_run_node_safe` task: its point in the code, node, row, and for a QA `seen`, the version its verdict is about |
| `stall` | `nodes.stall_count` |
| `art` | `artifacts.current_version` |
| `stamp` | the artifact version the newest PASS of `artifact_qa_stamps` judged |
| `casc` | the background `_cascade_for_node` task of a QA |
| `op`, `made`, `why` | the handlers' local variables, the requests accepted so far, `nodes.suspension_reason` |
| `proc`, `watch`, `old`, `beat`, `text`, `stale` | the process, the watchdog's local variables, which rows are past its threshold, `last_heartbeat`, `failure_reasons`, rows that a dead process left in `agent_processes` |

One action is the code between two awaits that can matter: a SELECT or an UPDATE
with the decision that follows it. `Dequeue`, `Load`, `Evaluate`, `Transition`,
`Reload` and `Finish` are the advance; `Acquire`, `Success`, `LimitReached`,
`CountRetry`, `RunTransition` and `RunReload` the wrapper; the executor has its three
guards and their writes, `Work`, `BuildProgrammatic` and `BudgetWrite` for a TASK, `FindDefects`,
`SendBack`, `SendBackQa` and `SendBackGate` for one that is a test, `Inspect`,
`CheckStamp`, `Judge` and the three rejections for a QA, then `Complete`, `ReviveQa`
and the cascade, which is four UPDATEs in the foreground or five steps in the
background. `Poll` is the consumer's time-out on an empty queue.

Text, prompts, model answers and content checks are choices from `Outcome`:

| outcome | what has happened |
|---|---|
| `pass` | a TASK's output is valid; a QA is decided by its programmatic checks |
| `build` | a TASK's output is generated without a model, and completed early |
| `approve` | the model's verdict is PASS: stamp, COMPLETED, cascade |
| `error`, `limit`, `token` | an exception, an API limit, a spent token budget |
| `budget` | `pre_call_check` refuses the prompt (`executor.py:3209-3319`): a TASK becomes NOT_STARTED or BLOCKED and the executor returns; a QA that has passed its structural checks is COMPLETED, any other is rejected as with `reject_completed` |
| `defect` | a TASK of VERIFY finds defects (`repair.py:218-385`): the TASKs at fault become INVALID, then their COMPLETED QAs, then the gates behind BUILD, one statement each, and the test fails |
| `reject_kept` | the model's verdict is FAIL: the TASK becomes INVALID |
| `reject_invalid` | a structural check fails: the QA's own row becomes INVALID first |
| `reject_completed` | a check of programmatic output fails: the QA's row becomes COMPLETED first (`executor.py:3618`) |

Choices made in the translation:

* The task works on the advancer's `NodeSnapshot` object; the model gives it a copy.
  No decision changes: what a failing task writes there is never one of the states
  the advancer takes for done.
* `save_topo` between load and evaluation writes no modelled column. It is one step
  with `Load`. The cascade's version query is one step with the SELECT that follows.
* `GatesOf(q)` are the gates that wait for `q`, which on intake graphs is what the
  UPDATE by phase selects. The *upstream* cascade and the upstream rework of a QA do
  nothing: they read columns `nodes` does not have, or find no node on these graphs.
* Which TASKs a test finds at fault, and whether `failure_reasons` spares one that was sent back
  twice, is a choice among the COMPLETED ones. Only the check before a call (L1, L2) is `budget`: an error of L3 is
  raised by `post_call_record`, whose caller catches and logs it. `MaxRounds` ends the refusals of a prompt, which in the
  code nothing ends (`over_budget`).
* Database statements of the engine succeed, but for those on `kv_store`, a table no schema has: a start schedules an audit
  that raises at its first SELECT (`retroactive.py:376`) and changes nothing. The request `revalidate` gets further:
  it takes every group of engine files for changed and resets the TASKs they match (`engine_version.py:128-178`).
* `Run` bounds how many tasks are alive. When no name is free the advancer waits.
* `RunTransition` keeps the code's branch for an invalid transition; no run reaches
  it, as `AdvanceLegal` shows for the advancer's twin.
* Requests a handler refuses (404, 409) change nothing and are not made.
* Time in `Lifecycle` is whether a row is past the threshold: a row grows old at any
  moment nobody renews its timestamps. `BootZombies` may find any heartbeat recent.

### The parts around it

Each is a module of its own. `MCServices` runs them one at a time: its initial
state picks the part (`focus`), so that the state spaces add up instead of multiplying.
It EXTENDS the parts that have theorems, so that a run and a theorem speak of the same
definitions (their specifications are named apart: `LockSpec`, `BreakerSpec`, `VersionSpec`, `CallsSpec`,
`IntakeSpec`, `AttemptSpec`, `VerdictSpec`, `DeploySpec`, `BudgetSpec`, `SplitSpec`, `TextSpec`, `BatchSpec`,
`CheckSpec`, `RepairSpec`, `PipelineSpec`, and `Spec` of `ChunkedHtml`). Their proofs are in `DbLockProofs`, `CallProofs` (model calls, breaker and budgets),
`ArtifactProofs` (generation, saves, attempts, checks, verdicts, splits and pages) and `EngagementProofs` (intake,
repairs and deployment).

| module | models | one action is |
|---|---|---|
| `ChunkedHtml` | the HTML generation with `atomic_state`, `task_snapshot`, `coverage_report`; several generations, crashes, swallowed exceptions | one statement |
| `ChunkedText` | documents by section, JSON by category and by item, with snapshots, pauses, cuts, placeholders, crashes | one part of the answer |
| `BatchedFrontend` | pages grouped by layout, cut into batches, with the cache of earlier attempts | one batch |
| `ArtifactVersions` | the saves of executors and operators on one artifact | one of the three statements of a save |
| `DbLock` | the re-entrant lock with asyncio's waiters, `begin_immediate`, cancellation at any await, and the statement a cancelled call has already given to its thread, which ends late | what runs between two awaits |
| `FifoLock` | what the lock promises: one inside, in order of arrival. `DbLock!LockIsFifo` is the refinement | a visit |
| `CircuitBreaker` | one provider, callers that check, call and report | one transaction, or one statement of `check` |
| `ModelCalls` | the account router and the CLI adapter under it: round robin, fallback, last resort, cool-downs, slots, retries, cancellation | what runs between two awaits |
| `PhaseBudget` | the enforcer's levels and the reallocation of `budget_scaler.py` | one statement |
| `QaHarness` | the programmatic checks on a document, the automatic fixes, the override of the model's verdict, the recovery of suspended TASKs at a start, the audit | one pass over a document |
| `Intake` | the form, the claim, the conversion row by row, the graph of pairs, order edges and gates, deletion, reset, purge and start | one statement or loop of inserts |
| `PagePipeline` | recipes, their rendering, the components they register, the groups of pages and the TASKs that build them | what a TASK does between two awaits |
| `Splitting` | the split of a DESIGN TASK by groups of screens or by categories, with the advancer looking on | one statement |
| `Deployment` | polling, rows, ports, one deployment, the health monitor, a stop at any point | one step of a deployment |
| `Attempts` | the attempts of one TASK: the limit of an answer, a second call for a cut one, mending, saving, validation, one repair, retries and reworks | one of those steps |
| `Verdicts` | one QA: samples of the model's verdict, parsing, reconciliation with the rules, the stamp, rejections and stalls | one of those steps |
| `DynamicDag` | repair nodes put in by several callers, and the topological sort of what they leave | one statement |

Where documents or answers matter they are short sequences over what the code tells
apart: in `QaHarness` a document is made of headings, forbidden words, fences, table
rows and text, and each check is the count the code makes; in `ChunkedText` an entry is
its part and whether it is good, cut, cut again, failed or outside the array.

## 3. Runs

All passing runs are exhaustive. Deadlock is checked in the engine; the parts in
`services` stop when their bounded calls are used up.

| run | instance | what it shows |
|---|---|---|
| `pair_all` | one pair, every outcome, 2 attempts, 2 slots, 3 tasks | `TypeOK`; `AdvanceLegal`: the advancer never attempts a forbidden transition, even on a row adopted after a conflict; `NothingStranded`: at rest, nothing runnable is left unless a suspension stopped the flow |
| `pair_rework` | one pair, model verdicts and failures, 3 attempts, 2 slots | `RetryBounded`; with fairness `Terminates` |
| `phases_checks` | two phases and an automatic gate, programmatic checks, a test in the second phase that may send the first back | `GatesNeverRun`, `ApprovedTaskDone`, `RuleEight`, `ApprovalIsCurrent`, `GateJustified`, `CompletedIsDone` |
| `phases_converge` | two phases, every verdict PASS | `Converges`: the DAG reaches COMPLETED although every first approval sends its pair round again |
| `side_owners` | two pairs, 2 slots, 1 attempt | `OneOwner`, `SlotsBounded`, `ClaimsBounded` |
| `operated` | a pair and its gate, every kind of request, or one each of approve, edge_reject, pause and start at once | `NothingLost`: no request leaves behind a node that could run, even when it makes an advance give up; `ApprovalFresh`: nothing happens to a gate unnoticed between the handler's SELECT and its UPDATE |
| `lifecycle` | a pair, a process that stops at any step, the watchdog | `RestartLosesNothing`; with fairness `OrphansRecovered` |
| `services` | each part by itself | the properties of section 2's parts, below |
| `rule_eight_broken` | one pair, PASS | violates `RuleEight` |
| `revision_reruns` | one pair, a major revision | violates `RevisionReruns` |
| `over_budget` | one pair, a TASK whose prompt is refused | violates `OverBudgetSuspends` |
| `html_rework` | one worker, two generations | violates `CoverageHonest` |

The run `operated` uses the view `Seen`: versions only grow and are only compared with
the present row, so a copy is told apart by whether it still agrees with it.

What `services` checks:

| part | property | in words |
|---|---|---|
| HTML | `FirstReserveExclusive`, `FirstReportHonest` | a new item has one worker; the report of a first generation hides nothing |
| lock | `Whole`, `LockIsFifo` | a transaction's statements are on disk together or not at all; the lock implements `FifoLock`, cancellations included |
| breaker | `BreakerHonest` | no change of state without its streak, whatever late answers mix in |
| saves | `VersionsWhole` | the row of a save stays its own; a settled artifact has a row for its current version |
| calls | `FailsOver`, `SlotsReturned` | an error reaches the executor after the ways out were tried; slots add up |
| text | `AnswerHonest` | each part once and in order over any number of resumed attempts; a cut is owned up to |
| attempts | `CompletedValid` | what is COMPLETED passed the rules, whatever cut answers, repairs and retries came before |
| verdicts | `VerdictStands` | a pair with a stamp is never judged by a model again; a text that passes the checks is not sent back for a verdict; no TASK is told to restore a section it has |
| batches | `PagesCovered` | each page in one batch, and what is shown as good was saved as good |
| deployment | `TriesBounded` | the two limits agree; a failed row is in reach of a try or marked for good |
| repair | `RepairsSortable` | the sort takes every node; racing callers exceed the limit by one each |
| checks | `VerdictsAgree` | a fixed document passes again, the audit reopens only what the checks have not judged |
| intake | `OneConversion`, `ConvertedWhole`, `GraphsShaped` | one claim wins; CONVERTED means whole; the graph is acyclic and in the order of its phases |
| budget | `BudgetKept` | limits add up to the budget; reruns are bounded |
| pages | `PagesBuilt` | every page of the first assembly, or of the one that was split, is built, or is what some TASK that has not ended will build |
| split | `OrderKept` | when a split is through, what waited for the original waits for every group, and groups wait for what it waited for |

### Where a property holds and where it does not

Several properties hold only for some outcomes. The passing run then has the largest
set for which none of the known disagreements happens, and the reason is one of these:

* **The first approval resets its own pair** (`executor_cascade.py:305-361`). The cascade
  looks for successors that completed too early and finds the approving QA. It marks it
  INVALID and writes NOT_STARTED over the COMPLETED TASK, which the table forbids
  (`rule_eight_broken`). The TASK is generated again, and the stamp of its version 1
  approves version 2 unseen, although the stamp is meant for "the same artifact version".
  So `RuleEight` and `ApprovalIsCurrent` are checked without `approve`. The pass by stamp,
  after which no cascade follows, ends the loop.
* **Two executions of a node.** A structural rejection makes the QA's row INVALID while its
  task is alive. The advancer relaunches it. The first task then fails, conflicts, adopts
  the row IN_PROGRESS and moves it to READY: a further task starts, with two slots and
  three tasks on one pair. `OneOwner` holds for outcomes that leave the QA's row alone and
  one attempt.
* **An adopted COMPLETED row.** Where the tasks of another pair enqueue the DAG as they end,
  a QA that a structural rejection left with two tasks can be COMPLETED by one of them while the
  advancer holds its row for READY. The advancer reloads the row, gives that change up silently
  and goes on to IN_PROGRESS, which the table forbids, so the advance ends
  (71 steps, when further requests may arrive at any time). `AdvanceLegal` with every outcome is
  therefore checked on one pair, where TLC finds no such schedule.
* **An uncounted launch.** The retry of a FAILED node neither tests nor raises the count
  (`dag_advancer.py:247`). It needs a FAILED row with retries left, and only the cascade's
  reset of the counter makes one; with `approve` and one slot two executions are claimed.
  So `ClaimsBounded` is checked without `approve`, and `RetryBounded` without what resets the counter.
* **A QA COMPLETED by a failed check** (`executor.py:3618`) stands COMPLETED before its TASK is
  marked INVALID, so `ApprovedTaskDone` excludes `reject_completed`; the QA over budget does the same. Two pairs with two slots
  and three tasks lose it with `approve` as well: the early reset of a first approval makes the QA
  INVALID, the other pair's end enqueues, the advancer launches the QA again, the stamp passes it,
  and only then does the reset write NOT_STARTED over the TASK.
* **A test that sends work back** (`repair.py:329-364`) reaches the QAs after their TASKs, and only those that are
  COMPLETED. `ApprovedTaskDone` therefore passes over a TASK whose QA a cascade is still to reach (`SendingBack`). With two tests at
  work the first has the TASK and its QA run again; when the TASK is through and the QA at work, the second sends the TASK
  back and passes over the QA, which then approves over an INVALID TASK. `phases_checks` has one test.
* **A prompt over budget** (`executor.py:3281`, `3311`) takes a TASK from IN_PROGRESS to NOT_STARTED or BLOCKED, which the
  table forbids: `RuleEight` is checked and proved without `budget`. No retry is counted and the advancer promotes
  the TASK again, so a DAG need not come to rest: `Terminates` is checked without it as well. The legend of the states
  promises SUSPENDED (`over_budget`).
* **A gate opened from a stale snapshot** (`dag_advancer.py:411`): with `approve`, a QA may have
  been reset since the snapshot, so `GateJustified` excludes it.
* **Requests that do not enqueue.** Suspend, resume, force_close, the edge decisions, a revalidation and
  a revision write rows and leave the queue alone. `NothingLost` is stated for the kinds that do enqueue
  (`Enqueuing`) and for a DAG that is not paused; the others need a later request or the watchdog. So it says nothing of a
  resumed node that nobody starts, of a pause that an advance overwrites with COMPLETED, or of a running node
  that a manual retry starts once more.
* **An approval from an old page.** `approve_gate` takes no version from the client (`server.py:606-630`): it compares its
  UPDATE with its own SELECT. An approval sent from a page that showed the gate before it was reset and reopened counts for the
  new one. `ApprovalFresh` is about the two statements of the handler only.
* **A waiting task.** The watchdog resets a node whose task waits for a slot, as only a running one has a heartbeat. With one slot and
  one task nobody waits in `lifecycle`, and `OrphansRecovered` counts a waiting task as one that cares for its node.
* **Rework of a chunked node** passes over every COMPLETE item, although the document of the
  first generation is not an input of the second (`html_rework`). The same happens
  after a crash between `complete` and the save of the snapshot. A FAILED row can be
  reserved twice, because the UPDATE does not test the status and each generation has
  a lock of its own; hence the premise of `FirstReserveExclusive`.
* **A transaction cut by a cancellation** stays open (`adapter.py:202` rolls back only on
  `Exception`), so `Whole` is stated until one happens.
* **A conversion's status set by hand** (`server.py:2102-2137`) undoes the claim, so `OneConversion`
  allows one conversion more for each such change.
* **Splits that a crash cuts** lose the groups not yet inserted; `PagesBuilt` and
  `OrderKept` are stated for splits that came to their end.

### Bounds

* `Run` (1 to 3 live tasks): with at most two nodes runnable at once, the third name is what
  a relaunch during a late failure needs.
* `MaxRetries` 1 to 3: one attempt, one retry, and a counter that is written twice.
* `MaxConcurrent` 1 or 2: below and at the number of runnable nodes.
* `MaxRounds`: a prompt is over budget below this version of the row, 0 where `budget` is no outcome; each round of BLOCKED and
  back adds to it, so 3 lets a TASK go round once and find room.
* Versions and stamps need no other bound: attempts, stalls (two suspend the node)
  and the cascade (which runs once per approval without a stamp) bound them.
* `Together`: one request of any kind, or several of the kinds that race with each other.
  `MaxTrouble`, `ResumeBound`: one stop of the process, one resumption of a node; a second
  stop begins from the rows a first one may leave, which are rows an operator or a
  failure leaves too.
* HTML: two items and two workers, a worker behind and a worker ahead of an item; two
  generations: the first, and one that finds its leftovers (rows, snapshot).
* Text: three parts (before, at and after a cut) and three attempts. Batches: four pages
  with two layouts make a remainder in each group.
* Lock: three tasks (inside, woken, waiting), two statements in a transaction. Breaker: three
  callers, so that two late answers meet a third call. Saves: three writers, one to be overtaken
  by two, and a second save for the version the first has left.
* Intake: three documents in two phases, one order edge, two clients, two engagements:
  the smallest graph with a gate, an exclusion in a chain and a second conversion.
* Calls: two accounts of two tiers, two callers with one call each or two by one of them, one slot, limits of one failure: fallback,
  last resort and cool-down all happen. Budget: the limits are the code's in units of
  100 000 tokens, three nodes in two phases.
* Pages: five screens of which two have one slug, groups of at most two; two lists, so
  that a page is added after the split. Split: lists with and without groups, one too
  short to split.
* Clients, callers, task names and workers are interchangeable, so symmetry is used where a run
  checks no liveness.

### Fairness

`FairSpec` gives weak fairness to the consumer, to each executor task and to each
cascade: asyncio schedules every ready task, and all waits (database calls, model calls
with a time-out) end. The acquisition of a slot has strong fairness, as
`asyncio.Semaphore` serves its waiters in order. No fairness is given to any outcome, so
`Terminates` covers a model that always fails (but no prompt over budget), and `Converges` names the outcome it needs.
`LifecycleFair` adds the watchdog's steps, the steps of a start (a supervisor restarts the
process) and the passing of time; the process need not stay up, but its stops are
bounded.

## 4. Mutants

Each property of a passing run is broken by a plausible bug, written as an operator
next to the definition it replaces ("Mutant: ..."): a DAG that is not enqueued after a
success, a fresh row that is not validated, a retry too many, a gate opened when no
dependency has failed, a slot that is never released, `INSERT OR REPLACE`, an approval
that does not compare versions, a claim without its WHERE, a handle given back at once to
a newcomer, edges read before the groups exist, and so on.

## 5. Proofs

| module | theorem | statement |
|---|---|---|
| `ExecutorProofs` | `TypeCorrect` | `Spec => []TypeOK` of the composed engine |
| | `SlotsCorrect` | `Spec => []SlotsBounded` |
| | `GatesCorrect` | `Spec => []GatesNeverRun` |
| `ExecutorCalm` | `CalmCorrect` | `Calm` implies `Spec => []CalmInv`, the inductive invariant |
| `ExecutorTheorems` | `OwnersCorrect`, `ClaimsCorrect`, `RetriesCorrect`, `ApprovedCorrect`, `AdvanceCorrect` | `Calm` implies `Spec => []P` for `OneOwner`, `ClaimsBounded`, `RetryBounded`, `ApprovedTaskDone`, `AdvanceLegal` |
| | `CompletedCorrect`, `ApprovalCorrect`, `GateOpensCorrect` | `Calm` implies the action properties `CompletedIsDone`, `ApprovalIsCurrent`, `GateJustified` |
| | `RuleEightCorrect` | `Calm` without `budget` implies `RuleEight` |
| | `StrandedCorrect` | `Calm` implies `Spec => []NothingStranded` |
| `OperatedProofs` | `OperatedTypes`, `OperatedSlots`, `OperatedGates` | `RevisedSpec => []P` for `TypeOK`, `SlotsBounded`, `GatesNeverRun`: the engine with operators |
| | `ApprovalsFresh` | the action property `ApprovalFresh`: the gate an approval is written to is, column for column, the one its handler read, and still waits |
| `DbLockProofs` | `LockCorrect`, `FifoCorrect`, `WholeCorrect` | the invariant of the lock; the refinement `LockIsFifo`; `Whole` |
| `CallProofs` | `FailsOverCorrect`, `SlotsReturnedCorrect` | `FailsOver`, `SlotsReturned` of a model call |
| | `HonestCorrect` | the action property `BreakerHonest` |
| | `BudgetCorrect` | `BudgetKept` of the reallocations |
| `ArtifactProofs` | `TypeCorrect`, `FirstReserveCorrect`, `FirstReportCorrect` | `TypeOK`, `FirstReserveExclusive`, `FirstReportHonest` of the HTML generation |
| | `VersionsCorrect` | `VersionsWhole`, of racing saves |
| | `CompletesValid` | the action property `CompletedValid`, of the attempts of a TASK |
| | `StandsCorrect` | the action property `VerdictStands`, of a QA |
| | `OrderCorrect` | the action property `OrderKept`, of the splits |
| | `AnswersHonest` | `AnswerHonest`, of documents and lists made part by part |
| | `EachPageOnce` | `PagesCovered`, of a frontend made in batches |
| | `VerdictsCorrect` | `VerdictsAgree`, of the checks of a QA and their repetitions |
| | `PagesAllBuilt` | `PagesBuilt`, of the pages made from a list of screens |
| `EngagementProofs` | `ConvertsOnce`, `ConvertsWhole` | `OneConversion`, `ConvertedWhole` of the intake |
| | `GraphsCorrect` | `GraphsShaped`, of the graphs that intake makes |
| | `RepairsCorrect` | `RepairsSortable`, of the graphs that repairs change |
| | `TriesCorrect` | `TriesBounded` of the deployments |

Assumptions. The theorems about the engine hold for every finite graph of intake's shape
(`GraphAssumption`), every topological order of it (`OrderAssumption`) and every limit
(`BoundAssumption`: the limits are positive). `create_dag` and `topological_sort` establish the first two; TLC
evaluates them on the graphs of `MCExecutor`; `GraphsCorrect` proves of every set of templates that intake makes
such graphs, and `RepairsCorrect` that the nodes `inject_repair_node` puts in keep them sortable. The parts assume
what their constants are: `ChunkAssumption`, `ActorAssumption` (the lock's "nobody" is not a task),
`BreakerAssumption` (the thresholds are positive), `CallsAssumption` (accounts are listed in some
order, the limits are numbers), `IntakeAssumption` (a template has documents and their phases are
numbers; finitely many clients ask at a time), `DependencyAssumption` (`INTRA_PHASE_DEPS` relates templates of one phase and
has no circle, as the table in the code, whose order is not that of the templates), `BudgetAssumption` (each of finitely many nodes has one of the five
phases of `BASE_BUDGET`, and amounts are numbers), `SplitAssumption` (the pair that is split is not among its
own neighbours: the graph has no cycle), `TextAssumption` and `CheckAssumption` (numbers of parts and limits are
numbers), `BatchAssumption` (a batch has room for a page, the pattern batch for two, as the code's 50 and 5 do),
`PipelineAssumption` (screens are numbered from one, a list names screens, the threshold of a split is a
number), `RepairAssumption` (finitely many callers ask at a time, and a DAG may have a repair node at least, as the code's
20), `RequestAssumption` (the nodes that a rejection or a start of
a DAG selects are TASKs, as the `node_type='TASK'` of their SELECTs says).

### The engine for the calm outcomes

`Calm` is the hypothesis of `ExecutorCalm` and `ExecutorTheorems`. It allows for a
TASK `pass`, `build`, `error`, `limit`, `token` and `budget`, and for a QA the programmatic pass (over budget too), the
model's FAIL and every failure; it leaves out the four outcomes for
which TLC finds counterexamples, that is, where the code does not keep these properties:

* `approve`: the cascade resets its own pair (`RuleEight`, `ApprovalIsCurrent`,
  `GateJustified`, `CompletedIsDone`, with two slots `ApprovedTaskDone`);
* `reject_invalid`: the QA's row is INVALID while its task goes on (`RuleEight`, `OneOwner`);
* `reject_completed`: the QA is COMPLETED before its TASK is sent back (`RuleEight`,
  `ApprovedTaskDone`);
* `defect`: a test takes finished TASKs and QAs back, so that what an advance has seen as done need not be
  (with two tests `ApprovedTaskDone`).

A TASK over budget stays within the invariant: its owner writes its own row and returns like one that was blocked by a guard.
`RuleEight` alone fails, and its theorem has the further hypothesis that `budget` is no outcome.

It also asks that the other half of a SKIPPED node is SKIPPED, as intake makes them; a QA
skipped alone would be reopened by its TASK (`RuleEight`). The run `side_owners` satisfies
`Calm`, and `phases_checks` but for its test; `pair_rework` and `pair_all` check some of the properties for more outcomes, on one pair.

`CalmInv` is `TypeOK /\ GatesApart /\ Table /\ Tasks /\ Cycle`; TLC checked each part before it was
proved. No property of the list is inductive by itself, and the parts need each other:

* `Owners`: a task at work has an IN_PROGRESS row, which is its own copy, and no other task has that node.
  This is why a task's late transition never meets a conflict and why nothing else leaves
  IN_PROGRESS. `InputStands`: what a QA has read is still the current artifact, because
  its TASK is done and cannot be launched meanwhile.
* `Retries`: a row is FAILED exactly when its attempts are spent, so the retry branch, which
  neither tests nor raises the count, never launches.
* `Fresh`, `Revived`: the only thing that happens to a row ahead of the advancer's cycle
  is that a TASK's completion reopens its BLOCKED QA. Every other stale row is one the advancer leaves alone.
* `SnapDone`: what the snapshot takes for done is done, a TASK at least until its QA's turn has
  passed; a QA that sends its TASK back is launched by then, or its row is not one that is moved.
* `Move`: a transition under way is one of the table's, still justified, and after a conflict it adopts the
  reopened QA and comes through at once.
* `Counts`: the count taken from the snapshot is never below the executions claimed.

`CalmInv` has one lemma per action of the advancer and of a task. Lemmas on steps that
move one task and leave the cycle alone (`QuietStep`, `LeaveStep`, `CycleKept`) carry most of them.

`NothingStranded` needs a second invariant, `Rest`: a node in progress has its task (`Manned`); the advancer blocks
only what has to wait and leaves a node READY only for want of room (`Planned`); and while
nothing is pending, that is, no request, no task alive, nothing suspended, the snapshot is the table, the count is zero
and what the cycle has passed cannot run (`Caught`). The steps that could break it are those
of tasks, and each task ends by enqueueing or by suspending its node.

### For every outcome

* *Types.* One step per action. The only strengthening is in `TypeOK` itself: a transition
  under way is on a node of the order.
* *Slots.* `SlotsBounded` is inductive together with the types: `Acquire` is the only step
  that adds a holder, and its guard leaves room for one. The rest is finite
  cardinality.
* *Gates.* That no task runs a gate rests on three facts that hold together (`GatesApart`):
  a gate is never FAILED, in the table, in the snapshot, or as the target or the adopted
  row of a transition; an advance that plans an `uncounted` launch is not on a gate; and
  only QAs have cascades. The first is needed because the retry of a FAILED
  node does not look at the type.

### With operators

`OperatedProofs` is about `RevisedSpec`: the engine for every outcome, and any number of requests of every kind at once.
`OperatedInv` is `TypeOK /\ SlotsBounded /\ GatesApart /\ HandlerTypes /\ Shown /\ Awaits`.

* *Gates and slots.* What an operator does to the engine is what it does to the rows, since no handler touches a task, the
  semaphore or the advancer (`Columns`). A request may put a gate in any state but FAILED, so
  `GatesApart` stands (`Moved`), and the theorems follow from what was proved about the engine.
* *Fresh approvals.* `approve_gate` reads the gate, and later writes it where its version is the one it read
  (`Shown`). That says something only if nobody takes a gate out of AWAITING_APPROVAL under its version, and some statements
  write a state without a new version. `RowMoves` states it for every step: versions never fall, only a gate
  comes to wait for approval, and only by the advancer (`Awaits`), and a waiting gate changes with its version. The engine's
  statements without a version concern a task's own node or a QA's pair; the handlers' concern the TASK
  they are at or its pair (`OnTask`, `HandlerTypes`) or rows that are NOT_STARTED; so none of them is at a waiting gate.

### The parts

* *First reservation.* While no failure of an item is recorded its row is not FAILED, so only
  the INSERT reserves it, and a holder has left a row that makes a second INSERT fail
  (`Reservations`). A worker that reserves nothing new disturbs none of this (`NoNewHolder`);
  one that does is the only holder (`NewHolder`).
* *First report.* In the first generation one worker is at work; the rows ahead of it are
  new, and no row is COMPLETE whose section it lacks (`Faithful`). Hence what `verify` finds
  missing includes every section that is.
* *Lock.* `HeldOnce` ties the adapter's owner and count to asyncio's inner lock and to where the calls are:
  whoever is inside holds it once, or twice in a statement of its transaction. `Line`: those
  in the deque wait, each once. The refinement maps the deque to `FifoLock!line` and the
  caller inside to `FifoLock!inside`. A free lock is walked into, a taken one comes to the end of the line, a grant
  enters from its head, a cancelled waiter gives up its place, the last release leaves; every other
  step is a stutter.
* *Transactions.* Until one is cut, an open transaction is the owner's, its statements are in the
  buffer and only ended calls have statements on disk (`Clean`). A task that gets the lock therefore finds none open
  (`NoTxnElsewhere`), so its COMMIT or ROLLBACK concerns its own statements.
* *Breaker.* The row's counters never run ahead of the real streaks (`Counted`), although late answers of calls
  that began in another state count: they count as what they are.
* *Versions.* A current version without a row belongs to a writer that is about to insert it, or to one that
  was stopped (`Backed`); what a writer has read stays readable (`Known`); the unique key keeps
  what a save has written (`MineKept`).
* *Model calls.* The accounts that have been active all along are in every cached list (`Cached`), so each choice
  is made from a set that has them; after its first failure a call's next choice leaves out the one it had
  (`Ways`). That the least used account exists in any set of them is the well-foundedness of `<`
  (`Least`, `LeastUsedOf`). The slots follow from `HolderMoves`: one call at a time starts or
  stops using one.
* *Budgets.* What a reallocation has read adds up like what is stored (`BudgetInv`), so what it writes over
  another's does too. The rows it will log are reckoned with from the moment it passes the limit
  (`Reallocating`): whoever passes it finds room for itself and for every other node.
* *Attempts.* What passed is the text that is saved, and the registry has the parts of every saved JSON that
  parses (`Validated`), although a repair saves a text of its own after the first validation.
* *Verdicts.* Hints, and the missing sections a judged verdict names, are true of the text, and a QA that mends
  has a text that fails the checks (`Judged`). That reconciliation leaves no false claim is a
  lemma of its own (`ReconciledTrue`).
* *Splits.* A split begins on the graph as intake made it (`Uncut`), also after a stop, since one that has
  written SKIPPED is not run again. What it notes before it switches edges off is where the pair stood
  (`Noted`), and the groups it has passed keep their rows and edges (`PairWhole`), as from then on edges are
  only added. A node that begins has nothing undone before it (`BeginsLast`), hence the order.
* *Parts.* What stands in the results is a numbered run of sections up to the one under way (`DocumentInv`); an attempt
  without a snapshot saves only what is behind it, so that it cannot meet a cut of its own again. Only a category that is not
  marked is completed, and that marks it, in the results as in the snapshot (`GoodOnce`, `CategoryInv`); an item is passed over only when it is in the results (`ItemInv`).
* *Batches.* A set of pages in the order of slugs has each page once (`OrderExact`: ranks are an injection into as
  many numbers, hence onto them), consecutive slices meet nowhere and leave no rest (`PagesGrouped`), and
  the cache and what is shown are among the saved (`BatchInv`).
* *Checks.* A fix writes plain words over forbidden ones and adds a marker, so it moves no heading, fence or row
  (`FixPlaces`) and a document that passes, as it is saved after its fix, passes again (`FixPasses`); the harness approves
  frontends only, by checks that include those of the audit (`CheckInv`).
* *Pages.* The groups are all pages (`GroupsCover`). The frontend TASK is never told its pages, so it builds all there are
  (`WholeFrontend`); a group builds its own at least (`GroupBuilds`), and one that starts before it is told its pages builds
  all (`BuildsAll`). Between the saving of the pages and the first group a split may be cut as often as it likes:
  rows and labels stand, so the next run decides as the last one did (`SplitBegun`). From the first group on the groups
  and what is still to come have every page (`SplitMade`); a crash before a group is told its pages leaves one
  that builds all, so pages are lost only by a crash when the next group is due.
* *One conversion.* `CountInv`: the conversions under way and the handlers about to write a status are no more
  than the statuses written by hand, and one for a status that is taken. Only the claim adds a
  conversion, and it takes the status; only a write by hand can free it again.
* *Whole engagement.* `Progress`: what a conversion has passed is built, row by row: engagement, DAG, nodes,
  edges, gates; `SubWhole`: so is what a CONVERTED form points to. Steps of other clients keep rows,
  and only a step that touches the engagement erases them (`Kept`).
* *Graphs.* A DAG has no node, the pairs, or the pairs and the gates (`DrawnInv`), however often it is made, erased and made again,
  since inserting gates twice inserts them once. That the whole graph has no cycle: phase, then rank, then
  TASK before QA before gate is a number that grows along every edge (`EdgesForward`), hence along every
  path (`NoCycle`). That a phase waits for every earlier one, and not only for the last: the least phase that did not
  would have one before it that does (`PhasesFollow`). Paths are counted step by step, so these are
  inductions over numbers; the library's theorem takes a predicate, and `Upwards` states it for a set instead. The attempt
  found that the closure was cut too early: between the first phase and the last there are
  up to three steps per document, and not two as the property had it.
* *Repairs.* The nodes have numbers that rise along the edges (`Ranking`), those a caller is about to draw included (`Placed`).
  A new node comes between the failed one and its parent, so all numbers are doubled and it gets the one
  in between. That the two differ is what the loop check is for: the chain of causes it
  follows begins with the node itself (`LoopSeesItself`), so a caller that asks to put a node between a node and itself is
  refused. `LimitInv` counts the callers that have passed the limit check and not inserted. The sort is an iteration of one function, and
  `SortState` its invariant: who has been taken or is queued is exactly who waits for nobody else. When the queue is
  empty, a node of least number among those left over would have nothing to wait for, so none is left.
* *Deployment.* `TriesInv`: a FAILED row has had one retry at most, and the row read for another try is not
  the one being deployed, since nothing else moves a row out of FAILED or PENDING.

### Only model-checked

* What depends on the outcomes `Calm` leaves out: `RetryBounded` with `approve`
  on one pair, `ApprovedTaskDone` and the transitions with a test that finds defects, `NothingStranded` and `AdvanceLegal` for every
  outcome on one pair with two slots. No theorem
  extends `AdvanceLegal` to every outcome and any set of pairs, as it is false there (above).
* The operators and the life cycle: `NothingLost` and `RestartLosesNothing`. The invariant has to say for every
  statement of every handler which later statement enqueues, over all outcomes. An executor launched on an adopted
  COMPLETED row that fails finds READY and FAILED forbidden and ends without enqueueing, so neither property is
  claimed beyond the requests and restarts its run allows.
* The engine across restarts. `GatesNeverRun` as proved rests on gates that are never FAILED. Startup takes a gate it
  finds IN_PROGRESS for a zombie, as the advancer's READY, IN_PROGRESS and AWAITING_APPROVAL are three statements, and after
  `RetryLimit` such stops it becomes FAILED, with no attempt left for the advancer; the invariant would
  have to follow `retry_count` through the watchdog and the retries of operators.
* Liveness (`Terminates`, `Converges`, `OrphansRecovered`), which is out of the proof system's reach, and what recursive
  definitions and sums compute (the repeated fixes of a document).

## 6. Findings

`PROJECT.json` records the disagreements between the code and what its comments promise,
each with the run that shows it:

* Rule 8 "without exception" against the cascade's reset of a COMPLETED TASK;
* a revision that is to rerun what follows against a handler that completes it unseen;
* a legend by which a node over its budget is SUSPENDED against a TASK that goes round between BLOCKED and READY;
* a coverage check against a reworked document that lacks its earlier sections.

Met while modelling, in the parts a run covers but not stated as a finding:

* *Model calls.* The fallback account is taken whatever its failures and cool-down, its
  failure is charged to nobody; the overload count is not reset after a cool-down.
* *Budgets.* Nothing that enforces a limit reads `phase_budget_override`, so a reallocation
  changes nothing: the TASK is promoted again, from NOT_STARTED or BLOCKED, and meets the same check without end,
  until the reallocations are used up as well as after. A donor may be left below its use
  (1.5 times the shortage is taken where 1.2 is required); concurrent reallocations overwrite each other.
* *Deployment.* `build_fix_loop` calls its coroutines without awaiting them
  (`verify_and_fix.py:345-360`), so deployments of known stacks fail; a row that a crash left IN_PROGRESS is
  not read again.
* *Saves.* `current_version` falls back when saves overtake one another, and the next save
  then fails on the unique key.
* *Generation.* The document generator keeps the placeholder of a failed section as a
  successful one and reuses it on resume; a pause in the middle returns the part as complete; a
  dictionary outside an array is appended while its category stays open.
* *Pages.* Slugs that collide overwrite a recipe; a second assembly adds no groups for new pages;
  a library group finds no QA to repair its edges with.
* *Intake.* A failed conversion leaves an engagement whose DAG can be started without gates; a
  SKIPPED document in the middle of a chain breaks its order.
* *Engine version.* The version is kept in `kv_store`, which neither the schema nor a migration creates, so each `retroactive-validate`
  takes every group for changed and resets the COMPLETED TASKs its patterns match, although
  `engine_version.py:95` promises nothing is done for the same version; at a start the audit never gets that far.
* *Tests.* Defects that two tests find at once, above.
* *Watchdog.* The retry counter a token suspension is tested by is never incremented.
* *Dynamic DAG, breaker.* No production code calls them. `inject_node` takes any parent and children: an ancestor of the parent as a child makes
  a cycle its loop check does not see; `inject_repair_node`, which is modelled, passes a predecessor and the failed node.

## 7. Not modelled

* `reload-adapter` (`server.py:3633-3674`) stops one advancer, whose tasks go on, and starts
  another with a queue and a semaphore of its own. The engine has one advancer here.
* Text: prompts, renderers, validators of generated code, the reading of JSON and the merge of partial
  artifacts (`executor_partial.py`, unreachable besides: the snapshot never carries the change type).
* Read-only analyses (impact, conflicts, failure classes), the content cache, authentication,
  roles, push notifications, metrics and logs: they change no row the models have.
* Project settings, users, catalogues and the read-only endpoints of the API.
* HTTP adapters and streams of the model, the builds and checks run on a workspace: external processes.
