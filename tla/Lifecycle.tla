----------------------------- MODULE Lifecycle -----------------------------
(***************************************************************************)
(* engine/lifecycle/watchdog.py, startup.py and shutdown.py: the process   *)
(* that runs the engine may stop at any step and is started again; a       *)
(* watchdog looks for executions that have died and for suspensions that   *)
(* may be lifted.  What survives a stop is the database: nodes, dag,       *)
(* artifacts, stamps, heartbeats and agent_processes.                      *)
(* Time is abstracted: a row grows old at any moment its timestamps are    *)
(* not being renewed.                                                      *)
(***************************************************************************)
EXTENDS Revision

CONSTANTS
  RetryLimit,  \* MAX_RETRIES of the watchdog and of startup
  MaxResumes,  \* SUSPENDED_MAX_RESUMES
  MaxText,     \* failures that fit into _RESUME_RUNAWAY_FR_BYTES
  Text,        \* what failure texts look like, a subset of TextKinds
  PidReused,   \* TRUE when a dead process's pid belongs to a live one
  MaxTrouble,  \* bound: how often the process stops, requests included
  ResumeBound  \* how often the model lets a node be resumed

\* "transient" matches _TRANSIENT_SUSPENSION_PATTERNS and no permanent one.
TextKinds == {"transient", "other"}

ASSUME LifecycleAssumption ==
  /\ {RetryLimit, MaxResumes, MaxText, MaxTrouble, ResumeBound} \subseteq Nat
  /\ Text \subseteq TextKinds /\ Text # {}
  /\ PidReused \in BOOLEAN

VARIABLES
  proc,    \* "up", "down", or the step of StartupRecovery.run
  watch,   \* the local variables of the watchdog, and of _handle_zombie_nodes
  old,     \* nodes whose timestamps have passed the watchdog's threshold
  beat,    \* nodes table: last_heartbeat is not NULL
  text,    \* nodes table: failure_reasons, as its last entry and their number
  stale,   \* agent_processes: nodes with a row that a dead process left ALIVE
  resumed, \* how often the watchdog has resumed a node
  crashes

rows == <<beat, text, stale>>
lifecycleVars == <<proc, watch, old, rows, resumed, crashes>>
lived == <<vars, operatorVars, lifecycleVars>>

NoWatch == [pc |-> "idle", todo |-> {}, spent |-> {}, resets |-> FALSE,
            node |-> Order[1]]
NoText == [last |-> "none", count |-> 0]

LifecycleInit ==
  /\ OperatedInit
  /\ proc = "up"
  /\ watch = NoWatch
  /\ old = {} /\ beat = {} /\ stale = {}
  /\ text = [n \in Node |-> NoText]
  /\ resumed = [n \in Node |-> 0]
  /\ crashes = 0

-----------------------------------------------------------------------------
(* Heartbeats and time *)

\* executor_with_heartbeat keeps an ALIVE row from Acquire to the return.
Live(n) ==
  \E r \in Run : run[r].node = n /\
    run[r].pc \notin {"free", "queued", "limit", "return", "fail", "cas", "reload"}

\* Mutant: the row of a dead process is enough.
AliveByRow(n) == Live(n) \/ n \in stale

\* _check_agent_alive: an ALIVE row whose pid exists.
Alive(n) == Live(n) \/ (PidReused /\ n \in stale)

\* A run that gets its slot in this step.
Registered == {run[r].node : r \in {x \in Run : run[x].pc = "queued"
                                               /\ run'[x].pc \notin {"queued", "free"}}}

Changed == {n \in Node : node'[n].state # node[n].state}

\* The failure whose text a step records, and the texts a handler clears.
Failed  == {run[r].node : r \in {x \in Run : run[x].pc = "fail" /\ run'[x].pc # "fail"}}
Leaving(pcs) == {c \in Client : op[c].pc \in pcs /\ op'[c].pc # op[c].pc}
Cleared == {Pair[op[c].node] : c \in Leaving({"reopen_qa"})}
           \union {op[c].node : c \in Leaving({"revise_mend", "edit_mend"})}

\* What every step of the engine or of a handler does to the timestamps.
Renew == old' = old \ (Changed \union Registered)

WhileUp(step) ==
  /\ proc = "up"
  /\ step
  /\ crashes + Cardinality(made') <= MaxTrouble
  /\ Renew
  /\ beat' = beat \union Registered
  /\ \E kind \in Text :
       text' = [n \in Node |->
                  IF n \in Failed THEN [last |-> kind, count |-> text[n].count + 1]
                  ELSE IF n \in Cleared THEN NoText ELSE text[n]]
  /\ UNCHANGED <<proc, watch, stale, resumed, crashes>>

\* The reasons the engine gives are matched too, and none of them matches:
\* the text for an API limit is Korean, the operator's a budget, "drain" reserved.
Transient(n) == why[n] # "drain" /\ text[n].last = "transient"

\* No reason and no failure text: resumed while few failures are counted.
Bare(n) == why[n] = "none" /\ text[n].count = 0

Resumable(n) ==
  /\ Transient(n) \/ (Bare(n) /\ node[n].retry < MaxResumes)
  /\ text[n].count <= MaxText

Restarting(n) == text[n].last = "transient" /\ text[n].count <= MaxText

\* Nobody renews a running node whose task is gone, or whose task waits for
\* a slot that a long execution holds.
Abandoned(n) ==
  LET own == {r \in Run : run[r].pc # "free" /\ run[r].node = n}
  IN  /\ \A r \in own : run[r].pc = "queued"
      /\ own # {} => Cardinality(Holding) >= MaxConcurrent

\* Time passes: the thresholds of the watchdog are ten minutes and more, its
\* cool-down three (of interest where it would lift the suspension).
Age(n) ==
  /\ proc = "up" /\ watch.pc = "idle"
  /\ n \notin old
  /\ \/ node[n].state = "IN_PROGRESS" /\ Abandoned(n)
     \/ node[n].state = "SUSPENDED" /\ Resumable(n)
     \/ node[n].state = "FAILED" /\ Restarting(n)
  /\ old' = old \union {n}
  /\ UNCHANGED <<vars, operatorVars, proc, watch, rows, resumed, crashes>>

-----------------------------------------------------------------------------
(* The watchdog.  A cycle makes three passes, over the running, the         *)
(* suspended and the failed nodes; one that finds nothing does nothing, so *)
(* the passes that do are taken in any order.                              *)

Watching(pc) == proc = "up" /\ watch.pc = pc

OldIn(state) == {n \in old : node[n].state = state}

Unmoved == UNCHANGED <<dag, adv, run, art, stamp, casc, op, made, proc, rows, crashes>>

\* _check_stuck_nodes reads the nodes that look stuck, and their retries.
WatchScan ==
  /\ Watching("idle")
  /\ OldIn("IN_PROGRESS") # {}
  /\ watch' = [NoWatch EXCEPT !.pc = "check", !.todo = OldIn("IN_PROGRESS"),
                 !.spent = {n \in OldIn("IN_PROGRESS") : node[n].retry >= RetryLimit}]
  /\ UNCHANGED <<node, queue, stall, why, old, resumed>>
  /\ Unmoved

WatchCheck ==
  /\ Watching("check")
  /\ \E n \in watch.todo :
       watch' = [watch EXCEPT !.pc = IF Alive(n) THEN "check" ELSE "reset",
                              !.todo = @ \ {n}, !.node = n]
  /\ UNCHANGED <<node, queue, stall, why, old, resumed>>
  /\ Unmoved

\* UPDATE ... WHERE id=? AND state='IN_PROGRESS'; the pair and the counters
\* follow whether or not the row was still there.
WatchReset ==
  LET n == watch.node
  IN  /\ Watching("reset")
      /\ node' = IF node[n].state # "IN_PROGRESS" THEN node
                 ELSE IF n \in watch.spent
                 THEN [node EXCEPT ![n].state = "FAILED", ![n].version = @ + 1]
                 ELSE [node EXCEPT ![n] = [state |-> "NOT_STARTED", retry |-> @.retry + 1,
                                           version |-> @.version + 1]]
      /\ watch' = IF n \in watch.spent
                  THEN [watch EXCEPT !.pc = "check"]
                  ELSE [watch EXCEPT !.pc = "pair", !.resets = TRUE]
      /\ Unmoved
      /\ Renew
      /\ UNCHANGED <<queue, stall, why, resumed>>

WatchPair ==
  LET p == Pair[watch.node]
  IN  /\ Watching("pair")
      /\ IF p # watch.node /\ node[p].state \notin {"COMPLETED", "SKIPPED"}
         THEN WriteBump(p, "NOT_STARTED") ELSE UNCHANGED node
      /\ watch' = [watch EXCEPT !.pc = "check"]
      /\ Unmoved
      /\ Renew
      /\ UNCHANGED <<queue, stall, why, resumed>>

\* Mutant: the DAG of the nodes that were reset is not enqueued.
WatchChecksSilent ==
  /\ Watching("check")
  /\ watch.todo = {}
  /\ watch' = NoWatch
  /\ UNCHANGED <<queue, node, stall, why, old, resumed>>
  /\ Unmoved

WatchChecks ==
  /\ Watching("check")
  /\ watch.todo = {}
  /\ queue' = IF watch.resets THEN queue + 1 ELSE queue
  /\ watch' = NoWatch
  /\ UNCHANGED <<node, stall, why, old, resumed>>
  /\ Unmoved

\* A pass reads the nodes that it will write.
WatchPass(pc, found) ==
  /\ Watching("idle")
  /\ found # {}
  /\ watch' = [NoWatch EXCEPT !.pc = pc, !.todo = found]
  /\ UNCHANGED <<node, queue, stall, why, old, resumed>>
  /\ Unmoved

WatchSuspended ==
  WatchPass("resume", {n \in OldIn("SUSPENDED") : Resumable(n) /\ resumed[n] < ResumeBound})

\* Lifted n: the suspended nodes among ns become NOT_STARTED.
Lifted(ns) ==
  LET up == {n \in ns : node[n].state = "SUSPENDED"}
  IN  /\ node' = [n \in Node |->
                    IF n \in up THEN [node[n] EXCEPT !.state = "NOT_STARTED", !.version = @ + 1]
                    ELSE node[n]]
      /\ why' = [n \in Node |-> IF n \in up THEN "none" ELSE why[n]]
      /\ stall' = [n \in Node |-> IF n \in up THEN 0 ELSE stall[n]]

WatchResume ==
  /\ Watching("resume")
  /\ Lifted(watch.todo)
  /\ queue' = queue + 1
  /\ resumed' = [n \in Node |-> IF n \in watch.todo THEN resumed[n] + 1 ELSE resumed[n]]
  /\ watch' = NoWatch
  /\ Unmoved
  /\ Renew

\* FAILED nodes whose last failure was transient; structural failures and
\* runaways are left.
WatchFailed ==
  WatchPass("restart", {n \in OldIn("FAILED") : Restarting(n) /\ resumed[n] < ResumeBound})

WatchRestart ==
  /\ Watching("restart")
  /\ node' = [n \in Node |->
                IF n \in watch.todo /\ node[n].state = "FAILED"
                THEN [node[n] EXCEPT !.state = "NOT_STARTED", !.version = @ + 1]
                ELSE node[n]]
  /\ queue' = queue + 1
  /\ resumed' = [n \in Node |-> IF n \in watch.todo THEN resumed[n] + 1 ELSE resumed[n]]
  /\ watch' = NoWatch
  /\ Unmoved
  /\ Renew
  /\ UNCHANGED <<stall, why>>

Watchdog ==
  \/ WatchScan \/ WatchCheck \/ WatchReset \/ WatchPair \/ WatchChecks
  \/ WatchSuspended \/ WatchResume \/ WatchFailed \/ WatchRestart

-----------------------------------------------------------------------------
(* Stop and start *)

\* A crash, or ShutdownManager.shutdown: no task is ever registered with it,
\* so it suspends nothing and the tasks die with the process.
Stop ==
  /\ proc # "down"
  /\ crashes + Cardinality(made) < MaxTrouble
  /\ crashes' = crashes + 1
  /\ proc' = "down"
  /\ stale' = stale \union {n \in Node : Live(n)}
  /\ queue' = 0
  /\ adv' = Waiting
  /\ run' = [r \in Run |-> Free]
  /\ casc' = [n \in Node |-> NoCascade(n)]
  /\ op' = [c \in Client |-> Idle]
  /\ watch' = NoWatch
  /\ UNCHANGED <<node, dag, stall, art, stamp, made, why, old, beat, text, resumed>>

Boot(pc, next) ==
  /\ proc = pc
  /\ proc' = next
  /\ UNCHANGED <<dag, adv, run, art, stamp, casc, op, made, beat, text, resumed,
                 crashes>>

\* _handle_zombie_nodes: running rows whose last heartbeat is missing or
\* older than five minutes; with none it returns before its last statement.
BootZombies ==
  \E recent \in SUBSET beat :
    LET zombies == {n \in Node : node[n].state = "IN_PROGRESS"} \ recent
        spent   == {n \in zombies : node[n].retry >= RetryLimit}
    IN  /\ Boot("down", IF zombies = {} THEN "drain" ELSE "pairs")
        /\ node' = [n \in Node |->
             IF n \in spent THEN [node[n] EXCEPT !.state = "FAILED", !.version = @ + 1]
             ELSE IF n \in zombies
             THEN [state |-> "NOT_STARTED", retry |-> node[n].retry + 1,
                   version |-> node[n].version + 1]
             ELSE node[n]]
        /\ watch' = [NoWatch EXCEPT !.todo = zombies \ spent]
        /\ Renew
        /\ UNCHANGED <<queue, stall, why, stale>>

BootPairs ==
  /\ Boot("pairs", "agents")
  /\ node' = [n \in Node |->
       IF /\ Pair[n] # n /\ Pair[n] \in watch.todo
          /\ node[n].state \notin {"COMPLETED", "SKIPPED"}
       THEN [node[n] EXCEPT !.state = "NOT_STARTED", !.version = @ + 1]
       ELSE node[n]]
  /\ watch' = NoWatch
  /\ Renew
  /\ UNCHANGED <<queue, stall, why, stale>>

BootAgents ==
  /\ Boot("agents", "drain")
  /\ stale' = {}
  /\ UNCHANGED <<watch, node, queue, stall, why, old>>

\* _resume_shutdown_drain: READY, whoever gave that reason.
BootDrain ==
  LET drained == {n \in Node : node[n].state = "SUSPENDED" /\ why[n] = "drain"}
  IN  /\ Boot("drain", "suspended")
      /\ node' = [n \in Node |->
                    IF n \in drained
                    THEN [node[n] EXCEPT !.state = "READY", !.version = @ + 1]
                    ELSE node[n]]
      /\ why' = [n \in Node |-> IF n \in drained THEN "none" ELSE why[n]]
      /\ Renew
      /\ UNCHANGED <<watch, queue, stall, stale>>

\* _resume_transient_suspended: at once, and never a bare suspension.
BootSuspended ==
  /\ Boot("suspended", "unblock")
  /\ Lifted({n \in Node : Transient(n) /\ text[n].count <= MaxText})
  /\ Renew
  /\ UNCHANGED <<watch, queue, stale>>

\* _unblock_stale_qa
BootUnblock ==
  /\ Boot("unblock", "regress")
  /\ node' = [n \in Node |->
                IF /\ Type[n] = "QA" /\ node[n].state = "BLOCKED"
                   /\ node[Pair[n]].state = "COMPLETED"
                THEN [node[n] EXCEPT !.state = "NOT_STARTED", !.version = @ + 1]
                ELSE node[n]]
  /\ Renew
  /\ UNCHANGED <<watch, queue, stall, why, stale>>

\* _recover_harness_regression_suspended: a suspended TASK whose artifact the
\* present checks accept is COMPLETED and its QA, unless done, starts again.
BootRegress ==
  LET kept == {t \in Node : Type[t] = "TASK" /\ node[t].state = "SUSPENDED" /\ art[t] > 0}
  IN  /\ Boot("regress", "launch")
      /\ \E accepted \in SUBSET kept :
           LET reopened == {q \in Node : /\ Type[q] = "QA" /\ Pair[q] \in accepted
                                         /\ node[q].state \in {"BLOCKED", "FAILED",
                                              "SUSPENDED", "INVALID", "NOT_STARTED"}}
           IN  /\ node' = [n \in Node |->
                    IF n \in accepted
                    THEN [node[n] EXCEPT !.state = "COMPLETED", !.version = @ + 1]
                    ELSE IF n \in reopened
                    THEN [state |-> "NOT_STARTED", retry |-> 0, version |-> node[n].version + 1]
                    ELSE node[n]]
               /\ stall' = [n \in Node |-> IF n \in accepted \union reopened THEN 0 ELSE stall[n]]
      /\ Renew
      /\ UNCHANGED <<watch, queue, why, stale>>

\* lifespan: the advancer is created and the RUNNING DAGs are enqueued; then
\* the watchdog starts and requests are served.
BootLaunch ==
  /\ Boot("launch", "up")
  /\ queue' = IF dag = "RUNNING" THEN 1 ELSE 0
  /\ UNCHANGED <<watch, node, stall, why, stale, old>>

Startup ==
  \/ BootZombies \/ BootPairs \/ BootAgents \/ BootDrain \/ BootSuspended
  \/ BootUnblock \/ BootRegress \/ BootLaunch

-----------------------------------------------------------------------------

LifecycleNext ==
  \/ WhileUp(RevisedNext)
  \/ \E n \in Node : Age(n)
  \/ Watchdog
  \/ Stop
  \/ Startup

LifecycleSpec == LifecycleInit /\ [][LifecycleNext]_lived

\* The event loop is fair to its tasks and to the handlers it has accepted,
\* the watchdog wakes up every five minutes, a stopped process is started
\* again, and time passes.
LifecycleFair ==
  /\ LifecycleSpec
  /\ WF_lived(WhileUp(Engine(Advance /\ UNCHANGED execVars)))
  /\ \A r \in Run : WF_lived(WhileUp(Engine(Execute(r))))
                    /\ SF_lived(WhileUp(Engine(Acquire(r) /\ UNCHANGED execVars)))
  /\ \A q \in Node : WF_lived(WhileUp(Engine(CascadeForNode(q)))) /\ WF_lived(Age(q))
  /\ \A c \in Client : WF_lived(WhileUp(Handle(c) \/ HandleChange(c)))
  /\ WF_lived(Watchdog)
  /\ WF_lived(Startup)
-----------------------------------------------------------------------------
(* Properties *)

AtRest == proc = "up" /\ Quiescent /\ watch.pc = "idle" /\ Resting

\* An execution that died with its process, or with its task, is found: the
\* node does not stay IN_PROGRESS with nobody executing it.
Cared(n) ==
  \/ \E r \in Run : run[r].node = n /\ run[r].pc # "free"
  \/ \E c \in Client : op[c].node = n /\ op[c].pc # "idle"

OrphansRecovered == \A n \in Node : []<>(node[n].state # "IN_PROGRESS" \/ Cared(n))

\* A restart loses nothing: what could run is running or will, unless a
\* suspension or a node that has used up its restarts holds the DAG.
RestartLosesNothing ==
  AtRest /\ dag = "RUNNING" /\ made \subseteq Enqueuing
    /\ (\A n \in Node : node[n].state \notin {"IN_PROGRESS", "SUSPENDED"}
                       /\ ~(node[n].state = "FAILED" /\ node[n].retry >= RetryLimit))
  => \A n \in Node : node[n].state \in Restartable \union {"READY"} => ~DepsDone(node, n)
=============================================================================
