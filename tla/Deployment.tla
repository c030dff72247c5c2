----------------------------- MODULE Deployment -----------------------------
(***************************************************************************)
(* The worker that deploys generated projects (src/engine/workspace/       *)
(* auto_deploy.py): the polling cycle, the rows of workspace_deployments,  *)
(* one deployment with its ports, the health monitor, and a stop of the    *)
(* process at any point.                                                   *)
(*                                                                         *)
(* build_fix_loop calls the coroutine functions _fix_loop_* without        *)
(* awaiting them, so for a stack it knows the caller fails on the          *)
(* attribute of a coroutine; for any other stack no backend is started and *)
(* the health check times out.  What comes after the health check cannot   *)
(* be reached.                                                             *)
(***************************************************************************)
EXTENDS Integers, FiniteSets

CONSTANTS Project,
          Port       \* the numbers of the frontend and of the backend ports

VARIABLES row,        \* [status, retry, port] of each project
          gate,       \* projects whose BUILD gate is at its end
          rebuilt,    \* projects with a TASK of BUILD completed after completed_at
          ports,      \* ports.json of each workspace, 0 for none
          up,         \* the ports in use: <<"fe" or "be", number>>
          serving,    \* workspaces whose .pids names a frontend server
          freshRows,  \* projects read by the cycle without a row
          retryRows,  \* projects read by the cycle for another try
          stepAt,     \* where the deployment is, <<project, step>> or NoStep
          restarts    \* .restart_count_<label> of each workspace

deployVars == <<row, gate, rebuilt, ports, up, serving, freshRows, retryRows, stepAt, restarts>>

MaxDeploys == 3
MaxAutoRestart == 3
NoStep == <<"", "idle">>
Both(k) == {<<"fe", k>>, <<"be", k>>}

DeployInit == /\ row = [p \in Project |-> [status |-> "NONE", retry |-> 0, port |-> 0]]
              /\ gate = {} /\ rebuilt = {}
              /\ ports = [p \in Project |-> 0]
              /\ up = {} /\ serving = {} /\ freshRows = {} /\ retryRows = {} /\ stepAt = NoStep
              /\ restarts = [x \in Project \X {"fe", "be"} |-> 0]

NoDeploy == stepAt = NoStep /\ freshRows = {} /\ retryRows = {}

(***************************************************************************)
(* The DAG and the operator.                                               *)
(***************************************************************************)
GateReached(p) == /\ gate' = gate \cup {p}
                  /\ UNCHANGED <<row, rebuilt, ports, up, serving, freshRows, retryRows,
                                 stepAt, restarts>>

Rebuild(p) == /\ p \in gate /\ rebuilt' = rebuilt \cup {p}
              /\ UNCHANGED <<row, gate, ports, up, serving, freshRows, retryRows, stepAt,
                             restarts>>

\* Somebody starts or stops the servers of a workspace.
Serve(p) == /\ ports[p] # 0
            /\ up' \in {up \cup Both(ports[p]), up \ Both(ports[p])}
            /\ UNCHANGED <<row, gate, rebuilt, ports, serving, freshRows, retryRows, stepAt,
                           restarts>>

(***************************************************************************)
(* The cycle.                                                              *)
(***************************************************************************)
Stale(p) == row[p].status = "COMPLETED" /\ p \in rebuilt

\* A deployment older than its build is reset, then the rows are read once.
CheckRows == /\ NoDeploy
             /\ LET now == [p \in Project |->
                              IF Stale(p) THEN [row[p] EXCEPT !.status = "PENDING", !.retry = 0]
                                          ELSE row[p]]
                IN /\ row' = now
                   /\ freshRows' = {p \in gate : now[p].status = "NONE"}
                   /\ retryRows' = {p \in Project : /\ now[p].status \in {"FAILED", "PENDING"}
                                                    /\ now[p].retry < MaxDeploys}
             /\ UNCHANGED <<gate, rebuilt, ports, up, serving, stepAt, restarts>>

StartDeploy(p) == /\ row' = [row EXCEPT ![p].status = "IN_PROGRESS",
                                        ![p].retry = IF p \in freshRows THEN 0 ELSE @ + 1]
                  /\ stepAt' = <<p, "extract">>
                  /\ freshRows' = freshRows \ {p} /\ retryRows' = retryRows \ {p}

New(p) == /\ stepAt = NoStep /\ p \in freshRows
          /\ StartDeploy(p)
          /\ UNCHANGED <<gate, rebuilt, ports, up, serving, restarts>>

\* The processes named in .pids are killed first.
RetryDeploy(p) == /\ stepAt = NoStep /\ freshRows = {} /\ p \in retryRows
                  /\ up' = IF p \in serving THEN up \ {<<"fe", ports[p]>>} ELSE up
                  /\ serving' = serving \ {p}
                  /\ StartDeploy(p)
                  /\ UNCHANGED <<gate, rebuilt, ports, restarts>>

(***************************************************************************)
(* One deployment.                                                         *)
(***************************************************************************)
DeployDone(p, k) == /\ row' = [row EXCEPT ![p].status = "COMPLETED", ![p].port = k]
                    /\ rebuilt' = rebuilt \ {p}
                    /\ stepAt' = NoStep

\* Mutant: the tries are counted from one.
DeployFailsLate(p) == /\ row' = [row EXCEPT ![p].status =
                                   IF row[p].retry >= 3 THEN "PERMANENTLY_FAILED" ELSE "FAILED"]
                      /\ stepAt' = NoStep

DeployFails(p) == /\ row' = [row EXCEPT ![p].status =
                               IF row[p].retry >= 2 THEN "PERMANENTLY_FAILED" ELSE "FAILED"]
                  /\ stepAt' = NoStep

\* No artifact after three looks.
NoArtifacts(p) == /\ stepAt = <<p, "extract">> /\ DeployFails(p)
                  /\ UNCHANGED <<gate, rebuilt, ports, up, serving, freshRows, retryRows, restarts>>

\* Both ports of ports.json are in use: taken for the servers of this
\* workspace, and the deployment is complete.
AlreadyRunning(p) == /\ stepAt = <<p, "extract">>
                     /\ ports[p] # 0 /\ Both(ports[p]) \subseteq up
                     /\ DeployDone(p, ports[p])
                     /\ UNCHANGED <<gate, ports, up, serving, freshRows, retryRows, restarts>>

\* Neither in use nor a port of a completed deployment.
Usable(label) == {k \in Port : /\ <<label, k>> \notin up
                               /\ \A q \in Project : row[q].status = "COMPLETED" => row[q].port # k}

\* The code is extracted unless some is there, and the ports are written.
Allocate(p) ==
  /\ stepAt = <<p, "extract">>
  /\ ~(ports[p] # 0 /\ Both(ports[p]) \subseteq up)
  /\ \E k \in Usable("fe") \cap Usable("be") :
       /\ \A j \in Usable("fe") \cap Usable("be") : k <= j
       /\ ports' = [ports EXCEPT ![p] = k]
  /\ stepAt' = <<p, "build">>
  /\ UNCHANGED <<row, gate, rebuilt, up, serving, freshRows, retryRows, restarts>>

\* A known stack: the result of a fix loop is a coroutine.
BuildFix(p) == /\ stepAt = <<p, "build">> /\ DeployFails(p)
               /\ UNCHANGED <<gate, rebuilt, ports, up, serving, freshRows, retryRows, restarts>>

\* Any other stack: a frontend may start, the backend never answers.
HealthCheck(p) ==
  /\ stepAt = <<p, "build">> /\ DeployFails(p)
  /\ \/ UNCHANGED <<up, serving>>
     \/ up' = up \cup {<<"fe", ports[p]>>} /\ serving' = serving \cup {p}
  /\ UNCHANGED <<gate, rebuilt, ports, freshRows, retryRows, restarts>>

(***************************************************************************)
(* The health monitor and the process.                                     *)
(***************************************************************************)
Monitor(p, label) ==
  /\ NoDeploy /\ row[p].status = "COMPLETED"
  /\ IF <<label, row[p].port>> \in up
     THEN restarts' = [restarts EXCEPT ![<<p, label>>] = 0] /\ UNCHANGED <<up, serving>>
     ELSE /\ restarts[<<p, label>>] < MaxAutoRestart
          /\ restarts' = [restarts EXCEPT ![<<p, label>>] = @ + 1]
          /\ up' \in {up, up \cup Both(row[p].port)}
          /\ serving' = serving \cup {p}
  /\ UNCHANGED <<row, gate, rebuilt, ports, freshRows, retryRows, stepAt>>

WorkerStops == /\ ~NoDeploy /\ stepAt' = NoStep /\ freshRows' = {} /\ retryRows' = {}
               /\ UNCHANGED <<row, gate, rebuilt, ports, up, serving, restarts>>

DeployNext == \/ CheckRows \/ WorkerStops
              \/ \E p \in Project :
                   \/ GateReached(p) \/ Rebuild(p) \/ Serve(p)
                   \/ New(p) \/ RetryDeploy(p)
                   \/ NoArtifacts(p) \/ AlreadyRunning(p) \/ Allocate(p)
                   \/ BuildFix(p) \/ HealthCheck(p)
                   \/ \E label \in {"fe", "be"} : Monitor(p, label)

DeploySpec == DeployInit /\ [][DeployNext]_deployVars

(***************************************************************************)
(* Properties.                                                             *)
(***************************************************************************)
\* The two limits, retry_count < 3 in the query and retry_count >= 2 in the
\* error path, agree: no build is deployed more than three times, and a row
\* that has failed or was reset is within reach of another try or marked as
\* failed for good.  (A row left IN_PROGRESS by a stopped process is not in
\* reach: no query reads it again.)
TriesBounded ==
  \A p \in Project : /\ row[p].retry < MaxDeploys
                     /\ row[p].status = "PERMANENTLY_FAILED" => row[p].retry = MaxDeploys - 1
=============================================================================
