----------------------------- MODULE MCServices -----------------------------
(***************************************************************************)
(* The parts around the DAG engine, each by itself: the initial state      *)
(* picks the part that moves, so that the state spaces add up instead of   *)
(* multiplying.                                                            *)
(***************************************************************************)
EXTENDS ChunkedHtml, ChunkedText, BatchedFrontend, DbLock, CircuitBreaker,
        ArtifactVersions, ModelCalls, Intake, Attempts, QaHarness, Verdicts,
        Deployment, PhaseBudget, Splitting, DynamicDag, PagePipeline

CONSTANTS w1, w2, t1, t2, t3, t4, t5, u1, u2, u3, a1, a2, o1

\* One max account before one pro account.
MCAccounts == <<"first", "second">>
MCTier == [first |-> "max", second |-> "pro"]

\* Three templates in two phases, one of them of the upgrade's only scope.
MCPhase == <<1, 1, 3>>
MCWhen == <<"always", "new", "si">>
MCBefore == {<<1, 2>>}
MCPlans == {{}, {2}}
MCForms == {[type |-> "new", scope |-> {}], [type |-> "upgrade", scope |-> {"si"}]}

\* Screens with groups, with hardly any, and too few; the nodes around the split.
MCLists == {<<"a", "b", "none", "a">>, <<"none", "none", "none", "a">>,
            <<"a", "b", "c", "c">>, <<"a", "b", "none">>}
MCUp == {<<"NODE", "up">>}
MCGate == <<"NODE", "gate">>
MCDown == {MCGate}

\* The first limits, and two nodes of one phase.
MCAllotted == [DEFINE |-> 4, DESIGN |-> 9, BUILD |-> 12, VERIFY |-> 5, DELIVER |-> 2]
MCPhaseOf == <<"BUILD", "BUILD", "DELIVER">>

\* Claims of a model that are untrue of some texts and true of others.
MCIssues == {[what |-> "missing", of |-> 1, severity |-> "CRITICAL"],
             [what |-> "all", of |-> 0, severity |-> "HIGH"],
             [what |-> "cut", of |-> 1, severity |-> "HIGH"],
             [what |-> "other", of |-> 0, severity |-> "LOW"]}

\* Five screens, two of one slug, in two versions of their list; labels that have
\* enough pages and labels that have not.
MCSlug == <<"a", "b", "c", "d", "a">>
MCNeeds == <<{"card"}, {"card", "chart"}, {}, {"chart"}, {"map"}>>
MCScreenLists == {<<1, 2, 3>>, <<1, 2, 3, 4, 5>>}
MCLabelTables ==
  {[p \in {"a", "b", "c", "d"} |->
      IF p = "d" THEN "user" ELSE IF p \in admin THEN "admin" ELSE "none"] :
     admin \in {{"a", "b"}, {"a", "b", "c"}, {"c"}}}

VARIABLE focus

Parts == {"html", "lock", "breaker", "saves", "calls", "intake", "attempts",
          "verdicts", "deploy", "budget", "split", "text", "batch", "qa",
          "repair", "pages"}
htmlVars == <<status, retries, snapshot, report, artifact, worker, begun>>
allVars == <<focus, htmlVars, lockVars, breakerVars, artifactVars, callVars,
             intakeVars, attemptVars, verdictVars, deployVars, budgetVars,
             splitVars, textVars, batchVars, checkVars, repairVars,
             pipelineVars>>

Still == /\ UNCHANGED focus
         /\ IF focus = "html" THEN TRUE ELSE UNCHANGED htmlVars
         /\ IF focus = "lock" THEN TRUE ELSE UNCHANGED lockVars
         /\ IF focus = "breaker" THEN TRUE ELSE UNCHANGED breakerVars
         /\ IF focus = "saves" THEN TRUE ELSE UNCHANGED artifactVars
         /\ IF focus = "calls" THEN TRUE ELSE UNCHANGED callVars
         /\ IF focus = "intake" THEN TRUE ELSE UNCHANGED intakeVars
         /\ IF focus = "attempts" THEN TRUE ELSE UNCHANGED attemptVars
         /\ IF focus = "verdicts" THEN TRUE ELSE UNCHANGED verdictVars
         /\ IF focus = "deploy" THEN TRUE ELSE UNCHANGED deployVars
         /\ IF focus = "budget" THEN TRUE ELSE UNCHANGED budgetVars
         /\ IF focus = "split" THEN TRUE ELSE UNCHANGED splitVars
         /\ IF focus = "text" THEN TRUE ELSE UNCHANGED textVars
         /\ IF focus = "batch" THEN TRUE ELSE UNCHANGED batchVars
         /\ IF focus = "qa" THEN TRUE ELSE UNCHANGED checkVars
         /\ IF focus = "repair" THEN TRUE ELSE UNCHANGED repairVars
         /\ IF focus = "pages" THEN TRUE ELSE UNCHANGED pipelineVars

AllInit == /\ focus \in Parts
           /\ Init
           /\ LockInit
           /\ BreakerInit
           /\ VersionInit
           /\ CallsInit
           /\ focus # "calls" => active = Account
           /\ IntakeInit
           /\ focus # "intake" => form = [type |-> "new", scope |-> {}]
           /\ AttemptInit
           /\ focus # "attempts" => artifactKind = "document" /\ ~chunked
           /\ VerdictInit
           /\ focus # "verdicts" =>
                textKind = "document" /\ doc = [headings |-> {}, light |-> TRUE, full |-> TRUE]
           /\ DeployInit
           /\ BudgetInit
           /\ focus # "budget" => long = {}
           /\ SplitInit
           /\ focus # "split" => kind = "library" /\ After(WholeQa) = Down
           /\ TextInit
           /\ focus # "text" => shape = "document"
           /\ BatchInit
           /\ focus # "batch" => layout = [p \in Page |-> "wide"] /\ home = {}
           /\ CheckInit
           /\ focus # "qa" => contentKind = "html"
           /\ RepairInit
           /\ focus # "repair" => edgeRows = {}
           /\ PipelineInit
           /\ focus # "pages" =>
                screenList = <<1, 2, 3>> /\ slugLabel["a"] = "none"

AllNext == \/ focus = "html" /\ Next /\ Still
           \/ focus = "lock" /\ LockNext /\ Still
           \/ focus = "breaker" /\ BreakerNext /\ Still
           \/ focus = "saves" /\ VersionNext /\ Still
           \/ focus = "calls" /\ CallsNext /\ Still
           \/ focus = "intake" /\ IntakeNext /\ Still
           \/ focus = "attempts" /\ AttemptNext /\ Still
           \/ focus = "verdicts" /\ VerdictNext /\ Still
           \/ focus = "deploy" /\ DeployNext /\ Still
           \/ focus = "budget" /\ BudgetNext /\ Still
           \/ focus = "split" /\ SplitNext /\ Still
           \/ focus = "text" /\ TextNext /\ Still
           \/ focus = "batch" /\ BatchNext /\ Still
           \/ focus = "qa" /\ CheckNext /\ Still
           \/ focus = "repair" /\ RepairNext /\ Still
           \/ focus = "pages" /\ PipelineNext /\ Still

AllSpec == AllInit /\ [][AllNext]_allVars

\* No part tells these workers and tasks apart.
Symmetry == Permutations({w1, w2}) \cup Permutations({t1, t2})

=============================================================================
