------------------------------ MODULE Splitting ------------------------------
(***************************************************************************)
(* src/engine/skills/splitting.py: a TASK of DESIGN that is replaced, when *)
(* its executor starts, by one pair of TASK and QA for each group of       *)
(* screens (the drafts) or each category (the component library).  The     *)
(* executor writes rows and edges one by one while the advancer may look   *)
(* at the graph between any two of them.                                   *)
(***************************************************************************)
EXTENDS Integers, Sequences, FiniteSets, FiniteSetsExt, TLC

CONSTANTS Lists,       \* lists of screens: [screen number -> group or None]
          Categories,  \* split_categories
          Unfit,       \* the categories a kind of project does without
          Up,          \* the nodes the TASK waits for
          Down,        \* the nodes that may wait for its QA; Gate is one
          Gate, None,
          EnoughNamed, \* rows with a group that make the others count for nothing
          Few,         \* a list of no more screens is not split
          Tens,        \* the screens of an automatic group
          MaxGroups,
          MaxReworks

VARIABLES kind,      \* "draft" or "library"
          screens,   \* the current list of screens
          nodeState, \* nodes table
          edges,     \* edges table, the active ones
          split,     \* the executor's local variables
          broken,    \* ghost: a split was cut short
          reworks

splitVars == <<kind, screens, nodeState, edges, split, broken, reworks>>

TaskOf(g) == <<"TASK", g>>
QaOf(g)   == <<"QA", g>>

\* The TASK that is split, and its QA.
WholeTask == <<"TASK">>
WholeQa == <<"QA">>

ASSUME SplitAssumption == {WholeTask, WholeQa} \cap (Up \cup Down) = {}

NoSplit == [at |-> "idle", ups |-> {}, downs |-> {}, ends |-> {}, todo |-> {},
            group |-> None]

SplitInit ==
  /\ \/ kind = "draft" /\ screens \in Lists
     \/ kind = "library" /\ screens = <<>>
  /\ \E downs \in {Down, {}} :
       edges = Up \X {WholeTask} \cup {<<WholeTask, WholeQa>>}
                 \cup {WholeQa} \X downs
  /\ nodeState = [n \in Up \cup Down \cup {WholeTask, WholeQa} |->
                    IF n \in Up THEN "COMPLETED" ELSE "NOT_STARTED"]
  /\ split = NoSplit /\ broken = FALSE /\ reworks = 0

(***************************************************************************)
(* _parse_screen_groups.  With enough rows that name a group the others    *)
(* are dropped; otherwise those that name one are.                         *)
(***************************************************************************)
NamedRows == {s \in DOMAIN screens : screens[s] # None}
Members == IF Cardinality(NamedRows) >= EnoughNamed
           THEN [g \in {screens[s] : s \in NamedRows} |-> {s \in NamedRows : screens[s] = g}]
           ELSE LET rest == DOMAIN screens \ NamedRows
                    ten(s) == "group " \o ToString((s - 1) \div Tens + 1)
                IN  [t \in {ten(s) : s \in rest} |-> {s \in rest : ten(s) = t}]

\* The largest groups are kept and the others become one.
Kept == CHOOSE kept \in kSubset(MaxGroups - 1, DOMAIN Members) :
          \A g \in kept, h \in DOMAIN Members \ kept :
            Cardinality(Members[g]) >= Cardinality(Members[h])

Grouped == UNION {Members[g] : g \in DOMAIN Members}
Groups == IF Cardinality(DOMAIN Members) <= MaxGroups THEN DOMAIN Members
          ELSE Kept \cup {"others"}

NewPairs == IF kind = "library" THEN Categories \ Unfit
         ELSE IF Cardinality(Groups) > 1 /\ Cardinality(Grouped) > Few
              THEN Groups ELSE {}

(***************************************************************************)
(* What an advance and the executors do with the other nodes.              *)
(***************************************************************************)
Done == {"COMPLETED", "SKIPPED"}
Before(n) == {e[1] : e \in {f \in edges : f[2] = n}}
CanStart(n) == /\ nodeState[n] = "NOT_STARTED"
               /\ \A m \in Before(n) \cap DOMAIN nodeState : nodeState[m] \in Done

\* Bound: a graph that a failed split has left is not followed any further.
Start(n) == /\ n # WholeTask /\ CanStart(n) /\ ~broken
            /\ nodeState' = [nodeState EXCEPT ![n] = "IN_PROGRESS"]
            /\ UNCHANGED <<kind, screens, edges, split, broken, reworks>>

\* Of what follows it only matters when it begins.
EndNode(n) == /\ n \notin Down \cup {WholeTask} /\ nodeState[n] = "IN_PROGRESS"
          /\ nodeState' = [nodeState EXCEPT ![n] = "COMPLETED"]
          /\ UNCHANGED <<kind, screens, edges, split, broken, reworks>>

Rework(n) == /\ n \in Up /\ nodeState[n] = "COMPLETED" /\ reworks < MaxReworks
             /\ nodeState' = [nodeState EXCEPT ![n] = "NOT_STARTED"]
             /\ reworks' = reworks + 1
             /\ UNCHANGED <<kind, screens, edges, split, broken>>

(***************************************************************************)
(* The split.                                                              *)
(***************************************************************************)
SplitAt(place) == split.at = place
SplitGoto(place) == split' = [split EXCEPT !.at = place]

Launch == /\ SplitAt("idle") /\ CanStart(WholeTask)
          /\ nodeState' = [nodeState EXCEPT ![WholeTask] = "IN_PROGRESS"]
          /\ SplitGoto("read")
          /\ UNCHANGED <<kind, screens, edges, broken, reworks>>

After(n) == {e[2] : e \in {f \in edges : f[1] = n}}
Unsplit == \A g \in NewPairs : TaskOf(g) \notin DOMAIN nodeState

\* Mutant: what comes after is read once the edges are switched off.
ReadGroupsLate ==
  /\ SplitAt("read")
  /\ IF NewPairs = {} \/ ~Unsplit THEN SplitGoto("single")
     ELSE split' = [split EXCEPT
            !.at = "skip_task", !.todo = NewPairs, !.ups = Before(WholeTask),
            !.downs = IF kind = "library" THEN {} ELSE After(WholeQa),
            !.ends = After(WholeTask) \cup After(WholeQa)]
  /\ UNCHANGED <<kind, screens, nodeState, edges, broken, reworks>>

ReadGroups ==
  /\ SplitAt("read")
  /\ IF NewPairs = {} \/ ~Unsplit THEN SplitGoto("single")
     ELSE split' = [split EXCEPT
            !.at = "skip_task", !.todo = NewPairs, !.ups = Before(WholeTask),
            !.downs = IF After(WholeQa) # {} THEN After(WholeQa) ELSE {Gate},
            !.ends = After(WholeTask) \cup After(WholeQa)]
  /\ UNCHANGED <<kind, screens, nodeState, edges, broken, reworks>>

SkipTask == /\ SplitAt("skip_task")
            /\ nodeState' = [nodeState EXCEPT ![WholeTask] = "SKIPPED"]
            /\ SplitGoto("skip_qa")
            /\ UNCHANGED <<kind, screens, edges, broken, reworks>>

SkipQa == /\ SplitAt("skip_qa")
          /\ nodeState' = [nodeState EXCEPT ![WholeQa] = "SKIPPED"]
          /\ SplitGoto(IF kind = "library" THEN "off_task" ELSE "next")
          /\ UNCHANGED <<kind, screens, edges, broken, reworks>>

\* Only the library: the edges that leave the pair are switched off ...
SwitchOff(n, from, to) ==
  /\ SplitAt(from)
  /\ edges' = {e \in edges : e[1] # n}
  /\ SplitGoto(to)
  /\ UNCHANGED <<kind, screens, nodeState, broken, reworks>>

\* ... and given back from the new QAs, of which there are none yet.
Mend == /\ SplitAt("mend")
        /\ LET qas == {QaOf(g) : g \in Categories} \cap DOMAIN nodeState
           IN  edges' = edges \cup qas \X {d \in split.ends : Before(d) \cap qas = {}}
        /\ SplitGoto("next")
        /\ UNCHANGED <<kind, screens, nodeState, broken, reworks>>

NextGroup == /\ SplitAt("next") /\ split.todo # {}
             /\ \E g \in split.todo :
                  /\ split' = [split EXCEPT !.at = "insert_qa", !.group = g,
                                            !.todo = @ \ {g}]
                  /\ nodeState' = [n \in DOMAIN nodeState \cup {TaskOf(g)} |->
                                 IF n = TaskOf(g) THEN "NOT_STARTED" ELSE nodeState[n]]
             /\ UNCHANGED <<kind, screens, edges, broken, reworks>>

InsertQa == /\ SplitAt("insert_qa")
            /\ nodeState' = [n \in DOMAIN nodeState \cup {QaOf(split.group)} |->
                           IF n = QaOf(split.group) THEN "NOT_STARTED" ELSE nodeState[n]]
            /\ SplitGoto("edges_in")
            /\ UNCHANGED <<kind, screens, edges, broken, reworks>>

Connect(from, to, new) == /\ SplitAt(from)
                          /\ edges' = edges \cup new
                          /\ SplitGoto(to)
                          /\ UNCHANGED <<kind, screens, nodeState, broken, reworks>>

EdgesIn == Connect("edges_in", "edge_pair", split.ups \X {TaskOf(split.group)})
EdgePair == Connect("edge_pair", "edges_out", {<<TaskOf(split.group), QaOf(split.group)>>})
EdgesOut == Connect("edges_out", "next", {QaOf(split.group)} \X split.downs)

Replaced == /\ SplitAt("next") /\ split.todo = {}
            /\ SplitGoto("done")
            /\ UNCHANGED <<kind, screens, nodeState, edges, broken, reworks>>

\* A statement that raises is logged and the TASK executed in one piece.
Working == split.at \notin {"idle", "single", "done"}

SplitFails == /\ Working
         /\ SplitGoto("single")
         /\ broken' = TRUE
         /\ UNCHANGED <<kind, screens, nodeState, edges, reworks>>

\* COMPLETED is written over SKIPPED.
Single == /\ SplitAt("single")
          /\ nodeState' = [nodeState EXCEPT ![WholeTask] = "COMPLETED"]
          /\ SplitGoto("done")
          /\ UNCHANGED <<kind, screens, edges, broken, reworks>>

\* The TASK is found IN_PROGRESS and run again, unless it is SKIPPED.
SplitStops == /\ Working
         /\ LET again == nodeState[WholeTask] = "IN_PROGRESS"
            IN  /\ split' = [NoSplit EXCEPT !.at = IF again THEN "idle" ELSE "done"]
                /\ broken' = ~again
         /\ nodeState' = [n \in DOMAIN nodeState |-> IF nodeState[n] = "IN_PROGRESS" THEN "NOT_STARTED"
                                             ELSE nodeState[n]]
         /\ UNCHANGED <<kind, screens, edges, reworks>>

SplitNext ==
  \/ Launch \/ ReadGroups \/ SkipTask \/ SkipQa
  \/ SwitchOff(WholeTask, "off_task", "off_qa")
  \/ SwitchOff(WholeQa, "off_qa", "mend")
  \/ Mend \/ NextGroup \/ InsertQa \/ EdgesIn \/ EdgePair \/ EdgesOut
  \/ Replaced \/ SplitFails \/ Single \/ SplitStops
  \/ \E n \in DOMAIN nodeState : Start(n) \/ EndNode(n) \/ Rework(n)

SplitSpec == SplitInit /\ [][SplitNext]_splitVars

(***************************************************************************)
(* A split that has gone through keeps the order: no group is drawn before *)
(* what the TASK waited for is done, and nothing that waited for its QA,   *)
(* not even the gate that is found by its phase, begins before every group *)
(* has been approved.  While the groups are inserted this does not hold.   *)
(***************************************************************************)
Begins(n) == /\ n \in DOMAIN nodeState /\ nodeState[n] = "NOT_STARTED"
             /\ nodeState'[n] = "IN_PROGRESS"

Followers == IF split.ends = {WholeQa} THEN {Gate} ELSE split.ends \ {WholeQa}

OrderKept ==
  [][SplitAt("done") /\ split.ends # {} /\ ~broken =>
       /\ \A g \in NewPairs : Begins(TaskOf(g)) => \A u \in Up : nodeState[u] \in Done
       /\ \A d \in Followers : Begins(d) =>
            \A g \in NewPairs : nodeState[QaOf(g)] \in Done]_splitVars
=============================================================================
