---------------------------- MODULE PagePipeline ----------------------------
(***************************************************************************)
(* From the list of screens to the code of the pages: the recipes made     *)
(* without a model (src/engine/composition/recipe_generator.py), their     *)
(* rendering and the components it registers (renderer.py, registry.py,    *)
(* src/engine/skills/assembly.py), the split of the frontend TASK into     *)
(* groups of pages (src/engine/skills/splitting.py) and the TASKs that     *)
(* build them.  Each step is what a TASK does between two awaits; other    *)
(* TASKs that end make the advancer look at the rows in between.           *)
(***************************************************************************)
EXTENDS Integers, Sequences, FiniteSets, SequencesExt

CONSTANTS Slug,          \* [screen -> the slug of its URL or name]; may collide
          Needs,         \* [screen -> the components its placements name]
          FirstLibrary,  \* the components of the library
          ScreenLists,   \* the versions of the screen list
          LabelTables,   \* [slug -> the label of its prefix] that are tried
          Unlabelled,    \* no label
          SplitThreshold, LargestGroup, SmallestGroup,
          MaxEdits, MaxPipelineStops

\* Screens have the numbers their names give them.
Screen == DOMAIN Slug
SlugPage == {Slug[s] : s \in Screen}
NoScreen == 0

ASSUME PipelineAssumption ==
  Screen \subseteq Nat \ {0} /\ ScreenLists \subseteq Seq(Screen) /\ SplitThreshold \in Nat

VARIABLES screenList,     \* current version of the screen list
          slugLabel,      \* _SLUG_PREFIX_LABELS
          recipeRows,     \* composition_recipes: [page -> its screen]
          componentRows,  \* composition_components: the names
          recipeTask,     \* the recipe TASK: state and the screens left
          assemblyTask,   \* the assembly TASK
          frontendTask,   \* the frontend TASK that is not split
          pageTasks,      \* the TASKs of the groups, in insertion order
          infraDone,      \* whether the TASK the frontend waits for is done
          duePages,       \* ghost: the pages of the first assembly, or of the split
          splitCut,       \* ghost: a crash has stopped a split between two groups
          listEdits, pipelineStops

pipelineVars == <<screenList, slugLabel, recipeRows, componentRows, recipeTask,
                  assemblyTask, frontendTask, pageTasks, infraDone, duePages,
                  splitCut, listEdits, pipelineStops>>

NoPages == {}
PagesWaiting(pages) == [state |-> "NOT_STARTED", pages |-> pages, reads |-> NoPages,
                        built |-> NoPages, told |-> FALSE, edge |-> FALSE]

Unassembled == [state |-> "READY", at |-> "start", pages |-> NoPages,
                missing |-> {}, round |-> 0, todo |-> {}]

PipelineInit ==
  /\ screenList \in ScreenLists /\ slugLabel \in LabelTables
  /\ recipeRows = [p \in SlugPage |-> NoScreen] /\ componentRows = FirstLibrary
  /\ recipeTask = [state |-> "READY", todo |-> <<>>]
  /\ assemblyTask = Unassembled
  /\ frontendTask = [PagesWaiting(NoPages) EXCEPT !.edge = TRUE] /\ pageTasks = <<>>
  /\ infraDone = FALSE /\ duePages = {} /\ splitCut = FALSE
  /\ listEdits = 0 /\ pipelineStops = 0

MadePages == {p \in SlugPage : recipeRows[p] # NoScreen}

(***************************************************************************)
(* The recipe TASK: one row for each slug, written over when there is one. *)
(***************************************************************************)
MakeRecipes ==
  /\ recipeTask.state = "READY"
  /\ recipeTask' = [state |-> "IN_PROGRESS", todo |-> screenList]
  /\ UNCHANGED <<screenList, slugLabel, recipeRows, componentRows, assemblyTask,
                 frontendTask, pageTasks, infraDone, duePages, splitCut, listEdits,
                 pipelineStops>>

SaveRecipe ==
  /\ recipeTask.state = "IN_PROGRESS" /\ recipeTask.todo # <<>>
  /\ recipeRows' = [recipeRows EXCEPT ![Slug[Head(recipeTask.todo)]] = Head(recipeTask.todo)]
  /\ recipeTask' = [recipeTask EXCEPT !.todo = Tail(@)]
  /\ UNCHANGED <<screenList, slugLabel, componentRows, assemblyTask, frontendTask,
                 pageTasks, infraDone, duePages, splitCut, listEdits, pipelineStops>>

RecipesMade ==
  /\ recipeTask.state = "IN_PROGRESS" /\ recipeTask.todo = <<>>
  /\ recipeTask' = [recipeTask EXCEPT !.state = "COMPLETED"]
  /\ UNCHANGED <<screenList, slugLabel, recipeRows, componentRows, assemblyTask,
                 frontendTask, pageTasks, infraDone, duePages, splitCut, listEdits,
                 pipelineStops>>

(***************************************************************************)
(* The assembly TASK.  All pages are rendered; components that are missing *)
(* are registered and the pages rendered again, twice at most.             *)
(***************************************************************************)
Assembling(place) == assemblyTask.state = "IN_PROGRESS" /\ assemblyTask.at = place

\* What the steps of the assembly leave alone, besides what each writes.
AssemblyOnly == UNCHANGED <<screenList, slugLabel, recipeRows, recipeTask, infraDone,
                            splitCut, listEdits, pipelineStops>>

AssemblePages ==
  /\ assemblyTask.state = "READY" /\ recipeTask.state = "COMPLETED"
  /\ assemblyTask' = [assemblyTask EXCEPT !.state = "IN_PROGRESS", !.at = "render",
                                          !.round = 0]
  /\ UNCHANGED <<componentRows, frontendTask, pageTasks, duePages>> /\ AssemblyOnly

MissingParts == (UNION {Needs[recipeRows[p]] : p \in MadePages}) \ componentRows

Render ==
  /\ Assembling("render")
  /\ assemblyTask' = [assemblyTask EXCEPT
       !.pages = MadePages, !.missing = MissingParts,
       !.at = IF MissingParts = {} \/ assemblyTask.round = 2 THEN "save" ELSE "register"]
  /\ UNCHANGED <<componentRows, frontendTask, pageTasks, duePages>> /\ AssemblyOnly

RegisterParts ==
  /\ Assembling("register")
  /\ componentRows' = componentRows \cup assemblyTask.missing
  /\ assemblyTask' = [assemblyTask EXCEPT !.at = "render", !.round = @ + 1]
  /\ UNCHANGED <<frontendTask, pageTasks, duePages>> /\ AssemblyOnly

(***************************************************************************)
(* The groups: the pages of each label that has enough of them, and all    *)
(* others together, each cut into chunks.                                  *)
(***************************************************************************)
Alike(p, pages) == {q \in pages : slugLabel[q] = slugLabel[p]}
OwnGroup(p, pages) == /\ slugLabel[p] # Unlabelled
                      /\ Cardinality(Alike(p, pages)) >= SmallestGroup

\* Pages come ORDER BY page_name and labels with the first of their pages;
\* those without a label and then those of small labels come last.
PlaceOf(p, pages) ==
  <<IF OwnGroup(p, pages) THEN 0 ELSE IF slugLabel[p] = Unlabelled THEN 1 ELSE 2,
    Min({recipeRows[q] : q \in Alike(p, pages)}), recipeRows[p]>>
Precedes(p, q, pages) ==
  LET a == PlaceOf(p, pages)  b == PlaceOf(q, pages)
  IN  \E i \in 1..3 : a[i] < b[i] /\ \A j \in 1..(i - 1) : a[j] = b[j]

UncutGroup(p, pages) == IF OwnGroup(p, pages) THEN Alike(p, pages)
                   ELSE {q \in pages : ~OwnGroup(q, pages)}
ChunkNo(p, pages) ==
  Cardinality({q \in UncutGroup(p, pages) : Precedes(q, p, pages)}) \div LargestGroup
PageGroup(p, pages) == {q \in UncutGroup(p, pages) : ChunkNo(q, pages) = ChunkNo(p, pages)}

\* Mutant: a label with too few pages is dropped.
PageGroupsWithoutSmall(pages) ==
  LET kept == {p \in pages : slugLabel[p] = Unlabelled \/ OwnGroup(p, pages)}
  IN  {PageGroup(p, kept) : p \in kept}

PageGroups(pages) == {PageGroup(p, pages) : p \in pages}

\* The split is for many pages, more than one group, and once.
Splits(pages) == /\ Cardinality(pages) > SplitThreshold
                 /\ Cardinality(PageGroups(pages)) > 1 /\ pageTasks = <<>>

\* The pages and their summary are saved.
SavePages ==
  /\ Assembling("save")
  /\ LET splits == Splits(assemblyTask.pages)
     IN  /\ assemblyTask' = [assemblyTask EXCEPT
              !.at = IF splits THEN "skip" ELSE "complete",
              !.todo = IF splits THEN PageGroups(assemblyTask.pages) ELSE {}]
         /\ duePages' = IF (duePages = {} /\ listEdits = 0) \/ splits
                        THEN assemblyTask.pages ELSE duePages
  /\ UNCHANGED <<componentRows, frontendTask, pageTasks>> /\ AssemblyOnly

\* Whatever the frontend TASK is doing.
SkipFrontend ==
  /\ Assembling("skip")
  /\ frontendTask' = [frontendTask EXCEPT !.state = "SKIPPED"]
  /\ assemblyTask' = [assemblyTask EXCEPT !.at = "insert"]
  /\ UNCHANGED <<componentRows, pageTasks, duePages>> /\ AssemblyOnly

\* A group is a row, then an edge, then its pages in its description.
InsertGroup ==
  /\ Assembling("insert")
  /\ \E pages \in assemblyTask.todo :
       /\ \E p \in pages : \A q \in UNION assemblyTask.todo :
            ~Precedes(q, p, assemblyTask.pages)
       /\ pageTasks' = Append(pageTasks, PagesWaiting(pages))
       /\ assemblyTask' = [assemblyTask EXCEPT !.at = "edge", !.todo = @ \ {pages}]
  /\ UNCHANGED <<componentRows, frontendTask, duePages>> /\ AssemblyOnly

ConnectGroup ==
  /\ Assembling("edge")
  /\ pageTasks' = [pageTasks EXCEPT ![Len(pageTasks)].edge = TRUE]
  /\ assemblyTask' = [assemblyTask EXCEPT !.at = "describe"]
  /\ UNCHANGED <<componentRows, frontendTask, duePages>> /\ AssemblyOnly

DescribeGroup ==
  /\ Assembling("describe")
  /\ pageTasks' = [pageTasks EXCEPT ![Len(pageTasks)].told = TRUE]
  /\ assemblyTask' = [assemblyTask EXCEPT !.at = "insert"]
  /\ UNCHANGED <<componentRows, frontendTask, duePages>> /\ AssemblyOnly

PagesAssembled ==
  /\ Assembling("complete") \/ (Assembling("insert") /\ assemblyTask.todo = {})
  /\ assemblyTask' = [assemblyTask EXCEPT !.state = "COMPLETED"]
  /\ UNCHANGED <<componentRows, frontendTask, pageTasks, duePages>> /\ AssemblyOnly

(***************************************************************************)
(* The frontend TASKs.  The infrastructure comes after the gate of the     *)
(* design, so after a first assembly; a TASK without its edge waits for    *)
(* nothing, and one without its pages builds all there are.                *)
(***************************************************************************)
FrontendOnly == UNCHANGED <<screenList, slugLabel, recipeRows, componentRows, recipeTask,
                            assemblyTask, duePages, splitCut, listEdits, pipelineStops>>

InfraDone == /\ ~infraDone /\ (assemblyTask.state = "COMPLETED" \/ listEdits > 0)
             /\ infraDone' = TRUE
             /\ UNCHANGED <<frontendTask, pageTasks>> /\ FrontendOnly

PagesStart(t) == t.state = "NOT_STARTED" /\ (t.edge => infraDone)
PagesStarted(t) == [t EXCEPT !.state = "IN_PROGRESS",
                             !.reads = IF t.told THEN t.pages ELSE SlugPage]
PagesEnded(t) == [t EXCEPT !.state = "COMPLETED", !.built = t.reads \cap MadePages,
                           !.told = t.reads # SlugPage]

StartGroup(i) == /\ PagesStart(pageTasks[i])
                 /\ pageTasks' = [pageTasks EXCEPT ![i] = PagesStarted(@)]
                 /\ UNCHANGED <<frontendTask, infraDone>> /\ FrontendOnly

EndGroup(i) == /\ pageTasks[i].state = "IN_PROGRESS"
               /\ pageTasks' = [pageTasks EXCEPT ![i] = PagesEnded(@)]
               /\ UNCHANGED <<frontendTask, infraDone>> /\ FrontendOnly

StartFrontend == /\ PagesStart(frontendTask)
                 /\ frontendTask' = PagesStarted(frontendTask)
                 /\ UNCHANGED <<pageTasks, infraDone>> /\ FrontendOnly

\* COMPLETED is written over SKIPPED.
EndFrontend == /\ frontendTask.reads # NoPages /\ frontendTask.built = NoPages
               /\ frontendTask' = PagesEnded(frontendTask)
               /\ UNCHANGED <<pageTasks, infraDone>> /\ FrontendOnly

(***************************************************************************)
(* The list of screens is edited: recipes and assembly run again.  A crash *)
(* sends back every TASK that was running.                                 *)
(***************************************************************************)
EditList ==
  /\ listEdits < MaxEdits /\ listEdits' = listEdits + 1
  /\ recipeTask.state = "COMPLETED" /\ assemblyTask.state = "COMPLETED"
  /\ screenList' \in ScreenLists
  /\ recipeTask' = [recipeTask EXCEPT !.state = "READY"]
  /\ assemblyTask' = [assemblyTask EXCEPT !.state = "READY"]
  /\ UNCHANGED <<slugLabel, recipeRows, componentRows, frontendTask, pageTasks,
                 infraDone, duePages, splitCut, pipelineStops>>

BuildsAgain(t) ==
  CASE t.state = "IN_PROGRESS" -> [t EXCEPT !.state = "NOT_STARTED", !.reads = NoPages]
    [] t.state = "SKIPPED"     -> [t EXCEPT !.reads = t.built]
    [] OTHER                   -> t
RunsAgain(t) == [t EXCEPT !.state = IF @ = "IN_PROGRESS" THEN "READY" ELSE @]

PipelineStops ==
  /\ pipelineStops < MaxPipelineStops /\ pipelineStops' = pipelineStops + 1
  /\ splitCut' = (splitCut \/ (Assembling("insert") /\ pageTasks # <<>>
                               /\ assemblyTask.todo # {}))
  /\ recipeTask' = RunsAgain(recipeTask) /\ assemblyTask' = RunsAgain(assemblyTask)
  /\ frontendTask' = BuildsAgain(frontendTask)
  /\ pageTasks' = [i \in DOMAIN pageTasks |-> BuildsAgain(pageTasks[i])]
  /\ UNCHANGED <<screenList, slugLabel, recipeRows, componentRows, infraDone, duePages,
                 listEdits>>

PipelineNext ==
  \/ MakeRecipes \/ SaveRecipe \/ RecipesMade
  \/ AssemblePages \/ Render \/ RegisterParts \/ SavePages \/ SkipFrontend
  \/ InsertGroup \/ ConnectGroup \/ DescribeGroup \/ PagesAssembled
  \/ InfraDone \/ StartFrontend \/ EndFrontend \/ EditList \/ PipelineStops
  \/ \E i \in DOMAIN pageTasks : StartGroup(i) \/ EndGroup(i)

PipelineSpec == PipelineInit /\ [][PipelineNext]_pipelineVars

(***************************************************************************)
(* Every page of the first assembly, or of the one that was split, has     *)
(* been built or is due to be built by a TASK that is left, however the    *)
(* pages are labelled, whenever the screens are edited and whatever starts *)
(* while the groups are inserted; only a crash between two groups loses    *)
(* pages.                                                                  *)
(***************************************************************************)
Promised(t) == {p \in SlugPage : \/ t.state = "NOT_STARTED" /\ (t.told => p \in t.pages)
                                 \/ t.state = "IN_PROGRESS" /\ p \in t.reads
                                 \/ t.state = "COMPLETED" /\ p \in t.built}
GroupsMade == Assembling("insert") \/ Assembling("edge") \/ Assembling("describe")

PagesBuilt ==
  (GroupsMade \/ assemblyTask.state = "COMPLETED") /\ ~splitCut =>
    duePages \subseteq Promised(frontendTask)
                       \cup (UNION {Promised(pageTasks[i]) : i \in DOMAIN pageTasks})
                       \cup (UNION assemblyTask.todo)
=============================================================================
