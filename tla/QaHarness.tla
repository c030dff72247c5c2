----------------------------- MODULE QaHarness -----------------------------
(***************************************************************************)
(* The checks without a model that judge an artifact, and the four places  *)
(* that make them: the QA of the TASK, the override of a model's FAIL, the *)
(* recovery of suspended TASKs at a start, and the audit, which only       *)
(* retroactive-validate reaches: at a start it raises before its checks    *)
(* (src/engine/skills/qa/harness.py, harness_auto_fix.py, retroactive.py,  *)
(* src/engine/skills/executor.py, src/engine/lifecycle/startup.py).        *)
(***************************************************************************)
EXTENDS Integers, Sequences, FiniteSets, SequencesExt, FiniteSetsExt

CONSTANTS MaxTokens,     \* length of a generated document
          LeastSize,       \* the characters a document needs
          MaxFix,        \* MAX_AUTO_FIX_FORBIDDEN
          Screens,       \* the screens of the screen list are 1..Screens
          ManyScreens    \* above it a design without user pages is refused

ASSUME CheckAssumption ==
  {MaxTokens, LeastSize, MaxFix, Screens, ManyScreens} \subseteq Nat

VARIABLES contentKind,  \* what the artifact is; "recipe-built" is code without a model
          spec,         \* what the specification of the document requires
          content,      \* the current version of the artifact
          standing,     \* "rejected", "made", "model", "approved", "suspended"
          approver      \* who approved, "harness" for the structural checks

checkVars == <<contentKind, spec, content, standing, approver>>

(***************************************************************************)
(* Documents.  A forbidden word inside a heading or a fence is not         *)
(* replaced, and is found all the same.                                    *)
(***************************************************************************)
Token == {"text", "heading", "section", "todoHeading", "tbd", "fence", "row"}
Document == BoundedSeq(Token, MaxTokens)

Places(d, T) == {i \in DOMAIN d : d[i] \in T}
Fences(d) == Places(d, {"fence"})

\* Fences pair up from the first one; the last of an odd number opens nothing.
Fenced(d, i) == LET before == Cardinality({j \in Fences(d) : j < i})
                IN before % 2 = 1 /\ before < Cardinality(Fences(d))
Safe(d, i) == d[i] = "todoHeading" \/ Fenced(d, i)
Forbidden(d) == Places(d, {"tbd", "todoHeading"})
Fixable(d) == {i \in Forbidden(d) : ~Safe(d, i)}

\* The replacement, with the comment that marks it at the end.
Fixed(d) == IF Cardinality(Fixable(d)) \in 1..MaxFix
            THEN [i \in DOMAIN d |-> IF i \in Fixable(d) THEN "text" ELSE d[i]]
                 \o <<"marker">>
            ELSE d

\* Mutant: the fix is trusted to have found every word.
RemainingNone(d) == IF Fixed(d) = d THEN Forbidden(d) ELSE {}

\* The words still there after the fix.
Remaining(d) == Forbidden(Fixed(d))

Headings(d) == Places(d, {"heading", "section", "todoHeading"})
DocumentFails(d, s) == \/ Len(d) < LeastSize
                       \/ Headings(d) = {}
                       \/ "section" \in s /\ Places(d, {"section"}) = {}
                       \/ Remaining(d) # {}
                       \/ "table" \in s /\ Cardinality(Places(d, {"row"})) < 2
                       \/ Cardinality(Fences(d)) % 2 = 1

(***************************************************************************)
(* Code.  A file is what it is and what is wrong with it.                  *)
(***************************************************************************)
Flaw == {"cut", "noExport", "noImport", "noType", "stub", "unbalanced",
         "noState", "noHandler", "deadHandler", "noData", "noClient", "noPlacement"}
File == [page : BOOLEAN, flaws : {F \in SUBSET Flaw : Cardinality(F) <= 1}]
Code == {<<f>> : f \in File} \cup (File \X File)

With(c, flaw) == {i \in DOMAIN c : flaw \in c[i].flaws}
AiCodeFails(c) == \/ With(c, "cut") # {}
                  \/ 2 * (Len(c) - Cardinality(With(c, "noExport"))) < Len(c)
                  \/ With(c, "noImport") = DOMAIN c
                  \/ \E i \in With(c, "stub") : ~c[i].page
InteractivityFails(c) ==
  \E i \in DOMAIN c :
    /\ c[i].page
    /\ c[i].flaws \cap {"noState", "noHandler", "deadHandler", "noData", "noClient"} # {}
ProgrammaticFails(c, expected) == \/ Len(c) < expected
                                  \/ With(c, "noExport") # {}
                                  \/ With(c, "unbalanced") # {}
                                  \/ With(c, "noImport") = DOMAIN c
                                  \/ With(c, "noType") = DOMAIN c
                                  \/ With(c, "noPlacement") # {}

\* The page against the design it was made from.
Preview == [texts : {0, 4}, found : 1..3, tags : {0, 3}, present : 2..3,
            colors : {0, 4}, matched : 0..2, cssVars : BOOLEAN,
            sections : {2, 5}, blocks : {1, 2, 5}]
DesignMatchFails(p) == \/ 10 * p.found < 6 * p.texts
                       \/ p.tags > 0 /\ 10 * (p.tags - p.present) > 3 * p.tags
                       \/ 10 * p.matched < 3 * p.colors /\ ~p.cssVars
                       \/ p.sections > 2 /\ 10 * p.blocks < 4 * p.sections
DesignVerdicts == {DesignMatchFails(p) : p \in Preview}

(***************************************************************************)
(* Designs.  File s shows screen s; file 0 has a name every screen's name  *)
(* contains.                                                               *)
(***************************************************************************)
Design == [files : SUBSET (0..Screens), admin : 0..Screens, user : 0..Screens]
Shown(d) == {s \in 1..Screens : s \in d.files \/ 0 \in d.files}
CoverageFails(d, tenths) ==
  \/ Screens = 0
  \/ 10 * Cardinality(d.files) < tenths * Screens
  \/ 10 * Cardinality(Shown(d)) < tenths * Screens
  \/ 10 * (d.admin + d.user) < tenths * Screens
  \/ d.admin > 0 /\ d.user <= 1 /\ Screens > ManyScreens

(***************************************************************************)
(* Item lists and pages.                                                   *)
(***************************************************************************)
Items == [all : 0..3, incomplete : 0..3, forbidden : BOOLEAN]
JsonFails(c, least) == \/ c.all < least
                       \/ c.all > 0 /\ 10 * c.incomplete >= c.all
                       \/ c.forbidden

Html == [frame : BOOLEAN, style : BOOLEAN, responsive : BOOLEAN, headings : 0..2,
         sections : 0..4, empty : 0..2]
HtmlFails(c, least) ==
  \/ ~c.frame \/ ~c.style \/ ~c.responsive
  \/ c.headings < least \/ c.sections < least
  \/ c.sections >= 3 /\ 10 * c.empty >= 3 * c.sections

(***************************************************************************)
(* The TASK, its QA and the places that judge.                             *)
(***************************************************************************)
Contents == CASE contentKind = "document" -> Document
              [] contentKind \in {"frontend", "recipe-built"} -> Code
              [] contentKind = "design" -> Design
              [] contentKind = "items" -> Items
              [] contentKind = "html" -> Html

CheckInit == /\ contentKind \in {"document", "frontend", "recipe-built", "design",
                                "items", "html"}
             /\ spec \in IF contentKind = "document" THEN SUBSET {"section", "table"} ELSE {{}}
             /\ content = <<>> /\ standing = "rejected" /\ approver = "nobody"

MakeContent == /\ standing = "rejected"
               /\ content' \in Contents
               /\ standing' = "made"
               /\ UNCHANGED <<contentKind, spec, approver>>

\* What is generated next does not depend on the version that was rejected.
Reject == standing' = "rejected" /\ approver' = "nobody" /\ content' = <<>>
ApproveAs(who) == standing' = "approved" /\ approver' = who /\ UNCHANGED content
ToModel == standing' = "model" /\ UNCHANGED <<approver, content>>

\* The fix is written over the current version, or its UPDATE raises and the
\* QA goes on with it all the same.
QaDocument == /\ standing = "made" /\ contentKind = "document"
              /\ IF DocumentFails(content, spec) THEN Reject
                 ELSE /\ content' \in {content, Fixed(content)}
                      /\ standing' = "model" /\ UNCHANGED approver
              /\ UNCHANGED <<contentKind, spec>>

QaFrontend == /\ standing = "made" /\ contentKind = "frontend"
              /\ UNCHANGED <<contentKind, spec>>
              /\ IF AiCodeFails(content) \/ InteractivityFails(content) THEN Reject
                 ELSE \/ TRUE \in DesignVerdicts /\ Reject
                      \/ FALSE \in DesignVerdicts /\ ToModel
                      \/ ApproveAs("harness")

QaProgrammatic == /\ standing = "made" /\ contentKind = "recipe-built"
                  /\ UNCHANGED <<contentKind, spec>>
                  /\ IF ProgrammaticFails(content, 1) THEN Reject
                     ELSE ApproveAs("programmatic")

\* The coverage check of the QA is behind a mark these TASKs never carry.
QaDesign == /\ standing = "made" /\ contentKind = "design" /\ ToModel
            /\ UNCHANGED <<contentKind, spec>>

\* A list that is one category of several needs one item only.
QaItems == /\ standing = "made" /\ contentKind = "items"
           /\ UNCHANGED <<contentKind, spec>>
           /\ \E least \in {1, LeastSize} :
                IF content.all < least THEN Reject ELSE ToModel

\* The older check of the specification: what it passes sees no model.
QaHtml == /\ standing = "made" /\ contentKind = "html"
          /\ UNCHANGED <<contentKind, spec>>
          /\ ApproveAs("specification") \/ ToModel

\* A model's FAIL counts only where the structural check fails as well.
Overridden == CASE contentKind = "document" -> spec # {} /\ ~DocumentFails(content, spec)
                [] contentKind = "items" -> ~JsonFails(content, LeastSize)
                [] contentKind = "html" -> ~HtmlFails(content, LeastSize)
                [] OTHER -> FALSE
Model == /\ standing = "model"
         /\ UNCHANGED <<contentKind, spec>>
         /\ ApproveAs("model") \/ IF Overridden THEN ApproveAs("override") ELSE Reject

\* stall_limit or token_limit, before the version is judged or after it has
\* been rejected: the content is the same.
Suspend == /\ standing = "made"
           /\ standing' = "suspended"
           /\ UNCHANGED <<contentKind, spec, content, approver>>

\* At a start: judged as a document without a specification, whatever it is.
Recover == /\ standing = "suspended"
           /\ contentKind = "document" => ~DocumentFails(content, {})
           /\ standing' = "made"
           /\ UNCHANGED <<contentKind, spec, content, approver>>

AuditFails == CASE contentKind = "design" -> CoverageFails(content, 7)
                [] contentKind \in {"frontend", "recipe-built"} ->
                     AiCodeFails(content) \/ InteractivityFails(content)
                [] OTHER -> FALSE

Audit == /\ standing = "approved" /\ AuditFails /\ Reject
         /\ UNCHANGED <<contentKind, spec>>

CheckNext == \/ MakeContent \/ QaDocument \/ QaFrontend \/ QaProgrammatic \/ QaDesign
             \/ QaItems \/ QaHtml \/ Model \/ Suspend \/ Recover \/ Audit

CheckSpec == CheckInit /\ [][CheckNext]_checkVars

(***************************************************************************)
(* Properties.                                                             *)
(***************************************************************************)
\* What the checks have approved, each place that makes them again approves
\* too: the saved version of a fixed document passes where the original did,
\* and the audit reopens only what no check or another check has judged.
\* Otherwise a finished TASK is generated again at every audit.
VerdictsAgree ==
  standing = "approved" =>
    /\ contentKind = "document" => ~DocumentFails(content, spec)
    /\ approver = "harness" => ~AuditFails
=============================================================================
