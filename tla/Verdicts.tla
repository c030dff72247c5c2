------------------------------ MODULE Verdicts ------------------------------
(***************************************************************************)
(* What a QA makes of the answer of a model (src/engine/skills/executor.py *)
(* _handle_qa_dispatch and _handle_post_ai_call, with qa/prompt.py,        *)
(* verdict_reconciler.py, verdict_parser.py, self_consistency.py).  The    *)
(* text is checked without a model first; a stamp of the pair ends the     *)
(* execution; an answer is parsed and its claims compared with the text;   *)
(* a score, and after it the checks of the text, may overrule a FAIL; what *)
(* is left sends the TASK back, with the sections it is told to restore.   *)
(***************************************************************************)
EXTENDS Integers, FiniteSets, Functions

CONSTANTS Heading,                  \* the sections a text may have
          RequiredHeadings,         \* required_headings
          Score, Issue,             \* what answers are made of: [what, of, severity]
          QaRetries, QaReworks      \* max_retries; bound

Enough == 50            \* the score that passes
Partial == 30           \* the score from which a part is mended
StallLimit == 2

VARIABLES textKind,     \* "document", "json", "code"; "plain" has no specification
          doc,          \* the current version: its headings, the checks it passes
          task, stall,  \* the TASK's state and stall_count
          qa, qaStall, qaRetry,
          stamped,      \* artifact_qa_stamps has a PASS for the pair
          hints,        \* missing_sections_last_attempt of the TASK
          by,           \* who made the TASK INVALID
          verdict, qaAt, qaReworks

verdictVars == <<textKind, doc, task, stall, qa, qaStall, qaRetry, stamped, hints, by,
                 verdict, qaAt, qaReworks>>

taskVars == <<doc, task, stall, by>>
qaVars == <<qa, qaStall, qaRetry>>

NoVerdict == [pass |-> FALSE, score |-> 0, issues |-> {}]

\* A text has sections, passes the checks of the dispatch (for JSON) or validate
\* (for code), and passes those of the harness that do not ask for sections.
Checked == [headings : SUBSET Heading, light : BOOLEAN, full : BOOLEAN]
Texts == {t \in Checked : CASE textKind = "json" -> t.headings = {}
                           [] textKind = "document" -> t.light
                           [] textKind = "plain" -> t.light /\ t.full
                           [] OTHER -> TRUE}

VerdictInit == /\ textKind \in {"document", "json", "code", "plain"}
               /\ doc \in Texts
               /\ task = "COMPLETED" /\ stall = 0
               /\ qa = "READY" /\ qaStall = 0 /\ qaRetry = 0
               /\ stamped = FALSE /\ hints = {} /\ by = "nobody"
               /\ verdict = NoVerdict /\ qaAt = "waiting" /\ qaReworks = 0

(***************************************************************************)
(* What is said of a text.                                                 *)
(***************************************************************************)
Covered == RequiredHeadings \subseteq doc.headings
PassesChecks == doc.full /\ (textKind = "json" \/ Covered)

\* An answer is JSON, or words from which a score is read.
QaAnswer == [form : {"json", "text"}, score : Score,
             issues : {i \in SUBSET Issue : Cardinality(i) <= 2}, pass : BOOLEAN]

Unreadable == [what |-> "other", of |-> 0, severity |-> "HIGH"]
\* _parse_qa_verdict: a critical issue or a score below 85 is a FAIL.  Words
\* pass if they say so; else they score 0.
Parsed(a) ==
  CASE a.form = "text" ->
         [pass |-> a.pass, score |-> IF a.pass THEN a.score ELSE 0,
          issues |-> IF a.pass THEN {} ELSE {Unreadable}]
    [] OTHER ->
         [pass |-> /\ a.pass /\ a.score >= 85
                   /\ \A i \in a.issues : i.severity # "CRITICAL",
          score |-> a.score, issues |-> a.issues]

\* _is_false_positive: the section is there, or nearly all of them are.
Untrue(i) ==
  \/ i.what = "missing" /\ i.of \in doc.headings
  \/ /\ i.what = "all" /\ textKind # "plain"
     /\ 10 * Cardinality(RequiredHeadings \cap doc.headings)
          >= 8 * Cardinality(RequiredHeadings)

Least(a, b) == IF a < b THEN a ELSE b
Bonus(issues) ==
  LET Of(s) == Cardinality({i \in issues : i.severity = s})
      sum == 15 * Of("CRITICAL") + 8 * Of("HIGH")
  IN  Least(sum, 40)

\* reconcile_verdict: untrue claims go, and the score is raised for them.
Reconciled(v) ==
  LET untrue == {i \in v.issues : Untrue(i)}
      score == Least(v.score + Bonus(untrue), 100)
  IN  IF doc.headings = {} \/ untrue = {} THEN v
      ELSE [v EXCEPT !.issues = v.issues \ untrue, !.score = score,
                     !.pass = v.pass \/ score >= Enough]

\* A score of Enough passes whatever the model says, and then the checks of the
\* text do.
Overruled == verdict.score >= Enough \/ (textKind # "plain" /\ PassesChecks)

(***************************************************************************)
(* The steps of a QA.                                                      *)
(***************************************************************************)
\* The exception makes the QA READY again, or FAILED after its last try.
RaiseQa == /\ qaRetry' = qaRetry + 1 /\ qaAt' = "waiting" /\ verdict' = NoVerdict
           /\ qa' = IF qaRetry + 1 < QaRetries THEN "READY" ELSE "FAILED"

ReturnQa(state) == /\ qa' = state /\ qaAt' = "waiting" /\ verdict' = NoVerdict
                   /\ UNCHANGED qaRetry

SendBack(who) == task' = "INVALID" /\ stall' = stall + 1 /\ by' = who

\* A QA that was sent back twice by the checks is held.
StartQa == /\ qaAt = "waiting" /\ task = "COMPLETED" /\ qa = "READY"
           /\ IF qaStall >= StallLimit
              THEN qa' = "SUSPENDED" /\ UNCHANGED qaAt
              ELSE qaAt' = "dispatch" /\ UNCHANGED qa
           /\ UNCHANGED <<textKind, taskVars, qaStall, qaRetry, stamped, hints, verdict,
                          qaReworks>>

\* The checks without a model come before the stamp.
Fails == CASE textKind = "document" -> ~PassesChecks [] textKind = "json" -> ~doc.light
           [] OTHER -> FALSE
Dispatch == /\ qaAt = "dispatch" /\ ~Fails
            /\ IF textKind = "code" /\ Covered /\ doc.light
               THEN ReturnQa("COMPLETED")
               ELSE qaAt' = "stamp" /\ UNCHANGED <<qa, qaRetry, verdict>>
            /\ UNCHANGED <<textKind, taskVars, qaStall, stamped, hints, qaReworks>>

DispatchFails == /\ qaAt = "dispatch" /\ Fails
                 /\ qaStall' = qaStall + 1 /\ SendBack("checks") /\ RaiseQa
                 /\ UNCHANGED <<textKind, doc, stamped, hints, qaReworks>>

\* JSON of more than 50000 characters is judged by category: no stamp is made.
ByCategory == /\ qaAt = "dispatch" /\ textKind = "json" /\ ~Fails
              /\ \/ ReturnQa("COMPLETED") /\ UNCHANGED <<qaStall, taskVars>>
                 \/ /\ qaStall' = qaStall + 1 /\ SendBack("categories") /\ RaiseQa
                    /\ UNCHANGED doc
              /\ UNCHANGED <<textKind, stamped, hints, qaReworks>>

\* Mutant: an execution after a reset does not look for the stamp.
CacheOfRetries == IF stamped /\ qaRetry > 0 THEN ReturnQa("COMPLETED")
                  ELSE qaAt' = "ask" /\ UNCHANGED <<qa, qaRetry, verdict>>

Cache == IF stamped THEN ReturnQa("COMPLETED")
         ELSE qaAt' = "ask" /\ UNCHANGED <<qa, qaRetry, verdict>>

LookForStamp == /\ qaAt = "stamp" /\ Cache
                /\ UNCHANGED <<textKind, taskVars, qaStall, stamped, hints, qaReworks>>

\* One answer, or one of several: which is any of them, as the score that picks
\* it is 0 for an answer in JSON.  A call that raises.
AskVerdict == /\ qaAt = "ask"
              /\ \/ /\ \E a \in QaAnswer : verdict' = Reconciled(Parsed(a))
                    /\ qaAt' = "judged" /\ UNCHANGED <<qa, qaRetry>>
                 \/ RaiseQa
              /\ UNCHANGED <<textKind, taskVars, qaStall, stamped, hints, qaReworks>>

\* A budget that does not allow the call: the QA is COMPLETED by the checks, or
\* it has none and the TASK goes back.
Broke == /\ qaAt = "ask"
         /\ \/ /\ textKind \in {"document", "json"} /\ ReturnQa("COMPLETED")
               /\ UNCHANGED taskVars
            \/ /\ textKind \notin {"document", "json"}
               /\ SendBack("budget") /\ RaiseQa
               /\ UNCHANGED doc
         /\ UNCHANGED <<textKind, qaStall, stamped, hints, qaReworks>>

\* _save_qa_stamp.
Approve == /\ qaAt = "judged" /\ (verdict.pass \/ Overruled)
           /\ stamped' = TRUE /\ qaAt' = "approved" /\ verdict' = NoVerdict
           /\ UNCHANGED <<textKind, taskVars, qaVars, hints, qaReworks>>

CompleteQa == /\ qaAt = "approved" /\ ReturnQa("COMPLETED")
              /\ UNCHANGED <<textKind, taskVars, qaStall, stamped, hints, qaReworks>>

Rejected == qaAt = "judged" /\ ~verdict.pass /\ ~Overruled
Grave == {i \in verdict.issues : i.severity \in {"CRITICAL", "HIGH"}}

\* extract_from_categories: what is said to be missing or cut off.
Hints == {i \in verdict.issues : i.what \in {"missing", "cut"}}

MendPart == /\ Rejected /\ verdict.score >= Partial /\ Grave # {}
            /\ hints' = IF Hints = {} THEN hints ELSE Hints
            /\ qaAt' = "mend" /\ verdict' = NoVerdict
            /\ UNCHANGED <<textKind, taskVars, qaVars, stamped, qaReworks>>

SendToMend == /\ qaAt = "mend" /\ SendBack("verdict") /\ RaiseQa
              /\ UNCHANGED <<textKind, doc, qaStall, stamped, hints, qaReworks>>

\* Below, only certain words of an issue send the TASK back.  That a QA failed
\* for the same reason before is never found: the reason begins otherwise.
RejectTask == /\ Rejected /\ ~(verdict.score >= Partial /\ Grave # {})
              /\ \/ verdict.issues # {} /\ SendBack("verdict")
                 \/ UNCHANGED <<task, stall, by>>
              /\ RaiseQa
              /\ UNCHANGED <<textKind, doc, qaStall, stamped, hints, qaReworks>>

(***************************************************************************)
(* The TASK, and what comes from outside.                                  *)
(***************************************************************************)
RedoTask == /\ qaAt = "waiting" /\ task = "INVALID"
            /\ IF stall >= StallLimit
               THEN task' = "SUSPENDED" /\ UNCHANGED <<doc, hints>>
               ELSE doc' \in Texts /\ task' = "COMPLETED" /\ hints' = {}
            /\ UNCHANGED <<textKind, stall, by, qaVars, stamped, verdict, qaAt,
                           qaReworks>>

\* An operator or a cascade: the QA is to run again, or the TASK too (a manual
\* retry of it, c9_manual_retry, clears its stall_count and not the QA's).
Reopen == /\ qaAt = "waiting" /\ qa # "READY" /\ qaReworks < QaReworks
          /\ qaReworks' = qaReworks + 1 /\ qa' = "READY" /\ qaRetry' = 0
          /\ \/ UNCHANGED taskVars
             \/ /\ task' = "INVALID" /\ by' = "others" /\ stall' = 0
                /\ UNCHANGED doc
          /\ UNCHANGED <<textKind, qaStall, stamped, hints, verdict, qaAt>>

\* The process stops; the next start makes the QA READY.
QaStops == /\ qaAt # "waiting" /\ qaReworks < QaReworks
           /\ qaReworks' = qaReworks + 1 /\ qaAt' = "waiting" /\ verdict' = NoVerdict
           /\ UNCHANGED <<textKind, taskVars, qaVars, stamped, hints>>

VerdictNext == \/ StartQa \/ Dispatch \/ DispatchFails \/ ByCategory \/ LookForStamp \/ AskVerdict
               \/ Broke \/ Approve \/ CompleteQa \/ MendPart \/ SendToMend \/ RejectTask
               \/ RedoTask \/ Reopen \/ QaStops

VerdictSpec == VerdictInit /\ [][VerdictNext]_verdictVars

(***************************************************************************)
(* A pair that has its stamp is never judged by a model again, however     *)
(* often it is reset or the process stops ("variance" of the answers); the *)
(* stamp is found by the pair, so this holds of its later versions too.    *)
(* A text that passes the checks is never sent back for a verdict          *)
(* (Harness-Supreme), and no TASK is told to restore a section it has,     *)
(* unless the section is said to be cut off.                               *)
(***************************************************************************)
VerdictStands ==
  /\ stamped => qaAt \in {"waiting", "dispatch", "stamp", "approved"}
  /\ task = "INVALID" /\ by = "verdict" => textKind = "plain" \/ ~PassesChecks
  /\ task = "INVALID" =>
       \A i \in hints : i.what = "missing" => i.of \notin doc.headings
=============================================================================
