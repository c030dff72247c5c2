------------------------------ MODULE Attempts ------------------------------
(***************************************************************************)
(* The attempts of one TASK, from the limit of its answer to COMPLETED     *)
(* (src/engine/skills/executor.py, with two_phase.py, assembly.py,         *)
(* repair.py and validators/): the limit grows with the version saved      *)
(* before and with the failures, an answer cut by it is asked for again,   *)
(* JSON is mended, the version is saved and only then validated, and what  *)
(* fails is repaired once.  An attempt may stop at any point.              *)
(*                                                                         *)
(* A text is the parts it has, and is in form or not: a DOCTYPE, JSON that *)
(* parses, FILE tags, for a document that no forbidden word is in it.      *)
(* What the model says around a document in HTML is left out.              *)
(***************************************************************************)
EXTENDS Integers, Sequences, FiniteSets

CONSTANTS AnswerPart,               \* numbers from 1
          RequiredParts,            \* required_headings
          PartSize,                 \* thousands of tokens of a part
          MinSize,                  \* min_chars, of the validation and of the size gate
          LongCode,                 \* 30000 characters
          TaskRetries, TaskReworks  \* max_retries; bound

Base == 16               \* TOKEN_BUDGET["max_output"], in thousands of tokens
JsonLimit == 32          \* the override for JSON
Floor == 24              \* the least limit of a retry, the most of a split node
Cap == 64
RepairCap == 32

VARIABLES artifactKind,    \* "document", "html", "page" (code), "json" or "category"
          chunked,         \* the specification names sections or items
          retry,           \* retry_count
          missing,         \* failure_reasons that name what is missing
                           \* among the last five, as MaxRetries is three
          saved,           \* the current version of the artifact
          registry,        \* the components registered from it
          limit,           \* max_tokens
          answer,          \* response.content
          wasCut,          \* its stop_reason is max_tokens
          own,             \* each of its components has the category of the node
          again,           \* it was asked for a second time
          stage, taskReworks

attemptVars == <<artifactKind, chunked, retry, missing, saved, registry, limit,
                 answer, wasCut, own, again, stage, taskReworks>>

given == <<artifactKind, chunked>>
attemptCounts == <<retry, missing, taskReworks>>
stored == <<saved, registry>>

AnswerText == [parts : SUBSET AnswerPart, form : BOOLEAN]
NoText == [parts |-> {}, form |-> FALSE]
Json == artifactKind \in {"json", "category"}
Size(text) == PartSize * Cardinality(text.parts)
Smaller(a, b) == IF a < b THEN a ELSE b
Larger(a, b) == IF a < b THEN b ELSE a

AttemptInit == /\ artifactKind \in {"document", "html", "page", "json", "category"}
               /\ chunked \in BOOLEAN /\ (artifactKind \in {"page", "category"} => ~chunked)
               /\ retry = 0 /\ missing = 0 /\ saved = NoText /\ registry = {}
               /\ limit = 0 /\ answer = NoText /\ wasCut = FALSE
               /\ own = TRUE /\ again = FALSE /\ stage = "waiting" /\ taskReworks = 0

(***************************************************************************)
(* The limit of the answer.                                                *)
(***************************************************************************)
\* _estimate_required_output_tokens: of the version that is current.
Estimated == Size(saved)
Tenths == CASE retry = 0 -> 13 [] retry = 1 -> 16 [] OTHER -> 20

\* A retry after two failures that name something missing asks for the most.
\* "누락" is also in the message of a missing DOCTYPE.
Hinted == retry > 0 /\ missing >= 2

Raised == IF Estimated * 10 > Base * 8
          THEN Larger(Base, Smaller((Estimated * Tenths) \div 10, Cap))
          ELSE IF retry >= 1 THEN Floor ELSE Base

Limit == CASE artifactKind = "category" -> Smaller(JsonLimit, Floor)
           [] artifactKind = "json" -> JsonLimit
           [] OTHER -> IF Hinted THEN Cap ELSE Raised

Prepare == /\ stage = "waiting"
           /\ limit' = Limit
           /\ stage' = IF chunked THEN "chunks"
                       ELSE IF Json THEN "single" ELSE "outline"
           /\ UNCHANGED <<given, stored, attemptCounts, answer, wasCut, own, again>>

(***************************************************************************)
(* The answer.                                                             *)
(***************************************************************************)
\* What the model can say in so many tokens.
Says(most) == {text \in AnswerText : text.parts # {} /\ Size(text) <= most}

\* Sections and items: each is a call of its own, any of them may be cut.
Chunks == /\ stage = "chunks"
          /\ \E text \in Says(Cap) : answer' = text
          /\ wasCut' \in BOOLEAN
          /\ stage' = "answered"
          /\ UNCHANGED <<given, stored, attemptCounts, limit, own, again>>

\* _two_phase_generate: an outline with all headings precedes the text; without
\* it, or if its call raises, there is one call.
Outline == /\ stage = "outline"
           /\ stage' \in {"outlined", "single"}
           /\ UNCHANGED <<given, stored, attemptCounts, limit, answer, wasCut, own, again>>

AskModel == /\ stage \in {"outlined", "single"}
            /\ \E text \in Says(limit), full \in BOOLEAN :
                 /\ full => Size(text) + PartSize > limit
                 /\ answer' = text /\ wasCut' = full
            /\ own' \in (IF artifactKind = "category" THEN BOOLEAN ELSE {TRUE})
            /\ stage' = IF again THEN "formed" ELSE "answered"
            /\ UNCHANGED <<given, stored, attemptCounts, limit, again>>

\* A cut answer is asked for once more with half as much again; for a chunked
\* one this asks for the whole in one text.
Longer == Smaller((limit * 3) \div 2, Cap)
Extend == /\ stage = "answered"
          /\ IF wasCut /\ Longer > limit
             THEN /\ limit' = Longer /\ again' = TRUE
                  /\ stage' = IF Json THEN "single" ELSE "outline"
             ELSE /\ stage' = "formed" /\ UNCHANGED <<limit, again>>
          /\ UNCHANGED <<given, stored, attemptCounts, answer, wasCut, own>>

\* _repair_json_if_needed: JSON that does not parse goes to the model twice,
\* with the place of the error; what comes back is any JSON; else it stays as it is.
MendJson == /\ stage = "formed" /\ Json
            /\ \/ answer.form /\ UNCHANGED answer
               \/ ~answer.form /\ UNCHANGED answer
               \/ ~answer.form /\ \E text \in Says(limit) :
                                    text.form /\ answer' = text
            /\ stage' = "mended"
            /\ UNCHANGED <<given, stored, attemptCounts, limit, wasCut, own, again>>

\* _enforce_category_constraint: one call to put the category right; an answer
\* to it that is wrong too is dropped for the first one.
Correct == /\ stage = "mended"
           /\ \/ UNCHANGED answer
              \/ /\ answer.form /\ ~own
                 /\ \E text \in Says(limit) : text.form /\ answer' = text
           /\ own' = TRUE /\ stage' = "ready"
           /\ UNCHANGED <<given, stored, attemptCounts, limit, wasCut, again>>

(***************************************************************************)
(* Saved, judged, repaired.                                                *)
(***************************************************************************)
\* _auto_repair_artifact: what is too short may take twice the limit, though
\* never more than RepairCap; the answer counts if it is more than half as long.
Repaired(text, issues) ==
  LET most == IF "short" \in issues
              THEN Smaller(2 * limit, RepairCap) ELSE limit
  IN  {r \in Says(most) : Size(r) * 2 > Size(text)}

Dropped == /\ answer' = NoText /\ limit' = 0 /\ wasCut' = FALSE
           /\ own' = TRUE /\ again' = FALSE

\* The node becomes READY again, or FAILED after its last try.
Failed(reason) ==
  /\ retry' = retry + 1
  /\ missing' = IF reason = "missing" THEN missing + 1 ELSE missing
  /\ stage' = IF retry + 1 < TaskRetries THEN "waiting" ELSE "failed"
  /\ Dropped

\* _save_artifact and _composition_post_process: what does not parse is saved
\* and not registered.
Saved(text) == /\ saved' = text
               /\ registry' = IF Json /\ text.form THEN registry \cup text.parts
                              ELSE registry

\* HTML without its DOCTYPE is repaired before it is saved, or raises; without
\* its end as well it is saved as it is.
SaveAnswer == /\ stage = "ready" \/ (stage = "formed" /\ ~Json)
              /\ \/ /\ artifactKind = "html" => answer.form \/ wasCut
                    /\ Saved(answer)
                 \/ /\ artifactKind = "html" /\ ~answer.form
                    /\ \E r \in Repaired(answer, {}) : r.form /\ Saved(r)
              /\ stage' = "saved"
              /\ UNCHANGED <<given, attemptCounts, limit, answer, wasCut, own, again>>

NoDoctype == /\ stage = "formed" /\ artifactKind = "html" /\ ~answer.form
             /\ Failed("missing")
             /\ UNCHANGED <<given, stored, taskReworks>>

\* The size gate of a page counts the files and the length of what was saved.
TooSmall == artifactKind = "page" /\ (Size(saved) < MinSize \/ ~saved.form)
SizeGate == /\ stage = "saved" /\ TooSmall /\ Failed("other")
            /\ UNCHANGED <<given, stored, taskReworks>>

\* validate: the headings, the lengths and the words.  Of code that is longer
\* than LongCode only its tags count, and it is not repaired.
Long(text) == artifactKind = "page" /\ Size(text) > LongCode
Issues(text) == {i \in {"missing", "short", "word", "tags"} :
                   \/ /\ i = "missing" /\ ~Long(text)
                      /\ ~(RequiredParts \subseteq text.parts)
                   \/ i = "short" /\ ~Long(text) /\ Size(text) < MinSize
                   \/ i = "word" /\ artifactKind = "document" /\ ~text.form
                   \/ i = "tags" /\ Long(text) /\ ~text.form}
Reason(text) == IF "missing" \in Issues(text) THEN "missing" ELSE "other"

\* Mutant: the repaired text goes on without a version of its own.
RepairUnsaved(text) == UNCHANGED <<saved, registry>>

SaveRepaired(text) == Saved(text)

Pass == /\ stage = "saved" /\ ~TooSmall /\ Issues(answer) = {}
        /\ stage' = "passed"
        /\ UNCHANGED <<given, stored, attemptCounts, limit, answer, wasCut, own, again>>

Repair == /\ stage = "saved" /\ ~TooSmall /\ Issues(answer) # {}
          /\ ~Long(answer)
          /\ \E r \in Repaired(answer, Issues(answer)) :
               /\ Issues(r) = {}
               /\ answer' = r /\ SaveRepaired(r)
          /\ stage' = "passed"
          /\ UNCHANGED <<given, attemptCounts, limit, wasCut, own, again>>

RejectAnswer == /\ stage = "saved" /\ ~TooSmall /\ Issues(answer) # {}
                /\ \/ Failed(Reason(answer))
                   \/ /\ ~Long(answer)
                      /\ \E r \in Repaired(answer, Issues(answer)) :
                           Issues(r) # {} /\ Failed(Reason(r))
                /\ UNCHANGED <<given, stored, taskReworks>>

CompleteTask == /\ stage = "passed"
                /\ stage' = "completed" /\ Dropped
                /\ UNCHANGED <<given, stored, attemptCounts>>

\* A call that raises.
CallFails == /\ stage \in {"chunks", "outlined", "single"}
             /\ Failed("other")
             /\ UNCHANGED <<given, stored, taskReworks>>

\* The QA, an operator or a cascade makes the TASK INVALID.
ReworkTask == /\ stage = "completed" /\ taskReworks < TaskReworks
              /\ taskReworks' = taskReworks + 1 /\ stage' = "waiting"
              /\ UNCHANGED <<given, stored, retry, missing, limit, answer, wasCut, own,
                            again>>

\* The process stops; the next start makes the node READY.
AttemptStops == /\ stage \notin {"waiting", "completed", "failed"}
                /\ stage' = "waiting" /\ Dropped
                /\ UNCHANGED <<given, stored, attemptCounts>>

AttemptNext == \/ Prepare \/ Chunks \/ Outline \/ AskModel \/ Extend \/ MendJson \/ Correct
               \/ SaveAnswer \/ NoDoctype \/ SizeGate \/ Pass \/ Repair \/ RejectAnswer
               \/ CompleteTask \/ CallFails \/ ReworkTask \/ AttemptStops

AttemptSpec == AttemptInit /\ [][AttemptNext]_attemptVars

(***************************************************************************)
(* What is COMPLETED is a version the rules allow, whatever attempts, cut  *)
(* answers and repairs came before (10. Post-call validation), and the     *)
(* registry has every component of a version that parses.  HTML is left    *)
(* out: its answer is judged as it was before the repair of its DOCTYPE.   *)
(***************************************************************************)
CompletedValid ==
  stage = "completed" =>
    /\ artifactKind # "html" => Issues(saved) = {}
    /\ Json /\ saved.form => saved.parts \subseteq registry
=============================================================================
