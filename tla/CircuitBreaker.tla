--------------------------- MODULE CircuitBreaker ---------------------------
(***************************************************************************)
(* The circuit breaker of one provider (src/engine/core/                   *)
(* circuit_breaker.py): callers check it, call and record what came back.  *)
(* record_success and record_failure are atomic (begin_immediate); check   *)
(* reads the row, then the time the circuit opened, then writes.           *)
(***************************************************************************)
EXTENDS Integers

CONSTANTS User,
          FailureThreshold, HalfOpenMax,
          MaxRecords             \* bound: the calls that are recorded

ASSUME BreakerAssumption == /\ FailureThreshold \in Nat \ {0}
                            /\ HalfOpenMax \in Nat \ {0}
                            /\ MaxRecords \in Nat

VARIABLES state, failureCount, successCount,  \* the row of the provider
          elapsed,                     \* RECOVERY_TIMEOUT has passed since opened_at
          step,                        \* [Caller -> where its call is]
          streak,                      \* ghost: outcomes in a row since state changed
          records                        \* the calls recorded so far

breakerVars == <<state, failureCount, successCount, elapsed, step, streak, records>>

BreakerInit == /\ state = "CLOSED" /\ failureCount = 0 /\ successCount = 0
               /\ elapsed = FALSE
               /\ step = [c \in User |-> "out"]
               /\ streak = [good |-> 0, bad |-> 0]
               /\ records = 0

To(c, s) == step' = [step EXCEPT ![c] = s]
NoStreak == [good |-> 0, bad |-> 0]

Timeout == /\ state = "OPEN" /\ ~elapsed /\ elapsed' = TRUE
           /\ UNCHANGED <<state, failureCount, successCount, step, streak, records>>

\* check: _get_state lets the call through unless the circuit is open.
Check(c) == /\ step[c] = "out" /\ records < MaxRecords
            /\ To(c, IF state = "OPEN" THEN "open" ELSE "calling")
            /\ UNCHANGED <<state, failureCount, successCount, elapsed, streak, records>>

\* _try_half_open reads opened_at ...
ReadOpened(c) == /\ step[c] = "open"
                 /\ To(c, IF state = "OPEN" /\ elapsed THEN "late" ELSE "judge")
                 /\ UNCHANGED <<state, failureCount, successCount, elapsed, streak, records>>

\* ... and writes HALF_OPEN over OPEN, whenever that OPEN began.
HalfOpen(c) == /\ step[c] = "late"
               /\ To(c, "judge")
               /\ IF state = "OPEN"
                  THEN state' = "HALF_OPEN" /\ successCount' = 0 /\ streak' = NoStreak
                  ELSE UNCHANGED <<state, successCount, streak>>
               /\ UNCHANGED <<failureCount, elapsed, records>>

\* The second _get_state raises CircuitBreakerOpenError or lets through.
Judge(c) == /\ step[c] = "judge"
            /\ To(c, IF state = "OPEN" THEN "out" ELSE "calling")
            /\ UNCHANGED <<state, failureCount, successCount, elapsed, streak, records>>

Succeed == [good |-> streak.good + 1, bad |-> 0]
FailOnce == [good |-> 0, bad |-> streak.bad + 1]

RecordSuccess(c) ==
  /\ step[c] = "calling" /\ To(c, "out") /\ records' = records + 1
  /\ CASE state = "HALF_OPEN" /\ successCount + 1 >= HalfOpenMax ->
            /\ state' = "CLOSED" /\ failureCount' = 0 /\ successCount' = 0
            /\ streak' = NoStreak
       [] state = "HALF_OPEN" /\ successCount + 1 < HalfOpenMax ->
            /\ successCount' = successCount + 1 /\ streak' = Succeed
            /\ UNCHANGED <<state, failureCount>>
       [] state = "CLOSED" ->
            /\ failureCount' = 0 /\ successCount' = 0 /\ streak' = Succeed
            /\ UNCHANGED state
       [] state = "OPEN" ->
            /\ UNCHANGED <<state, failureCount, successCount, streak>>
  /\ UNCHANGED elapsed

\* Mutant: a failure keeps the successes counted in HALF_OPEN.
RecordFailureKeeps(c) ==
  /\ step[c] = "calling" /\ To(c, "out") /\ records' = records + 1
  /\ failureCount' = failureCount + 1 /\ successCount' = successCount
  /\ IF failureCount + 1 >= FailureThreshold /\ state = "CLOSED"
     THEN state' = "OPEN" /\ elapsed' = FALSE /\ streak' = NoStreak
     ELSE UNCHANGED <<state, elapsed>> /\ streak' = FailOnce

\* A failure counts in every state; only a closed circuit opens.
RecordFailure(c) ==
  /\ step[c] = "calling" /\ To(c, "out") /\ records' = records + 1
  /\ failureCount' = failureCount + 1 /\ successCount' = 0
  /\ IF failureCount + 1 >= FailureThreshold /\ state = "CLOSED"
     THEN state' = "OPEN" /\ elapsed' = FALSE /\ streak' = NoStreak
     ELSE UNCHANGED <<state, elapsed>> /\ streak' = FailOnce

BreakerNext == \/ Timeout
               \/ \E c \in User : \/ Check(c) \/ ReadOpened(c) \/ HalfOpen(c)
                                    \/ Judge(c) \/ RecordSuccess(c) \/ RecordFailure(c)

BreakerSpec == BreakerInit /\ [][BreakerNext]_breakerVars

(***************************************************************************)
(* Properties.                                                             *)
(***************************************************************************)
\* A circuit closes only after HALF_OPEN_MAX_CALLS successes in a row since
\* it was half-open, and opens only after FAILURE_THRESHOLD failures in a
\* row, however the answers of concurrent calls that started in another
\* state mix in.
BreakerHonest ==
  [][/\ state = "HALF_OPEN" /\ state' = "CLOSED" => streak.good >= HalfOpenMax - 1
     /\ state = "CLOSED" /\ state' = "OPEN" => streak.bad >= FailureThreshold - 1
    ]_breakerVars
=============================================================================
