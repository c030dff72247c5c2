------------------------------- MODULE DbLock -------------------------------
(***************************************************************************)
(* The SQLite adapter (src/engine/db/adapter.py): the re-entrant lock      *)
(* around the one connection, single statements in autocommit mode,        *)
(* begin_immediate with the statements inside it, and executescript, with  *)
(* a cancellation of the task at any await.                                *)
(*                                                                         *)
(* Each task makes one call.  A statement is the pair of its task and its  *)
(* number; a transaction has Body of them, a single statement is number 1. *)
(***************************************************************************)
EXTENDS Integers, SequencesExt

CONSTANTS Actor, Nobody, \* the asyncio tasks, and None
          Body          \* bound: the statements of a transaction

ASSUME ActorAssumption == Nobody \notin Actor /\ Body \in Nat

VARIABLES waiters,   \* the inner asyncio.Lock: the futures of those that wait
          locked,    \* and whether it is taken
          owner,     \* _AsyncRLock._owner
          count,     \* _AsyncRLock._count
          at,        \* [Actor -> where its call is]
          done,      \* [Actor -> the statements it has run]
          txn,       \* the connection is inside a transaction
          buffer,    \* the statements of that transaction
          disk,      \* the statements that are committed
          cut        \* a task was cancelled inside begin_immediate

lockVars == <<waiters, locked, owner, count, at, done, txn, buffer, disk, cut>>

LockInit == /\ waiters = <<>> /\ locked = FALSE
            /\ owner = Nobody /\ count = 0
            /\ at = [t \in Actor |-> "idle"]
            /\ done = [t \in Actor |-> 0]
            /\ txn = FALSE /\ buffer = {} /\ disk = {}
            /\ cut = FALSE

\* Where a call of each kind waits, and where it has got the lock.
Wait == [plain |-> "plain_wait", txn |-> "txn_wait", script |-> "script_wait"]
Held == [plain |-> "plain_held", txn |-> "txn_held", script |-> "script_held"]
Kinds == DOMAIN Wait

(***************************************************************************)
(* The lock.                                                               *)
(***************************************************************************)
Take(t) == /\ locked' = TRUE /\ owner' = t /\ count' = 1

\* acquire() from a task that does not own the lock.
Acquire(t, kind) ==
  /\ at[t] = "idle"
  /\ IF ~locked /\ waiters = <<>>
     THEN Take(t) /\ at' = [at EXCEPT ![t] = Held[kind]] /\ UNCHANGED waiters
     ELSE /\ waiters' = Append(waiters, t)
          /\ at' = [at EXCEPT ![t] = Wait[kind]]
          /\ UNCHANGED <<locked, owner, count>>
  /\ UNCHANGED <<done, txn, buffer, disk, cut>>

\* The first waiter runs again after the lock was released.
Granted(t, kind) ==
  /\ at[t] = Wait[kind] /\ ~locked /\ waiters # <<>> /\ Head(waiters) = t
  /\ Take(t)
  /\ waiters' = Tail(waiters)
  /\ at' = [at EXCEPT ![t] = Held[kind]]
  /\ UNCHANGED <<done, txn, buffer, disk, cut>>

\* Mutant: the last release forgets to test the count.
ReleaseAtOnce(t) == /\ owner = t /\ count' = count - 1
                    /\ owner' = Nobody /\ locked' = FALSE

Release(t) == /\ owner = t
              /\ count' = count - 1
              /\ IF count = 1 THEN owner' = Nobody /\ locked' = FALSE
                              ELSE UNCHANGED <<owner, locked>>

End(t, how) == at' = [at EXCEPT ![t] = how] /\ Release(t) /\ UNCHANGED waiters

(***************************************************************************)
(* Statements.  Outside a transaction a statement commits by itself.       *)
(***************************************************************************)
Run(s) == IF txn THEN buffer' = buffer \cup {s} /\ UNCHANGED disk
                 ELSE disk' = disk \cup {s} /\ UNCHANGED buffer

\* execute() by itself.
Execute(t) == /\ at[t] = Held["plain"]
              /\ Run(<<t, 1>>)
              /\ done' = [done EXCEPT ![t] = 1]
              /\ End(t, "ok")
              /\ UNCHANGED <<txn, cut>>

\* executescript() commits whatever transaction is open and then runs.
Script(t) == /\ at[t] = Held["script"]
             /\ disk' = disk \cup buffer \cup {<<t, 1>>}
             /\ buffer' = {} /\ txn' = FALSE
             /\ done' = [done EXCEPT ![t] = 1]
             /\ End(t, "ok")
             /\ UNCHANGED cut

(***************************************************************************)
(* begin_immediate.                                                        *)
(***************************************************************************)
\* BEGIN IMMEDIATE raises when a transaction is open, before the try.
BeginImmediate(t) == /\ at[t] = Held["txn"]
                     /\ IF txn
                        THEN End(t, "error") /\ UNCHANGED txn
                        ELSE /\ txn' = TRUE
                             /\ at' = [at EXCEPT ![t] = "body"]
                             /\ UNCHANGED <<waiters, locked, owner, count>>
                     /\ UNCHANGED <<done, buffer, disk, cut>>

\* execute() inside the transaction takes the lock a second time.
Nested(t) == /\ at[t] = "body" /\ done[t] < Body /\ owner = t
             /\ count' = count + 1
             /\ at' = [at EXCEPT ![t] = "inner"]
             /\ UNCHANGED <<waiters, locked, owner, done, txn, buffer, disk, cut>>

NestedRun(t) == /\ at[t] = "inner"
                /\ Run(<<t, done[t] + 1>>)
                /\ done' = [done EXCEPT ![t] = @ + 1]
                /\ End(t, "body")
                /\ UNCHANGED <<txn, cut>>

Commit(t) == /\ at[t] = "body" /\ done[t] = Body
             /\ disk' = disk \cup buffer
             /\ buffer' = {} /\ txn' = FALSE
             /\ End(t, "ok")
             /\ UNCHANGED <<done, cut>>

\* Mutant: COMMIT stands in a finally clause.
RaiseCommits(t) == /\ at[t] = "body"
                   /\ disk' = disk \cup buffer
                   /\ buffer' = {} /\ txn' = FALSE
                   /\ End(t, "error")
                   /\ UNCHANGED <<done, cut>>

\* An Exception in the body rolls back.
Raise(t) == /\ at[t] = "body"
            /\ buffer' = {} /\ txn' = FALSE
            /\ End(t, "error")
            /\ UNCHANGED <<done, disk, cut>>

(***************************************************************************)
(* Cancellations.  A waiter leaves the line.  A statement runs in a        *)
(* thread: the call is cancelled and the lock released at once, the thread *)
(* finishes whoever holds the lock by then.  CancelledError is no          *)
(* Exception: begin_immediate neither commits nor rolls back, and its      *)
(* transaction stays open.                                                 *)
(***************************************************************************)
CancelWaiting(t, kind) ==
  /\ at[t] = Wait[kind]
  /\ \E i \in 1..Len(waiters) : waiters[i] = t /\ waiters' = RemoveAt(waiters, i)
  /\ at' = [at EXCEPT ![t] = "cancelled"]
  /\ UNCHANGED <<locked, owner, count, done, txn, buffer, disk, cut>>

CancelStatement(t) ==
  /\ at[t] \in {Held["plain"], "inner"}
  /\ at' = [at EXCEPT ![t] = "late"]
  /\ owner' = Nobody /\ locked' = FALSE /\ count' = 0
  /\ cut' = (cut \/ at[t] = "inner")
  /\ UNCHANGED <<waiters, done, txn, buffer, disk>>

LateRun(t) == /\ at[t] = "late"
              /\ Run(<<t, done[t] + 1>>)
              /\ done' = [done EXCEPT ![t] = @ + 1]
              /\ at' = [at EXCEPT ![t] = "cancelled"]
              /\ UNCHANGED <<waiters, locked, owner, count, txn, cut>>

LockNext == \E t \in Actor :
              \/ \E kind \in Kinds :
                   Acquire(t, kind) \/ Granted(t, kind) \/ CancelWaiting(t, kind)
              \/ Execute(t) \/ Script(t) \/ BeginImmediate(t) \/ Nested(t) \/ NestedRun(t)
              \/ Commit(t) \/ Raise(t)
              \/ CancelStatement(t) \/ LateRun(t)

LockSpec == LockInit /\ [][LockNext]_lockVars

(***************************************************************************)
(* Properties.                                                             *)
(***************************************************************************)
\* The re-entrant lock and the calls it guards are a first-come lock: no
\* second task runs while one is between its first acquire and its last
\* release, a cancelled waiter is skipped and its cancellation never keeps
\* the others out.
Calling(t) == at[t] \in {"plain_held", "txn_held", "script_held", "body", "inner"}
Inside == IF \E t \in Actor : Calling(t) THEN CHOOSE t \in Actor : Calling(t)
                                        ELSE Nobody
Lock == INSTANCE FifoLock WITH line <- waiters, inside <- Inside
LockIsFifo == Lock!Spec

\* As long as nobody was cancelled inside begin_immediate, a call that
\* returned has all its statements on disk and a transaction that raised has
\* none there, whoever ran in between.
Owns(t) == {s \in disk : s[1] = t}
Whole == ~cut => \A t \in Actor :
           /\ at[t] = "ok" => \A k \in 1..done[t] : <<t, k>> \in disk
           /\ at[t] \in {"error", "body", "inner"} => Owns(t) = {}

=============================================================================
