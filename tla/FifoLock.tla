------------------------------ MODULE FifoLock ------------------------------
(***************************************************************************)
(* What the lock of the database adapter promises (src/engine/db/          *)
(* adapter.py): one task is inside at a time, tasks enter in the order in  *)
(* which they came, and a task that waits may be cancelled.                *)
(***************************************************************************)
EXTENDS Integers, SequencesExt

CONSTANTS Actor, Nobody

VARIABLES line,   \* the tasks that came and have not been let in, in order
          inside  \* the task that is inside, or Nobody

Init == line = <<>> /\ inside = Nobody

\* A task comes.
Come(t) == /\ \A i \in 1..Len(line) : line[i] # t
           /\ inside # t
           /\ line' = Append(line, t)
           /\ UNCHANGED inside

\* The first of the line goes in when nobody is inside.
Enter == /\ line # <<>> /\ inside = Nobody
         /\ inside' = Head(line)
         /\ line' = Tail(line)

\* A task that finds nobody inside and nobody in line goes straight in.
Walk(t) == /\ line = <<>> /\ inside = Nobody
           /\ inside' = t
           /\ UNCHANGED line

\* The task inside goes out.
Leave == /\ inside # Nobody
         /\ inside' = Nobody
         /\ UNCHANGED line

\* A waiting task is cancelled and drops out of the line.
GiveUp(t) == /\ \E i \in 1..Len(line) : line[i] = t /\ line' = RemoveAt(line, i)
             /\ UNCHANGED inside

Next == \/ Enter \/ Leave
        \/ \E t \in Actor : Come(t) \/ Walk(t) \/ GiveUp(t)

Spec == Init /\ [][Next]_<<line, inside>>
=============================================================================
