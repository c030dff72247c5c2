------------------------------ MODULE MCOperated ------------------------------
(* Operators at work on the graphs of MCExecutor. *)
EXTENDS Revision, MCExecutor

CONSTANTS c1, c2

\* Versions are only ever compared with the row's present version and only
\* ever grow: a copy is told apart by whether it still agrees.
Copy(n, row) == [state |-> row.state, retry |-> row.retry,
                 same |-> row.version = node[n].version]

Looks(r) == IF r.pc = "free" THEN r ELSE [r EXCEPT !.row = Copy(r.node, r.row)]

Seen == <<[n \in Node |-> Copy(n, node[n])],
          IF adv.pc = "wait" THEN adv ELSE
            [adv EXCEPT !.snap = [n \in Node |-> Copy(n, adv.snap[n])]],
          [r \in Run |-> Looks(run[r])],
          [n \in Node |-> [casc[n] EXCEPT !.row = Copy(n, casc[n].row)]],
          [c \in Client |-> [op[c] EXCEPT !.row = Copy(op[c].node, op[c].row)]],
          dag, queue, stall, art, stamp, made, why>>
===============================================================================
