-------------------------- MODULE ArtifactVersions --------------------------
(***************************************************************************)
(* The versions of one node's artifact: every writer reads                 *)
(* artifacts.current_version, writes it back increased and inserts the row *)
(* of artifact_versions, three statements without a transaction.  Writers  *)
(* are the executors (_save_artifact, _save_scaffold_as_artifact), the     *)
(* edit and the revision of an operator, the revision of upstream nodes    *)
(* and the reassembly of pages (src/api/server.py); the revision keeps the *)
(* number it has read across a call of the model.                          *)
(***************************************************************************)
EXTENDS Integers, Sequences

CONSTANTS Agent, Operator,   \* the writers
          MaxSaves           \* bound: the saves of each writer

VARIABLES current,    \* current_version of the node's rows of artifacts
          versions,   \* rows of artifact_versions: <<artifact, number>> -> writer
          pc,         \* "idle", "read", "bumped"
          art,        \* the artifact a writer has read, 0 for none
          num,        \* the number it is going to write
          mine,       \* the rows of the saves that returned: <<artifact, number, writer>>
          saves,
          torn        \* artifacts whose writer was stopped before the INSERT

artifactVars == <<current, versions, pc, art, num, mine, saves, torn>>

Writer == Agent \cup Operator

VersionInit == /\ current = <<>>
               /\ versions = [x \in {} |-> ""]
               /\ pc = [w \in Writer |-> "idle"]
               /\ art = [w \in Writer |-> 0] /\ num = [w \in Writer |-> 0]
               /\ mine = {} /\ torn = {}
               /\ saves = [w \in Writer |-> 0]

\* SELECT id, current_version FROM artifacts WHERE node_id = ?: the first row.
Read(w) == /\ pc[w] = "idle" /\ saves[w] < MaxSaves
           /\ pc' = [pc EXCEPT ![w] = "read"]
           /\ saves' = [saves EXCEPT ![w] = @ + 1]
           /\ IF current = <<>>
              THEN art' = [art EXCEPT ![w] = 0] /\ num' = [num EXCEPT ![w] = 1]
              ELSE art' = [art EXCEPT ![w] = 1] /\ num' = [num EXCEPT ![w] = current[1] + 1]
           /\ UNCHANGED <<current, versions, mine, torn>>

AgentRead(w) == w \in Agent /\ Read(w)

\* The requests answer 404, or pass over the node, when it has no artifact.
OperatorRead(w) == w \in Operator /\ current # <<>> /\ Read(w)

\* Mutant: the number is increased in the statement and not taken from the read.
BumpInPlace(w) == /\ pc[w] = "read" /\ art[w] # 0
                  /\ current' = [current EXCEPT ![art[w]] = @ + 1]
                  /\ pc' = [pc EXCEPT ![w] = "bumped"]
                  /\ UNCHANGED <<versions, art, num, mine, saves, torn>>

\* UPDATE artifacts SET current_version = ? with the number that was read.
Bump(w) == /\ pc[w] = "read" /\ art[w] # 0
           /\ current' = [current EXCEPT ![art[w]] = num[w]]
           /\ pc' = [pc EXCEPT ![w] = "bumped"]
           /\ UNCHANGED <<versions, art, num, mine, saves, torn>>

\* No row was read: a row is inserted, and nothing keeps a second one out.
Create(w) == /\ pc[w] = "read" /\ art[w] = 0
             /\ current' = Append(current, 1)
             /\ art' = [art EXCEPT ![w] = Len(current) + 1]
             /\ pc' = [pc EXCEPT ![w] = "bumped"]
             /\ UNCHANGED <<versions, num, mine, saves, torn>>

Key(w) == <<art[w], num[w]>>

\* UNIQUE(artifact_id, version_num): the second INSERT of a number raises.
Insert(w) == /\ pc[w] = "bumped"
             /\ IF Key(w) \in DOMAIN versions
                THEN UNCHANGED <<versions, mine>>
                ELSE /\ versions' = [k \in DOMAIN versions \cup {Key(w)} |->
                                       IF k = Key(w) THEN w ELSE versions[k]]
                     /\ mine' = mine \cup {<<art[w], num[w], w>>}
             /\ pc' = [pc EXCEPT ![w] = "idle"]
             /\ UNCHANGED <<current, art, num, saves, torn>>

\* The process stops.
Halt == /\ \E w \in Writer : pc[w] # "idle"
        /\ torn' = torn \cup {art[w] : w \in {u \in Writer : pc[u] = "bumped"}}
        /\ pc' = [w \in Writer |-> "idle"]
        /\ UNCHANGED <<current, versions, art, num, mine, saves>>

VersionNext == \/ Halt
               \/ \E w \in Writer :
                    AgentRead(w) \/ OperatorRead(w) \/ Bump(w) \/ Create(w) \/ Insert(w)

VersionSpec == VersionInit /\ [][VersionNext]_artifactVars

(***************************************************************************)
(* Properties.                                                             *)
(***************************************************************************)
\* Whoever overtakes whom between the three statements, the row a save has
\* returned for stays its own, and an artifact that nobody is saving, and
\* whose saves were not stopped half way, has a row for its current version:
\* every reader that joins on current_version finds a text.
VersionsWhole ==
  /\ \A m \in mine : versions[<<m[1], m[2]>>] = m[3]
  /\ \A a \in 1..Len(current) :
        (a \notin torn /\ \A w \in Writer : ~(pc[w] = "bumped" /\ art[w] = a))
           => <<a, current[a]>> \in DOMAIN versions
=============================================================================
