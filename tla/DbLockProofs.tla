---------------------------- MODULE DbLockProofs ----------------------------
(***************************************************************************)
(* Proofs about the SQLite adapter, for any number of tasks and statements *)
(* in a transaction and whatever is cancelled: its re-entrant lock is a    *)
(* first-come lock, and transactions that nobody was cancelled in are      *)
(* whole.                                                                  *)
(***************************************************************************)
EXTENDS DbLock, SequenceTheorems, TLAPS

Waits == {"plain_wait", "txn_wait", "script_wait"}
Places == Waits \cup {"plain_held", "txn_held", "script_held", "body", "inner"}
                \cup {"idle", "ok", "error", "late", "cancelled"}
Statement == Actor \X Nat

LockTypes ==
  /\ waiters \in Seq(Actor)
  /\ locked \in BOOLEAN
  /\ owner \in Actor \cup {Nobody}
  /\ count \in 0..2
  /\ at \in [Actor -> Places]
  /\ done \in [Actor -> Nat]
  /\ txn \in BOOLEAN
  /\ buffer \in SUBSET Statement /\ disk \in SUBSET Statement
  /\ cut \in BOOLEAN

\* The two halves of the re-entrant lock agree with each other and with the
\* calls: a task holds it once, and twice inside a statement of a transaction.
HeldOnce ==
  /\ locked <=> owner # Nobody
  /\ owner = Nobody => count = 0
  /\ \A t \in Actor : Calling(t) <=> owner = t
  /\ \A t \in Actor : owner = t => count = IF at[t] = "inner" THEN 2 ELSE 1

\* Those in line wait for the lock, and each of them is in line once.
Line ==
  /\ \A i \in 1..Len(waiters) : at[waiters[i]] \in Waits
  /\ \A i, j \in 1..Len(waiters) : waiters[i] = waiters[j] => i = j

LockInv == LockTypes /\ HeldOnce /\ Line

\* Until a task is cancelled inside begin_immediate the open transaction is
\* that of the owner, what it has run is in the buffer, and only finished
\* calls have statements on disk.
InTxn(t) == at[t] \in {"body", "inner"}
Ends == {"ok", "cancelled"}
Unrun == Waits \cup {"idle", "plain_held", "txn_held", "script_held"}

Clean ==
  /\ \A t \in Actor : at[t] \in Unrun => done[t] = 0
  /\ \A t \in Actor : InTxn(t) => txn
  /\ txn => \E t \in Actor : InTxn(t)
  /\ ~txn => buffer = {}
  /\ \A t \in Actor : InTxn(t) => \A k \in 1..done[t] : <<t, k>> \in buffer
  /\ \A t \in Actor : at[t] = "ok" => \A k \in 1..done[t] : <<t, k>> \in disk
  /\ \A s \in buffer : at[s[1]] \in {"body", "inner", "cancelled"}
  /\ \A s \in disk : at[s[1]] \in Ends

WholeInv == ~cut => Clean
-----------------------------------------------------------------------------
(* Sequences *)

\* Appending a new element keeps the others and stays free of repetition.
LEMMA AppendOne ==
  ASSUME NEW S, NEW q \in Seq(S), NEW x \in S
  PROVE  /\ Append(q, x) \in Seq(S)
         /\ Len(Append(q, x)) = Len(q) + 1
         /\ \A i \in 1..Len(q) : Append(q, x)[i] = q[i]
         /\ Append(q, x)[Len(q) + 1] = x
  BY AppendProperties

\* The tail of a sequence.
LEMMA TailOf ==
  ASSUME NEW S, NEW q \in Seq(S), q # <<>>
  PROVE  /\ Tail(q) \in Seq(S) /\ Len(q) \in Nat /\ Len(q) >= 1
         /\ Len(Tail(q)) = Len(q) - 1
         /\ \A i \in 1..Len(Tail(q)) : Tail(q)[i] = q[i + 1]
         /\ Head(q) = q[1] /\ Head(q) \in S
  BY HeadTailProperties, EmptySeq, LenProperties

\* Removing one element keeps the others in their order.
LEMMA RemoveOne ==
  ASSUME NEW S, NEW q \in Seq(S), NEW k \in 1..Len(q)
  PROVE  /\ RemoveAt(q, k) \in Seq(S)
         /\ Len(RemoveAt(q, k)) = Len(q) - 1
         /\ \A i \in 1..(Len(q) - 1) :
              RemoveAt(q, k)[i] = IF i < k THEN q[i] ELSE q[i + 1]
<1> DEFINE a == SubSeq(q, 1, k - 1)
           b == SubSeq(q, k + 1, Len(q))
<1>1. /\ Len(q) \in Nat /\ k \in Int /\ 1 <= k /\ k <= Len(q)
      /\ \A i \in 1..Len(q) : q[i] \in S
  BY LenProperties, ElementOfSeq
<1>2. /\ a \in Seq(S) /\ Len(a) = k - 1
      /\ \A i \in 1..(k - 1) : a[i] = q[i]
  <2>1. \A i \in 1..(k - 1) : q[i] \in S
    BY <1>1
  <2>2. /\ a \in Seq(S) /\ Len(a) = IF 1 <= k - 1 THEN k - 1 - 1 + 1 ELSE 0
        /\ \A i \in 1..(k - 1 - 1 + 1) : a[i] = q[1 + i - 1]
    BY <2>1, <1>1, SubSeqProperties
  <2> HIDE DEF a
  <2> QED  BY <2>2, <1>1
<1>3. /\ b \in Seq(S) /\ Len(b) = Len(q) - k
      /\ \A i \in 1..(Len(q) - k) : b[i] = q[k + i]
  <2>1. \A i \in (k + 1)..Len(q) : q[i] \in S
    BY <1>1
  <2>2. /\ b \in Seq(S)
        /\ Len(b) = IF k + 1 <= Len(q) THEN Len(q) - (k + 1) + 1 ELSE 0
        /\ \A i \in 1..(Len(q) - (k + 1) + 1) : b[i] = q[k + 1 + i - 1]
    BY <2>1, <1>1, SubSeqProperties
  <2> HIDE DEF b
  <2> QED  BY <2>2, <1>1
<1>4. RemoveAt(q, k) = a \o b
  BY DEF RemoveAt
<1> HIDE DEF a, b
<1>5. /\ a \o b \in Seq(S) /\ Len(a \o b) = Len(a) + Len(b)
      /\ \A i \in 1..(Len(a) + Len(b)) :
           (a \o b)[i] = IF i <= Len(a) THEN a[i] ELSE b[i - Len(a)]
  BY <1>2, <1>3, ConcatProperties
<1>6. Len(a) + Len(b) = Len(q) - 1
  BY <1>1, <1>2, <1>3
<1>7. ASSUME NEW i \in 1..(Len(q) - 1)
      PROVE  (a \o b)[i] = IF i < k THEN q[i] ELSE q[i + 1]
  <2>1. (a \o b)[i] = IF i <= k - 1 THEN a[i] ELSE b[i - (k - 1)]
    BY <1>2, <1>5, <1>6
  <2>2. CASE i < k
    BY <2>1, <2>2, <1>1, <1>2
  <2>3. CASE ~(i < k)
    <3>1. i - (k - 1) \in 1..(Len(q) - k) /\ k + (i - (k - 1)) = i + 1
      BY <2>3, <1>1
    <3>2. b[i - (k - 1)] = q[k + (i - (k - 1))]
      BY <3>1, <1>3
    <3> QED  BY <2>1, <2>3, <3>1, <3>2, <1>1
  <2> QED  BY <2>2, <2>3
<1> QED  BY <1>4, <1>5, <1>6, <1>7
-----------------------------------------------------------------------------
(* The lock *)

\* The kinds of a call have their places.
LEMMA KindPlaces ==
  /\ \A kind \in Kinds : Wait[kind] \in Waits /\ Held[kind] \in Places
  /\ \A kind \in Kinds : Held[kind] \in {"plain_held", "txn_held", "script_held"}
  /\ Held["plain"] = "plain_held" /\ Held["txn"] = "txn_held"
  /\ Held["script"] = "script_held"
  BY DEF Kinds, Wait, Held, Waits, Places

\* A move of a task that is not in line leaves the line alone.
LEMMA LineKept ==
  ASSUME LockInv, NEW t \in Actor, NEW h, at[t] \notin Waits,
         at' = [at EXCEPT ![t] = h], waiters' = waiters
  PROVE  Line'
<1>1. ASSUME NEW i \in 1..Len(waiters)
      PROVE  waiters[i] \in Actor /\ waiters[i] # t
  BY <1>1, ElementOfSeq DEF LockInv, LockTypes, Line
<1> QED  BY <1>1 DEF LockInv, LockTypes, Line

\* Release by the one that holds the lock once.
LEMMA LastRelease ==
  ASSUME LockInv, NEW t \in Actor, Release(t), at[t] # "inner"
  PROVE  owner = t /\ owner' = Nobody /\ locked' = FALSE /\ count' = 0
  BY DEF LockInv, HeldOnce, LockTypes, Release

\* A call that ends gives the lock back.
LEMMA EndKeeps ==
  ASSUME LockInv, NEW t \in Actor, NEW h \in {"ok", "error"}, End(t, h),
         at[t] \in {"plain_held", "txn_held", "script_held", "body"}
  PROVE  /\ at' \in [Actor -> Places] /\ at' = [at EXCEPT ![t] = h]
         /\ waiters' = waiters /\ owner' = Nobody /\ owner = t
         /\ owner' \in Actor \cup {Nobody} /\ count' \in 0..2 /\ locked' \in BOOLEAN
         /\ HeldOnce' /\ Line'
<1>1. owner = t /\ owner' = Nobody /\ locked' = FALSE /\ count' = 0
  BY LastRelease DEF End
<1>2. at' = [at EXCEPT ![t] = h] /\ waiters' = waiters
  BY DEF End
<1>3. at' \in [Actor -> Places]
  BY <1>2 DEF LockInv, LockTypes, Places
<1>4. Line'
  BY <1>2, LineKept DEF Waits
<1>5. HeldOnce'
  <2>1. \A u \in Actor : ~Calling(u)'
    BY <1>1, <1>2 DEF LockInv, LockTypes, HeldOnce, Calling
  <2> QED  BY <1>1, <2>1, ActorAssumption DEF HeldOnce
<1>6. count' \in 0..2
  BY <1>1
<1>7. owner' \in Actor \cup {Nobody} /\ locked' \in BOOLEAN
  BY <1>1, Zenon
<1> QED  BY <1>1, <1>2, <1>3, <1>4, <1>5, <1>6, <1>7

\* Whoever goes in when nobody holds the lock holds it once.
LEMMA EnterKeeps ==
  ASSUME LockInv, NEW t \in Actor, NEW kind \in Kinds, ~locked, Take(t),
         at' = [at EXCEPT ![t] = Held[kind]]
  PROVE  /\ at' \in [Actor -> Places] /\ HeldOnce'
         /\ owner' \in Actor \cup {Nobody} /\ count' \in 0..2 /\ locked' \in BOOLEAN
<1>1. owner = Nobody /\ \A u \in Actor : ~Calling(u)
  BY ActorAssumption DEF LockInv, HeldOnce
<1>2. Held[kind] \in {"plain_held", "txn_held", "script_held"} /\ Held[kind] \in Places
  BY KindPlaces
<1>3. \A u \in Actor : at'[u] = IF u = t THEN Held[kind] ELSE at[u]
  BY DEF LockInv, LockTypes
<1>4. \A u \in Actor : Calling(u)' <=> u = t
  BY <1>1, <1>2, <1>3 DEF Calling
<1>5. HeldOnce'
  BY <1>2, <1>3, <1>4, ActorAssumption DEF HeldOnce, Take
<1> QED  BY <1>2, <1>5 DEF LockInv, LockTypes, Take

LEMMA LockAcquire ==
  ASSUME LockInv, NEW t \in Actor, NEW kind \in Kinds, Acquire(t, kind)
  PROVE  LockInv'
<1>1. /\ done' = done /\ txn' = txn /\ buffer' = buffer /\ disk' = disk /\ cut' = cut
      /\ at[t] = "idle"
  BY DEF Acquire
<1>2. CASE ~locked /\ waiters = <<>>
  <2>1. Take(t) /\ at' = [at EXCEPT ![t] = Held[kind]] /\ waiters' = waiters
    BY <1>2 DEF Acquire
  <2>2. Line'
    BY <1>1, <2>1, LineKept DEF Waits
  <2> QED  BY <1>1, <1>2, <2>1, <2>2, EnterKeeps DEF LockInv, LockTypes
<1>3. CASE ~(~locked /\ waiters = <<>>)
  <2>1. /\ waiters' = Append(waiters, t) /\ at' = [at EXCEPT ![t] = Wait[kind]]
        /\ locked' = locked /\ owner' = owner /\ count' = count
    BY <1>3 DEF Acquire
  <2>2. Wait[kind] \in Waits /\ Wait[kind] \in Places /\ Wait[kind] # "inner"
    BY KindPlaces DEF Waits, Places
  <2>3. \A u \in Actor : at'[u] = IF u = t THEN Wait[kind] ELSE at[u]
    BY <2>1 DEF LockInv, LockTypes
  <2>4. HeldOnce'
    BY <1>1, <2>1, <2>2, <2>3 DEF LockInv, HeldOnce, Calling, Waits
  <2>5. /\ waiters' \in Seq(Actor) /\ Len(waiters') = Len(waiters) + 1
        /\ \A i \in 1..Len(waiters) : waiters'[i] = waiters[i] /\ waiters[i] \in Actor
        /\ waiters'[Len(waiters) + 1] = t /\ Len(waiters) \in Nat
    BY <2>1, AppendOne, ElementOfSeq, LenProperties DEF LockInv, LockTypes
  <2>6. \A i \in 1..Len(waiters) : waiters[i] # t
    BY <1>1 DEF LockInv, Line, Waits
  <2>7. Line'
    <3>1. \A i \in 1..Len(waiters') : i \in 1..Len(waiters) \/ i = Len(waiters) + 1
      BY <2>5
    <3> QED  BY <2>2, <2>3, <2>5, <2>6, <3>1 DEF LockInv, Line
  <2>8. at' \in [Actor -> Places]
    BY <2>1, <2>2 DEF LockInv, LockTypes
  <2> QED  BY <1>1, <2>1, <2>4, <2>5, <2>7, <2>8 DEF LockInv, LockTypes
<1> QED  BY <1>2, <1>3

LEMMA LockGranted ==
  ASSUME LockInv, NEW t \in Actor, NEW kind \in Kinds, Granted(t, kind)
  PROVE  LockInv'
<1>1. /\ done' = done /\ txn' = txn /\ buffer' = buffer /\ disk' = disk /\ cut' = cut
      /\ ~locked /\ waiters # <<>> /\ Head(waiters) = t /\ Take(t)
      /\ waiters' = Tail(waiters) /\ at' = [at EXCEPT ![t] = Held[kind]]
  BY DEF Granted
<1>2. /\ waiters' \in Seq(Actor) /\ Len(waiters) \in Nat /\ Len(waiters) >= 1
      /\ Len(waiters') = Len(waiters) - 1 /\ waiters[1] = t
      /\ \A i \in 1..Len(waiters') : waiters'[i] = waiters[i + 1]
  BY <1>1, TailOf DEF LockInv, LockTypes
<1>3. ASSUME NEW i \in 1..Len(waiters')
      PROVE  i + 1 \in 1..Len(waiters) /\ waiters[i + 1] \in Actor /\ waiters[i + 1] # t
  <2>1. i + 1 \in 1..Len(waiters) /\ 1 \in 1..Len(waiters) /\ i + 1 # 1
    BY <1>2
  <2> QED  BY <1>2, <2>1, ElementOfSeq DEF LockInv, LockTypes, Line
<1>4. Line'
  <2>1. \A i \in 1..Len(waiters') : at'[waiters'[i]] \in Waits
    BY <1>1, <1>2, <1>3 DEF LockInv, LockTypes, Line
  <2>2. ASSUME NEW i \in 1..Len(waiters'), NEW j \in 1..Len(waiters'),
               waiters'[i] = waiters'[j]
        PROVE  i = j
    <3>1. waiters[i + 1] = waiters[j + 1]
      BY <1>2, <2>2
    <3>2. i + 1 \in 1..Len(waiters) /\ j + 1 \in 1..Len(waiters)
      BY <1>3
    <3>3. i + 1 = j + 1
      BY <3>1, <3>2 DEF LockInv, Line
    <3>4. i \in Int /\ j \in Int
      OBVIOUS
    <3> QED  BY <3>3, <3>4
  <2> QED  BY <2>1, <2>2 DEF Line
<1> QED  BY <1>1, <1>2, <1>4, EnterKeeps DEF LockInv, LockTypes

LEMMA LockCancelWaiting ==
  ASSUME LockInv, NEW t \in Actor, NEW kind \in Kinds, CancelWaiting(t, kind)
  PROVE  LockInv'
<1>1. /\ done' = done /\ txn' = txn /\ buffer' = buffer /\ disk' = disk /\ cut' = cut
      /\ locked' = locked /\ owner' = owner /\ count' = count
      /\ at' = [at EXCEPT ![t] = "cancelled"] /\ at[t] \in Waits
  BY KindPlaces DEF CancelWaiting
<1>2. PICK k \in 1..Len(waiters) :
        waiters[k] = t /\ waiters' = RemoveAt(waiters, k)
  BY DEF CancelWaiting
<1>3. /\ waiters' \in Seq(Actor) /\ Len(waiters) \in Nat
      /\ Len(waiters') = Len(waiters) - 1
      /\ \A i \in 1..(Len(waiters) - 1) :
           waiters'[i] = IF i < k THEN waiters[i] ELSE waiters[i + 1]
  BY <1>2, RemoveOne, LenProperties DEF LockInv, LockTypes
<1> DEFINE old(i) == IF i < k THEN i ELSE i + 1
<1>4. ASSUME NEW i \in 1..Len(waiters')
      PROVE  /\ old(i) \in 1..Len(waiters) /\ waiters'[i] = waiters[old(i)]
             /\ waiters[old(i)] \in Actor /\ waiters[old(i)] # t
  <2>1. i \in 1..(Len(waiters) - 1) /\ old(i) \in 1..Len(waiters) /\ old(i) # k
    BY <1>2, <1>3
  <2>2. waiters'[i] = waiters[old(i)]
    BY <1>3, <2>1
  <2> HIDE DEF old
  <2> QED  BY <1>2, <2>1, <2>2, ElementOfSeq DEF LockInv, LockTypes, Line
<1>5. \A i, j \in 1..Len(waiters') : old(i) = old(j) => i = j
  BY <1>2, <1>3
<1> HIDE DEF old
<1>6. Line'
  <2>1. \A i \in 1..Len(waiters') : at'[waiters'[i]] \in Waits
    BY <1>1, <1>4 DEF LockInv, LockTypes, Line
  <2>2. \A i, j \in 1..Len(waiters') : waiters'[i] = waiters'[j] => i = j
    BY <1>4, <1>5 DEF LockInv, Line
  <2> QED  BY <2>1, <2>2 DEF Line
<1>7. HeldOnce' /\ at' \in [Actor -> Places]
  <2>1. \A u \in Actor : at'[u] = IF u = t THEN "cancelled" ELSE at[u]
    BY <1>1 DEF LockInv, LockTypes
  <2> QED  BY <1>1, <2>1 DEF LockInv, LockTypes, HeldOnce, Calling, Waits, Places
<1> QED  BY <1>1, <1>3, <1>6, <1>7 DEF LockInv, LockTypes

\* Statements run and transactions end among statements.
LEMMA StatementTypes ==
  ASSUME LockInv, NEW t \in Actor
  PROVE  /\ done[t] \in Nat /\ done[t] + 1 \in Nat
         /\ [done EXCEPT ![t] = 1] \in [Actor -> Nat]
         /\ [done EXCEPT ![t] = @ + 1] \in [Actor -> Nat]
         /\ <<t, 1>> \in Statement /\ <<t, done[t] + 1>> \in Statement
  BY DEF LockInv, LockTypes, Statement

LEMMA RunTypes ==
  ASSUME LockInv, NEW s \in Statement, Run(s)
  PROVE  buffer' \in SUBSET Statement /\ disk' \in SUBSET Statement
  BY DEF LockInv, LockTypes, Run

LEMMA LockExecute ==
  ASSUME LockInv, NEW t \in Actor, Execute(t)
  PROVE  LockInv'
<1>1. End(t, "ok") /\ at[t] = "plain_held" /\ txn' = txn /\ cut' = cut
  BY KindPlaces DEF Execute
<1>2. done' \in [Actor -> Nat] /\ buffer' \in SUBSET Statement /\ disk' \in SUBSET Statement
  BY StatementTypes, RunTypes DEF Execute
<1>3. at' \in [Actor -> Places] /\ waiters' = waiters /\ HeldOnce' /\ Line'
      /\ owner' \in Actor \cup {Nobody} /\ count' \in 0..2 /\ locked' \in BOOLEAN
  BY <1>1, EndKeeps
<1> QED  BY <1>1, <1>2, <1>3 DEF LockInv, LockTypes

LEMMA LockScript ==
  ASSUME LockInv, NEW t \in Actor, Script(t)
  PROVE  LockInv'
<1>1. End(t, "ok") /\ at[t] = "script_held" /\ txn' = FALSE /\ cut' = cut
  BY KindPlaces DEF Script
<1>2. done' \in [Actor -> Nat] /\ buffer' \in SUBSET Statement /\ disk' \in SUBSET Statement
  BY StatementTypes DEF Script, LockInv, LockTypes
<1>3. at' \in [Actor -> Places] /\ waiters' = waiters /\ HeldOnce' /\ Line'
      /\ owner' \in Actor \cup {Nobody} /\ count' \in 0..2 /\ locked' \in BOOLEAN
  BY <1>1, EndKeeps
<1> QED  BY <1>1, <1>2, <1>3 DEF LockInv, LockTypes

\* The owner goes on inside a transaction.
LEMMA MoveKeeps ==
  ASSUME LockInv, NEW t \in Actor, NEW h \in {"body", "inner"},
         owner = t, at' = [at EXCEPT ![t] = h], waiters' = waiters,
         owner' = owner, locked' = locked,
         count' = IF h = "inner" THEN 2 ELSE 1
  PROVE  at' \in [Actor -> Places] /\ HeldOnce' /\ Line' /\ count' \in 0..2
<1>1. Calling(t) /\ at[t] \notin Waits
  BY DEF LockInv, HeldOnce, Calling, Waits
<1>2. Line'
  BY <1>1, LineKept
<1>3. \A u \in Actor : at'[u] = IF u = t THEN h ELSE at[u]
  BY DEF LockInv, LockTypes
<1>4. HeldOnce'
  <2>1. \A u \in Actor : Calling(u)' <=> Calling(u)
    BY <1>1, <1>3 DEF Calling
  <2> QED  BY <1>3, <2>1, ActorAssumption DEF LockInv, HeldOnce
<1>5. at' \in [Actor -> Places]
  BY DEF LockInv, LockTypes, Places
<1>6. count' \in 0..2
  OBVIOUS
<1> QED  BY <1>2, <1>4, <1>5, <1>6

LEMMA LockBegin ==
  ASSUME LockInv, NEW t \in Actor, BeginImmediate(t)
  PROVE  LockInv'
<1>1. at[t] = "txn_held" /\ done' = done /\ buffer' = buffer /\ disk' = disk /\ cut' = cut
  BY KindPlaces DEF BeginImmediate
<1>2. CASE txn
  <2>1. End(t, "error") /\ txn' = txn
    BY <1>2 DEF BeginImmediate
  <2> QED  BY <1>1, <2>1, EndKeeps DEF LockInv, LockTypes
<1>3. CASE ~txn
  <2>1. /\ txn' = TRUE /\ at' = [at EXCEPT ![t] = "body"] /\ waiters' = waiters
        /\ owner' = owner /\ locked' = locked /\ count' = count
    BY <1>3 DEF BeginImmediate
  <2>2. owner = t /\ count = 1
    BY <1>1 DEF LockInv, HeldOnce, Calling
  <2>3. at' \in [Actor -> Places] /\ HeldOnce' /\ Line' /\ count' \in 0..2
    BY <2>1, <2>2, MoveKeeps
  <2> QED  BY <1>1, <2>1, <2>3 DEF LockInv, LockTypes
<1> QED  BY <1>2, <1>3

LEMMA LockNested ==
  ASSUME LockInv, NEW t \in Actor, Nested(t)
  PROVE  LockInv'
<1>1. /\ at[t] = "body" /\ owner = t /\ count' = count + 1
      /\ at' = [at EXCEPT ![t] = "inner"] /\ waiters' = waiters
      /\ locked' = locked /\ owner' = owner /\ done' = done /\ txn' = txn
      /\ buffer' = buffer /\ disk' = disk /\ cut' = cut
  BY DEF Nested
<1>2. count' = 2
  BY <1>1 DEF LockInv, HeldOnce
<1>3. at' \in [Actor -> Places] /\ HeldOnce' /\ Line' /\ count' \in 0..2
  BY <1>1, <1>2, MoveKeeps
<1> QED  BY <1>1, <1>3 DEF LockInv, LockTypes

\* The statement inside a transaction gives back its own hold only.
LEMMA NestedRelease ==
  ASSUME LockInv, NEW t \in Actor, NestedRun(t)
  PROVE  /\ at[t] = "inner" /\ at' = [at EXCEPT ![t] = "body"] /\ waiters' = waiters
         /\ owner = t /\ owner' = owner /\ locked' = locked /\ count' = 1
<1>1. at[t] = "inner" /\ End(t, "body")
  BY DEF NestedRun
<1>2. owner = t /\ count = 2
  BY <1>1 DEF LockInv, HeldOnce, Calling
<1> QED  BY <1>1, <1>2 DEF End, Release

LEMMA LockNestedRun ==
  ASSUME LockInv, NEW t \in Actor, NestedRun(t)
  PROVE  LockInv'
<1>1. at' \in [Actor -> Places] /\ HeldOnce' /\ Line' /\ count' \in 0..2
  BY NestedRelease, MoveKeeps
<1>2. /\ waiters' = waiters /\ owner' = owner /\ locked' = locked
      /\ txn' = txn /\ cut' = cut
  BY NestedRelease DEF NestedRun
<1>3. done' \in [Actor -> Nat] /\ buffer' \in SUBSET Statement /\ disk' \in SUBSET Statement
  BY StatementTypes, RunTypes DEF NestedRun
<1> QED  BY <1>1, <1>2, <1>3 DEF LockInv, LockTypes

LEMMA LockCommit ==
  ASSUME LockInv, NEW t \in Actor, Commit(t)
  PROVE  LockInv'
<1>1. End(t, "ok") /\ at[t] = "body" /\ txn' = FALSE /\ cut' = cut /\ done' = done
  BY DEF Commit
<1>2. buffer' \in SUBSET Statement /\ disk' \in SUBSET Statement
  BY DEF Commit, LockInv, LockTypes
<1>3. at' \in [Actor -> Places] /\ waiters' = waiters /\ HeldOnce' /\ Line'
      /\ owner' \in Actor \cup {Nobody} /\ count' \in 0..2 /\ locked' \in BOOLEAN
  BY <1>1, EndKeeps
<1> QED  BY <1>1, <1>2, <1>3 DEF LockInv, LockTypes

LEMMA LockRaise ==
  ASSUME LockInv, NEW t \in Actor, Raise(t)
  PROVE  LockInv'
<1>1. /\ End(t, "error") /\ at[t] = "body" /\ txn' = FALSE /\ cut' = cut
      /\ done' = done /\ disk' = disk /\ buffer' = {}
  BY DEF Raise
<1>2. at' \in [Actor -> Places] /\ waiters' = waiters /\ HeldOnce' /\ Line'
      /\ owner' \in Actor \cup {Nobody} /\ count' \in 0..2 /\ locked' \in BOOLEAN
  BY <1>1, EndKeeps
<1> QED  BY <1>1, <1>2 DEF LockInv, LockTypes

LEMMA LockCancelStatement ==
  ASSUME LockInv, NEW t \in Actor, CancelStatement(t)
  PROVE  LockInv'
<1>1. /\ at[t] \in {"plain_held", "inner"} /\ at' = [at EXCEPT ![t] = "late"]
      /\ owner' = Nobody /\ locked' = FALSE /\ count' = 0
      /\ waiters' = waiters /\ done' = done /\ txn' = txn /\ buffer' = buffer
      /\ disk' = disk /\ cut' \in BOOLEAN
  BY KindPlaces DEF CancelStatement, LockInv, LockTypes
<1>2. owner = t
  BY <1>1 DEF LockInv, HeldOnce, Calling
<1>3. HeldOnce'
  <2>1. \A u \in Actor : ~Calling(u)'
    BY <1>1, <1>2 DEF LockInv, LockTypes, HeldOnce, Calling
  <2> QED  BY <1>1, <2>1, ActorAssumption DEF HeldOnce
<1>4. Line'
  BY <1>1, LineKept DEF Waits
<1>5. at' \in [Actor -> Places] /\ count' \in 0..2
  BY <1>1 DEF LockInv, LockTypes, Places
<1> QED  BY <1>1, <1>3, <1>4, <1>5 DEF LockInv, LockTypes

LEMMA LockLateRun ==
  ASSUME LockInv, NEW t \in Actor, LateRun(t)
  PROVE  LockInv'
<1>1. /\ at[t] = "late" /\ at' = [at EXCEPT ![t] = "cancelled"]
      /\ owner' = owner /\ locked' = locked /\ count' = count
      /\ waiters' = waiters /\ txn' = txn /\ cut' = cut
  BY DEF LateRun
<1>2. done' \in [Actor -> Nat] /\ buffer' \in SUBSET Statement /\ disk' \in SUBSET Statement
  BY StatementTypes, RunTypes DEF LateRun
<1>3. Line'
  BY <1>1, LineKept DEF Waits
<1>4. HeldOnce' /\ at' \in [Actor -> Places]
  <2>1. \A u \in Actor : at'[u] = IF u = t THEN "cancelled" ELSE at[u]
    BY <1>1 DEF LockInv, LockTypes
  <2> QED  BY <1>1, <2>1 DEF LockInv, LockTypes, HeldOnce, Calling, Places
<1> QED  BY <1>1, <1>2, <1>3, <1>4 DEF LockInv, LockTypes

\* A step of one task, by its action.
Step(t) == \/ \E kind \in Kinds :
                Acquire(t, kind) \/ Granted(t, kind) \/ CancelWaiting(t, kind)
           \/ Execute(t) \/ Script(t) \/ BeginImmediate(t) \/ Nested(t) \/ NestedRun(t)
           \/ Commit(t) \/ Raise(t)
           \/ CancelStatement(t) \/ LateRun(t)

LEMMA LockStart == LockInit => LockInv
<1> SUFFICES ASSUME LockInit  PROVE LockInv
  OBVIOUS
<1>1. waiters \in Seq(Actor) /\ Len(waiters) = 0
  BY EmptySeq DEF LockInit
<1>2. LockTypes
  <2>1. at \in [Actor -> Places] /\ done \in [Actor -> Nat] /\ count \in 0..2
    BY DEF LockInit, Places
  <2>2. /\ owner \in Actor \cup {Nobody} /\ locked \in BOOLEAN /\ txn \in BOOLEAN
        /\ cut \in BOOLEAN
        /\ buffer \in SUBSET Statement /\ disk \in SUBSET Statement
    BY DEF LockInit
  <2> QED  BY <1>1, <2>1, <2>2 DEF LockTypes
<1>3. HeldOnce
  BY ActorAssumption DEF LockInit, HeldOnce, Calling
<1>4. Line
  BY <1>1 DEF Line
<1> QED  BY <1>2, <1>3, <1>4 DEF LockInv

LEMMA LockKept == LockInv /\ [LockNext]_lockVars => LockInv'
<1> SUFFICES ASSUME LockInv, [LockNext]_lockVars  PROVE LockInv'
  OBVIOUS
<1>1. CASE UNCHANGED lockVars
  BY <1>1 DEF lockVars, LockInv, LockTypes, HeldOnce, Line, Calling
<1>2. ASSUME NEW t \in Actor, Step(t)  PROVE LockInv'
  BY <1>2, LockAcquire, LockGranted, LockCancelWaiting, LockExecute, LockScript,
     LockBegin, LockNested, LockNestedRun, LockCommit, LockRaise,
     LockCancelStatement, LockLateRun DEF Step
<1> QED  BY <1>1, <1>2 DEF LockNext, Step

THEOREM LockCorrect == LockSpec => []LockInv
<1> QED  BY LockStart, LockKept, PTL DEF LockSpec
-----------------------------------------------------------------------------
(* The lock implements a first-come lock *)

\* The task that FifoLock calls inside is the owner of the lock.
LEMMA InsideIsOwner == LockInv => Inside = owner
<1> SUFFICES ASSUME LockInv  PROVE Inside = owner
  OBVIOUS
<1>1. CASE owner = Nobody
  BY <1>1, ActorAssumption DEF LockInv, HeldOnce, Inside
<1>2. CASE owner # Nobody
  <2>1. owner \in Actor /\ Calling(owner) /\ \A t \in Actor : Calling(t) => t = owner
    BY <1>2 DEF LockInv, LockTypes, HeldOnce
  <2> QED  BY <2>1 DEF Inside
<1> QED  BY <1>1, <1>2

LEMMA InsideIsOwnerNext == LockInv' => Inside' = owner'
<1>1. LockInv' => (Inside = owner)'
  BY InsideIsOwner, PTL
<1> QED  BY <1>1

\* What a step of the lock shows of it.
Shown == <<waiters, Inside>>

LEMMA FifoInit == LockInit => Lock!Init
<1> SUFFICES ASSUME LockInit  PROVE Lock!Init
  OBVIOUS
<1>1. LockInv /\ waiters = <<>> /\ owner = Nobody
  BY LockStart DEF LockInit
<1> QED  BY <1>1, InsideIsOwner DEF Lock!Init

LEMMA FifoStep ==
  ASSUME LockInv, LockInv', NEW t \in Actor, Step(t)
  PROVE  Lock!Next \/ UNCHANGED Shown
<1> USE DEF Lock!Next, Shown
<1>0. Inside = owner /\ Inside' = owner'
  BY InsideIsOwner, InsideIsOwnerNext
<1>1. ASSUME NEW kind \in Kinds, Acquire(t, kind)
      PROVE  Lock!Next
  <2>1. at[t] = "idle" /\ owner # t /\ \A i \in 1..Len(waiters) : waiters[i] # t
    BY <1>1 DEF Acquire, LockInv, HeldOnce, Line, Calling, Waits
  <2>2. CASE ~locked /\ waiters = <<>>
    <3>1. Lock!Walk(t)
      BY <1>0, <1>1, <2>2 DEF Lock!Walk, Acquire, Take, LockInv, HeldOnce
    <3> QED  BY <3>1
  <2>3. CASE ~(~locked /\ waiters = <<>>)
    <3>1. Lock!Come(t)
      BY <1>0, <1>1, <2>1, <2>3 DEF Lock!Come, Acquire
    <3> QED  BY <3>1
  <2> QED  BY <2>2, <2>3
<1>2. ASSUME NEW kind \in Kinds, Granted(t, kind)
      PROVE  Lock!Next
  <2>1. Lock!Enter
    BY <1>0, <1>2 DEF Lock!Enter, Granted, Take, LockInv, HeldOnce
  <2> QED  BY <2>1
<1>3. ASSUME NEW kind \in Kinds, CancelWaiting(t, kind)
      PROVE  Lock!Next
  <2>1. Lock!GiveUp(t)
    BY <1>0, <1>3 DEF Lock!GiveUp, CancelWaiting, RemoveAt, Lock!RemoveAt
  <2> QED  BY <2>1
<1>4. ASSUME NEW h \in {"ok", "error"}, End(t, h),
             at[t] \in {"plain_held", "txn_held", "script_held", "body"}
      PROVE  Lock!Next
  <2>1. Lock!Leave
    BY <1>0, <1>4, EndKeeps, ActorAssumption DEF Lock!Leave
  <2> QED  BY <2>1
<1>5. CASE Execute(t) \/ Script(t) \/ Commit(t) \/ Raise(t)
  BY <1>4, <1>5, KindPlaces DEF Execute, Script, Commit, Raise
<1>6. CASE BeginImmediate(t)
  <2>1. CASE txn
    BY <1>4, <1>6, <2>1, KindPlaces DEF BeginImmediate
  <2>2. CASE ~txn
    BY <1>0, <1>6, <2>2 DEF BeginImmediate
  <2> QED  BY <2>1, <2>2
<1>7. CASE Nested(t) \/ LateRun(t)
  BY <1>0, <1>7 DEF Nested, LateRun
<1>8. CASE NestedRun(t)
  BY <1>0, <1>8, NestedRelease
<1>9. CASE CancelStatement(t)
  <2>1. owner = t /\ owner' = Nobody /\ waiters' = waiters
    BY <1>9, KindPlaces DEF CancelStatement, LockInv, HeldOnce, Calling
  <2>2. Lock!Leave
    BY <1>0, <2>1, ActorAssumption DEF Lock!Leave
  <2> QED  BY <2>2
<1> QED  BY <1>1, <1>2, <1>3, <1>5, <1>6, <1>7, <1>8, <1>9 DEF Step

LEMMA FifoNext == LockInv /\ LockInv' /\ [LockNext]_lockVars => [Lock!Next]_Shown
<1> SUFFICES ASSUME LockInv, LockInv', [LockNext]_lockVars  PROVE [Lock!Next]_Shown
  OBVIOUS
<1>1. CASE UNCHANGED lockVars
  <2>1. waiters' = waiters /\ owner' = owner
    BY <1>1 DEF lockVars
  <2> QED  BY <2>1, InsideIsOwner, InsideIsOwnerNext DEF Shown
<1>2. ASSUME NEW t \in Actor, Step(t)  PROVE [Lock!Next]_Shown
  BY <1>2, FifoStep
<1> QED  BY <1>1, <1>2 DEF LockNext, Step

\* The re-entrant lock with the calls it guards is a first-come lock, for any
\* number of tasks and whoever is cancelled: one task between its first
\* acquire and its last release, entered in the order they came.
THEOREM FifoCorrect == LockSpec => LockIsFifo
<1>1. LockSpec => []LockInv /\ [][LockNext]_lockVars
  BY LockCorrect, PTL DEF LockSpec
<1> QED  BY <1>1, LockCorrect, FifoInit, FifoNext, PTL
         DEF LockSpec, LockIsFifo, Lock!Spec, Shown
-----------------------------------------------------------------------------
(* Transactions *)

\* Where the tasks are after one of them moved.
LEMMA Moved ==
  ASSUME LockInv, NEW t \in Actor, NEW h, at' = [at EXCEPT ![t] = h]
  PROVE  \A u \in Actor : at'[u] = IF u = t THEN h ELSE at[u]
  BY DEF LockInv, LockTypes

\* Statements are of tasks.
LEMMA StatementOf ==
  ASSUME LockInv
  PROVE  /\ \A s \in buffer : s[1] \in Actor
         /\ \A s \in disk : s[1] \in Actor
  BY DEF LockInv, LockTypes, Statement

\* Nobody but the owner is inside a transaction, so a task that has just got
\* the lock finds none open.
LEMMA NoTxnElsewhere ==
  ASSUME LockInv, Clean, NEW t \in Actor, Calling(t)
  PROVE  /\ \A u \in Actor : InTxn(u) => u = t
         /\ ~InTxn(t) => ~txn /\ buffer = {}
  BY DEF LockInv, HeldOnce, Clean, InTxn, Calling

\* A move that runs no statement, outside a transaction.
LEMMA QuietMove ==
  ASSUME LockInv, Clean, NEW t \in Actor, NEW h,
         at[t] \notin {"body", "inner", "ok", "cancelled"},
         h \notin {"body", "inner", "ok"},
         h \in Unrun => at[t] \in Unrun,
         at' = [at EXCEPT ![t] = h],
         txn' = txn, buffer' = buffer, disk' = disk, done' = done
  PROVE  Clean'
<1>0. at \in [Actor -> Places]
  BY DEF LockInv, LockTypes
<1>1. \A u \in Actor : at'[u] = IF u = t THEN h ELSE at[u]
  BY <1>0
<1>2. /\ \A s \in buffer : s[1] \in Actor /\ s[1] # t
      /\ \A s \in disk : s[1] \in Actor /\ s[1] # t
  <2>1. \A s \in buffer : s[1] # t
    BY DEF Clean
  <2>2. \A s \in disk : s[1] # t
    BY DEF Clean, Ends
  <2> QED BY <2>1, <2>2, StatementOf
<1>3. \A u \in Actor : InTxn(u)' <=> InTxn(u)
  BY <1>1 DEF InTxn
<1>4. \A u \in Actor : at'[u] \in Unrun => done'[u] = 0
  BY <1>1 DEF Clean
<1>5. \A u \in Actor : at'[u] = "ok" => \A k \in 1..done'[u] : <<u, k>> \in disk'
  BY <1>1 DEF Clean
<1>6. /\ \A s \in buffer' : at'[s[1]] \in {"body", "inner", "cancelled"}
      /\ \A s \in disk' : at'[s[1]] \in Ends
  BY <1>1, <1>2 DEF Clean
<1>7. /\ \A u \in Actor : InTxn(u)' => txn'
      /\ txn' => \E u \in Actor : InTxn(u)'
      /\ ~txn' => buffer' = {}
      /\ \A u \in Actor : InTxn(u)' => \A k \in 1..done'[u] : <<u, k>> \in buffer'
  BY <1>3 DEF Clean
<1> QED  BY <1>4, <1>5, <1>6, <1>7 DEF Clean

LEMMA CleanLine ==
  ASSUME LockInv, Clean, NEW t \in Actor, NEW kind \in Kinds,
         Acquire(t, kind) \/ Granted(t, kind) \/ CancelWaiting(t, kind)
  PROVE  Clean'
<1>1. PICK h : /\ at' = [at EXCEPT ![t] = h]
               /\ h \in Unrun \cup {"cancelled"} /\ at[t] \in Unrun
  BY KindPlaces DEF Acquire, Granted, CancelWaiting, Unrun
<1>2. txn' = txn /\ buffer' = buffer /\ disk' = disk /\ done' = done
  BY DEF Acquire, Granted, CancelWaiting
<1>3. /\ at[t] \notin {"body", "inner", "ok", "cancelled"}
      /\ h \notin {"body", "inner", "ok"}
  BY <1>1 DEF Unrun, Waits
<1> QED  BY <1>1, <1>2, <1>3, QuietMove

\* A call that runs one statement by itself.
LEMMA CleanAlone ==
  ASSUME LockInv, Clean, NEW t \in Actor, Execute(t) \/ Script(t)
  PROVE  Clean'
<1>1. at[t] \in {"plain_held", "script_held"} /\ at' = [at EXCEPT ![t] = "ok"]
      /\ done' = [done EXCEPT ![t] = 1]
  BY KindPlaces DEF Execute, Script, End
<1>2. /\ ~txn /\ buffer = {} /\ \A u \in Actor : ~InTxn(u)
  BY <1>1, NoTxnElsewhere DEF Calling, InTxn
<1>3. txn' = FALSE /\ buffer' = {} /\ disk' = disk \cup {<<t, 1>>}
  BY <1>2 DEF Execute, Script, Run, LockInv, LockTypes
<1>4. \A u \in Actor : /\ at'[u] = IF u = t THEN "ok" ELSE at[u]
                      /\ done'[u] = IF u = t THEN 1 ELSE done[u]
  BY <1>1, Moved DEF LockInv, LockTypes
<1>5. \A u \in Actor : ~InTxn(u)'
  BY <1>2, <1>4 DEF InTxn
<1>6. \A u \in Actor : at'[u] \in Unrun => done'[u] = 0
  BY <1>4 DEF Clean, Unrun, Waits
<1>7. \A u \in Actor : at'[u] = "ok" => \A k \in 1..done'[u] : <<u, k>> \in disk'
  <2>1. \A k \in 1..1 : k = 1
    OBVIOUS
  <2> QED  BY <1>3, <1>4, <2>1 DEF Clean
<1>8. \A s \in disk' : at'[s[1]] \in Ends
  <2>1. ASSUME NEW s \in disk  PROVE at'[s[1]] \in Ends
    BY <1>4, StatementOf DEF Clean, Ends
  <2>2. at'[<<t, 1>>[1]] \in Ends
    BY <1>4 DEF Ends
  <2> QED  BY <1>3, <2>1, <2>2
<1> QED  BY <1>3, <1>5, <1>6, <1>7, <1>8 DEF Clean

LEMMA CleanBegin ==
  ASSUME LockInv, Clean, NEW t \in Actor, BeginImmediate(t)
  PROVE  Clean'
<1>1. at[t] = "txn_held" /\ done' = done /\ buffer' = buffer /\ disk' = disk
  BY KindPlaces DEF BeginImmediate
<1>2. /\ ~txn /\ buffer = {} /\ \A u \in Actor : ~InTxn(u)
  BY <1>1, NoTxnElsewhere DEF Calling, InTxn
<1>3. txn' = TRUE /\ at' = [at EXCEPT ![t] = "body"]
  BY <1>2 DEF BeginImmediate
<1>4. \A u \in Actor : at'[u] = IF u = t THEN "body" ELSE at[u]
  BY <1>3, Moved
<1>5. \A u \in Actor : InTxn(u)' <=> u = t
  BY <1>2, <1>4 DEF InTxn
<1>6. done'[t] = 0 /\ 1..0 = {}
  BY <1>1 DEF Clean, Unrun
<1>7. \A u \in Actor : at'[u] \in Unrun => done'[u] = 0
  BY <1>1, <1>4 DEF Clean, Unrun, Waits
<1>8. \A u \in Actor : at'[u] = "ok" => \A k \in 1..done'[u] : <<u, k>> \in disk'
  BY <1>1, <1>4 DEF Clean
<1>9. \A s \in disk' : at'[s[1]] \in Ends
  BY <1>1, <1>4, StatementOf DEF Clean, Ends
<1>10. \A u \in Actor : InTxn(u)' => \A k \in 1..done'[u] : <<u, k>> \in buffer'
  BY <1>5, <1>6
<1>11. \A s \in buffer' : at'[s[1]] \in {"body", "inner", "cancelled"}
  BY <1>1, <1>2
<1> QED  BY <1>3, <1>5, <1>7, <1>8, <1>9, <1>10, <1>11 DEF Clean

LEMMA CleanNested ==
  ASSUME LockInv, Clean, NEW t \in Actor, Nested(t)
  PROVE  Clean'
<1>1. /\ at[t] = "body" /\ at' = [at EXCEPT ![t] = "inner"]
      /\ txn' = txn /\ done' = done /\ buffer' = buffer /\ disk' = disk
  BY DEF Nested
<1>2. \A u \in Actor : at'[u] = IF u = t THEN "inner" ELSE at[u]
  BY <1>1, Moved
<1>3. \A u \in Actor : InTxn(u)' <=> InTxn(u)
  BY <1>1, <1>2 DEF InTxn
<1>4. \A u \in Actor : at'[u] \in Unrun => done'[u] = 0
  BY <1>1, <1>2 DEF Clean, Unrun, Waits
<1>5. \A u \in Actor : at'[u] = "ok" => \A k \in 1..done'[u] : <<u, k>> \in disk'
  BY <1>1, <1>2 DEF Clean
<1>6. /\ \A s \in buffer' : at'[s[1]] \in {"body", "inner", "cancelled"}
      /\ \A s \in disk' : at'[s[1]] \in Ends
  BY <1>1, <1>2, StatementOf DEF Clean, Ends
<1>7. /\ \A u \in Actor : InTxn(u)' => txn'
      /\ txn' => \E u \in Actor : InTxn(u)'
      /\ ~txn' => buffer' = {}
      /\ \A u \in Actor : InTxn(u)' => \A k \in 1..done'[u] : <<u, k>> \in buffer'
  BY <1>1, <1>3 DEF Clean
<1> QED  BY <1>4, <1>5, <1>6, <1>7 DEF Clean

LEMMA CleanNestedRun ==
  ASSUME LockInv, Clean, NEW t \in Actor, NestedRun(t)
  PROVE  Clean'
<1>1. /\ at[t] = "inner" /\ at' = [at EXCEPT ![t] = "body"]
      /\ txn' = txn /\ done' = [done EXCEPT ![t] = @ + 1]
  BY NestedRelease DEF NestedRun
<1>2. txn /\ buffer' = buffer \cup {<<t, done[t] + 1>>} /\ disk' = disk
  BY <1>1 DEF NestedRun, Run, Clean, InTxn
<1>3. /\ \A u \in Actor : at'[u] = IF u = t THEN "body" ELSE at[u]
      /\ \A u \in Actor : done'[u] = IF u = t THEN done[t] + 1 ELSE done[u]
      /\ done[t] \in Nat
  BY <1>1, Moved DEF LockInv, LockTypes
<1>4. \A u \in Actor : InTxn(u)' <=> InTxn(u)
  BY <1>1, <1>3 DEF InTxn
<1>5. \A u \in Actor : at'[u] \in Unrun => done'[u] = 0
  BY <1>1, <1>3 DEF Clean, Unrun, Waits
<1>6. \A u \in Actor : at'[u] = "ok" => \A k \in 1..done'[u] : <<u, k>> \in disk'
  BY <1>2, <1>3 DEF Clean
<1>7. \A s \in disk' : at'[s[1]] \in Ends
  BY <1>1, <1>2, <1>3, StatementOf DEF Clean, Ends
<1>8. \A s \in buffer' : at'[s[1]] \in {"body", "inner", "cancelled"}
  <2>1. ASSUME NEW s \in buffer  PROVE at'[s[1]] \in {"body", "inner", "cancelled"}
    BY <1>3, StatementOf DEF Clean
  <2>2. at'[<<t, done[t] + 1>>[1]] = "body"
    BY <1>3
  <2> QED  BY <1>2, <2>1, <2>2
<1>9. \A u \in Actor : InTxn(u)' => \A k \in 1..done'[u] : <<u, k>> \in buffer'
  <2>1. ASSUME NEW u \in Actor, InTxn(u), NEW k \in 1..done'[u]
        PROVE  <<u, k>> \in buffer'
    <3>1. CASE u = t
      <4>1. k \in 1..done[t] \/ k = done[t] + 1
        BY <1>3, <3>1
      <4> QED  BY <1>2, <2>1, <3>1, <4>1 DEF Clean
    <3>2. CASE u # t
      BY <1>2, <1>3, <2>1, <3>2 DEF Clean
    <3> QED  BY <3>1, <3>2
  <2> QED  BY <1>4, <2>1
<1>10. txn' /\ \E u \in Actor : InTxn(u)'
  BY <1>1, <1>2, <1>4 DEF InTxn
<1> QED  BY <1>5, <1>6, <1>7, <1>8, <1>9, <1>10 DEF Clean

\* A transaction that ends takes what is in the buffer to disk or drops it.
LEMMA CleanTxnEnds ==
  ASSUME LockInv, Clean, NEW t \in Actor, Commit(t) \/ Raise(t)
  PROVE  Clean'
<1>1. /\ at[t] = "body" /\ txn' = FALSE /\ buffer' = {} /\ done' = done
      /\ \/ at' = [at EXCEPT ![t] = "ok"] /\ disk' = disk \cup buffer
         \/ at' = [at EXCEPT ![t] = "error"] /\ disk' = disk
  BY DEF Commit, Raise, End
<1>2. PICK h \in {"ok", "error"} :
        /\ at' = [at EXCEPT ![t] = h]
        /\ h = "ok" => disk' = disk \cup buffer
        /\ h = "error" => disk' = disk
  BY <1>1
<1>3. \A u \in Actor : at'[u] = IF u = t THEN h ELSE at[u]
  BY <1>2, Moved
<1>4. \A u \in Actor : InTxn(u) => u = t
  BY <1>1, NoTxnElsewhere DEF Calling
<1>5. \A u \in Actor : ~InTxn(u)'
  BY <1>3, <1>4 DEF InTxn
<1>6. \A u \in Actor : at'[u] \in Unrun => done'[u] = 0
  BY <1>1, <1>3 DEF Clean, Unrun, Waits
<1>7. \A u \in Actor : at'[u] = "ok" => \A k \in 1..done'[u] : <<u, k>> \in disk'
  <2>1. ASSUME NEW u \in Actor, u # t, at'[u] = "ok", NEW k \in 1..done'[u]
        PROVE  <<u, k>> \in disk'
    BY <1>1, <1>2, <1>3, <2>1 DEF Clean
  <2>2. ASSUME at'[t] = "ok", NEW k \in 1..done'[t]  PROVE <<t, k>> \in disk'
    BY <1>1, <1>2, <1>3, <2>2 DEF Clean, InTxn
  <2> QED  BY <2>1, <2>2
<1>8. \A s \in disk' : at'[s[1]] \in Ends
  <2>1. ASSUME NEW s \in disk  PROVE at'[s[1]] \in Ends
    BY <1>1, <1>3, StatementOf DEF Clean, Ends
  <2>2. ASSUME NEW s \in buffer, h = "ok"  PROVE at'[s[1]] \in Ends
    <3>1. s[1] \in Actor /\ (s[1] = t \/ at[s[1]] = "cancelled")
      BY <1>4, StatementOf DEF Clean, InTxn
    <3> QED  BY <1>3, <2>2, <3>1 DEF Ends
  <2> QED  BY <1>2, <2>1, <2>2
<1> QED  BY <1>1, <1>5, <1>6, <1>7, <1>8 DEF Clean

LEMMA CleanCancelStatement ==
  ASSUME LockInv, Clean, NEW t \in Actor, CancelStatement(t), ~cut'
  PROVE  Clean'
<1>1. /\ at[t] = "plain_held" /\ at' = [at EXCEPT ![t] = "late"]
      /\ txn' = txn /\ buffer' = buffer /\ disk' = disk /\ done' = done
  BY KindPlaces DEF CancelStatement
<1>2. "late" \notin Unrun
  BY DEF Unrun, Waits
<1> QED  BY <1>1, <1>2, QuietMove

LEMMA CleanLateRun ==
  ASSUME LockInv, Clean, NEW t \in Actor, LateRun(t)
  PROVE  Clean'
<1> DEFINE s1 == <<t, done[t] + 1>>
<1>1. /\ at[t] = "late" /\ at' = [at EXCEPT ![t] = "cancelled"]
      /\ txn' = txn /\ done' = [done EXCEPT ![t] = @ + 1] /\ Run(s1)
  BY DEF LateRun
<1>2. /\ \A u \in Actor : at'[u] = IF u = t THEN "cancelled" ELSE at[u]
      /\ \A u \in Actor : u # t => done'[u] = done[u]
  BY <1>1, Moved DEF LockInv, LockTypes
<1>3. s1[1] = t
  OBVIOUS
<1> HIDE DEF s1
<1>4. /\ buffer \subseteq buffer' /\ buffer' \subseteq buffer \cup {s1}
      /\ disk \subseteq disk' /\ disk' \subseteq disk \cup {s1}
      /\ ~txn => buffer' = buffer
  BY <1>1 DEF Run
<1>5. \A u \in Actor : InTxn(u)' <=> InTxn(u)
  BY <1>1, <1>2 DEF InTxn
<1>6. \A u \in Actor : at'[u] \in Unrun => done'[u] = 0
  BY <1>2 DEF Clean, Unrun, Waits
<1>7. \A u \in Actor : at'[u] = "ok" => \A k \in 1..done'[u] : <<u, k>> \in disk'
  BY <1>2, <1>4 DEF Clean
<1>8. \A u \in Actor : InTxn(u)' => \A k \in 1..done'[u] : <<u, k>> \in buffer'
  BY <1>1, <1>2, <1>4, <1>5 DEF Clean, InTxn
<1>9. \A s \in disk' : at'[s[1]] \in Ends
  BY <1>2, <1>3, <1>4, StatementOf DEF Clean, Ends
<1>10. \A s \in buffer' : at'[s[1]] \in {"body", "inner", "cancelled"}
  BY <1>2, <1>3, <1>4, StatementOf DEF Clean
<1>11. /\ \A u \in Actor : InTxn(u)' => txn'
       /\ txn' => \E u \in Actor : InTxn(u)'
       /\ ~txn' => buffer' = {}
  BY <1>1, <1>4, <1>5 DEF Clean
<1> QED  BY <1>6, <1>7, <1>8, <1>9, <1>10, <1>11 DEF Clean

LEMMA WholeInit == LockInit => WholeInv
<1> SUFFICES ASSUME LockInit  PROVE Clean
  BY DEF WholeInv
<1>1. \A t \in Actor : at[t] = "idle" /\ done[t] = 0 /\ ~InTxn(t)
  BY DEF LockInit, InTxn
<1>2. txn = FALSE /\ buffer = {} /\ disk = {}
  BY DEF LockInit
<1> QED  BY <1>1, <1>2 DEF Clean

\* A cancellation inside begin_immediate is not forgotten.
LEMMA CutStays ==
  ASSUME NEW t \in Actor, Step(t), cut
  PROVE  cut'
  BY DEF Step, Acquire, Granted, CancelWaiting, Execute, Script, BeginImmediate, Nested,
         NestedRun, Commit, Raise, CancelStatement, LateRun

LEMMA WholeNext == LockInv /\ WholeInv /\ [LockNext]_lockVars => WholeInv'
<1> SUFFICES ASSUME LockInv, WholeInv, [LockNext]_lockVars  PROVE WholeInv'
  OBVIOUS
<1>1. CASE UNCHANGED lockVars
  BY <1>1 DEF lockVars, WholeInv, Clean, InTxn
<1>2. ASSUME NEW t \in Actor, Step(t), ~cut'  PROVE Clean'
  <2>1. Clean
    BY <1>2, CutStays DEF WholeInv
  <2> QED  BY <1>2, <2>1, CleanLine, CleanAlone, CleanBegin, CleanNested,
              CleanNestedRun, CleanTxnEnds, CleanCancelStatement, CleanLateRun
           DEF Step
<1> QED  BY <1>1, <1>2 DEF LockNext, Step, WholeInv

LEMMA CleanIsWhole == LockInv /\ WholeInv => Whole
<1> SUFFICES ASSUME LockInv, Clean, NEW t \in Actor
             PROVE  /\ at[t] = "ok" => \A k \in 1..done[t] : <<t, k>> \in disk
                    /\ at[t] \in {"error", "body", "inner"} => Owns(t) = {}
  BY DEF Whole, WholeInv
<1> QED  BY DEF Clean, Ends, Owns

\* As long as nobody is cancelled inside begin_immediate, what a call that
\* returned has run is on disk and nothing of a transaction that raised or is
\* still open, for any number of tasks, any length of the transactions and
\* whatever the other tasks do in between.
THEOREM WholeCorrect == LockSpec => []Whole
<1> QED  BY LockCorrect, WholeInit, WholeNext, CleanIsWhole, PTL DEF LockSpec
=============================================================================
