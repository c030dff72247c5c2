----------------------------- MODULE CallProofs -----------------------------
(***************************************************************************)
(* Proofs about the calls of the models.  For any list of accounts, any    *)
(* number of callers and slots and any limits: the slots are accounted for, *)
(* and an error reaches the executor only when every way out was tried.  For *)
(* any thresholds and any mix of late answers: a circuit opens and closes  *)
(* only after as many failures or successes in a row as the code says.  For *)
(* any nodes and limits: reallocation makes no budget and ends.            *)
(***************************************************************************)
EXTENDS ModelCalls, CircuitBreaker, PhaseBudget, FiniteSetTheorems,
        WellFoundedInduction, TLAPS

(* The accounts *)

Places == {"idle", "names", "fetched", "blind", "waiting", "using", "sleeping",
           "raised"}
Trying == {"waiting", "using", "sleeping"}

CallType == [at : Places, opus : BOOLEAN, names : SUBSET Account,
             account : Account \cup {Nothing}, fallback : BOOLEAN,
             tried : SUBSET Account, attempt : Nat]

CallTypes ==
  /\ call \in [Caller -> CallType]
  /\ active \in SUBSET Account /\ settled \in SUBSET Account
  /\ cache \in [names : SUBSET Account, fresh : BOOLEAN]
  /\ tokens \in [Account -> Nat]
  /\ free \in Nat

\* What is in the cache was the table's at some time, so the accounts nobody
\* has switched are in it.
Cached == /\ settled \subseteq active
          /\ cache.fresh => settled \subseteq cache.names

\* A call k while the accounts S stay active: it has been given accounts that
\* suit, the one it has is among those tried, and past its first failure it
\* has tried two if there are two.
Good(k, S) == {a \in S : Suits(a, k.opus)}
Ways(k, S) ==
  /\ k.at \in {"fetched", "blind"} => S \subseteq k.names
  /\ Good(k, S) # {} => \A a \in k.tried : Suits(a, k.opus)
  /\ k.fallback \/ k.at \in Trying => k.account \in k.tried
  /\ k.at \in Trying => k.account \in Account
  /\ (k.at = "raised" \/ (k.fallback /\ k.at \in Trying)) /\ Cardinality(Good(k, S)) >= 2
       => Cardinality(k.tried) >= 2

CallInv == CallTypes /\ Cached /\ \A c \in Caller : Ways(call[c], settled)
-----------------------------------------------------------------------------
(* Choices *)

\* There are finitely many accounts and each has a place.
LEMMA Accountable ==
  /\ IsFiniteSet(Account)
  /\ \A a \in Account : Place(a) \in Nat /\ Accounts[Place(a)] = a
<1>1. DOMAIN Accounts = 1..Len(Accounts) /\ Len(Accounts) \in Nat
  BY CallsAssumption
<1>2. Accounts \in Surjection(DOMAIN Accounts, Account)
  BY <1>1, CallsAssumption DEF Surjection, Account
<1>3. IsFiniteSet(DOMAIN Accounts)
  BY <1>1, FS_Interval
<1>4. ASSUME NEW a \in Account  PROVE Place(a) \in Nat /\ Accounts[Place(a)] = a
  <2>1. \E i \in DOMAIN Accounts : Accounts[i] = a
    BY DEF Account
  <2>2. Place(a) \in DOMAIN Accounts /\ Accounts[Place(a)] = a
    BY <2>1 DEF Place
  <2> QED  BY <1>1, <2>2
<1> QED  BY <1>2, <1>3, <1>4, FS_Surjection

\* A set of naturals that is not empty has a least element.
LEMMA Least ==
  ASSUME NEW T, T \subseteq Nat, T # {}
  PROVE  \E x \in T : \A y \in T : x <= y
<1>1. PICK x \in T : \A y \in T : ~(<<y, x>> \in OpToRel(<, Nat))
  BY NatLessThanWellFounded, WFMin
<1>2. \A y \in T : ~(y < x)
  BY <1>1 DEF OpToRel
<1> QED  BY <1>2

\* The account that comes first in the list.
LEMMA FirstOf ==
  ASSUME NEW s, s \subseteq Account, s # {}
  PROVE  \E a \in s : \A b \in s : Place(a) <= Place(b)
<1> DEFINE T == {Place(a) : a \in s}
<1>1. T \subseteq Nat /\ T # {}
  BY Accountable
<1>2. PICK x \in T : \A y \in T : x <= y
  BY <1>1, Least
<1>3. PICK a \in s : x = Place(a)
  BY <1>2
<1> QED  BY <1>2, <1>3

\* _select takes an account of those it was given.
LEMMA LeastUsedOf ==
  ASSUME CallTypes, NEW s, s \subseteq Account, s # {}
  PROVE  LeastUsed(s) \in s
<1> DEFINE T == {Used(a) : a \in s}
<1>1. T \subseteq Nat /\ T # {}
  BY DEF CallTypes, Used
<1>2. PICK x \in T : \A y \in T : x <= y
  BY <1>1, Least
<1> DEFINE first == {a \in s : Used(a) = x}
<1>3. first # {} /\ first \subseteq Account
  BY <1>2
<1>4. PICK a \in first : \A b \in first : Place(a) <= Place(b)
  BY <1>3, FirstOf
<1>5. ASSUME NEW b \in s
      PROVE  \/ Used(a) < Used(b)
             \/ Used(a) = Used(b) /\ Place(a) <= Place(b)
  <2>1. Used(a) = x /\ x \in Nat /\ Used(b) \in Nat /\ x <= Used(b)
    BY <1>1, <1>2, <1>4
  <2>2. CASE Used(b) = x
    BY <1>4, <2>1, <2>2
  <2>3. CASE Used(b) # x
    BY <2>1, <2>3
  <2> QED  BY <2>2, <2>3
<1> QED  BY <1>4, <1>5 DEF LeastUsed

\* Two accounts in a set, counted and named.
LEMMA TwoOf ==
  ASSUME NEW s, IsFiniteSet(s)
  PROVE  Cardinality(s) >= 2 <=> \E a, b \in s : a # b
<1>1. Cardinality(s) \in Nat
  BY FS_CardinalityType
<1>2. ASSUME NEW a \in s, NEW b \in s, a # b  PROVE Cardinality(s) >= 2
  <2>1. IsFiniteSet({a}) /\ Cardinality({a}) = 1
    BY FS_Singleton
  <2>2. IsFiniteSet({a} \cup {b}) /\ Cardinality({a} \cup {b}) = 2
    BY <1>2, <2>1, FS_AddElement
  <2>3. Cardinality({a} \cup {b}) <= Cardinality(s)
    BY FS_Subset
  <2> QED  BY <1>1, <2>2, <2>3
<1>3. ASSUME Cardinality(s) >= 2  PROVE \E a, b \in s : a # b
  <2>1. s # {}
    BY <1>3, FS_EmptySet
  <2>2. PICK a \in s : TRUE
    BY <2>1
  <2>3. s # {a}
    BY <1>3, FS_Singleton
  <2> QED  BY <2>2, <2>3
<1> QED  BY <1>2, <1>3
-----------------------------------------------------------------------------
(* Calls *)

\* What holds of a call while some accounts stay active holds while fewer do.
LEMMA WaysShrink ==
  ASSUME NEW k, NEW S \in SUBSET Account, NEW T \in SUBSET S, Ways(k, S)
  PROVE  Ways(k, T)
<1>1. Good(k, T) \subseteq Good(k, S) /\ Good(k, S) \subseteq Account
  BY DEF Good
<1>2. IsFiniteSet(Good(k, S)) /\ IsFiniteSet(Good(k, T))
  BY <1>1, Accountable, FS_Subset
<1>3. Cardinality(Good(k, T)) >= 2 => Cardinality(Good(k, S)) >= 2
  BY <1>1, <1>2, TwoOf
<1>4. Good(k, T) # {} => Good(k, S) # {}
  BY <1>1
<1> QED  BY <1>3, <1>4 DEF Ways

\* A step of one call.
LEMMA OneCall ==
  ASSUME CallInv, NEW c \in Caller, NEW k \in CallType, Ways(k, settled),
         call' = [call EXCEPT ![c] = k], settled' = settled
  PROVE  call' \in [Caller -> CallType] /\ \A d \in Caller : Ways(call'[d], settled')
<1>1. \A d \in Caller : call'[d] = IF d = c THEN k ELSE call[d]
  BY DEF CallInv, CallTypes
<1>2. \A d \in Caller : Ways(call'[d], settled)
  BY <1>1 DEF CallInv
<1> QED  BY <1>2 DEF CallInv, CallTypes

\* The call of c goes to a place of the same kind and keeps what it knows.
LEMMA SameWays ==
  ASSUME NEW k \in CallType, NEW S, NEW at \in Places, NEW attempt \in Nat, Ways(k, S),
         k.at \in Trying, at \in Trying
  PROVE  /\ [k EXCEPT !.at = at, !.attempt = attempt] \in CallType
         /\ Ways([k EXCEPT !.at = at, !.attempt = attempt], S)
<1> DEFINE l == [k EXCEPT !.at = at, !.attempt = attempt]
<1>1. /\ l \in CallType /\ l.at = at /\ l.opus = k.opus /\ l.names = k.names
      /\ l.account = k.account /\ l.fallback = k.fallback /\ l.tried = k.tried
  BY DEF CallType
<1> HIDE DEF l
<1>2. Good(l, S) = Good(k, S)
  BY <1>1 DEF Good
<1>3. at \notin {"fetched", "blind", "raised"}
  BY DEF Trying
<1>4. Ways(l, S)
  BY <1>1, <1>2, <1>3 DEF Ways
<1> QED  BY <1>1, <1>4 DEF l

\* A call that has tried nothing yet.
LEMMA NoCallWays ==
  ASSUME NEW S
  PROVE  /\ NoCall \in CallType /\ Ways(NoCall, S)
         /\ \A opus \in BOOLEAN :
              LET k == [NoCall EXCEPT !.at = "names", !.opus = opus]
              IN k \in CallType /\ Ways(k, S)
<1>1. NoCall \in CallType /\ Ways(NoCall, S)
  BY DEF CallType, NoCall, Places, Ways, Trying
<1>2. ASSUME NEW opus \in BOOLEAN
      PROVE  LET k == [NoCall EXCEPT !.at = "names", !.opus = opus]
             IN k \in CallType /\ Ways(k, S)
  <2> DEFINE l == [NoCall EXCEPT !.at = "names", !.opus = opus]
  <2>1. /\ l \in CallType /\ l.at = "names" /\ l.fallback = FALSE /\ l.tried = {}
    BY DEF CallType, NoCall, Places
  <2> HIDE DEF l
  <2>2. Ways(l, S)
    BY <2>1 DEF Ways, Trying
  <2> QED  BY <2>1, <2>2 DEF l
<1> QED  BY <1>1, <1>2

\* A call that gives up keeps the list of the accounts it has tried.
LEMMA RaiseWays ==
  ASSUME CallInv, NEW c \in Caller, RaiseError(c), settled' = settled,
         Cardinality(Good(call[c], settled)) >= 2 => Cardinality(call[c].tried) >= 2
  PROVE  call' \in [Caller -> CallType] /\ \A d \in Caller : Ways(call'[d], settled')
<1> DEFINE k == call[c]
           l == [NoCall EXCEPT !.at = "raised", !.opus = k.opus, !.tried = k.tried]
<1>1. k \in CallType /\ Ways(k, settled)
  BY DEF CallInv, CallTypes
<1>2. /\ l \in CallType /\ l.at = "raised" /\ l.opus = k.opus /\ l.tried = k.tried
      /\ l.fallback = FALSE
  BY <1>1 DEF CallType, NoCall, Places
<1>3. call' = [call EXCEPT ![c] = l]
  BY DEF RaiseError
<1>4. Cardinality(Good(k, settled)) >= 2 => Cardinality(k.tried) >= 2
  OBVIOUS
<1> HIDE DEF k, l
<1>5. Good(l, settled) = Good(k, settled)
  BY <1>2 DEF Good
<1>6. Ways(l, settled)
  BY <1>1, <1>2, <1>4, <1>5 DEF Ways, Trying
<1> QED  BY <1>2, <1>3, <1>6, OneCall

\* A call that is given an account to try.
LEMMA AssignWays ==
  ASSUME CallInv, NEW c \in Caller, NEW a \in Account, Assign(c, a),
         settled' = settled,
         Good(call[c], settled) # {} => Suits(a, call[c].opus),
         call[c].fallback => call[c].account \in call[c].tried /\ a # call[c].account
  PROVE  call' \in [Caller -> CallType] /\ \A d \in Caller : Ways(call'[d], settled')
<1> DEFINE k == call[c]
           l == [k EXCEPT !.at = "waiting", !.account = a, !.names = {},
                          !.tried = @ \cup {a}]
<1>1. k \in CallType /\ Ways(k, settled)
  BY DEF CallInv, CallTypes
<1>2. /\ l \in CallType /\ l.at = "waiting" /\ l.opus = k.opus /\ l.account = a
      /\ l.tried = k.tried \cup {a} /\ l.fallback = k.fallback
  BY <1>1 DEF CallType, Places
<1>3. call' = [call EXCEPT ![c] = l]
  BY DEF Assign, CallInv, CallTypes, CallType
<1>4. /\ Good(k, settled) # {} => Suits(a, k.opus)
      /\ k.fallback => k.account \in k.tried /\ a # k.account
  OBVIOUS
<1> HIDE DEF k, l
<1>5. Good(l, settled) = Good(k, settled)
  BY <1>2 DEF Good
<1>6. l.fallback => Cardinality(l.tried) >= 2
  <2>1. IsFiniteSet(l.tried)
    BY <1>2, Accountable, FS_Subset DEF CallType
  <2>2. k.fallback => \E x, y \in l.tried : x # y
    BY <1>2, <1>4
  <2> QED  BY <1>2, <2>1, <2>2, TwoOf
<1>7. Ways(l, settled)
  BY <1>1, <1>2, <1>4, <1>5, <1>6 DEF Ways, Trying
<1> QED  BY <1>2, <1>3, <1>7, OneCall

\* The names a call goes on with hold every account nobody has switched.
LEMMA NamesOf ==
  ASSUME CallInv, NEW c \in Caller, NEW names \in SUBSET Account, Named(c, names)
  PROVE  /\ settled \subseteq names
         /\ cache' \in [names : SUBSET Account, fresh : BOOLEAN]
         /\ cache'.fresh => settled \subseteq cache'.names
         /\ call[c].at \in {"names", "fetched", "blind"}
<1>1. CASE CallAt(c, "names") /\ cache.fresh /\ names = cache.names /\ UNCHANGED cache
  BY <1>1 DEF CallInv, CallTypes, Cached, CallAt
<1>2. CASE /\ CallAt(c, "fetched") /\ names = call[c].names
           /\ cache' = [names |-> names, fresh |-> TRUE]
  <2>1. settled \subseteq names
    BY <1>2 DEF CallInv, Ways, CallAt
  <2> QED  BY <1>2, <2>1 DEF CallAt
<1>3. CASE CallAt(c, "blind") /\ names = call[c].names /\ UNCHANGED cache
  BY <1>3 DEF CallInv, CallTypes, Cached, Ways, CallAt
<1> QED  BY <1>1, <1>2, <1>3 DEF Named

LEMMA CallSelect ==
  ASSUME CallInv, NEW c \in Caller, NEW names \in SUBSET Account, Select(c, names)
  PROVE  CallInv'
<1> DEFINE good == Candidates(names, call[c].opus)
           forced == Forced(names, call[c].opus)
<1>1. /\ ~call[c].fallback /\ Named(c, names) /\ aged' = {}
      /\ tokens' = [a \in Account |-> Used(a)]
      /\ active' = active /\ free' = free /\ settled' = settled
  BY DEF Select
<1>2. /\ settled \subseteq names
      /\ cache' \in [names : SUBSET Account, fresh : BOOLEAN]
      /\ cache'.fresh => settled \subseteq cache'.names
  BY <1>1, NamesOf
<1>3. tokens' \in [Account -> Nat]
  BY <1>1 DEF CallInv, CallTypes, Used
<1>4. call' \in [Caller -> CallType] /\ \A d \in Caller : Ways(call'[d], settled')
  <2>1. CASE good # {} /\ Assign(c, LeastUsed(good))
    <3>1. LeastUsed(good) \in good
      BY <2>1, LeastUsedOf DEF CallInv, Candidates
    <3>2. LeastUsed(good) \in Account /\ Suits(LeastUsed(good), call[c].opus)
      BY <3>1 DEF Candidates
    <3> QED  BY <1>1, <2>1, <3>2, AssignWays
  <2>2. CASE names # {} /\ Assign(c, LeastUsed(forced))
    <3>1. forced # {} /\ forced \subseteq names
      BY <2>2 DEF Forced
    <3>2. LeastUsed(forced) \in forced
      BY <3>1, LeastUsedOf DEF CallInv
    <3>3. Good(call[c], settled) # {} => Suits(LeastUsed(forced), call[c].opus)
      BY <1>2, <3>2 DEF Good, Forced
    <3> QED  BY <1>1, <2>2, <3>1, <3>2, <3>3, AssignWays
  <2>3. CASE names = {} /\ RaiseError(c)
    <3>1. Good(call[c], settled) = {}
      BY <1>2, <2>3 DEF Good
    <3>2. ~(Cardinality(Good(call[c], settled)) >= 2)
      BY <3>1, FS_EmptySet
    <3> QED  BY <1>1, <2>3, <3>2, RaiseWays
  <2> QED  BY <2>1, <2>2, <2>3 DEF Select
<1> QED  BY <1>1, <1>2, <1>3, <1>4 DEF CallInv, CallTypes, Cached

LEMMA CallFallback ==
  ASSUME CallInv, NEW c \in Caller, NEW names \in SUBSET Account, Fallback(c, names)
  PROVE  CallInv'
<1> DEFINE others == Others(c, names)
           first == CHOOSE a \in others : \A b \in others : Place(a) <= Place(b)
<1>1. /\ call[c].fallback /\ Named(c, names)
      /\ IF others # {} /\ first # call[c].account THEN Assign(c, first) ELSE RaiseError(c)
      /\ active' = active /\ free' = free /\ settled' = settled /\ tokens' = tokens
  BY DEF Fallback
<1>2. /\ settled \subseteq names
      /\ cache' \in [names : SUBSET Account, fresh : BOOLEAN]
      /\ cache'.fresh => settled \subseteq cache'.names
  BY <1>1, NamesOf
<1>3. others \subseteq Account /\ (others # {} => first \in others)
  <2>1. others \subseteq Account
    BY DEF Others
  <2> QED  BY <2>1, FirstOf
<1>4. call[c].account \in call[c].tried
  BY <1>1 DEF CallInv, Ways
<1>5. call' \in [Caller -> CallType] /\ \A d \in Caller : Ways(call'[d], settled')
  <2>1. CASE others # {}
    <3>1. /\ first \in Account /\ first # call[c].account
          /\ Suits(first, call[c].opus)
      BY <1>3, <2>1 DEF Others
    <3>2. Assign(c, first)
      BY <1>1, <2>1, <3>1
    <3> HIDE DEF first
    <3> QED  BY <1>1, <1>4, <3>1, <3>2, AssignWays
  <2>2. CASE others = {}
    <3>1. RaiseError(c)
      BY <1>1, <2>2
    <3>2. IsFiniteSet(Good(call[c], settled))
      BY Accountable, FS_Subset DEF Good, CallInv, CallTypes
    <3>3. ~\E x, y \in Good(call[c], settled) : x # y
      BY <1>2, <2>2 DEF Good, Others
    <3>4. ~(Cardinality(Good(call[c], settled)) >= 2)
      BY <3>2, <3>3, TwoOf
    <3> QED  BY <1>1, <3>1, <3>4, RaiseWays
  <2> QED  BY <2>1, <2>2
<1> HIDE DEF others, first
<1> QED  BY <1>1, <1>2, <1>5 DEF CallInv, CallTypes, Cached

LEMMA CallFetch ==
  ASSUME CallInv, NEW c \in Caller, Fetch(c) \/ FetchFails(c)
  PROVE  CallInv'
<1> DEFINE k == call[c]
<1>1. k \in CallType /\ Ways(k, settled) /\ k.at = "names"
  BY DEF CallInv, CallTypes, Fetch, FetchFails, CallAt
<1>2. PICK at \in {"fetched", "blind"}, names \in SUBSET Account :
        /\ settled \subseteq names
        /\ call' = [call EXCEPT ![c] = [k EXCEPT !.at = at, !.names = names]]
  <2>1. CASE Fetch(c)
    BY <1>1, <2>1 DEF Fetch, CallInv, CallTypes, Cached, CallType
  <2>2. CASE FetchFails(c)
    BY <1>1, <2>2 DEF FetchFails, CallInv, CallTypes, Cached, CallType
  <2> QED  BY <2>1, <2>2
<1> DEFINE l == [k EXCEPT !.at = at, !.names = names]
<1>3. /\ l \in CallType /\ l.at = at /\ l.opus = k.opus /\ l.names = names
      /\ l.account = k.account /\ l.fallback = k.fallback /\ l.tried = k.tried
  BY <1>1 DEF CallType, Places
<1>4. call' = [call EXCEPT ![c] = l]
  BY <1>2
<1>5. /\ settled' = settled /\ active' = active /\ cache' = cache
      /\ tokens' = tokens /\ free' = free
  BY DEF Fetch, FetchFails
<1> HIDE DEF k, l
<1>6. Good(l, settled) = Good(k, settled)
  BY <1>3 DEF Good
<1>7. Ways(l, settled)
  BY <1>1, <1>2, <1>3, <1>6 DEF Ways, Trying
<1>8. call' \in [Caller -> CallType] /\ \A d \in Caller : Ways(call'[d], settled')
  BY <1>3, <1>4, <1>5, <1>7, OneCall
<1> QED  BY <1>5, <1>8 DEF CallInv, CallTypes, Cached

\* A move of a call between waiting for a slot, having one and backing off.
LEMMA MoveWays ==
  ASSUME CallInv, NEW c \in Caller, NEW at \in Trying, NEW attempt \in Nat,
         call[c].at \in Trying, settled' = settled,
         call' = [call EXCEPT ![c] = [call[c] EXCEPT !.at = at, !.attempt = attempt]]
  PROVE  call' \in [Caller -> CallType] /\ \A d \in Caller : Ways(call'[d], settled')
<1> DEFINE l == [call[c] EXCEPT !.at = at, !.attempt = attempt]
<1>1. call[c] \in CallType /\ Ways(call[c], settled) /\ at \in Places
  BY DEF CallInv, CallTypes, Trying, Places
<1>2. l \in CallType /\ Ways(l, settled)
  BY <1>1, SameWays
<1>3. call' = [call EXCEPT ![c] = l]
  OBVIOUS
<1> HIDE DEF l
<1> QED  BY <1>2, <1>3, OneCall

LEMMA CallMove ==
  ASSUME CallInv, NEW c \in Caller, TakeSlot(c) \/ Retry(c) \/ Wake(c)
  PROVE  CallInv'
<1>1. call[c] \in CallType /\ call[c].at \in Trying
  BY DEF CallInv, CallTypes, TakeSlot, Retry, Wake, CallAt, Trying
<1>2. PICK at \in Trying, attempt \in Nat :
        call' = [call EXCEPT ![c] = [call[c] EXCEPT !.at = at, !.attempt = attempt]]
  <2>1. CASE TakeSlot(c)
    <3>1. call' = [call EXCEPT ![c] =
                     [call[c] EXCEPT !.at = "using", !.attempt = call[c].attempt]]
      BY <1>1, <2>1 DEF TakeSlot, Go, CallType
    <3>2. "using" \in Trying /\ call[c].attempt \in Nat
      BY <1>1 DEF CallType, Trying
    <3> QED  BY <3>1, <3>2
  <2>2. CASE Retry(c)
    <3>1. call' = [call EXCEPT ![c] =
                     [call[c] EXCEPT !.at = "sleeping", !.attempt = call[c].attempt]]
      BY <1>1, <2>2 DEF Retry, Go, CallType
    <3>2. "sleeping" \in Trying /\ call[c].attempt \in Nat
      BY <1>1 DEF CallType, Trying
    <3> QED  BY <3>1, <3>2
  <2>3. CASE Wake(c)
    <3>1. call' = [call EXCEPT ![c] =
                     [call[c] EXCEPT !.at = "waiting", !.attempt = call[c].attempt + 1]]
      BY <1>1, <2>3 DEF Wake, CallInv, CallTypes, CallType
    <3>2. "waiting" \in Trying /\ call[c].attempt + 1 \in Nat
      BY <1>1 DEF CallType, Trying
    <3> QED  BY <3>1, <3>2
  <2> QED  BY <2>1, <2>2, <2>3
<1>3. /\ settled' = settled /\ active' = active /\ cache' = cache
      /\ tokens' = tokens /\ free' \in Nat
  BY DEF TakeSlot, Retry, Wake, SlotBack, CallInv, CallTypes
<1>4. call' \in [Caller -> CallType] /\ \A d \in Caller : Ways(call'[d], settled')
  BY <1>1, <1>2, <1>3, MoveWays
<1> QED  BY <1>3, <1>4 DEF CallInv, CallTypes, Cached

\* A call that is over, or begins.
LEMMA CallReset ==
  ASSUME CallInv, NEW c \in Caller,
         Answer(c) \/ Cancel(c) \/ \E opus \in BOOLEAN : BeginCall(c, opus)
  PROVE  CallInv'
<1>1. PICK k \in CallType : call' = [call EXCEPT ![c] = k] /\ Ways(k, settled)
  <2>1. CASE Answer(c) \/ Cancel(c)
    <3>1. call' = [call EXCEPT ![c] = NoCall]
      BY <2>1 DEF Answer, Cancel
    <3> QED  BY <3>1, NoCallWays
  <2>2. ASSUME NEW opus \in BOOLEAN, BeginCall(c, opus)
        PROVE  \E k \in CallType : call' = [call EXCEPT ![c] = k] /\ Ways(k, settled)
    <3>1. call' = [call EXCEPT ![c] = [NoCall EXCEPT !.at = "names", !.opus = opus]]
      BY <2>2 DEF BeginCall
    <3> QED  BY <3>1, NoCallWays
  <2> QED  BY <2>1, <2>2
<1>2. /\ settled' = settled /\ active' = active /\ cache' = cache
      /\ tokens' \in [Account -> Nat] /\ free' \in Nat
  <2>1. CASE Answer(c)
    <3>1. /\ settled' = settled /\ active' = active /\ cache' = cache /\ free' = free + 1
          /\ tokens' = [tokens EXCEPT ![call[c].account] = @ + 1]
      BY <2>1 DEF Answer
    <3>2. tokens \in [Account -> Nat] /\ free \in Nat
      BY DEF CallInv, CallTypes
    <3>3. call[c].account \in Account
      BY <2>1 DEF Answer, CallAt, CallInv, Ways, Trying
    <3>4. tokens' \in [Account -> Nat]
      BY <3>1, <3>2, <3>3
    <3> QED  BY <3>1, <3>2, <3>4
  <2>2. CASE Cancel(c)
    BY <2>2 DEF Cancel, CallInv, CallTypes
  <2>3. CASE \E opus \in BOOLEAN : BeginCall(c, opus)
    BY <2>3 DEF BeginCall, CallInv, CallTypes
  <2> QED  BY <2>1, <2>2, <2>3
<1>3. call' \in [Caller -> CallType] /\ \A d \in Caller : Ways(call'[d], settled')
  BY <1>1, <1>2, OneCall
<1> QED  BY <1>2, <1>3 DEF CallInv, CallTypes, Cached

\* The account that failed is among those tried when another is looked for.
LEMMA CallFail ==
  ASSUME CallInv, NEW c \in Caller, NEW overload \in BOOLEAN, FailAttempt(c, overload)
  PROVE  CallInv'
<1> DEFINE k == call[c]
           l == [k EXCEPT !.at = "names", !.fallback = TRUE, !.attempt = 0]
<1>1. k \in CallType /\ Ways(k, settled) /\ k.at = "using"
  BY DEF CallInv, CallTypes, FailAttempt, CallAt
<1>2. /\ l \in CallType /\ l.at = "names" /\ l.opus = k.opus
      /\ l.account = k.account /\ l.tried = k.tried
  BY <1>1 DEF CallType, Places
<1>3. call' = [call EXCEPT ![c] = l]
  BY <1>1 DEF FailAttempt, CallInv, CallTypes, CallType
<1>4. /\ settled' = settled /\ active' = active /\ cache' = cache
      /\ tokens' = tokens /\ free' \in Nat
  BY DEF FailAttempt, SlotBack, CallInv, CallTypes
<1> HIDE DEF k, l
<1>5. Good(l, settled) = Good(k, settled)
  BY <1>2 DEF Good
<1>6. Ways(l, settled)
  BY <1>1, <1>2, <1>5 DEF Ways, Trying
<1>7. call' \in [Caller -> CallType] /\ \A d \in Caller : Ways(call'[d], settled')
  BY <1>2, <1>3, <1>4, <1>6, OneCall
<1> QED  BY <1>4, <1>7 DEF CallInv, CallTypes, Cached

LEMMA CallFallbackFails ==
  ASSUME CallInv, NEW c \in Caller, FallbackFails(c)
  PROVE  CallInv'
<1>1. /\ settled' = settled /\ active' = active /\ cache' = cache
      /\ tokens' = tokens /\ free' \in Nat /\ RaiseError(c)
      /\ call[c].at = "using" /\ call[c].fallback
  BY DEF FallbackFails, SlotBack, CallInv, CallTypes, CallAt
<1>2. Cardinality(Good(call[c], settled)) >= 2 => Cardinality(call[c].tried) >= 2
  BY <1>1 DEF CallInv, Ways, Trying
<1>3. call' \in [Caller -> CallType] /\ \A d \in Caller : Ways(call'[d], settled')
  BY <1>1, <1>2, RaiseWays
<1> QED  BY <1>1, <1>3 DEF CallInv, CallTypes, Cached

\* What time and the operator do: fewer accounts are settled.
LEMMA CallEvents ==
  ASSUME CallInv,
         Expire \/ Day \/ \E a \in Account : Toggle(a) \/ Cooled(a)
  PROVE  CallInv'
<1>1. call' = call /\ tokens' = tokens /\ free' = free /\ settled' \in SUBSET settled
  BY DEF Expire, Day, Toggle, Cooled
<1>2. /\ active' \in SUBSET Account /\ settled' \subseteq active'
      /\ cache' \in [names : SUBSET Account, fresh : BOOLEAN]
      /\ cache'.names = cache.names /\ (cache'.fresh => cache.fresh)
  <2>1. CASE Expire
    BY <2>1 DEF Expire, CallInv, CallTypes, Cached
  <2>2. CASE Day \/ \E a \in Account : Cooled(a)
    BY <2>2 DEF Day, Cooled, CallInv, CallTypes, Cached
  <2>3. CASE \E a \in Account : Toggle(a)
    BY <2>3 DEF Toggle, CallInv, CallTypes, Cached
  <2> QED  BY <2>1, <2>2, <2>3
<1>3. \A c \in Caller : Ways(call'[c], settled')
  BY <1>1, WaysShrink DEF CallInv, CallTypes
<1> QED  BY <1>1, <1>2, <1>3 DEF CallInv, CallTypes, Cached

LEMMA CallInit == CallsInit => CallInv
<1> SUFFICES ASSUME CallsInit  PROVE CallInv
  OBVIOUS
<1>1. \A c \in Caller : call[c] = NoCall /\ Ways(call[c], settled)
  BY NoCallWays DEF CallsInit
<1>2. call \in [Caller -> CallType]
  BY NoCallWays DEF CallsInit
<1>3. active \in SUBSET Account /\ settled = active
  BY DEF CallsInit
<1>4. /\ cache \in [names : SUBSET Account, fresh : BOOLEAN] /\ ~cache.fresh
      /\ tokens \in [Account -> Nat] /\ free \in Nat
  BY CallsAssumption DEF CallsInit
<1> QED  BY <1>1, <1>2, <1>3, <1>4 DEF CallInv, CallTypes, Cached

LEMMA CallNext == CallInv /\ [CallsNext]_callVars => CallInv'
<1> SUFFICES ASSUME CallInv, [CallsNext]_callVars  PROVE CallInv'
  OBVIOUS
<1>1. CASE UNCHANGED callVars
  BY <1>1 DEF callVars, CallInv, CallTypes, Cached
<1>2. CASE CallsNext
  BY <1>2, CallEvents, CallReset, CallFetch, CallSelect, CallFallback, CallMove,
     CallFail, CallFallbackFails DEF CallsNext
<1> QED  BY <1>1, <1>2

\* An error reaches the executor only when every way out was tried, for any
\* list of accounts and any number of callers and limits, whatever the calls
\* cache, bench, forgive and cool down for each other.
THEOREM FailsOverCorrect == CallsSpec => []FailsOver
<1>1. CallInv => FailsOver
  <2> SUFFICES ASSUME CallInv  PROVE FailsOver
    OBVIOUS
  <2>1. ASSUME NEW c \in Caller
        PROVE  /\ Good(call[c], settled) # {}
                    => \A a \in call[c].tried : Suits(a, call[c].opus)
               /\ CallAt(c, "raised") /\ Cardinality(Good(call[c], settled)) >= 2
                    => Cardinality(call[c].tried) >= 2
    BY DEF CallInv, Ways, CallAt
  <2> QED  BY <2>1 DEF FailsOver, Good
<1> QED  BY <1>1, CallInit, CallNext, PTL DEF CallsSpec
-----------------------------------------------------------------------------
(* Slots *)

Holders == {c \in Caller : CallAt(c, "using")}

\* A call that takes a slot joins the holders, one that gives it back leaves.
LEMMA HolderMoves ==
  ASSUME CallInv, CallInv', NEW c \in Caller,
         \A d \in Caller \ {c} : call'[d] = call[d], SlotsReturned,
         \/ ~CallAt(c, "using") /\ CallAt(c, "using")' /\ free' = free - 1
         \/ CallAt(c, "using") /\ ~CallAt(c, "using")' /\ free' = free + 1
         \/ (CallAt(c, "using") <=> CallAt(c, "using")') /\ free' = free
  PROVE  SlotsReturned'
<1>1. IsFiniteSet(Holders) /\ Cardinality(Holders) \in Nat
  BY CallsAssumption, FS_Subset, FS_CardinalityType DEF Holders
<1>2. free + Cardinality(Holders) = Slots /\ free \in Nat
  BY DEF SlotsReturned, Holders, CallInv, CallTypes
<1>3. CASE ~CallAt(c, "using") /\ CallAt(c, "using")' /\ free' = free - 1
  <2>1. Holders' = Holders \cup {c} /\ c \notin Holders
    BY <1>3 DEF Holders, CallAt
  <2>2. Cardinality(Holders') = Cardinality(Holders) + 1
    BY <1>1, <2>1, FS_AddElement
  <2>3. free' + Cardinality(Holders') = Slots
    BY <1>1, <1>2, <1>3, <2>2, CallsAssumption
  <2> QED  BY <2>3 DEF SlotsReturned, Holders
<1>4. CASE CallAt(c, "using") /\ ~CallAt(c, "using")' /\ free' = free + 1
  <2>1. Holders' = Holders \ {c} /\ c \in Holders
    BY <1>4 DEF Holders, CallAt
  <2>2. Cardinality(Holders') = Cardinality(Holders) - 1
    BY <1>1, <2>1, FS_RemoveElement
  <2>3. free' + Cardinality(Holders') = Slots
    BY <1>1, <1>2, <1>4, <2>2, CallsAssumption
  <2> QED  BY <2>3 DEF SlotsReturned, Holders
<1>5. CASE (CallAt(c, "using") <=> CallAt(c, "using")') /\ free' = free
  <2>1. Holders' = Holders
    BY <1>5 DEF Holders, CallAt
  <2>2. free' + Cardinality(Holders') = Slots
    BY <1>2, <1>5, <2>1
  <2> QED  BY <2>2 DEF SlotsReturned, Holders
<1> QED  BY <1>3, <1>4, <1>5

LEMMA SlotStep ==
  ASSUME CallInv, CallInv', SlotsReturned, NEW c \in Caller,
         \/ \E opus \in BOOLEAN : BeginCall(c, opus)
         \/ Fetch(c) \/ FetchFails(c)
         \/ \E names \in SUBSET Account : Select(c, names) \/ Fallback(c, names)
         \/ TakeSlot(c) \/ Answer(c) \/ Retry(c) \/ Wake(c) \/ Cancel(c)
         \/ \E overload \in BOOLEAN : FailAttempt(c, overload)
         \/ FallbackFails(c)
  PROVE  SlotsReturned'
<1>0. call \in [Caller -> CallType] /\ call' \in [Caller -> CallType]
  BY DEF CallInv, CallTypes
<1>1. CASE TakeSlot(c)
  <2>1. /\ ~CallAt(c, "using") /\ CallAt(c, "using")' /\ free' = free - 1
        /\ \A d \in Caller \ {c} : call'[d] = call[d]
    BY <1>0, <1>1 DEF TakeSlot, Go, CallAt, CallType
  <2> QED  BY <2>1, HolderMoves
<1>2. CASE \/ Answer(c) \/ Retry(c) \/ FallbackFails(c)
           \/ \E overload \in BOOLEAN : FailAttempt(c, overload)
  <2>1. CallAt(c, "using") /\ free' = free + 1
    BY <1>2 DEF Answer, Retry, FallbackFails, FailAttempt, SlotBack
  <2>2. ~CallAt(c, "using")' /\ \A d \in Caller \ {c} : call'[d] = call[d]
    <3>1. CASE Answer(c)
      BY <1>0, <3>1 DEF Answer, NoCall, CallAt
    <3>2. CASE Retry(c)
      BY <1>0, <3>2 DEF Retry, Go, CallAt, CallType
    <3>3. CASE FallbackFails(c)
      BY <1>0, <3>3 DEF FallbackFails, RaiseError, NoCall, CallAt
    <3>4. ASSUME NEW overload \in BOOLEAN, FailAttempt(c, overload)
          PROVE  ~CallAt(c, "using")' /\ \A d \in Caller \ {c} : call'[d] = call[d]
      BY <1>0, <3>4 DEF FailAttempt, CallAt, CallType
    <3> QED  BY <1>2, <3>1, <3>2, <3>3, <3>4
  <2> QED  BY <2>1, <2>2, HolderMoves
<1>3. CASE Cancel(c)
  <2>1. /\ \A d \in Caller \ {c} : call'[d] = call[d]
        /\ ~CallAt(c, "using")'
        /\ free' = IF CallAt(c, "using") THEN free + 1 ELSE free
    BY <1>0, <1>3 DEF Cancel, NoCall, CallAt, CallType
  <2> QED  BY <2>1, HolderMoves
<1>4. CASE Fetch(c) \/ FetchFails(c) \/ Wake(c) \/ \E opus \in BOOLEAN : BeginCall(c, opus)
  <2>1. ~CallAt(c, "using") /\ free' = free
    BY <1>4 DEF Fetch, FetchFails, Wake, BeginCall, CallAt
  <2>2. ~CallAt(c, "using")' /\ \A d \in Caller \ {c} : call'[d] = call[d]
    <3>1. CASE Fetch(c)
      BY <1>0, <3>1 DEF Fetch, CallAt, CallType
    <3>2. CASE FetchFails(c)
      BY <1>0, <3>2 DEF FetchFails, CallAt, CallType
    <3>3. CASE Wake(c)
      BY <1>0, <3>3 DEF Wake, CallAt, CallType
    <3>4. ASSUME NEW opus \in BOOLEAN, BeginCall(c, opus)
          PROVE  ~CallAt(c, "using")' /\ \A d \in Caller \ {c} : call'[d] = call[d]
      BY <1>0, <3>4 DEF BeginCall, NoCall, CallAt
    <3> QED  BY <1>4, <3>1, <3>2, <3>3, <3>4
  <2> QED  BY <2>1, <2>2, HolderMoves
<1>5. ASSUME NEW names \in SUBSET Account, Select(c, names) \/ Fallback(c, names)
      PROVE  SlotsReturned'
  <2>1. Named(c, names) /\ free' = free /\ (RaiseError(c) \/ \E a : Assign(c, a))
    BY <1>5 DEF Select, Fallback
  <2>2. ~CallAt(c, "using")
    BY <2>1 DEF Named, CallAt
  <2>3. ~CallAt(c, "using")' /\ \A d \in Caller \ {c} : call'[d] = call[d]
    <3>1. CASE RaiseError(c)
      BY <1>0, <3>1 DEF RaiseError, NoCall, CallAt
    <3>2. ASSUME NEW a, Assign(c, a)
          PROVE  ~CallAt(c, "using")' /\ \A d \in Caller \ {c} : call'[d] = call[d]
      BY <1>0, <3>2 DEF Assign, CallAt, CallType
    <3> QED  BY <2>1, <3>1, <3>2
  <2> QED  BY <2>1, <2>2, <2>3, HolderMoves
<1> QED  BY <1>1, <1>2, <1>3, <1>4, <1>5

LEMMA SlotNext == CallInv /\ CallInv' /\ SlotsReturned /\ [CallsNext]_callVars => SlotsReturned'
<1> SUFFICES ASSUME CallInv, CallInv', SlotsReturned, [CallsNext]_callVars
             PROVE  SlotsReturned'
  OBVIOUS
<1>1. CASE \/ UNCHANGED callVars \/ Expire \/ Day
           \/ \E a \in Account : Toggle(a) \/ Cooled(a)
  <2>1. free' = free /\ call' = call
    BY <1>1 DEF callVars, Expire, Day, Toggle, Cooled
  <2> QED  BY <2>1 DEF SlotsReturned, CallAt
<1>2. CASE CallsNext
  BY <1>1, <1>2, SlotStep DEF CallsNext
<1> QED  BY <1>1, <1>2

\* The slots of the semaphore are all accounted for, whatever ends an attempt,
\* for any number of callers, slots, accounts and retries.
THEOREM SlotsReturnedCorrect == CallsSpec => []SlotsReturned
<1>1. CallsInit => SlotsReturned
  <2> SUFFICES ASSUME CallsInit  PROVE SlotsReturned
    OBVIOUS
  <2>1. {c \in Caller : CallAt(c, "using")} = {}
    BY DEF CallsInit, CallAt, NoCall
  <2>2. free + 0 = Slots
    BY CallsAssumption DEF CallsInit
  <2> QED  BY <2>1, <2>2, FS_EmptySet DEF SlotsReturned
<1> QED  BY <1>1, CallInit, CallNext, SlotNext, PTL DEF CallsSpec
-----------------------------------------------------------------------------
(* The circuit *)

BreakerTypes ==
  /\ state \in {"CLOSED", "OPEN", "HALF_OPEN"}
  /\ failureCount \in Nat /\ successCount \in Nat
  /\ streak \in [good : Nat, bad : Nat]

\* The counters of the row never run ahead of the real streaks: a late answer
\* of a call that began in another state may count, but only as what it is.
Counted ==
  /\ state = "HALF_OPEN" => successCount <= streak.good
  /\ state = "CLOSED" => failureCount <= streak.bad

BreakerInv == BreakerTypes /\ Counted

LEMMA Streaks ==
  ASSUME BreakerTypes
  PROVE  /\ streak.good \in Nat /\ streak.bad \in Nat
         /\ Succeed \in [good : Nat, bad : Nat]
         /\ Succeed.good = streak.good + 1 /\ Succeed.bad = 0
         /\ FailOnce \in [good : Nat, bad : Nat]
         /\ FailOnce.good = 0 /\ FailOnce.bad = streak.bad + 1
         /\ NoStreak \in [good : Nat, bad : Nat]
         /\ NoStreak.good = 0 /\ NoStreak.bad = 0
  BY DEF BreakerTypes, Succeed, FailOnce, NoStreak

\* The steps that touch neither the row's counters nor the state.
LEMMA BreakerSame ==
  ASSUME BreakerInv, state' = state, failureCount' = failureCount,
         successCount' = successCount, streak' = streak
  PROVE  BreakerInv'
  BY DEF BreakerInv, BreakerTypes, Counted

LEMMA BreakerHalfOpen ==
  ASSUME BreakerInv, NEW c \in User, HalfOpen(c)
  PROVE  BreakerInv'
<1>1. CASE state = "OPEN"
  <2>1. /\ state' = "HALF_OPEN" /\ successCount' = 0 /\ streak' = NoStreak
        /\ failureCount' = failureCount
    BY <1>1 DEF HalfOpen
  <2> QED  BY <2>1, Streaks DEF BreakerInv, BreakerTypes, Counted
<1>2. CASE state # "OPEN"
  BY <1>2, BreakerSame DEF HalfOpen
<1> QED  BY <1>1, <1>2

LEMMA BreakerSuccess ==
  ASSUME BreakerInv, NEW c \in User, RecordSuccess(c)
  PROVE  /\ BreakerInv'
         /\ state = "HALF_OPEN" /\ state' = "CLOSED" => streak.good >= HalfOpenMax - 1
         /\ state = "CLOSED" => state' = "CLOSED"
<1>0. BreakerTypes /\ streak.good \in Nat /\ streak.bad \in Nat
  BY Streaks DEF BreakerInv
<1>1. CASE state = "HALF_OPEN" /\ successCount + 1 >= HalfOpenMax
  <2>0. ~(successCount + 1 < HalfOpenMax)
    BY <1>0, <1>1, BreakerAssumption DEF BreakerTypes
  <2>1. /\ state' = "CLOSED" /\ failureCount' = 0 /\ successCount' = 0
        /\ streak' = NoStreak
    BY <1>1, <2>0 DEF RecordSuccess
  <2>2. BreakerInv'
    BY <2>1, <1>0, Streaks DEF BreakerInv, BreakerTypes, Counted
  <2>3. streak.good >= HalfOpenMax - 1
    BY <1>0, <1>1, BreakerAssumption DEF BreakerInv, BreakerTypes, Counted
  <2> QED  BY <1>1, <2>1, <2>2, <2>3
<1>2. CASE state = "HALF_OPEN" /\ ~(successCount + 1 >= HalfOpenMax)
  <2>0. successCount + 1 < HalfOpenMax
    BY <1>0, <1>2, BreakerAssumption DEF BreakerTypes
  <2>1. /\ successCount' = successCount + 1 /\ streak' = Succeed
        /\ state' = state /\ failureCount' = failureCount
    BY <1>2, <2>0 DEF RecordSuccess
  <2>2. BreakerInv'
    BY <1>0, <1>2, <2>1, Streaks DEF BreakerInv, BreakerTypes, Counted
  <2> QED  BY <1>2, <2>1, <2>2
<1>3. CASE state = "CLOSED"
  <2>1. /\ failureCount' = 0 /\ successCount' = 0 /\ streak' = Succeed
        /\ state' = state
    BY <1>3 DEF RecordSuccess
  <2>2. BreakerInv'
    BY <1>0, <1>3, <2>1, Streaks DEF BreakerInv, BreakerTypes, Counted
  <2> QED  BY <1>3, <2>1, <2>2
<1>4. CASE state = "OPEN"
  <2>1. /\ state' = state /\ failureCount' = failureCount /\ successCount' = successCount
        /\ streak' = streak
    BY <1>4 DEF RecordSuccess
  <2> QED  BY <1>4, <2>1, BreakerSame
<1> QED  BY <1>0, <1>1, <1>2, <1>3, <1>4 DEF BreakerTypes

LEMMA BreakerFailure ==
  ASSUME BreakerInv, NEW c \in User, RecordFailure(c)
  PROVE  /\ BreakerInv'
         /\ state = "CLOSED" /\ state' = "OPEN" => streak.bad >= FailureThreshold - 1
         /\ state' = "CLOSED" => state = "CLOSED"
<1>0. BreakerTypes /\ streak.good \in Nat /\ streak.bad \in Nat
  BY Streaks DEF BreakerInv
<1>1. failureCount' = failureCount + 1 /\ successCount' = 0
  BY DEF RecordFailure
<1>2. CASE failureCount + 1 >= FailureThreshold /\ state = "CLOSED"
  <2>1. state' = "OPEN" /\ streak' = NoStreak
    BY <1>2 DEF RecordFailure
  <2>2. BreakerInv'
    BY <1>0, <1>1, <2>1, Streaks DEF BreakerInv, BreakerTypes, Counted
  <2>3. streak.bad >= FailureThreshold - 1
    BY <1>0, <1>2, BreakerAssumption DEF BreakerInv, BreakerTypes, Counted
  <2> QED  BY <2>1, <2>2, <2>3
<1>3. CASE ~(failureCount + 1 >= FailureThreshold /\ state = "CLOSED")
  <2>1. state' = state /\ streak' = FailOnce
    BY <1>3 DEF RecordFailure
  <2>2. BreakerInv'
    BY <1>0, <1>1, <2>1, Streaks DEF BreakerInv, BreakerTypes, Counted
  <2> QED  BY <2>1, <2>2
<1> QED  BY <1>2, <1>3

Honest ==
  /\ state = "HALF_OPEN" /\ state' = "CLOSED" => streak.good >= HalfOpenMax - 1
  /\ state = "CLOSED" /\ state' = "OPEN" => streak.bad >= FailureThreshold - 1

LEMMA BreakerStart == BreakerInit => BreakerInv
  BY DEF BreakerInit, BreakerInv, BreakerTypes, Counted

LEMMA BreakerKept ==
  BreakerInv /\ [BreakerNext]_breakerVars => BreakerInv' /\ [Honest]_breakerVars
<1> SUFFICES ASSUME BreakerInv, [BreakerNext]_breakerVars
             PROVE  BreakerInv' /\ Honest
  OBVIOUS
<1>1. CASE \/ UNCHANGED breakerVars \/ Timeout
           \/ \E c \in User : Check(c) \/ ReadOpened(c) \/ Judge(c)
  <2>1. /\ state' = state /\ failureCount' = failureCount
        /\ successCount' = successCount /\ streak' = streak
    BY <1>1 DEF breakerVars, Timeout, Check, ReadOpened, Judge
  <2>2. BreakerInv'
    BY <2>1, BreakerSame
  <2> QED  BY <2>1, <2>2 DEF Honest
<1>2. ASSUME NEW c \in User, HalfOpen(c)
      PROVE  BreakerInv' /\ Honest
  <2>1. (state' = "HALF_OPEN" /\ state = "OPEN") \/ state' = state
    BY <1>2 DEF HalfOpen
  <2> QED  BY <1>2, <2>1, BreakerHalfOpen DEF Honest
<1>3. ASSUME NEW c \in User, RecordSuccess(c)
      PROVE  BreakerInv' /\ Honest
  BY <1>3, BreakerSuccess DEF Honest
<1>4. ASSUME NEW c \in User, RecordFailure(c)
      PROVE  BreakerInv' /\ Honest
  BY <1>4, BreakerFailure DEF Honest
<1> QED  BY <1>1, <1>2, <1>3, <1>4 DEF BreakerNext

\* However the answers of calls mix that began in another state: a circuit
\* closes only after HALF_OPEN_MAX_CALLS successes in a row since it was
\* half-open, and opens only after FAILURE_THRESHOLD failures in a row, for
\* any number of callers and any thresholds.
THEOREM HonestCorrect == BreakerSpec => BreakerHonest
<1>1. BreakerSpec => []BreakerInv /\ [][BreakerNext]_breakerVars
  BY BreakerStart, BreakerKept, PTL DEF BreakerSpec
<1>2. BreakerSpec => [][Honest]_breakerVars
  BY <1>1, BreakerKept, PTL
<1> QED  BY <1>2, PTL DEF BreakerHonest, Honest

-----------------------------------------------------------------------------
(* Budgets *)

Spending == {"NOT_STARTED", "over", "calling", "COMPLETED", "counted", "used",
             "read", "moved", "BLOCKED"}

Amounts == [Phase -> Int]

BudgetTypes ==
  /\ override \in Amounts /\ usage \in Amounts
  /\ log \in Nat
  /\ node \in [Node -> [state : Spending, usage : Amounts, override : Amounts]]

\* The nodes whose reallocation has passed the limit and has no row yet.
Reallocating == {n \in Node : node[n].state \in {"counted", "used", "read", "moved"}}

\* What is stored, and what a reallocation has read and will write over it,
\* adds up; and the rows to come have been reckoned with.
BudgetInv ==
  /\ BudgetTypes
  /\ Total(override) = Total(Allotted)
  /\ \A n \in Node : node[n].state = "read" => Total(node[n].override) = Total(Allotted)
  /\ log + Cardinality(Reallocating) <= MaxReallocs + Cardinality(Node) - 1

LEMMA UnusedType == Unused \in Amounts /\ Allotted \in Amounts
BY BudgetAssumption DEF Unused, Amounts

\* What one phase gives the other gets.
LEMMA TotalKept ==
  ASSUME NEW limits \in Amounts, NEW p \in Phase, NEW q \in Phase, p # q, NEW x \in Int
  PROVE  LET moved == [limits EXCEPT ![p] = @ - x, ![q] = @ + x]
         IN  moved \in Amounts /\ Total(moved) = Total(limits)
<1> DEFINE moved == [limits EXCEPT ![p] = @ - x, ![q] = @ + x]
<1>1. \A r \in Phase : limits[r] \in Int
  BY DEF Amounts
<1>2. /\ moved[p] = limits[p] - x /\ moved[q] = limits[q] + x
      /\ \A r \in Phase \ {p, q} : moved[r] = limits[r]
  BY DEF Amounts
<1>3. moved \in Amounts
  BY <1>1 DEF Amounts
<1> HIDE DEF moved
<1>4. Total(moved) = Total(limits)
  BY <1>1, <1>2 DEF Total, Phase
<1> QED BY <1>3, <1>4 DEF moved

\* One node starts or ends a reallocation.
LEMMA ReallocatingStep ==
  ASSUME NEW n \in Node, \A m \in Node \ {n} : node'[m] = node[m]
  PROVE  /\ Cardinality(Reallocating) \in Nat /\ Cardinality(Node) \in Nat
         /\ Cardinality(Reallocating) <= Cardinality(Node)
         /\ n \notin Reallocating =>
              /\ Cardinality(Reallocating') <= Cardinality(Reallocating) + 1
              /\ Cardinality(Reallocating) <= Cardinality(Node) - 1
              /\ n \notin Reallocating' => Cardinality(Reallocating') = Cardinality(Reallocating)
         /\ n \in Reallocating =>
              /\ n \in Reallocating' => Cardinality(Reallocating') = Cardinality(Reallocating)
              /\ n \notin Reallocating' =>
                   Cardinality(Reallocating') = Cardinality(Reallocating) - 1
<1> DEFINE R == Reallocating
           S == Reallocating'
<1>1. R \subseteq Node /\ S \subseteq Node /\ IsFiniteSet(Node)
  BY BudgetAssumption DEF Reallocating
<1>2. IsFiniteSet(R) /\ IsFiniteSet(S) /\ Cardinality(R) \in Nat /\ Cardinality(Node) \in Nat
      /\ Cardinality(R) <= Cardinality(Node)
  BY <1>1, FS_Subset, FS_CardinalityType
<1>3. R \ {n} = S \ {n}
  BY DEF Reallocating
<1> HIDE DEF R, S
<1>4. ASSUME n \notin R
      PROVE  /\ Cardinality(S) <= Cardinality(R) + 1
             /\ Cardinality(R) <= Cardinality(Node) - 1
             /\ n \notin S => Cardinality(S) = Cardinality(R)
  <2>1. Cardinality(R \cup {n}) = Cardinality(R) + 1
    BY <1>2, <1>4, FS_AddElement
  <2>2. Cardinality(R \cup {n}) <= Cardinality(Node)
    BY <1>1, FS_Subset
  <2>3. n \notin S => S = R
    BY <1>3, <1>4
  <2>4. n \in S => S = R \cup {n}
    BY <1>3, <1>4
  <2>5. Cardinality(R) <= Cardinality(Node) - 1
    BY <1>2, <2>1, <2>2
  <2>6. CASE n \in S
    <3>1. Cardinality(S) = Cardinality(R) + 1
      BY <2>1, <2>4, <2>6
    <3>2. Cardinality(S) <= Cardinality(R) + 1
      BY <1>2, <3>1
    <3> QED BY <2>5, <2>6, <3>2
  <2>7. CASE n \notin S
    <3>1. Cardinality(S) = Cardinality(R)
      BY <2>3, <2>7
    <3> QED BY <1>2, <2>5, <3>1
  <2> QED BY <2>6, <2>7
<1>5. ASSUME n \in R
      PROVE  /\ n \in S => Cardinality(S) = Cardinality(R)
             /\ n \notin S => Cardinality(S) = Cardinality(R) - 1
  <2>1. n \in S => S = R
    BY <1>3, <1>5
  <2>2. n \notin S => S = R \ {n}
    BY <1>3, <1>5
  <2>3. Cardinality(R \ {n}) = Cardinality(R) - 1
    BY <1>2, <1>5, FS_RemoveElement
  <2> QED BY <2>1, <2>2, <2>3
<1> QED BY <1>2, <1>4, <1>5 DEF R, S

LEMMA BudgetStart == BudgetInit => BudgetInv
<1> SUFFICES ASSUME BudgetInit PROVE BudgetInv
  OBVIOUS
<1>1. BudgetTypes
  BY UnusedType DEF BudgetInit, BudgetTypes, Fresh, Spending
<1>2. Reallocating = {}
  BY DEF Reallocating, BudgetInit, Fresh
<1>3. Cardinality(Reallocating) = 0 /\ Cardinality(Node) \in Nat /\ Cardinality(Node) # 0
  BY <1>2, BudgetAssumption, FS_EmptySet, FS_CardinalityType
<1>4. log = 0 /\ MaxReallocs \in Nat
  BY BudgetAssumption DEF BudgetInit
<1> QED BY <1>1, <1>3, <1>4 DEF BudgetInv, BudgetInit, Fresh

LEMMA BudgetStep == BudgetInv /\ [BudgetNext]_budgetVars => BudgetInv'
<1> SUFFICES ASSUME BudgetInv, [BudgetNext]_budgetVars PROVE BudgetInv'
  OBVIOUS
<1>1. CASE UNCHANGED budgetVars
  BY <1>1 DEF budgetVars, BudgetInv, BudgetTypes, Reallocating
<1>2. ASSUME NEW n \in Node,
             \/ PreCall(n) \/ Record(n) \/ Count(n) \/ ReadUsage(n)
             \/ ReadLimit(n) \/ Write(n) \/ NoDonor(n) \/ Log(n)
      PROVE  BudgetInv'
  <2> DEFINE Put(place) == /\ node' \in [Node -> [state : Spending, usage : Amounts, override : Amounts]]
                           /\ \A m \in Node \ {n} : node'[m] = node[m]
                           /\ node'[n].state = place
  <2>0. /\ node \in [Node -> [state : Spending, usage : Amounts, override : Amounts]]
        /\ log \in Nat /\ MaxReallocs \in Nat /\ override \in Amounts
    BY BudgetAssumption DEF BudgetInv, BudgetTypes
  <2>1. ASSUME NEW place \in Spending, Becomes(n, place) PROVE Put(place)
    BY <2>0, <2>1, UnusedType DEF Becomes, Fresh
  <2>2. ASSUME NEW place \in Spending, Put(place),
               override' \in Amounts, usage' \in Amounts, log' \in Nat,
               Total(override') = Total(Allotted),
               place = "read" => Total(node'[n].override) = Total(Allotted),
               log' + Cardinality(Reallocating') <= MaxReallocs + Cardinality(Node) - 1
        PROVE  BudgetInv'
    BY <2>2 DEF BudgetInv, BudgetTypes
  <2>3. \A m \in Node \ {n} : node'[m] = node[m]
    BY <1>2, <2>0 DEF PreCall, Record, Count, ReadUsage, ReadLimit, Write, NoDonor, Log, Becomes
  <2>4. usage' \in Amounts
    <3>1. ASSUME NEW used \in 1..MaxUse, usage' = [usage EXCEPT ![PhaseOf[n]] = @ + used]
          PROVE  usage' \in Amounts
      <4>1. used \in Int /\ usage \in [Phase -> Int] /\ PhaseOf[n] \in Phase
        BY BudgetAssumption DEF BudgetInv, BudgetTypes, Amounts
      <4>2. usage[PhaseOf[n]] + used \in Int
        BY <4>1
      <4> QED BY <3>1, <4>1, <4>2 DEF Amounts
    <3>2. usage \in Amounts
      BY DEF BudgetInv, BudgetTypes
    <3> QED BY <1>2, <3>1, <3>2 DEF PreCall, Record, Count, ReadUsage, ReadLimit, Write, NoDonor, Log
  <2>5. Total(override) = Total(Allotted)
        /\ log + Cardinality(Reallocating) <= MaxReallocs + Cardinality(Node) - 1
    BY DEF BudgetInv
  <2>6. ASSUME n \notin Reallocating, n \notin Reallocating', UNCHANGED <<override, log>>,
               NEW place \in Spending, place # "read", Put(place)
        PROVE  BudgetInv'
    BY <2>0, <2>2, <2>3, <2>4, <2>5, <2>6, ReallocatingStep
  <2>7. CASE PreCall(n) \/ Record(n)
    <3>1. PICK place \in {"over", "calling", "COMPLETED"} : Becomes(n, place)
      BY <2>7 DEF PreCall, Record
    <3>2. place \in Spending /\ Put(place)
      BY <2>1, <3>1 DEF Spending
    <3>3. n \notin Reallocating /\ n \notin Reallocating'
      BY <2>7, <3>1, <3>2 DEF PreCall, Record, Is, Reallocating
    <3> QED BY <2>6, <2>7, <3>1, <3>2, <3>3 DEF PreCall, Record
  <2>8. CASE Count(n)
    <3>1. CASE MayRealloc
      <4>1. Put("counted")
        BY <2>1, <2>8, <3>1 DEF Count, Spending
      <4>2. n \notin Reallocating
        BY <2>8 DEF Count, Is, Reallocating
      <4>3. log <= MaxReallocs - 1 /\ UNCHANGED <<override, log>>
        BY <2>0, <2>8, <3>1 DEF Count, MayRealloc
      <4>4. Cardinality(Reallocating') \in Nat /\ Cardinality(Reallocating') <= Cardinality(Node)
            /\ Cardinality(Node) \in Nat
        BY BudgetAssumption, FS_Subset, FS_CardinalityType DEF Reallocating
      <4> QED BY <2>0, <2>2, <2>4, <2>5, <4>1, <4>3, <4>4 DEF Spending
    <3>2. CASE ~MayRealloc
      <4>1. Put("BLOCKED")
        BY <2>1, <2>8, <3>2 DEF Count, Spending
      <4> QED BY <2>6, <2>8, <4>1 DEF Count, Is, Reallocating, Spending
    <3> QED BY <3>1, <3>2
  <2>9. CASE ReadUsage(n)
    <3>1. Put("used")
      BY <2>0, <2>9 DEF ReadUsage, Spending, BudgetInv, BudgetTypes
    <3>2. n \in Reallocating /\ n \in Reallocating'
      BY <2>9, <3>1 DEF ReadUsage, Is, Reallocating
    <3> QED BY <2>0, <2>2, <2>3, <2>4, <2>5, <2>9, <3>1, <3>2, ReallocatingStep DEF ReadUsage, Spending
  <2>10. CASE ReadLimit(n)
    <3>1. Put("read") /\ node'[n].override = override
      BY <2>0, <2>10 DEF ReadLimit, Spending
    <3>2. n \in Reallocating /\ n \in Reallocating'
      BY <2>10, <3>1 DEF ReadLimit, Is, Reallocating
    <3> QED BY <2>0, <2>2, <2>3, <2>4, <2>5, <2>10, <3>1, <3>2, ReallocatingStep DEF ReadLimit, Spending
  <2>11. CASE Write(n)
    <3>1. Put("moved")
      BY <2>1, <2>11 DEF Write, Spending
    <3>2. n \in Reallocating /\ n \in Reallocating'
      BY <2>11, <3>1 DEF Write, Is, Reallocating
    <3>3. override' \in Amounts /\ Total(override') = Total(Allotted)
      <4>1. PICK i \in 1..3 : /\ Chosen(n, i)
                              /\ override' = [node[n].override EXCEPT ![Donors[i]] = @ - Transfer,
                                                                     ![PhaseOf[n]] = @ + Transfer]
        BY <2>11 DEF Write
      <4>2. Donors[i] \in Phase /\ Donors[i] # PhaseOf[n] /\ PhaseOf[n] \in Phase
        BY <4>1, BudgetAssumption DEF Chosen, Able, Donors, Phase
      <4>3. node[n].override \in Amounts /\ Total(node[n].override) = Total(Allotted)
        BY <2>0, <2>11 DEF BudgetInv, Write, Is
      <4>4. Transfer \in Int
        BY BudgetAssumption DEF Transfer
      <4> QED BY <4>1, <4>2, <4>3, <4>4, TotalKept
    <3> QED BY <2>0, <2>2, <2>3, <2>4, <2>5, <2>11, <3>1, <3>2, <3>3, ReallocatingStep DEF Write, Spending
  <2>12. CASE NoDonor(n)
    <3>1. Put("BLOCKED")
      BY <2>1, <2>12 DEF NoDonor, Spending
    <3>2. n \in Reallocating /\ n \notin Reallocating'
      BY <2>12, <3>1 DEF NoDonor, Is, Reallocating
    <3> QED BY <2>0, <2>2, <2>3, <2>4, <2>5, <2>12, <3>1, <3>2, ReallocatingStep DEF NoDonor, Spending
  <2>13. CASE Log(n)
    <3>1. Put("NOT_STARTED")
      BY <2>1, <2>13 DEF Log, Spending
    <3>2. n \in Reallocating /\ n \notin Reallocating'
      BY <2>13, <3>1 DEF Log, Is, Reallocating
    <3> QED BY <2>0, <2>2, <2>3, <2>4, <2>5, <2>13, <3>1, <3>2, ReallocatingStep DEF Log, Spending
  <2> QED BY <1>2, <2>7, <2>8, <2>9, <2>10, <2>11, <2>12, <2>13
<1> QED BY <1>1, <1>2 DEF BudgetNext

\* try_budget_realloc moves budget and makes none, and ends: for any nodes,
\* first limits and use, however the statements of reallocations interleave,
\* the limits add up and there are no more rows in the log than the allowed
\* ones and one for each other node.
THEOREM BudgetCorrect == BudgetSpec => []BudgetKept
<1>1. BudgetInv => BudgetKept
  <2> SUFFICES ASSUME BudgetInv PROVE BudgetKept
    OBVIOUS
  <2>1. Cardinality(Reallocating) \in Nat /\ Cardinality(Node) \in Nat
    BY BudgetAssumption, FS_Subset, FS_CardinalityType DEF Reallocating
  <2>2. log \in Nat /\ MaxReallocs \in Nat
    BY BudgetAssumption DEF BudgetInv, BudgetTypes
  <2> QED BY <2>1, <2>2 DEF BudgetInv, BudgetKept
<1> QED BY <1>1, BudgetStart, BudgetStep, PTL DEF BudgetSpec
=============================================================================
