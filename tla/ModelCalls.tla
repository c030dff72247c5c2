----------------------------- MODULE ModelCalls -----------------------------
(***************************************************************************)
(* Calls of the model through several CLI accounts: AccountRouter          *)
(* (src/engine/ai/account_router.py) chooses an account, CLIProxyAdapter   *)
(* (src/engine/ai/model_adapter.py) runs the CLI with a slot of the API    *)
(* semaphore and tries again after a transient error.  Every step is what  *)
(* a coroutine does between two awaits; the router's lock covers no await. *)
(***************************************************************************)
EXTENDS FiniteSets, Naturals, Sequences

CONSTANTS Caller,
          Accounts,        \* the router's list, by priority
          Tier,            \* [account -> "max" | "pro"]
          Slots,           \* V8_API_CONCURRENCY
          CallRetries,      \* retries of _retry_on_transient
          FailureLimit,    \* failures in a row that bench an account
          OverloadLimit,   \* OVERLOAD_THRESHOLD
          Warn,            \* MAX_DAILY_TOKENS_WARN, in answers
          MaxCalls,        \* bound: the calls
          MaxEvents        \* bound: switches, failed reads, expiries and days

Account == {Accounts[i] : i \in DOMAIN Accounts}
Place(a) == CHOOSE i \in DOMAIN Accounts : Accounts[i] = a
Nothing == "none"

ASSUME CallsAssumption == /\ Accounts \in Seq(Account)
                          /\ IsFiniteSet(Caller) /\ Slots \in Nat

VARIABLES active,      \* the accounts with is_active=1 in the table
          cache,       \* _active_names_cache, and whether its TTL lasts
          failures, overloads, cooling, tokens, aged,  \* the AccountStats
          free,        \* free slots of _api_semaphore
          call,        \* [Caller -> its call]
          settled,     \* ghost: the accounts nobody has switched
          calls, events

callVars == <<active, cache, failures, overloads, cooling, tokens, aged, free,
              call, settled, calls, events>>

NoCall == [at |-> "idle", opus |-> FALSE, names |-> {}, account |-> Nothing,
           fallback |-> FALSE, tried |-> {}, attempt |-> 0]

CallsInit == /\ active \in {Account, {}} /\ cache = [names |-> {}, fresh |-> FALSE]
             /\ failures = [a \in Account |-> 0] /\ overloads = [a \in Account |-> 0]
             /\ cooling = {} /\ tokens = [a \in Account |-> 0] /\ aged = {}
             /\ free = Slots /\ call = [c \in Caller |-> NoCall]
             /\ settled = active /\ calls = 0 /\ events = 0

CallAt(c, place) == call[c].at = place
Go(c, place) == call' = [call EXCEPT ![c].at = place]

Happens == events < MaxEvents /\ events' = events + 1

\* What time and the operator do.
Toggle(a) == /\ Happens
             /\ active' = IF a \in active THEN active \ {a} ELSE active \cup {a}
             /\ settled' = settled \ {a}
             /\ UNCHANGED <<cache, failures, overloads, cooling, tokens, aged,
                            free, call, calls>>
Expire == /\ cache.fresh /\ Happens
          /\ cache' = [cache EXCEPT !.fresh = FALSE]
          /\ UNCHANGED <<active, failures, overloads, cooling, tokens, aged,
                         free, call, settled, calls>>
Cooled(a) == /\ a \in cooling /\ cooling' = cooling \ {a}
             /\ UNCHANGED <<active, cache, failures, overloads, tokens, aged,
                            free, call, settled, calls, events>>
Day == /\ Happens /\ aged' = Account
       /\ UNCHANGED <<active, cache, failures, overloads, cooling, tokens, free,
                      call, settled, calls>>

BeginCall(c, opus) ==
  /\ CallAt(c, "idle") \/ CallAt(c, "raised")
  /\ calls < MaxCalls /\ calls' = calls + 1
  /\ call' = [call EXCEPT ![c] = [NoCall EXCEPT !.at = "names", !.opus = opus]]
  /\ UNCHANGED <<active, cache, failures, overloads, cooling, tokens, aged, free,
                 settled, events>>

(***************************************************************************)
(* _get_active_names: the cached names for thirty seconds, else the table; *)
(* what was read is cached when the coroutine goes on; a failed read is    *)
(* not cached and allows every account.                                    *)
(***************************************************************************)
Fetch(c) == /\ CallAt(c, "names") /\ ~cache.fresh
            /\ call' = [call EXCEPT ![c].at = "fetched", ![c].names = active]
            /\ UNCHANGED <<active, cache, failures, overloads, cooling, tokens,
                           aged, free, settled, calls, events>>
FetchFails(c) == /\ CallAt(c, "names") /\ ~cache.fresh /\ Happens
                 /\ call' = [call EXCEPT ![c].at = "blind", ![c].names = Account]
                 /\ UNCHANGED <<active, cache, failures, overloads, cooling,
                                tokens, aged, free, settled, calls>>
\* The names the call goes on with, and what it leaves in the cache.
Named(c, names) == \/ /\ CallAt(c, "names") /\ cache.fresh /\ names = cache.names
                      /\ UNCHANGED cache
                   \/ /\ CallAt(c, "fetched") /\ names = call[c].names
                      /\ cache' = [names |-> names, fresh |-> TRUE]
                   \/ /\ CallAt(c, "blind") /\ names = call[c].names
                      /\ UNCHANGED cache

(***************************************************************************)
(* The choice of an account.                                               *)
(***************************************************************************)
Suits(a, opus) == opus => Tier[a] = "max"
Rested(a) == failures[a] < FailureLimit /\ a \notin cooling
Used(a) == IF a \in aged THEN 0 ELSE tokens[a]   \* after _maybe_reset_daily
\* A max account past the day's warning is kept for Opus while a pro can serve.
Preserved(a, names, opus) ==
  /\ ~opus /\ Tier[a] = "max" /\ Used(a) >= Warn
  /\ \E p \in names : Tier[p] = "pro" /\ Rested(p)
Candidates(names, opus) ==
  {a \in names : Suits(a, opus) /\ Rested(a) /\ ~Preserved(a, names, opus)}
LeastUsed(s) == CHOOSE a \in s : \A b \in s : \/ Used(a) < Used(b)
                                              \/ Used(a) = Used(b) /\ Place(a) <= Place(b)
\* Mutant: the last resort takes any active account, pro for Opus too.
ForcedAny(names, opus) == names

\* With nobody left the active accounts' failures are forgiven, and cool-down
\* and preservation ignored; an Opus call takes a pro when no max is active.
Forced(names, opus) == IF \E a \in names : Suits(a, opus)
                       THEN {a \in names : Suits(a, opus)} ELSE names

Assign(c, a) ==
  call' = [call EXCEPT ![c].at = "waiting", ![c].account = a, ![c].names = {},
                       ![c].tried = @ \cup {a}]
RaiseError(c) == call' = [call EXCEPT ![c] = [NoCall EXCEPT !.at = "raised",
                                         !.opus = call[c].opus, !.tried = call[c].tried]]

Select(c, names) ==
  LET good == Candidates(names, call[c].opus)
  IN /\ ~call[c].fallback /\ Named(c, names)
     /\ tokens' = [a \in Account |-> Used(a)] /\ aged' = {}
     /\ \/ /\ good # {} /\ Assign(c, LeastUsed(good))
           /\ UNCHANGED failures
        \/ /\ good = {} /\ names # {}
           /\ failures' = [a \in Account |-> IF a \in names THEN 0 ELSE failures[a]]
           /\ Assign(c, LeastUsed(Forced(names, call[c].opus)))
        \/ /\ good = {} /\ names = {}
           /\ RaiseError(c) /\ UNCHANGED failures
     /\ UNCHANGED <<active, overloads, cooling, free, settled, calls, events>>

\* Mutant: the account that failed is not left out, and its return ends the call.
OthersAll(c, names) == {a \in names : Suits(a, call[c].opus)}

\* _select_fallback: the first other active account, benched or not.
Others(c, names) == {a \in names : a # call[c].account /\ Suits(a, call[c].opus)}

Fallback(c, names) ==
  LET others == Others(c, names)
      first == CHOOSE a \in others : \A b \in others : Place(a) <= Place(b)
  IN /\ call[c].fallback /\ Named(c, names)
     /\ IF others # {} /\ first # call[c].account THEN Assign(c, first) ELSE RaiseError(c)
     /\ UNCHANGED <<active, failures, overloads, cooling, tokens, aged, free,
                    settled, calls, events>>

(***************************************************************************)
(* The adapter: a slot for each attempt, none while it backs off.          *)
(***************************************************************************)
TakeSlot(c) == /\ CallAt(c, "waiting") /\ free > 0 /\ free' = free - 1
               /\ Go(c, "using")
               /\ UNCHANGED <<active, cache, failures, overloads, cooling, tokens,
                              aged, settled, calls, events>>
\* An answer: the router adds it up in the same step.  The fallback's answer
\* clears no failures.
Answer(c) ==
  LET a == call[c].account IN
  /\ CallAt(c, "using") /\ free' = free + 1
  /\ call' = [call EXCEPT ![c] = NoCall]
  /\ tokens' = [tokens EXCEPT ![a] = @ + 1]
  /\ IF call[c].fallback THEN UNCHANGED <<failures, overloads>>
     ELSE /\ failures' = [failures EXCEPT ![a] = 0]
          /\ overloads' = [overloads EXCEPT ![a] = IF @ > 0 THEN @ - 1 ELSE 0]
  /\ UNCHANGED <<active, cache, cooling, aged, settled, calls, events>>

\* Mutant: only an answer gives the slot back, not an error.
SlotBackNever == free

\* The finally of an attempt that ends with an error.
SlotBack == free + 1

\* Overload and network errors are tried again, after a wait without a slot.
Retry(c) ==
  /\ CallAt(c, "using") /\ call[c].attempt < CallRetries /\ free' = SlotBack
  /\ Go(c, "sleeping")
  /\ UNCHANGED <<active, cache, failures, overloads, cooling, tokens, aged, settled,
                 calls, events>>
\* The error of the chosen account is charged to it, an overload twice over;
\* the call then looks for another account.
FailAttempt(c, overload) ==
  LET a == call[c].account IN
  /\ CallAt(c, "using") /\ ~call[c].fallback /\ free' = SlotBack
  /\ overload => call[c].attempt = CallRetries
  /\ failures' = [failures EXCEPT ![a] = @ + 1]
  /\ IF overload
     THEN /\ overloads' = [overloads EXCEPT ![a] = @ + 1]
          /\ cooling' = IF overloads[a] + 1 >= OverloadLimit THEN cooling \cup {a} ELSE cooling
     ELSE UNCHANGED <<overloads, cooling>>
  /\ call' = [call EXCEPT ![c].at = "names", ![c].fallback = TRUE, ![c].attempt = 0]
  /\ UNCHANGED <<active, cache, tokens, aged, settled, calls, events>>
\* The error of the fallback is charged to nobody.
FallbackFails(c) ==
  /\ CallAt(c, "using") /\ call[c].fallback /\ free' = SlotBack /\ RaiseError(c)
  /\ UNCHANGED <<active, cache, failures, overloads, cooling, tokens, aged, settled,
                 calls, events>>
Wake(c) == /\ CallAt(c, "sleeping")
           /\ call' = [call EXCEPT ![c].at = "waiting", ![c].attempt = @ + 1]
           /\ UNCHANGED <<active, cache, failures, overloads, cooling, tokens, aged,
                          free, settled, calls, events>>
\* The task is cancelled: the finally of the attempt gives the slot back.
Cancel(c) == /\ call[c].at \in {"waiting", "using", "sleeping"}
             /\ free' = IF CallAt(c, "using") THEN free + 1 ELSE free
             /\ call' = [call EXCEPT ![c] = NoCall]
             /\ UNCHANGED <<active, cache, failures, overloads, cooling, tokens,
                            aged, settled, calls, events>>

CallsNext == \/ Expire \/ Day
             \/ \E a \in Account : Toggle(a) \/ Cooled(a)
             \/ \E c \in Caller :
                  \/ \E opus \in BOOLEAN : BeginCall(c, opus)
                  \/ Fetch(c) \/ FetchFails(c)
                  \/ \E names \in SUBSET Account : Select(c, names) \/ Fallback(c, names)
                  \/ TakeSlot(c) \/ Answer(c) \/ Retry(c) \/ Wake(c) \/ Cancel(c)
                  \/ \E overload \in BOOLEAN : FailAttempt(c, overload)
                  \/ FallbackFails(c)

CallsSpec == CallsInit /\ [][CallsNext]_callVars

(***************************************************************************)
(* Properties.                                                             *)
(***************************************************************************)
\* An error reaches the executor only when every way out was tried: two
\* accounts, if two that suit the model stayed active all along, and never a
\* pro account for Opus while such a max account exists (rules 1 and 4 of the
\* router), whatever other calls cached, benched, forgave or cooled meanwhile.
FailsOver ==
  \A c \in Caller :
    LET good == {a \in settled : Suits(a, call[c].opus)}
    IN /\ good # {} => \A a \in call[c].tried : Suits(a, call[c].opus)
       /\ CallAt(c, "raised") /\ Cardinality(good) >= 2 => Cardinality(call[c].tried) >= 2

\* The slots of the semaphore are all accounted for: one for each attempt in
\* flight, none for a call that backs off, failed or was cancelled.
SlotsReturned == free + Cardinality({c \in Caller : CallAt(c, "using")}) = Slots
=============================================================================
