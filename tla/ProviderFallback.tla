-------------------------- MODULE ProviderFallback --------------------------
(***************************************************************************)
(* Calls to language models through FallbackProvider                       *)
(* (providers/fallback_provider.py): along a list of providers (call), or  *)
(* with the first provider selected in turn by the ProviderRouter and the  *)
(* others of its type as fallback (call_with_router).  Calls overlap: they *)
(* share the circuit breaker, the router's table and the round-robin index.*)
(* A coroutine suspends at a query and while a provider has not answered.  *)
(***************************************************************************)
EXTENDS CircuitBreaker, Filters, SequencesExt

CONSTANTS
  Order,        \* the providers, ORDER BY name; also the list passed to call()
  ChainCalls,   \* coroutines that use call()
  RoutedCalls,  \* coroutines that use call_with_router()
  MaxChanges    \* bound on changes an administrator makes

NoProvider == "none"

ASSUME FallbackAssumption ==
  /\ Order \in Seq(Providers) /\ IsInjective(Order)
  /\ NoProvider \notin Providers
  /\ ChainCalls \cap RoutedCalls = {}
  /\ MaxChanges \in Nat

VARIABLES
  config,   \* table provider_configs: "on", "off" (enabled = 0) or "absent"
  changes,  \* changes made so far
  index,    \* _ROUND_ROBIN._index of the type
  at,       \* where each call stands
  on,       \* the provider it waits for, or has called last
  rows,     \* the providers it has read, or has still to try
  streak,   \* history: failures of each provider since its last success
  round     \* history: who was selected since the selection last differed

Calls == ChainCalls \cup RoutedCalls

vars == <<breakerVars, config, changes, index, at, on, rows, streak, round>>

routerVars == <<config, changes, index, round>>

Init ==
  /\ BreakerInit
  /\ config = [p \in Providers |-> "on"]
  /\ changes = 0
  /\ index = 0
  /\ at = [c \in Calls |-> "idle"]
  /\ on = [c \in Calls |-> NoProvider]
  /\ rows = [c \in Calls |-> <<>>]
  /\ streak = [p \in Providers |-> 0]
  /\ round = [among |-> <<>>, picked |-> <<>>]

Move(c, to, p, list) ==
  /\ at' = [at EXCEPT ![c] = to]
  /\ on' = [on EXCEPT ![c] = p]
  /\ rows' = [rows EXCEPT ![c] = list]

Ends(c) == Move(c, "idle", NoProvider, <<>>)

Listed(settings) == Filter(Order, {p \in Providers : config[p] \in settings})

-----------------------------------------------------------------------------
(* The administrator: create, update and delete a provider.                *)

Change(p, from, to) ==
  /\ changes < MaxChanges
  /\ config[p] \in from
  /\ config' = [config EXCEPT ![p] = to]
  /\ changes' = changes + 1
  /\ UNCHANGED <<breakerVars, index, at, on, rows, streak, round>>

Create(p) == \E to \in {"on", "off"} : Change(p, {"absent"}, to)

Update(p) == Change(p, {"off"}, "on") \/ Change(p, {"on"}, "off")

Delete(p) == Change(p, {"on", "off"}, "absent")

-----------------------------------------------------------------------------
(* The loop over the providers that are left: the first available one is   *)
(* called; if there is none, the call raises.                              *)

Open(list) == Filter(list, {p \in Providers : Available(p)})

Upcoming(list) == IF Open(list) = <<>> THEN {} ELSE {Head(Open(list))}

Rest(list) ==
  SubSeq(list, 1 + SelectInSeq(list, Available), Len(list))

Proceed(c, list) ==
  IF Upcoming(list) = {} THEN Ends(c)
  ELSE Move(c, "trying", Head(Open(list)), Rest(list))

BeginChain(c) ==
  /\ at[c] = "idle"
  /\ Proceed(c, Order)
  /\ halfOpen' = halfOpen \cup Probed(Upcoming(Order))
  /\ UNCHANGED <<failures, cooling, routerVars, streak>>

Answers(c) ==
  /\ at[c] = "trying"
  /\ RecordSuccess(on[c])
  /\ streak' = [streak EXCEPT ![on[c]] = 0]
  /\ Ends(c)
  /\ UNCHANGED routerVars

Fails(c) ==
  /\ at[c] = "trying"
  /\ RecordFailure(on[c], Probed(Upcoming(rows[c])))
  /\ streak' = [streak EXCEPT ![on[c]] = Counted(@)]
  /\ Proceed(c, rows[c])
  /\ UNCHANGED routerVars

-----------------------------------------------------------------------------
(* call_with_router: get_by_type, select_provider, the first call, then    *)
(* the others.  Only select_provider looks at `enabled`.                   *)

BeginRouted(c) ==
  /\ at[c] = "idle"
  /\ Move(c, "selecting", NoProvider, Listed({"on"}))
  /\ UNCHANGED <<breakerVars, routerVars, streak>>

\* What has been selected among the same providers, as far back as one round.
Remembered(list, p) ==
  LET before == IF round.among = list THEN round.picked ELSE <<>>
      recent == IF Len(before) < Len(list) THEN before ELSE Tail(before)
  IN  [among |-> list, picked |-> Append(recent, p)]

BugAdvanceUnbounded(count) == index' = index + 1

BugAdvanceClamped(count) ==
  index' = IF index + 1 < count THEN index + 1 ELSE count - 1

\* RoundRobinState.next: the index may be past a list that has become shorter.
Advance(count) == index' = (index + 1) % count

Select(c) ==
  /\ at[c] = "selecting"
  /\ LET available == Open(rows[c])
         chosen == available[1 + (index % Len(available))]
     IN  IF available = <<>>
         THEN Ends(c) /\ UNCHANGED <<halfOpen, index, round>>
         ELSE /\ Move(c, "first", chosen, <<>>)
              /\ Advance(Len(available))
              /\ halfOpen' = halfOpen \cup Probed(ToSet(available))
              /\ round' = Remembered(available, chosen)
  /\ UNCHANGED <<failures, cooling, config, changes, streak>>

\* `return await` without record_success.
FirstAnswers(c) ==
  /\ at[c] = "first"
  /\ streak' = [streak EXCEPT ![on[c]] = 0]
  /\ Ends(c)
  /\ UNCHANGED <<breakerVars, routerVars>>

BugFirstFails(c) ==
  /\ at[c] = "first"
  /\ streak' = [streak EXCEPT ![on[c]] = Counted(@)]
  /\ Move(c, "listing", on[c], <<>>)
  /\ UNCHANGED <<breakerVars, routerVars>>

FirstFails(c) ==
  /\ at[c] = "first"
  /\ RecordFailure(on[c], {})
  /\ streak' = [streak EXCEPT ![on[c]] = Counted(@)]
  /\ Move(c, "listing", on[c], <<>>)
  /\ UNCHANGED routerVars

\* The second get_by_type; disabled providers are on the list.
ListOthers(c) ==
  /\ at[c] = "listing"
  /\ Move(c, "listed", on[c], Filter(Listed({"on", "off"}), Providers \ {on[c]}))
  /\ UNCHANGED <<breakerVars, routerVars, streak>>

TryOthers(c) ==
  /\ at[c] = "listed"
  /\ Proceed(c, rows[c])
  /\ halfOpen' = halfOpen \cup Probed(Upcoming(rows[c]))
  /\ UNCHANGED <<failures, cooling, routerVars, streak>>

-----------------------------------------------------------------------------
Reset(p) ==
  /\ ResetBreaker(p)
  /\ streak' = [streak EXCEPT ![p] = 0]
  /\ UNCHANGED <<routerVars, at, on, rows>>

TimePasses == Tick /\ UNCHANGED <<routerVars, at, on, rows, streak>>

\* What the event loop and the network do with a call that has begun.
Carry(c) ==
  \/ Answers(c) \/ Fails(c)
  \/ Select(c) \/ FirstAnswers(c) \/ FirstFails(c) \/ ListOthers(c) \/ TryOthers(c)

Next ==
  \/ \E p \in Providers : Create(p) \/ Update(p) \/ Delete(p) \/ Reset(p)
  \/ \E c \in ChainCalls : BeginChain(c)
  \/ \E c \in RoutedCalls : BeginRouted(c)
  \/ \E c \in Calls : Carry(c)
  \/ TimePasses

Spec == Init /\ [][Next]_vars

\* Every query and every provider answers or fails (a timeout of 120 seconds),
\* and the clock goes on.
Fairness == WF_vars(TimePasses) /\ \A c \in Calls : WF_vars(Carry(c))

FairSpec == Spec /\ Fairness

-----------------------------------------------------------------------------
\* Every variable holds a value of its kind; a call waits for a provider
\* exactly where the code does.
TypeOK ==
  /\ BreakerTypeOK
  /\ config \in [Providers -> {"on", "off", "absent"}]
  /\ changes \in 0..MaxChanges
  /\ index \in Nat /\ (index = 0 \/ index < Len(Order))
  /\ at \in [Calls -> {"idle", "selecting", "first", "listing", "listed", "trying"}]
  /\ on \in [Calls -> Providers \cup {NoProvider}]
  /\ \A c \in Calls : at[c] \in {"idle", "selecting"} <=> on[c] = NoProvider
  /\ rows \in [Calls -> Seq(Providers)]
  /\ streak \in [Providers -> 0..Threshold]
  /\ round \in [among : Seq(Providers), picked : Seq(Providers)]

\* A provider that has failed Threshold times in a row, in whatever calls and in
\* whatever order their outcomes came in, is never taken for a healthy one.
FailingProviderIsIsolated ==
  \A p \in Providers : streak[p] >= Threshold => Circuit(p) # "closed"

\* While the same providers are available, nobody is selected twice before all
\* of them were, although the index is kept when their number changes.
RoundRobinIsFair == IsInjective(round.picked)

\* An open circuit is tried again: late failures of calls that began before it
\* opened cannot keep it open for ever.
OpenCircuitCools ==
  \A p \in Providers : Circuit(p) = "open" ~> Circuit(p) # "open"

=============================================================================
