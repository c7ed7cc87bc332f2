--------------------------- MODULE CircuitBreaker ---------------------------
(***************************************************************************)
(* The circuit breaker of providers/fallback_provider.py: a provider that  *)
(* keeps failing is left alone for a cool-down, then tried again.          *)
(*                                                                         *)
(* Two abstractions: counts of failures from the threshold on behave alike *)
(* and are represented by the threshold; a moment `until` is represented   *)
(* by the time that is left, which Tick lets pass.                         *)
(***************************************************************************)
EXTENDS Naturals

CONSTANTS
  Providers,  \* names of providers
  Threshold,  \* failure_threshold
  Cooldown    \* cooldown_seconds, in ticks

ASSUME BreakerAssumption ==
  Threshold \in Nat \ {0} /\ Cooldown \in Nat \ {0}

VARIABLES
  failures,  \* _failures
  cooling,   \* what is left until _cooldown_until
  halfOpen   \* _half_open

breakerVars == <<failures, cooling, halfOpen>>

BreakerTypeOK ==
  /\ failures \in [Providers -> 0..Threshold]
  /\ cooling \in [Providers -> 0..Cooldown]
  /\ halfOpen \subseteq Providers

BreakerInit ==
  /\ failures = [p \in Providers |-> 0]
  /\ cooling = [p \in Providers |-> 0]
  /\ halfOpen = {}

Counted(n) == IF n < Threshold THEN n + 1 ELSE Threshold

\* The failure that is being recorded brings p to the threshold.
Strikes(p) == Counted(failures[p]) >= Threshold

\* record_failure(p); `asked` is who is asked next, without a suspension.
RecordFailure(p, asked) ==
  /\ failures' = [failures EXCEPT ![p] = Counted(@)]
  /\ cooling' = [cooling EXCEPT ![p] = IF Strikes(p) THEN Cooldown ELSE @]
  /\ halfOpen' = (IF Strikes(p) THEN halfOpen \ {p} ELSE halfOpen) \cup asked

\* record_success(p) leaves a running cool-down alone.
RecordSuccess(p) ==
  /\ failures' = [failures EXCEPT ![p] = 0]
  /\ halfOpen' = halfOpen \ {p}
  /\ UNCHANGED cooling

BugAvailable(p) == failures[p] >= Threshold \/ cooling[p] = 0

\* is_available(p), and the providers of ps that asking turns half-open.
Available(p) == cooling[p] = 0

Probed(ps) == {p \in ps : Available(p) /\ failures[p] >= Threshold}

\* reset(p): by hand.
ResetBreaker(p) ==
  /\ failures' = [failures EXCEPT ![p] = 0]
  /\ cooling' = [cooling EXCEPT ![p] = 0]
  /\ halfOpen' = halfOpen \ {p}

\* Time passes.
Tick ==
  /\ \E p \in Providers : cooling[p] > 0
  /\ cooling' = [p \in Providers |-> IF cooling[p] > 0 THEN cooling[p] - 1 ELSE 0]
  /\ UNCHANGED <<failures, halfOpen>>

\* The three states of the class comment.  state() tells "half-open" only after
\* somebody has asked; the provider is on probation from the end of the cool-down.
Circuit(p) ==
  IF cooling[p] > 0 THEN "open"
  ELSE IF failures[p] >= Threshold THEN "half-open"
  ELSE "closed"
=============================================================================
