-------------------------------- MODULE Quota --------------------------------
(***************************************************************************)
(* The daily video quota of one user on one day (services/quota.py),       *)
(* as the two handlers of routers/video.py use it.  The rows of table      *)
(* user_daily_usage are keyed by user and day and never read together, so  *)
(* one row is the whole state.                                             *)
(*                                                                         *)
(* increment_usage() counts first and looks afterwards: an upsert, a       *)
(* SELECT, and if the count is too high an UPDATE that takes it back.      *)
(* Requests of the same user interleave between these steps.               *)
(***************************************************************************)
EXTENDS Integers, FiniteSets

CONSTANTS
  Requests,           \* the requests for a video that the user sends on this day
  SubscriptionTypes,  \* the subscription types a user may have
  FreePlan,           \* the default of increment_usage's subscription_type, "free"
  QuotaMap,           \* QUOTA_MAP
  MaxCrashes          \* bound on crashes of the process

ASSUME QuotaAssumption ==
  /\ IsFiniteSet(Requests)
  /\ FreePlan \in DOMAIN QuotaMap
  /\ QuotaMap \in [DOMAIN QuotaMap -> Nat \ {0}]
  /\ MaxCrashes \in Nat

VARIABLES
  plan,     \* the user's subscription_type
  created,  \* the row's videos_created, 0 while there is no row
  limit,    \* the row's videos_quota, 0 while there is no row
  pc,       \* where each request stands in increment_usage()
  read,     \* the videos_created each request has read back
  crashes

quotaVars == <<plan, created, limit, pc, read, crashes>>

States == {"idle", "counted", "reverting", "granted", "refused", "lost"}

\* get_quota(subscription_type)
GetQuota(p) == IF p \in DOMAIN QuotaMap THEN QuotaMap[p] ELSE QuotaMap[FreePlan]

At(s) == {r \in Requests : pc[r] = s}

QuotaInit ==
  /\ plan \in SubscriptionTypes
  /\ created = 0
  /\ limit = 0
  /\ pc = [r \in Requests |-> "idle"]
  /\ read = [r \in Requests |-> 0]
  /\ crashes = 0

Goto(r, from, to) ==
  /\ pc[r] = from
  /\ pc' = [pc EXCEPT ![r] = to]

\* INSERT ... ON CONFLICT DO UPDATE, and its commit.  Both callers leave the
\* subscription_type at its default; an existing row keeps its videos_quota.
Count(r) ==
  /\ Goto(r, "idle", "counted")
  /\ created' = created + 1
  /\ limit' = IF limit = 0 THEN GetQuota(FreePlan) ELSE limit
  /\ UNCHANGED <<plan, read, crashes>>

BugReadBackGrants(r) ==
  /\ created <= limit + 1
  /\ Goto(r, "counted", "granted")
  /\ read' = [read EXCEPT ![r] = created]
  /\ UNCHANGED <<plan, created, limit, crashes>>

\* SELECT, and the count is within the quota: increment_usage() returns.
ReadBackGrants(r) ==
  /\ created <= limit
  /\ Goto(r, "counted", "granted")
  /\ read' = [read EXCEPT ![r] = created]
  /\ UNCHANGED <<plan, created, limit, crashes>>

\* SELECT, and the count is over the quota.
ReadBackRefuses(r) ==
  /\ created > limit
  /\ Goto(r, "counted", "reverting")
  /\ read' = [read EXCEPT ![r] = created]
  /\ UNCHANGED <<plan, created, limit, crashes>>

BugRevert(r) ==
  /\ Goto(r, "reverting", "refused")
  /\ created' = limit
  /\ UNCHANGED <<plan, limit, read, crashes>>

\* The UPDATE that takes the count back; QuotaExceededError becomes a 429.
Revert(r) ==
  /\ Goto(r, "reverting", "refused")
  /\ created' = created - 1
  /\ UNCHANGED <<plan, limit, read, crashes>>

\* payment_webhook, upgrade() and the expiry job change the plan at any time
\* and leave the row of the day alone.
ChangePlan ==
  /\ \E p \in SubscriptionTypes \ {plan} : plan' = p
  /\ UNCHANGED <<created, limit, pc, read, crashes>>

\* The process dies: the requests between two steps are gone, the row stays.
Crash ==
  /\ crashes < MaxCrashes
  /\ crashes' = crashes + 1
  /\ pc' = [r \in Requests |-> IF pc[r] \in {"counted", "reverting"}
                                 THEN "lost" ELSE pc[r]]
  /\ UNCHANGED <<plan, created, limit, read>>

Step(r) == Count(r) \/ ReadBackGrants(r) \/ ReadBackRefuses(r) \/ Revert(r)

QuotaNext == (\E r \in Requests : Step(r)) \/ ChangePlan \/ Crash

QuotaSpec == QuotaInit /\ [][QuotaNext]_quotaVars

-----------------------------------------------------------------------------
\* Every variable holds a value of its kind; the count never goes below zero.
QuotaTypes ==
  /\ plan \in SubscriptionTypes
  /\ created \in Nat
  /\ limit \in Nat
  /\ pc \in [Requests -> States]
  /\ read \in [Requests -> Nat]
  /\ crashes \in 0..MaxCrashes

\* videos_created is exactly the videos granted, plus the requests that are
\* between the upsert and their verdict, plus those a crash took away there:
\* interleaved requests neither lose an increment nor take back too much.
CountIsExact ==
  created = Cardinality(At("granted")) + Cardinality(At("counted"))
            + Cardinality(At("reverting")) + Cardinality(At("lost"))

\* However the requests interleave, no more videos are granted on a day than
\* the quota that was written into the row.
NeverOverGranted == Cardinality(At("granted")) <= limit
=============================================================================
