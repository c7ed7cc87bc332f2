------------------------------ MODULE Membership ------------------------------
(***************************************************************************)
(* The plan of one account: payments (routers/payment.py), login, refresh  *)
(* and upgrade (routers/auth.py) and the expiry of subscriptions at        *)
(* start-up (services/subscription_lifecycle.py).                          *)
(*                                                                         *)
(* Tables users and subscriptions exist twice: the auth router uses the    *)
(* database of settings.database_url, payments and expiry use SQLite.      *)
(* Both may be configured to be one file.                                  *)
(*                                                                         *)
(* A transaction is one step unless the code awaits between its reads and  *)
(* its writes.  SQLAlchemy, as db_pg.py sets it up, flushes what has       *)
(* changed before the next SELECT and writes only columns that differ from *)
(* what was read; a flushed row is locked until the commit.                *)
(***************************************************************************)
EXTENDS Integers, FiniteSets

CONSTANTS
  SharedDatabase,  \* whether database_url names the SQLite file
  Checkouts,       \* the checkouts the user may open
  PlanOf,          \* the plan that each checkout pays for
  Copies,          \* the deliveries of one webhook event
  Upgrades,        \* the calls of POST /upgrade
  Sessions,        \* the logins
  PremiumPlans,    \* the plans of tier 2
  OtherPlans,      \* the plans of tier 1, "free" among them
  Period,          \* timedelta(days=30)
  AccessLife,      \* access_token_expire_minutes
  RefreshLife,     \* refresh_token_expire_days
  TicksPerDay,     \* the grain of the clock
  MaxTime,         \* bound on the clock
  MaxRestarts      \* bound on stops, crashes and starts

Plans == PremiumPlans \cup OtherPlans

ASSUME MembershipAssumption ==
  /\ SharedDatabase \in BOOLEAN
  /\ "free" \in OtherPlans /\ "absent" \notin Plans /\ "none" \notin Upgrades
  /\ PremiumPlans \cap OtherPlans = {}
  /\ PlanOf \in [Checkouts -> Plans]
  /\ {Period, AccessLife, RefreshLife, MaxTime, MaxRestarts} \subseteq Nat
  /\ TicksPerDay \in Nat \ {0}

VARIABLES
  now,       \* the clock
  account,   \* users.subscription_type in each database, or "absent"
  sub,       \* the account's row of subscriptions in each database
  payment,   \* payments.status of each checkout, or "absent"
  hook,      \* where each delivery of the webhook stands
  upgrade,   \* where each POST /upgrade stands and what it has read
  lock,      \* the upgrade that has flushed a write and not yet committed
  session,   \* the row of refresh_tokens of each login
  tokens,    \* what get_current_user() accepts until it ends
  premiumAt, \* the last time the auth database named a premium plan
  restarts   \* starts so far

vars == <<now, account, sub, payment, hook, upgrade, lock, session, tokens,
          premiumAt, restarts>>

AuthDb  == "auth"
LocalDb == IF SharedDatabase THEN "auth" ELSE "local"
Stores  == {AuthDb, LocalDb}

Outcomes == {"completed", "failed"}
Hooks    == Checkouts \X Outcomes \X Copies

NoSub     == [status |-> "none", plan |-> "free", end |-> 0, style |-> "iso"]
NoUpgrade == [at |-> "idle", plan |-> "free", sawPlan |-> "free", sawSub |-> NoSub]
NoSession == [state |-> "none", ends |-> 0, revokedAt |-> 0]

\* tier_map.get(subscription_type, 1)
Tier(p) == IF p \in PremiumPlans THEN 2 ELSE 1

\* premiumAt follows the account of the auth database and the clock.
NotePremium ==
  premiumAt' = IF account'[AuthDb] \in PremiumPlans THEN now' ELSE premiumAt

\* register() writes to the auth database; a separate SQLite file has a row for
\* the user only when the account is older than the split.
Init ==
  /\ now = 0
  /\ account \in [Stores -> {"absent", "free"}] /\ account[AuthDb] = "free"
  /\ sub = [d \in Stores |-> NoSub]
  /\ payment = [c \in Checkouts |-> "absent"]
  /\ hook = [h \in Hooks |-> "idle"]
  /\ upgrade = [u \in Upgrades |-> NoUpgrade]
  /\ lock = "none"
  /\ session = [s \in Sessions |-> NoSession]
  /\ tokens = {}
  /\ premiumAt = -AccessLife - 1
  /\ restarts = 0

SetAccount(d, p) ==
  account' = [account EXCEPT ![d] = IF @ = "absent" THEN "absent" ELSE p]

\* Only an upgrade of the same database can hold a lock between two steps.
Unlocked(d) == d = AuthDb => lock = "none"

-----------------------------------------------------------------------------
(* Payments.                                                               *)

CreateCheckout(c) ==
  /\ payment[c] = "absent"
  /\ Unlocked(LocalDb)
  /\ payment' = [payment EXCEPT ![c] = "pending"]
  /\ UNCHANGED <<now, account, sub, hook, upgrade, lock, session, tokens,
                 premiumAt, restarts>>

\* The provider delivers an event: SELECT, and 409 unless still pending.
WebhookReads(h) ==
  /\ hook[h] = "idle"
  /\ payment[h[1]] # "absent"
  /\ hook' = [hook EXCEPT ![h] = IF payment[h[1]] = "pending" THEN "read"
                                 ELSE "refused"]
  /\ UNCHANGED <<now, account, sub, payment, upgrade, lock, session, tokens,
                 premiumAt, restarts>>

\* One transaction, which does not look at the status again.
WebhookWrites(h) ==
  LET plan == PlanOf[h[1]] IN
  /\ hook[h] = "read"
  /\ Unlocked(LocalDb)
  /\ hook' = [hook EXCEPT ![h] = "applied"]
  /\ payment' = [payment EXCEPT ![h[1]] = h[2]]
  /\ \/ /\ h[2] = "completed"
        /\ SetAccount(LocalDb, plan)
        /\ sub' = [sub EXCEPT ![LocalDb] = [status |-> "active", plan |-> plan,
                                            end |-> now + Period, style |-> "iso"]]
     \/ h[2] = "failed" /\ UNCHANGED <<account, sub>>
  /\ UNCHANGED <<now, upgrade, lock, session, tokens, restarts>>
  /\ NotePremium

-----------------------------------------------------------------------------
(* POST /upgrade.                                                          *)

UpgradeReadsUser(u, p) ==
  /\ upgrade[u].at = "idle"
  /\ upgrade' = [upgrade EXCEPT ![u] =
       [at |-> "user", plan |-> p, sawPlan |-> account[AuthDb], sawSub |-> NoSub]]
  /\ UNCHANGED <<now, account, sub, payment, hook, lock, session, tokens,
                 premiumAt, restarts>>

\* The SELECT of the subscription flushes users.subscription_type first, if the
\* plan differs from the one read; the write shows only after the commit.
UpgradeReadsSub(u) ==
  /\ upgrade[u].at = "user"
  /\ IF upgrade[u].plan = upgrade[u].sawPlan THEN UNCHANGED lock
     ELSE lock = "none" /\ lock' = u
  /\ upgrade' = [upgrade EXCEPT ![u].at = "both", ![u].sawSub = sub[AuthDb]]
  /\ UNCHANGED <<now, account, sub, payment, hook, session, tokens, premiumAt,
                 restarts>>

\* Columns that have the wanted value already are not written.
Differing(want, saw, current) == IF want = saw THEN current ELSE want

UpgradeCommits(u) ==
  LET up == upgrade[u] IN
  /\ up.at = "both"
  /\ lock = u \/ (SharedDatabase => lock = "none")
  /\ up.sawSub.status # "none" \/ sub[AuthDb].status = "none"
  /\ SetAccount(AuthDb, Differing(up.plan, up.sawPlan, account[AuthDb]))
  /\ sub' = [sub EXCEPT ![AuthDb] =
       [status |-> Differing("active", up.sawSub.status, sub[AuthDb].status),
        plan   |-> IF up.sawSub.status = "none" THEN up.plan
                   ELSE Differing(up.plan, up.sawSub.plan, sub[AuthDb].plan),
        end    |-> now + Period, style |-> "orm"]]
  /\ upgrade' = [upgrade EXCEPT ![u] = [NoUpgrade EXCEPT !.at = "done"]]
  /\ lock' = IF lock = u THEN "none" ELSE lock
  /\ UNCHANGED <<now, payment, hook, session, tokens, restarts>>
  /\ NotePremium

\* A row has been inserted since the SELECT: the INSERT breaks the unique key.
UpgradeRollsBack(u) ==
  /\ upgrade[u].at = "both"
  /\ upgrade[u].sawSub.status = "none" /\ sub[AuthDb].status # "none"
  /\ upgrade' = [upgrade EXCEPT ![u] = [NoUpgrade EXCEPT !.at = "done"]]
  /\ lock' = IF lock = u THEN "none" ELSE lock
  /\ UNCHANGED <<now, account, sub, payment, hook, session, tokens, premiumAt,
                 restarts>>

-----------------------------------------------------------------------------
(* Login, refresh, logout.                                                 *)

\* get_current_user() takes every signed token with a subject, without a look at
\* its type or at revocations: the refresh token too, which names no tier and is
\* served as tier 1.
Bearer(s, kind, tier, life) ==
  [session |-> s, kind |-> kind, tier |-> tier, ends |-> now + life]

Login(s) ==
  /\ session[s].state = "none"
  /\ SharedDatabase => lock = "none"
  /\ session' = [session EXCEPT ![s] =
       [state |-> "live", ends |-> now + RefreshLife, revokedAt |-> 0]]
  /\ tokens' = tokens \cup {Bearer(s, "access", Tier(account[AuthDb]), AccessLife),
                             Bearer(s, "refresh", 1, RefreshLife)}
  /\ UNCHANGED <<now, account, sub, payment, hook, upgrade, lock, premiumAt,
                 restarts>>

BugRefreshKeepsTier(s) ==
  /\ session[s].state = "live"
  /\ now <= session[s].ends
  /\ \E t \in tokens :
       t.session = s /\ tokens' = tokens \cup {Bearer(s, "access", t.tier, AccessLife)}
  /\ UNCHANGED <<now, account, sub, payment, hook, upgrade, lock, session,
                 premiumAt, restarts>>

\* The refresh token carries no tier, so the new access token gets tier 1.
Refresh(s) ==
  /\ session[s].state = "live"
  /\ now <= session[s].ends
  /\ tokens' = tokens \cup {Bearer(s, "access", 1, AccessLife)}
  /\ UNCHANGED <<now, account, sub, payment, hook, upgrade, lock, session,
                 premiumAt, restarts>>

\* The row is revoked, so that no refresh succeeds; the tokens are not.
Logout(s) ==
  /\ session[s].state # "none"
  /\ now <= session[s].ends
  /\ SharedDatabase => lock = "none"
  /\ session' = [session EXCEPT ![s].state = "revoked",
                   ![s].revokedAt = IF session[s].state = "live" THEN now ELSE @]
  /\ UNCHANGED <<now, account, sub, payment, hook, upgrade, lock, tokens,
                 premiumAt, restarts>>

-----------------------------------------------------------------------------
(* The clock and the process.                                              *)

Tick ==
  /\ now < MaxTime
  /\ now' = now + 1
  /\ UNCHANGED <<account, sub, payment, hook, upgrade, lock, session, tokens,
                 restarts>>
  /\ NotePremium

Day(t) == t \div TicksPerDay

BugEnded(r) == r.status = "active" /\ r.end < now + Period

\* end_date < now, as strings: the webhook writes "...T...", and so does `now`;
\* the ORM writes a space in the place of the T, which sorts before it.
Ended(r) ==
  /\ r.status = "active"
  /\ IF r.style = "iso" THEN r.end < now ELSE Day(r.end) <= Day(now)

BugExpire(d) ==
  /\ Ended(sub[d])
  /\ sub' = [sub EXCEPT ![d].status = "expired"]
  /\ UNCHANGED account

\* check_expired_subscriptions(): both UPDATEs in one transaction.
Expire(d) ==
  /\ Ended(sub[d])
  /\ sub' = [sub EXCEPT ![d].status = "expired"]
  /\ SetAccount(d, "free")

\* The process dies or is stopped and starts again: requests under way are
\* gone, their transactions rolled back.  daily_maintenance() runs, unless an
\* exception of an earlier start-up hook skips it.
Restart ==
  /\ restarts < MaxRestarts
  /\ restarts' = restarts + 1
  /\ hook' = [h \in Hooks |-> IF hook[h] = "read" THEN "lost" ELSE hook[h]]
  /\ upgrade' = [u \in Upgrades |-> IF upgrade[u].at \in {"user", "both"}
                                    THEN [NoUpgrade EXCEPT !.at = "done"]
                                    ELSE upgrade[u]]
  /\ lock' = "none"
  /\ Expire(LocalDb) \/ UNCHANGED <<account, sub>>
  /\ UNCHANGED <<now, payment, session, tokens>>
  /\ NotePremium

Next ==
  \/ \E c \in Checkouts : CreateCheckout(c)
  \/ \E h \in Hooks : WebhookReads(h) \/ WebhookWrites(h)
  \/ \E u \in Upgrades : \/ \E p \in Plans : UpgradeReadsUser(u, p)
                         \/ UpgradeReadsSub(u) \/ UpgradeCommits(u)
                         \/ UpgradeRollsBack(u)
  \/ \E s \in Sessions : Login(s) \/ Refresh(s) \/ Logout(s)
  \/ Tick
  \/ Restart

Spec == Init /\ [][Next]_vars

-----------------------------------------------------------------------------
Subscriptions ==
  [status : {"none", "active", "expired"}, plan : Plans, end : Nat,
   style : {"iso", "orm"}]

Credentials ==
  [session : Sessions, kind : {"access", "refresh"}, tier : {1, 2}, ends : Nat]

\* Every variable holds a value of its kind.
TypeOK ==
  /\ now \in 0..MaxTime
  /\ account \in [Stores -> Plans \cup {"absent"}]
  /\ sub \in [Stores -> Subscriptions]
  /\ payment \in [Checkouts -> {"absent", "pending"} \cup Outcomes]
  /\ hook \in [Hooks -> {"idle", "read", "applied", "refused", "lost"}]
  /\ upgrade \in [Upgrades -> [at : {"idle", "user", "both", "done"}, plan : Plans,
                               sawPlan : Plans, sawSub : Subscriptions]]
  /\ lock \in Upgrades \cup {"none"}
  /\ session \in [Sessions -> [state : {"none", "live", "revoked"}, ends : Nat,
                               revokedAt : Nat]]
  /\ tokens \subseteq Credentials
  /\ premiumAt \in Int
  /\ restarts \in 0..MaxRestarts

\* An expired subscription and a paid plan never stand side by side, however
\* webhooks, upgrades and start-ups interleave.
ExpiredMeansFree ==
  \A d \in Stores : sub[d].status = "expired" => account[d] \in {"free", "absent"}

\* The expiry takes no paid time away, but for the rest of the last day where
\* the ORM's format of the date is compared with the other one.
NoEarlyExpiry ==
  [][\A d \in Stores : sub[d].status = "active" /\ sub'[d].status = "expired"
       => Day(sub[d].end) <= Day(now)]_vars

\* A premium token outlives the premium plan by the life of one token at most:
\* no chain of refreshes carries the tier on after a downgrade.
PremiumFades ==
  \A t \in tokens : t.tier = 2 => t.ends <= premiumAt + AccessLife

\* After a logout no access token of the login lives longer than one issued at
\* that moment.  Its refresh token stays good as a Bearer token, with tier 1,
\* but not beyond the end it had from the login.
LogoutFades ==
  \A t \in tokens : session[t.session].state = "revoked" =>
    IF t.kind = "access" THEN t.ends <= session[t.session].revokedAt + AccessLife
    ELSE t.tier = 1 /\ t.ends <= session[t.session].ends

\* What was taken away fades: the paid tier within the life of an access token
\* after a downgrade; after a logout the access tokens within the same time, and
\* what is left then, the refresh token itself, by the end of its own life.
TokensFade == PremiumFades /\ LogoutFades

===============================================================================
