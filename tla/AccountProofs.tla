---------------------------- MODULE AccountProofs ----------------------------
(***************************************************************************)
(* Theorems about what an account may do: the subscription it has paid     *)
(* for (Membership), the videos of a day (Quota) and the features that the *)
(* gates file opens to it (FeatureGates).  The three keep no state in      *)
(* common; each has its own specification.                                 *)
(***************************************************************************)
EXTENDS Membership, Quota, FeatureGates, FiniteSetTheorems, TLAPS

-----------------------------------------------------------------------------
(* Membership, for one database or two, any number of checkouts,           *)
(* deliveries, upgrades and logins, and any lifetimes.                     *)

(* The inductive invariant.                                                *)

\* premiumAt is what it is meant to be.
ClockInv ==
  /\ premiumAt <= now
  /\ account[AuthDb] \in PremiumPlans => premiumAt = now

\* No access token ends later than one that is issued now; a refresh token ends
\* when its row says and names no tier.
IssueInv ==
  \A t \in tokens :
    IF t.kind = "access" THEN t.ends <= now + AccessLife
    ELSE /\ t.tier = 1 /\ session[t.session].state # "none"
         /\ t.ends = session[t.session].ends

\* An upgrade that has read an active subscription, and will therefore leave
\* the status alone, still finds it active.
ReadInv ==
  \A u \in Upgrades :
    upgrade[u].at = "both" /\ upgrade[u].sawSub.status = "active"
      => sub[AuthDb].status = "active"

\* The account has a row in the auth database.
OwnerInv == account[AuthDb] \in Plans

MembershipInv ==
  /\ TypeOK /\ OwnerInv
  /\ ClockInv /\ IssueInv /\ ReadInv
  /\ ExpiredMeansFree /\ PremiumFades /\ LogoutFades

\* The two names of the databases, and what the assumptions say of the times.
LEMMA Constants ==
  /\ AuthDb \in Stores /\ LocalDb \in Stores
  /\ Period \in Nat /\ AccessLife \in Nat /\ RefreshLife \in Nat
  /\ MaxTime \in Nat /\ MaxRestarts \in Nat
  /\ "free" \in Plans /\ "absent" \notin Plans /\ "free" \notin PremiumPlans
  /\ "none" \notin Upgrades
  /\ \A p \in Plans : p \in PremiumPlans => Tier(p) = 2
  /\ \A p : Tier(p) \in {1, 2} /\ (Tier(p) = 2 => p \in PremiumPlans)
  BY MembershipAssumption
     DEF MembershipAssumption, AuthDb, LocalDb, Stores, Plans, Tier

\* A new account: nothing has expired, nobody is logged in.
LEMMA MembershipInit == Init => MembershipInv
<1> SUFFICES ASSUME Init PROVE MembershipInv
  OBVIOUS
<1>1. NoSub \in Subscriptions
  BY Constants DEF NoSub, Subscriptions
<1>2. TypeOK
  <2>1. NoUpgrade \in [at : {"idle", "user", "both", "done"}, plan : Plans,
                       sawPlan : Plans, sawSub : Subscriptions]
    BY <1>1, Constants DEF NoUpgrade
  <2>2. NoSession \in [state : {"none", "live", "revoked"}, ends : Nat,
                       revokedAt : Nat]
    BY DEF NoSession
  <2> QED
    BY <1>1, <2>1, <2>2, Constants DEF Init, TypeOK, Outcomes
<1>3. OwnerInv /\ ClockInv /\ IssueInv /\ ReadInv
  BY Constants DEF Init, OwnerInv, ClockInv, IssueInv, ReadInv, NoUpgrade
<1>4. ExpiredMeansFree /\ PremiumFades /\ LogoutFades
  BY DEF Init, ExpiredMeansFree, PremiumFades, LogoutFades, NoSub
<1> QED
  BY <1>2, <1>3, <1>4 DEF MembershipInv

-----------------------------------------------------------------------------
(* One lemma per group of actions.                                         *)

\* A change of the plan with the clock standing still keeps premiumAt right,
\* and never moves it back.
LEMMA PremiumKept ==
  ASSUME TypeOK, ClockInv, NotePremium, now' \in Nat, now <= now',
         now' = now \/ account' = account
  PROVE  ClockInv' /\ premiumAt' \in Int /\ premiumAt <= premiumAt'
  BY Constants DEF TypeOK, ClockInv, NotePremium

\* Tokens that stay as they are keep fading while premiumAt does not go back.
LEMMA TokensKept ==
  ASSUME TypeOK, PremiumFades, LogoutFades, IssueInv,
         tokens' = tokens, session' = session,
         premiumAt' \in Int, premiumAt <= premiumAt',
         now' \in Nat, now <= now'
  PROVE  PremiumFades' /\ LogoutFades' /\ IssueInv'
<1>1. \A t \in tokens : t.ends \in Nat
  BY DEF TypeOK, Credentials
<1>2. now \in Nat /\ premiumAt \in Int /\ AccessLife \in Nat
  BY Constants DEF TypeOK
<1>3. PremiumFades'
  BY <1>1, <1>2 DEF PremiumFades
<1>4. LogoutFades'
  BY <1>1, <1>2 DEF LogoutFades
<1>5. IssueInv'
  BY <1>1, <1>2 DEF IssueInv
<1> QED
  BY <1>3, <1>4, <1>5

\* Checkout, and the webhook up to its read: nothing but payments changes.
LEMMA CheckoutKeepsInv ==
  ASSUME MembershipInv,
         \/ \E c \in Checkouts : CreateCheckout(c)
         \/ \E h \in Hooks : WebhookReads(h)
  PROVE  MembershipInv'
<1> USE DEF MembershipInv
<1>1. UNCHANGED <<now, account, sub, upgrade, lock, session, tokens, premiumAt,
                  restarts>>
  BY DEF CreateCheckout, WebhookReads
<1>2. /\ payment' \in [Checkouts -> {"absent", "pending"} \cup Outcomes]
      /\ hook' \in [Hooks -> {"idle", "read", "applied", "refused", "lost"}]
  BY DEF TypeOK, CreateCheckout, WebhookReads
<1>3. TypeOK'
  BY <1>1, <1>2 DEF TypeOK, Stores, AuthDb, LocalDb, Subscriptions
<1>4. OwnerInv' /\ ClockInv' /\ IssueInv' /\ ReadInv'
  BY <1>1 DEF OwnerInv, ClockInv, IssueInv, ReadInv, AuthDb
<1>5. ExpiredMeansFree' /\ PremiumFades' /\ LogoutFades'
  BY <1>1 DEF ExpiredMeansFree, PremiumFades, LogoutFades
<1> QED
  BY <1>3, <1>4, <1>5

\* What SetAccount does to one database, and that it leaves the other alone.
LEMMA AccountSet ==
  ASSUME TypeOK, NEW d \in Stores, NEW p \in Plans, SetAccount(d, p)
  PROVE  /\ account' \in [Stores -> Plans \cup {"absent"}]
         /\ account'[d] \in {p, "absent"}
         /\ account[d] # "absent" => account'[d] = p
         /\ \A e \in Stores \ {d} : account'[e] = account[e]
  BY DEF TypeOK, SetAccount

\* A step that issues and revokes nothing: the plan may change, or time may
\* pass, and the tokens keep fading.
LEMMA TokensAside ==
  ASSUME MembershipInv, NotePremium, now' \in Nat, now <= now',
         now' = now \/ account' = account,
         tokens' = tokens, session' = session,
         TypeOK', OwnerInv', ReadInv', ExpiredMeansFree'
  PROVE  MembershipInv'
<1>1. ClockInv' /\ premiumAt' \in Int /\ premiumAt <= premiumAt'
  BY PremiumKept DEF MembershipInv
<1>2. PremiumFades' /\ LogoutFades' /\ IssueInv'
  BY <1>1, TokensKept DEF MembershipInv
<1> QED
  BY <1>1, <1>2 DEF MembershipInv

\* premiumAt' is an integer whenever the clock is.
LEMMA PremiumType ==
  ASSUME TypeOK, NotePremium, now' \in Nat
  PROVE  premiumAt' \in Int
  BY DEF TypeOK, NotePremium

\* The webhook's transaction makes the subscription active, so nothing that is
\* expired meets the paid plan.
LEMMA WebhookKeepsInv ==
  ASSUME MembershipInv, NEW h \in Hooks, WebhookWrites(h)
  PROVE  MembershipInv'
<1> USE DEF MembershipInv
<1>1. /\ UNCHANGED <<now, upgrade, lock, session, tokens, restarts>>
      /\ NotePremium /\ now \in Nat /\ now' \in Nat /\ now <= now'
  BY Constants DEF WebhookWrites, TypeOK
<1>2. h[1] \in Checkouts /\ h[2] \in Outcomes /\ PlanOf[h[1]] \in Plans
  BY MembershipAssumption DEF MembershipAssumption, Hooks
<1>3. premiumAt' \in Int
  BY <1>1, PremiumType
<1>4. /\ payment' \in [Checkouts -> {"absent", "pending"} \cup Outcomes]
      /\ hook' \in [Hooks -> {"idle", "read", "applied", "refused", "lost"}]
  BY <1>2 DEF WebhookWrites, TypeOK
<1>5. CASE UNCHANGED <<account, sub>>
  <2>1. TypeOK'
    BY <1>1, <1>3, <1>4, <1>5
       DEF TypeOK, Stores, AuthDb, LocalDb, Subscriptions
  <2>2. OwnerInv' /\ ReadInv' /\ ExpiredMeansFree'
    BY <1>1, <1>5 DEF OwnerInv, ReadInv, ExpiredMeansFree, AuthDb
  <2> QED
    BY <1>1, <2>1, <2>2, TokensAside
<1>6. CASE /\ SetAccount(LocalDb, PlanOf[h[1]])
           /\ sub' = [sub EXCEPT ![LocalDb] =
                [status |-> "active", plan |-> PlanOf[h[1]],
                 end |-> now + Period, style |-> "iso"]]
  <2>1. /\ account' \in [Stores -> Plans \cup {"absent"}]
        /\ account[LocalDb] # "absent" => account'[LocalDb] = PlanOf[h[1]]
        /\ \A e \in Stores \ {LocalDb} : account'[e] = account[e]
    BY <1>2, <1>6, Constants, AccountSet
  <2>2. [status |-> "active", plan |-> PlanOf[h[1]],
         end |-> now + Period, style |-> "iso"] \in Subscriptions
    BY <1>1, <1>2, Constants DEF Subscriptions
  <2>3. sub' \in [Stores -> Subscriptions]
    BY <1>6, <2>2, Constants DEF TypeOK
  <2>4. TypeOK'
    BY <1>1, <1>3, <1>4, <2>1, <2>3
       DEF TypeOK, Stores, AuthDb, LocalDb, Subscriptions
  <2>5. /\ sub'[LocalDb].status = "active"
        /\ \A e \in Stores \ {LocalDb} : sub'[e] = sub[e]
    BY <1>6, Constants DEF TypeOK
  <2>6. OwnerInv'
    BY <1>2, <2>1, Constants DEF OwnerInv, AuthDb
  <2>7. ReadInv'
    BY <1>1, <2>5, Constants DEF ReadInv, AuthDb
  <2>8. ExpiredMeansFree'
    BY <2>1, <2>5 DEF ExpiredMeansFree, Stores, AuthDb, LocalDb
  <2> QED
    BY <1>1, <2>4, <2>6, <2>7, <2>8, TokensAside
<1> QED
  BY <1>5, <1>6 DEF WebhookWrites

-----------------------------------------------------------------------------
(* Upgrades.                                                               *)

\* The two reads of an upgrade change only what it remembers, and the lock.
LEMMA UpgradeReadsKeepInv ==
  ASSUME MembershipInv, NEW u \in Upgrades,
         \/ \E p \in Plans : UpgradeReadsUser(u, p)
         \/ UpgradeReadsSub(u)
         \/ UpgradeRollsBack(u)
  PROVE  MembershipInv'
<1> USE DEF MembershipInv
<1> DEFINE Progresses == [at : {"idle", "user", "both", "done"}, plan : Plans,
                          sawPlan : Plans, sawSub : Subscriptions]
<1>1. UNCHANGED <<now, account, sub, payment, hook, session, tokens, premiumAt,
                  restarts>>
  BY DEF UpgradeReadsUser, UpgradeReadsSub, UpgradeRollsBack
<1>2. NoSub \in Subscriptions /\ sub[AuthDb] \in Subscriptions
  BY Constants DEF NoSub, Subscriptions, TypeOK
<1>3. NoUpgrade \in Progresses /\ upgrade \in [Upgrades -> Progresses]
  BY <1>2, Constants DEF NoUpgrade, TypeOK
<1>4. lock' \in Upgrades \cup {"none"}
  BY DEF TypeOK, UpgradeReadsUser, UpgradeReadsSub, UpgradeRollsBack
<1>5. upgrade' \in [Upgrades -> Progresses] /\ ReadInv'
  <2>1. CASE \E p \in Plans : UpgradeReadsUser(u, p)
    <3>1. PICK p \in Plans : UpgradeReadsUser(u, p)
      BY <2>1
    <3> DEFINE new == [at |-> "user", plan |-> p, sawPlan |-> account[AuthDb],
                       sawSub |-> NoSub]
    <3>2. new \in Progresses /\ new.at = "user"
      BY <1>2 DEF OwnerInv
    <3>3. upgrade' = [upgrade EXCEPT ![u] = new]
      BY <3>1 DEF UpgradeReadsUser
    <3> HIDE DEF new
    <3> QED
      BY <1>1, <1>3, <3>2, <3>3 DEF ReadInv, AuthDb
  <2>2. CASE UpgradeReadsSub(u)
    <3> DEFINE new == [upgrade[u] EXCEPT !.at = "both", !.sawSub = sub[AuthDb]]
    <3>1. new \in Progresses /\ new.sawSub = sub[AuthDb]
      BY <1>2, <1>3
    <3>2. upgrade' = [upgrade EXCEPT ![u] = new]
      BY <1>3, <2>2 DEF UpgradeReadsSub
    <3> HIDE DEF new
    <3> QED
      BY <1>1, <1>3, <3>1, <3>2 DEF ReadInv, AuthDb
  <2>3. CASE UpgradeRollsBack(u)
    <3> DEFINE new == [NoUpgrade EXCEPT !.at = "done"]
    <3>1. new \in Progresses /\ new.at = "done"
      BY <1>3
    <3>2. upgrade' = [upgrade EXCEPT ![u] = new]
      BY <2>3 DEF UpgradeRollsBack
    <3> HIDE DEF new
    <3> QED
      BY <1>1, <1>3, <3>1, <3>2 DEF ReadInv, AuthDb
  <2> QED
    BY <2>1, <2>2, <2>3
<1>6. TypeOK'
  BY <1>1, <1>4, <1>5 DEF TypeOK, Stores, AuthDb, LocalDb, Subscriptions
<1>7. OwnerInv' /\ ClockInv' /\ IssueInv'
  BY <1>1 DEF OwnerInv, ClockInv, IssueInv, AuthDb
<1>8. ExpiredMeansFree' /\ PremiumFades' /\ LogoutFades'
  BY <1>1 DEF ExpiredMeansFree, PremiumFades, LogoutFades
<1> QED
  BY <1>5, <1>6, <1>7, <1>8

\* The subscription an upgrade leaves behind is active, whatever it had read
\* and whoever has written in between.
LEMMA UpgradeLeavesActive ==
  ASSUME MembershipInv, NEW u \in Upgrades, UpgradeCommits(u)
  PROVE  /\ sub' \in [Stores -> Subscriptions]
         /\ sub'[AuthDb].status = "active"
         /\ \A e \in Stores \ {AuthDb} : sub'[e] = sub[e]
<1> USE DEF MembershipInv
<1> DEFINE up == upgrade[u]
           new == [status |-> Differing("active", up.sawSub.status, sub[AuthDb].status),
                   plan   |-> IF up.sawSub.status = "none" THEN up.plan
                              ELSE Differing(up.plan, up.sawSub.plan, sub[AuthDb].plan),
                   end    |-> now + Period, style |-> "orm"]
<1>1. up.at = "both" /\ sub' = [sub EXCEPT ![AuthDb] = new]
  BY DEF UpgradeCommits
<1>2. /\ up.plan \in Plans /\ up.sawSub \in Subscriptions
      /\ sub \in [Stores -> Subscriptions] /\ sub[AuthDb] \in Subscriptions
  BY Constants DEF TypeOK
<1>3. now + Period \in Nat
  BY Constants DEF TypeOK
<1>4. Differing("active", up.sawSub.status, sub[AuthDb].status) = "active"
  BY <1>1 DEF ReadInv, Differing
<1>5. Differing(up.plan, up.sawSub.plan, sub[AuthDb].plan) \in Plans
  BY <1>2 DEF Differing, Subscriptions
<1>6. new \in Subscriptions /\ new.status = "active"
  BY <1>2, <1>3, <1>4, <1>5 DEF Subscriptions
<1> HIDE DEF new
<1> QED
  BY <1>1, <1>2, <1>6, Constants

\* The commit of an upgrade.
LEMMA UpgradeCommitKeepsInv ==
  ASSUME MembershipInv, NEW u \in Upgrades, UpgradeCommits(u)
  PROVE  MembershipInv'
<1> USE DEF MembershipInv
<1> DEFINE up == upgrade[u]
           p  == Differing(up.plan, up.sawPlan, account[AuthDb])
<1>1. /\ UNCHANGED <<now, payment, hook, session, tokens, restarts>>
      /\ NotePremium /\ now' \in Nat /\ now <= now'
      /\ SetAccount(AuthDb, p)
  BY Constants DEF UpgradeCommits, TypeOK
<1>2. p \in Plans
  BY DEF TypeOK, OwnerInv, Differing
<1>3. /\ account' \in [Stores -> Plans \cup {"absent"}]
      /\ account'[AuthDb] \in Plans
      /\ \A e \in Stores \ {AuthDb} : account'[e] = account[e]
  <2> HIDE DEF p
  <2>1. account[AuthDb] # "absent"
    BY Constants DEF OwnerInv
  <2> QED
    BY <1>1, <1>2, <2>1, Constants, AccountSet
<1>4. /\ sub' \in [Stores -> Subscriptions]
      /\ sub'[AuthDb].status = "active"
      /\ \A e \in Stores \ {AuthDb} : sub'[e] = sub[e]
  BY UpgradeLeavesActive
<1>5. premiumAt' \in Int
  BY <1>1, PremiumType
<1>6. /\ upgrade' \in [Upgrades -> [at : {"idle", "user", "both", "done"},
                        plan : Plans, sawPlan : Plans, sawSub : Subscriptions]]
      /\ lock' \in Upgrades \cup {"none"}
  <2>1. [NoUpgrade EXCEPT !.at = "done"]
          \in [at : {"idle", "user", "both", "done"}, plan : Plans,
              sawPlan : Plans, sawSub : Subscriptions]
    BY Constants DEF NoUpgrade, NoSub, Subscriptions
  <2> QED
    BY <2>1 DEF UpgradeCommits, TypeOK
<1>7. TypeOK'
  BY <1>1, <1>3, <1>4, <1>5, <1>6
     DEF TypeOK, Stores, AuthDb, LocalDb, Subscriptions
<1>8. OwnerInv' /\ ReadInv'
  BY <1>3, <1>4 DEF OwnerInv, ReadInv, AuthDb
<1>9. ExpiredMeansFree'
  BY <1>3, <1>4 DEF ExpiredMeansFree, Stores, AuthDb, LocalDb
<1> QED
  BY <1>1, <1>7, <1>8, <1>9, TokensAside

-----------------------------------------------------------------------------
(* Tokens, the clock and the process.                                      *)

\* A step of login, refresh or logout leaves plans and the clock alone.
SessionFrame ==
  UNCHANGED <<now, account, sub, payment, hook, upgrade, lock, premiumAt, restarts>>

\* Such a step keeps the invariant if it treats tokens and sessions well.
LEMMA SessionsAside ==
  ASSUME MembershipInv, SessionFrame,
         session' \in [Sessions -> [state : {"none", "live", "revoked"}, ends : Nat,
                                   revokedAt : Nat]],
         tokens' \subseteq Credentials,
         IssueInv', PremiumFades', LogoutFades'
  PROVE  MembershipInv'
<1> USE DEF MembershipInv, SessionFrame
<1>1. TypeOK'
  BY DEF TypeOK, Stores, AuthDb, LocalDb, Subscriptions, Credentials
<1>2. OwnerInv' /\ ClockInv' /\ ReadInv' /\ ExpiredMeansFree'
  BY DEF OwnerInv, ClockInv, ReadInv, ExpiredMeansFree, AuthDb
<1> QED
  BY <1>1, <1>2

\* New access tokens of a login that is not logged out keep fading: a premium
\* one is issued only while the plan is premium, so premiumAt is the present;
\* every other has tier 1.  A new refresh token ends with the row of its login.
LEMMA IssueFades ==
  ASSUME MembershipInv, SessionFrame, NEW s \in Sessions, NEW new \in SUBSET Credentials,
         tokens' = tokens \cup new,
         \A t \in new : t.session = s,
         \A t \in new : t.kind = "access" => t.ends = now + AccessLife,
         \A t \in new : t.tier = 2 => account[AuthDb] \in PremiumPlans,
         \A t \in new : t.tier = 2 => t.kind = "access",
         \A t \in new : t.kind # "access" => t.ends = session'[s].ends,
         session'[s].state = "live",
         \A r \in Sessions \ {s} : session'[r] = session[r],
         session[s].state = "none" \/ session'[s] = session[s]
  PROVE  /\ tokens' \subseteq Credentials
         /\ IssueInv' /\ PremiumFades' /\ LogoutFades'
<1> USE DEF MembershipInv, SessionFrame
<1>1. /\ now \in Nat /\ AccessLife \in Nat /\ premiumAt \in Int /\ now' = now
      /\ premiumAt' = premiumAt /\ account' = account
  BY Constants DEF TypeOK
<1>2. tokens \subseteq Credentials
  BY DEF TypeOK
<1>3. \A t \in Credentials :
        t.session \in Sessions /\ t.kind \in {"access", "refresh"} /\ t.tier \in {1, 2}
        /\ t.ends \in Nat
  BY DEF Credentials
<1>4. tokens' \subseteq Credentials
  BY <1>2
<1>5. IssueInv'
  <2> SUFFICES ASSUME NEW t \in tokens'
               PROVE  IF t.kind = "access" THEN t.ends <= now + AccessLife
                      ELSE /\ t.tier = 1 /\ session'[t.session].state # "none"
                           /\ t.ends = session'[t.session].ends
    BY <1>1 DEF IssueInv
  <2>1. CASE t \in new
    BY <1>1, <1>3, <2>1
  <2>2. CASE t \in tokens
    BY <1>1, <1>2, <1>3, <2>2 DEF IssueInv
  <2> QED
    BY <2>1, <2>2
<1>6. PremiumFades'
  <2> SUFFICES ASSUME NEW t \in tokens', t.tier = 2
               PROVE  t.ends <= premiumAt + AccessLife
    BY <1>1 DEF PremiumFades
  <2>1. CASE t \in new
    BY <1>1, <1>3, <2>1 DEF ClockInv
  <2>2. CASE t \in tokens
    BY <2>2 DEF PremiumFades
  <2> QED
    BY <2>1, <2>2
<1>7. LogoutFades'
  <2> SUFFICES ASSUME NEW t \in tokens', session'[t.session].state = "revoked"
               PROVE  IF t.kind = "access"
                      THEN t.ends <= session'[t.session].revokedAt + AccessLife
                      ELSE t.tier = 1 /\ t.ends <= session'[t.session].ends
    BY DEF LogoutFades
  <2>1. t.session \in Sessions \ {s} /\ t \in tokens
    BY <1>2, <1>3
  <2>2. session'[t.session] = session[t.session]
    BY <2>1
  <2> QED
    BY <2>1, <2>2 DEF LogoutFades
<1> QED
  BY <1>4, <1>5, <1>6, <1>7

\* Login.
LEMMA LoginKeepsInv ==
  ASSUME MembershipInv, NEW s \in Sessions, Login(s)
  PROVE  MembershipInv'
<1> DEFINE row == [state |-> "live", ends |-> now + RefreshLife, revokedAt |-> 0]
           tier == Tier(account[AuthDb])
           new == {Bearer(s, "access", tier, AccessLife),
                   Bearer(s, "refresh", 1, RefreshLife)}
           Logins == [state : {"none", "live", "revoked"}, ends : Nat, revokedAt : Nat]
<1>1. now \in Nat /\ AccessLife \in Nat /\ RefreshLife \in Nat
  BY Constants DEF MembershipInv, TypeOK
<1>2. row \in Logins /\ row.state = "live" /\ row.ends = now + RefreshLife
  BY <1>1
<1>3. /\ session' = [session EXCEPT ![s] = row] /\ session \in [Sessions -> Logins]
      /\ session[s].state = "none" /\ tokens' = tokens \cup new
      /\ SessionFrame
  BY DEF Login, MembershipInv, TypeOK, SessionFrame
<1>4. tier \in {1, 2} /\ (tier = 2 => account[AuthDb] \in PremiumPlans)
  BY Constants
<1> HIDE DEF row, tier
<1>5. /\ session' \in [Sessions -> Logins] /\ session'[s] = row
      /\ \A r \in Sessions \ {s} : session'[r] = session[r]
  BY <1>2, <1>3
<1>6. /\ new \subseteq Credentials
      /\ \A t \in new : t.session = s
      /\ \A t \in new : t.kind = "access" => t.ends = now + AccessLife
      /\ \A t \in new : t.tier = 2 => account[AuthDb] \in PremiumPlans
      /\ \A t \in new : t.tier = 2 => t.kind = "access"
      /\ \A t \in new : t.kind # "access" => t.ends = row.ends
  BY <1>1, <1>2, <1>4 DEF Bearer, Credentials
<1> HIDE DEF new
<1>7. /\ tokens' \subseteq Credentials
      /\ IssueInv' /\ PremiumFades' /\ LogoutFades'
  <2>1. session'[s].state = "live" /\ session'[s].ends = row.ends
    BY <1>2, <1>5
  <2>2. \A t \in new : t.kind # "access" => t.ends = session'[s].ends
    BY <1>6, <2>1
  <2>3. new \in SUBSET Credentials
    BY <1>6
  <2>4. session[s].state = "none" /\ SessionFrame /\ tokens' = tokens \cup new
    BY <1>3
  <2>5. \A r \in Sessions \ {s} : session'[r] = session[r]
    BY <1>5
  <2>6. /\ \A t \in new : t.session = s
        /\ \A t \in new : t.kind = "access" => t.ends = now + AccessLife
        /\ \A t \in new : t.tier = 2 => account[AuthDb] \in PremiumPlans
        /\ \A t \in new : t.tier = 2 => t.kind = "access"
    BY <1>6
  <2> HIDE DEF Logins
  <2> QED
    BY <2>1, <2>2, <2>3, <2>4, <2>5, <2>6, IssueFades
<1> QED
  BY <1>3, <1>5, <1>7, SessionsAside

\* Refresh.
LEMMA RefreshKeepsInv ==
  ASSUME MembershipInv, NEW s \in Sessions, Refresh(s)
  PROVE  MembershipInv'
<1> DEFINE new == {Bearer(s, "access", 1, AccessLife)}
<1>1. /\ session' = session /\ session[s].state = "live"
      /\ SessionFrame /\ tokens' = tokens \cup new
  BY DEF Refresh, SessionFrame
<1>2. now \in Nat /\ AccessLife \in Nat
  BY Constants DEF MembershipInv, TypeOK
<1>3. /\ new \subseteq Credentials
      /\ \A t \in new : /\ t.session = s /\ t.kind = "access" /\ t.tier = 1
                        /\ t.ends = now + AccessLife
  BY <1>2 DEF Bearer, Credentials
<1> HIDE DEF new
<1>4. /\ tokens' \subseteq Credentials
      /\ IssueInv' /\ PremiumFades' /\ LogoutFades'
  BY <1>1, <1>3, IssueFades
<1>5. session' \in [Sessions -> [state : {"none", "live", "revoked"}, ends : Nat,
                                revokedAt : Nat]]
  BY <1>1 DEF MembershipInv, TypeOK
<1> QED
  BY <1>1, <1>4, <1>5, SessionsAside

\* Logout: by IssueInv no access token of the login ends later than one issued
\* now, and the row keeps the end of the refresh token.
LEMMA LogoutKeepsInv ==
  ASSUME MembershipInv, NEW s \in Sessions, Logout(s)
  PROVE  MembershipInv'
<1> USE DEF MembershipInv
<1> DEFINE Logins == [state : {"none", "live", "revoked"}, ends : Nat, revokedAt : Nat]
<1>1. SessionFrame /\ tokens' = tokens /\ now \in Nat /\ now' = now
  BY DEF Logout, SessionFrame, TypeOK
<1>2. /\ session \in [Sessions -> Logins]
      /\ tokens \subseteq Credentials
      /\ \A t \in tokens : t.session \in Sessions /\ t.ends \in Nat
  BY DEF TypeOK, Credentials
<1>3. /\ session' \in [Sessions -> Logins]
      /\ \A r \in Sessions \ {s} : session'[r] = session[r]
      /\ session'[s].state = "revoked" /\ session'[s].ends = session[s].ends
      /\ session[s].state = "revoked" => session'[s].revokedAt = session[s].revokedAt
      /\ session[s].state # "revoked" => session'[s].revokedAt = now
  BY <1>1, <1>2 DEF Logout
<1>4. PremiumFades'
  BY <1>1 DEF SessionFrame, PremiumFades
<1>5. IssueInv'
  BY <1>1, <1>2, <1>3 DEF IssueInv
<1>6. LogoutFades'
  BY <1>1, <1>2, <1>3 DEF LogoutFades, IssueInv
<1> QED
  BY <1>1, <1>2, <1>3, <1>4, <1>5, <1>6, SessionsAside

\* The clock: what the plan is at the new moment, premiumAt records.
LEMMA TickKeepsInv ==
  ASSUME MembershipInv, Tick
  PROVE  MembershipInv'
<1> USE DEF MembershipInv
<1>1. /\ UNCHANGED <<account, sub, payment, hook, upgrade, lock, session, tokens,
                     restarts>>
      /\ NotePremium /\ now' \in 0..MaxTime /\ now' \in Nat /\ now <= now'
  BY Constants DEF Tick, TypeOK
<1>2. premiumAt' \in Int
  BY <1>1, PremiumType
<1>3. TypeOK'
  BY <1>1, <1>2 DEF TypeOK, Stores, AuthDb, LocalDb, Subscriptions
<1>4. OwnerInv' /\ ReadInv' /\ ExpiredMeansFree'
  BY <1>1 DEF OwnerInv, ReadInv, ExpiredMeansFree, AuthDb
<1> QED
  BY <1>1, <1>3, <1>4, TokensAside

\* A restart: no upgrade survives it, and what expires becomes free.
LEMMA RestartKeepsInv ==
  ASSUME MembershipInv, Restart
  PROVE  MembershipInv'
<1> USE DEF MembershipInv
<1> DEFINE Progresses == [at : {"idle", "user", "both", "done"}, plan : Plans,
                          sawPlan : Plans, sawSub : Subscriptions]
           done == [NoUpgrade EXCEPT !.at = "done"]
<1>1. /\ UNCHANGED <<now, payment, session, tokens>>
      /\ NotePremium /\ now' \in Nat /\ now <= now'
      /\ restarts' \in 0..MaxRestarts /\ lock' = "none"
  BY Constants DEF Restart, TypeOK
<1>2. premiumAt' \in Int
  BY <1>1, PremiumType
<1>3. hook' \in [Hooks -> {"idle", "read", "applied", "refused", "lost"}]
  BY DEF Restart, TypeOK
<1>4. done \in Progresses /\ done.at = "done"
  BY Constants DEF NoUpgrade, NoSub, Subscriptions
<1>5. upgrade' = [u \in Upgrades |-> IF upgrade[u].at \in {"user", "both"}
                                    THEN done ELSE upgrade[u]]
  BY DEF Restart
<1>6. upgrade' \in [Upgrades -> Progresses] /\ ReadInv'
  <2> HIDE DEF done
  <2> QED
    BY <1>4, <1>5 DEF TypeOK, ReadInv
<1>7. CASE UNCHANGED <<account, sub>>
  <2>1. TypeOK'
    BY <1>1, <1>2, <1>3, <1>6, <1>7
       DEF TypeOK, Stores, AuthDb, LocalDb, Subscriptions
  <2>2. OwnerInv' /\ ExpiredMeansFree'
    BY <1>7 DEF OwnerInv, ExpiredMeansFree, AuthDb
  <2> QED
    BY <1>1, <1>6, <1>7, <2>1, <2>2, TokensAside
<1>8. CASE Expire(LocalDb)
  <2>1. /\ account' \in [Stores -> Plans \cup {"absent"}]
        /\ account'[LocalDb] \in {"free", "absent"}
        /\ account[LocalDb] # "absent" => account'[LocalDb] = "free"
        /\ \A e \in Stores \ {LocalDb} : account'[e] = account[e]
    BY <1>8, Constants, AccountSet DEF Expire
  <2>2. [sub[LocalDb] EXCEPT !.status = "expired"] \in Subscriptions
    <3>1. sub[LocalDb] \in Subscriptions
      BY Constants DEF TypeOK
    <3> QED
      BY <3>1 DEF Subscriptions
  <2>3. /\ sub' \in [Stores -> Subscriptions]
        /\ \A e \in Stores \ {LocalDb} : sub'[e] = sub[e]
    BY <1>8, <2>2, Constants DEF Expire, TypeOK
  <2>4. TypeOK'
    BY <1>1, <1>2, <1>3, <1>6, <2>1, <2>3
       DEF TypeOK, Stores, AuthDb, LocalDb, Subscriptions
  <2>5. OwnerInv'
    BY <2>1, Constants DEF OwnerInv, AuthDb
  <2>6. ExpiredMeansFree'
    BY <2>1, <2>3 DEF ExpiredMeansFree, Stores, AuthDb, LocalDb
  <2> QED
    BY <1>1, <1>6, <2>4, <2>5, <2>6, TokensAside
<1> QED
  BY <1>7, <1>8 DEF Restart

-----------------------------------------------------------------------------
(* The theorems.                                                           *)

\* Every step keeps the invariant.
LEMMA MembershipStep == MembershipInv /\ [Next]_vars => MembershipInv'
<1> SUFFICES ASSUME MembershipInv, [Next]_vars PROVE MembershipInv'
  OBVIOUS
<1>1. CASE UNCHANGED vars
  BY <1>1 DEF vars, MembershipInv, TypeOK, OwnerInv, ClockInv, IssueInv, ReadInv,
              ExpiredMeansFree, PremiumFades, LogoutFades, Stores, AuthDb, LocalDb,
              Subscriptions
<1>2. ASSUME NEW c \in Checkouts, CreateCheckout(c) PROVE MembershipInv'
  BY <1>2, CheckoutKeepsInv
<1>3. ASSUME NEW h \in Hooks, WebhookReads(h) \/ WebhookWrites(h)
      PROVE  MembershipInv'
  BY <1>3, CheckoutKeepsInv, WebhookKeepsInv
<1>4. ASSUME NEW u \in Upgrades,
             \/ \E p \in Plans : UpgradeReadsUser(u, p)
             \/ UpgradeReadsSub(u) \/ UpgradeCommits(u) \/ UpgradeRollsBack(u)
      PROVE  MembershipInv'
  BY <1>4, UpgradeReadsKeepInv, UpgradeCommitKeepsInv
<1>5. ASSUME NEW s \in Sessions, Login(s) \/ Refresh(s) \/ Logout(s)
      PROVE  MembershipInv'
  BY <1>5, LoginKeepsInv, RefreshKeepsInv, LogoutKeepsInv
<1>6. CASE Tick
  BY <1>6, TickKeepsInv
<1>7. CASE Restart
  BY <1>7, RestartKeepsInv
<1> QED
  BY <1>1, <1>2, <1>3, <1>4, <1>5, <1>6, <1>7 DEF Next

\* The invariant holds in every state.
THEOREM MembershipInvariant == Spec => []MembershipInv
  BY MembershipInit, MembershipStep, PTL DEF Spec

\* Every variable keeps its type.
THEOREM MembershipTypes == Spec => []TypeOK
<1>1. MembershipInv => TypeOK
  BY DEF MembershipInv
<1> QED
  BY <1>1, MembershipInvariant, PTL

\* However webhooks, upgrades and start-ups interleave, an account with an
\* expired subscription is on the free plan.
THEOREM ExpiredPlansAreFree == Spec => []ExpiredMeansFree
<1>1. MembershipInv => ExpiredMeansFree
  BY DEF MembershipInv
<1> QED
  BY <1>1, MembershipInvariant, PTL

\* A premium token outlives the paid plan, and an access token the logout, by
\* the life of one token at most; a refresh token that was logged out is good as
\* a Bearer token of tier 1 until the end it was issued with, and no longer.
THEOREM MembershipTokensFade == Spec => []TokensFade
<1>1. MembershipInv => TokensFade
  BY DEF MembershipInv, TokensFade
<1> QED
  BY <1>1, MembershipInvariant, PTL

\* Days pass in the order of the moments.
LEMMA DaysAreOrdered ==
  ASSUME NEW a \in Nat, NEW b \in Nat, a <= b
  PROVE  Day(a) <= Day(b)
<1> DEFINE T == TicksPerDay
           p == a \div T
           q == b \div T
<1>1. T \in Nat \ {0}
  BY MembershipAssumption
<1>2. p \in Int /\ q \in Int /\ T * p <= a /\ b < T * (q + 1)
  BY <1>1, SMTT(30)
<1> HIDE DEF p, q, T
<1>3. T * p < T * (q + 1)
  <2>1. T * p \in Int /\ T * (q + 1) \in Int
    BY <1>1, <1>2
  <2> QED
    BY <1>2, <2>1
<1>4. p < q + 1
  BY <1>1, <1>2, <1>3, SMTT(30)
<1> QED
  BY <1>2, <1>4 DEF p, q, T, Day

\* A start-up ends no subscription before its last day, and nothing else ends
\* one at all (subscription_lifecycle.py:9-53).
THEOREM NothingExpiresEarly == Spec => NoEarlyExpiry
<1>1. ASSUME MembershipInv, [Next]_vars, NEW d \in Stores,
             sub[d].status = "active", sub'[d].status = "expired"
      PROVE  Day(sub[d].end) <= Day(now)
  <2>1. /\ sub[d] \in Subscriptions /\ sub \in [Stores -> Subscriptions]
        /\ now \in Nat /\ sub[d].end \in Nat
    BY <1>1, Constants DEF MembershipInv, TypeOK, Subscriptions
  <2>2. sub' # sub
    BY <1>1
  <2>3. CASE \E h \in Hooks : WebhookWrites(h)
    <3>1. sub' = [sub EXCEPT ![LocalDb] = sub'[LocalDb]] /\ sub'[LocalDb].status = "active"
      BY <2>1, <2>2, <2>3, Constants DEF WebhookWrites
    <3> QED
      BY <1>1, <2>1, <3>1
  <2>4. CASE \E u \in Upgrades : UpgradeCommits(u)
    <3>1. PICK u \in Upgrades : UpgradeCommits(u)
      BY <2>4
    <3>2. /\ \A e \in Stores \ {AuthDb} : sub'[e] = sub[e]
          /\ sub'[AuthDb].status = Differing("active", upgrade[u].sawSub.status,
                                             sub[AuthDb].status)
      BY <2>1, <3>1, Constants DEF UpgradeCommits
    <3>3. sub'[AuthDb].status \in {"active", sub[AuthDb].status}
      BY <3>2 DEF Differing
    <3> QED
      BY <1>1, <3>2, <3>3
  <2>5. CASE Restart
    <3>1. Ended(sub[LocalDb]) /\ \A e \in Stores \ {LocalDb} : sub'[e] = sub[e]
      BY <2>1, <2>2, <2>5, Constants DEF Restart, Expire
    <3>2. d = LocalDb
      BY <1>1, <3>1
    <3>3. sub[d].end < now \/ Day(sub[d].end) <= Day(now)
      BY <3>1, <3>2 DEF Ended
    <3> QED
      BY <2>1, <3>3, DaysAreOrdered
  <2> QED
    BY <1>1, <2>2, <2>3, <2>4, <2>5
       DEF Next, vars, CreateCheckout, WebhookReads, UpgradeReadsUser, UpgradeReadsSub,
           UpgradeRollsBack, Login, Refresh, Logout, Tick
<1>2. MembershipInv /\ [Next]_vars =>
        [\A d \in Stores : sub[d].status = "active" /\ sub'[d].status = "expired"
          => Day(sub[d].end) <= Day(now)]_vars
  BY <1>1
<1> QED
  BY <1>2, MembershipInvariant, PTL DEF Spec, NoEarlyExpiry

-----------------------------------------------------------------------------
(* The daily quota, for every set of requests, every quota map and every   *)
(* number of crashes.                                                      *)

\* The requests that stand at one place are a finite set.
LEMMA AtIsFinite ==
  ASSUME NEW s
  PROVE  IsFiniteSet(At(s)) /\ Cardinality(At(s)) \in Nat
<1>1. At(s) \in SUBSET Requests
  BY DEF At
<1>2. IsFiniteSet(At(s))
  BY <1>1, QuotaAssumption, FS_Subset DEF QuotaAssumption
<1> QED
  BY <1>2, FS_CardinalityType

\* Two disjoint finite sets: the cardinalities add up.
LEMMA DisjointUnion ==
  ASSUME NEW S, NEW T, IsFiniteSet(S), IsFiniteSet(T), S \cap T = {}
  PROVE  /\ IsFiniteSet(S \cup T)
         /\ Cardinality(S \cup T) = Cardinality(S) + Cardinality(T)
<1>1. Cardinality(S \cap T) = 0
  BY FS_EmptySet
<1>2. Cardinality(S) \in Nat /\ Cardinality(T) \in Nat
  BY FS_CardinalityType
<1>3. /\ IsFiniteSet(S \cup T)
      /\ Cardinality(S \cup T)
           = Cardinality(S) + Cardinality(T) - Cardinality(S \cap T)
  BY FS_Union
<1> QED
  BY <1>1, <1>2, <1>3

\* One request that goes from one place to another leaves the first set, joins
\* the second, and moves nobody else.
LEMMA GotoMovesOne ==
  ASSUME NEW r \in Requests, NEW from, NEW to,
         pc \in [Requests -> States], from # to, Goto(r, from, to)
  PROVE  /\ Cardinality(At(from)') = Cardinality(At(from)) - 1
         /\ Cardinality(At(to)') = Cardinality(At(to)) + 1
         /\ Cardinality(At(from)) > 0
         /\ \A s : s \notin {from, to} => At(s)' = At(s)
<1>1. At(from)' = At(from) \ {r} /\ r \in At(from)
  BY DEF At, Goto
<1>2. At(to)' = At(to) \cup {r} /\ r \notin At(to)
  BY DEF At, Goto
<1>3. \A s : s \notin {from, to} => At(s)' = At(s)
  BY DEF At, Goto
<1>4. IsFiniteSet(At(from)) /\ IsFiniteSet(At(to))
  BY AtIsFinite
<1>5. Cardinality(At(from)') = Cardinality(At(from)) - 1
  BY <1>1, <1>4, FS_RemoveElement
<1>6. Cardinality(At(to)') = Cardinality(At(to)) + 1
  BY <1>2, <1>4, FS_AddElement
<1>7. Cardinality(At(from)) # 0
  BY <1>1, <1>4, FS_EmptySet
<1> QED
  BY <1>3, <1>5, <1>6, <1>7, AtIsFinite

-----------------------------------------------------------------------------
\* created is a natural number only because every request that takes one back
\* has been counted: the type invariant needs CountIsExact.
QuotaInv == QuotaTypes /\ CountIsExact /\ NeverOverGranted

\* Before the first request of the day nobody is counted and nothing is granted.
THEOREM QuotaStarts == QuotaInit => QuotaInv
<1> SUFFICES ASSUME QuotaInit PROVE QuotaInv
  OBVIOUS
<1>1. QuotaTypes
  BY QuotaAssumption DEF QuotaInit, QuotaTypes, States, QuotaAssumption
<1>2. \A s \in States \ {"idle"} : At(s) = {}
  BY DEF QuotaInit, At, States
<1>3. \A s \in States \ {"idle"} : Cardinality(At(s)) = 0
  BY <1>2, FS_EmptySet
<1>4. CountIsExact /\ NeverOverGranted
  BY <1>3 DEF QuotaInit, CountIsExact, NeverOverGranted, States
<1> QED
  BY <1>1, <1>4 DEF QuotaInv

\* What every step below relies on: all cardinalities are natural numbers.
LEMMA CardinalitiesAreNat ==
  \A s \in States : Cardinality(At(s)) \in Nat /\ Cardinality(At(s)') \in Nat
<1>1. \A s : Cardinality(At(s)) \in Nat
  BY AtIsFinite
<1>2. ASSUME NEW s PROVE Cardinality(At(s)') \in Nat
  <2>1. At(s)' \in SUBSET Requests
    BY DEF At
  <2> QED
    BY <2>1, QuotaAssumption, FS_Subset, FS_CardinalityType DEF QuotaAssumption
<1> QED
  BY <1>1, <1>2

\* No step of a request, of the plan or of the process breaks the invariant.
THEOREM QuotaStep == QuotaInv /\ [QuotaNext]_quotaVars => QuotaInv'
<1> SUFFICES ASSUME QuotaInv, [QuotaNext]_quotaVars PROVE QuotaInv'
  OBVIOUS
<1> USE DEF QuotaInv
<1>1. ASSUME NEW r \in Requests, Count(r) PROVE QuotaInv'
  <2>1. /\ pc \in [Requests -> States] /\ Goto(r, "idle", "counted")
        /\ created' = created + 1
        /\ limit' = IF limit = 0 THEN GetQuota(FreePlan) ELSE limit
        /\ UNCHANGED <<plan, read, crashes>>
    BY <1>1 DEF Count, QuotaTypes
  <2>2. /\ Cardinality(At("counted")') = Cardinality(At("counted")) + 1
        /\ \A s : s \notin {"idle", "counted"} => At(s)' = At(s)
    BY <2>1, GotoMovesOne
  <2>3. limit' \in Nat /\ limit <= limit'
    BY <2>1, QuotaAssumption DEF QuotaTypes, GetQuota, QuotaAssumption
  <2>4. QuotaTypes'
    BY <2>1, <2>3 DEF QuotaTypes, Goto, States
  <2>5. CountIsExact'
    BY <2>1, <2>2, CardinalitiesAreNat DEF CountIsExact, QuotaTypes, States
  <2>6. NeverOverGranted'
    BY <2>2, <2>3, CardinalitiesAreNat DEF NeverOverGranted, QuotaTypes, States
  <2> QED
    BY <2>4, <2>5, <2>6
<1>2. ASSUME NEW r \in Requests, ReadBackGrants(r) PROVE QuotaInv'
  <2>1. /\ pc \in [Requests -> States] /\ Goto(r, "counted", "granted")
        /\ created <= limit
        /\ read' = [read EXCEPT ![r] = created]
        /\ UNCHANGED <<plan, created, limit, crashes>>
    BY <1>2 DEF ReadBackGrants, QuotaTypes
  <2>2. /\ Cardinality(At("counted")') = Cardinality(At("counted")) - 1
        /\ Cardinality(At("granted")') = Cardinality(At("granted")) + 1
        /\ Cardinality(At("counted")) > 0
        /\ \A s : s \notin {"counted", "granted"} => At(s)' = At(s)
    BY <2>1, GotoMovesOne
  <2>3. QuotaTypes'
    BY <2>1 DEF QuotaTypes, Goto, States
  <2>4. CountIsExact'
    BY <2>1, <2>2, CardinalitiesAreNat DEF CountIsExact, QuotaTypes, States
  \* r itself is counted, so the others that were granted are below created.
  <2>5. NeverOverGranted'
    BY <2>1, <2>2, CardinalitiesAreNat
       DEF CountIsExact, NeverOverGranted, QuotaTypes, States
  <2> QED
    BY <2>3, <2>4, <2>5
<1>3. ASSUME NEW r \in Requests, ReadBackRefuses(r) PROVE QuotaInv'
  <2>1. /\ pc \in [Requests -> States] /\ Goto(r, "counted", "reverting")
        /\ read' = [read EXCEPT ![r] = created]
        /\ UNCHANGED <<plan, created, limit, crashes>>
    BY <1>3 DEF ReadBackRefuses, QuotaTypes
  <2>2. /\ Cardinality(At("counted")') = Cardinality(At("counted")) - 1
        /\ Cardinality(At("reverting")') = Cardinality(At("reverting")) + 1
        /\ \A s : s \notin {"counted", "reverting"} => At(s)' = At(s)
    BY <2>1, GotoMovesOne
  <2>3. QuotaTypes'
    BY <2>1 DEF QuotaTypes, Goto, States
  <2>4. CountIsExact'
    BY <2>1, <2>2, CardinalitiesAreNat DEF CountIsExact, QuotaTypes, States
  <2>5. NeverOverGranted'
    BY <2>1, <2>2 DEF NeverOverGranted
  <2> QED
    BY <2>3, <2>4, <2>5
<1>4. ASSUME NEW r \in Requests, Revert(r) PROVE QuotaInv'
  <2>1. /\ pc \in [Requests -> States] /\ Goto(r, "reverting", "refused")
        /\ created' = created - 1
        /\ UNCHANGED <<plan, limit, read, crashes>>
    BY <1>4 DEF Revert, QuotaTypes
  <2>2. /\ Cardinality(At("reverting")') = Cardinality(At("reverting")) - 1
        /\ Cardinality(At("reverting")) > 0
        /\ \A s : s \notin {"reverting", "refused"} => At(s)' = At(s)
    BY <2>1, GotoMovesOne
  \* The count that r takes back is part of created.
  <2>3. created' \in Nat
    BY <2>1, <2>2, CardinalitiesAreNat DEF CountIsExact, QuotaTypes, States
  <2>4. QuotaTypes'
    BY <2>1, <2>3 DEF QuotaTypes, Goto, States
  <2>5. CountIsExact'
    BY <2>1, <2>2, CardinalitiesAreNat DEF CountIsExact, QuotaTypes, States
  <2>6. NeverOverGranted'
    BY <2>1, <2>2 DEF NeverOverGranted
  <2> QED
    BY <2>4, <2>5, <2>6
<1>5. CASE ChangePlan
  <2>1. At("granted")' = At("granted") /\ At("counted")' = At("counted")
        /\ At("reverting")' = At("reverting") /\ At("lost")' = At("lost")
    BY <1>5 DEF ChangePlan, At
  <2> QED
    BY <1>5, <2>1 DEF ChangePlan, QuotaTypes, CountIsExact, NeverOverGranted
<1>6. CASE Crash
  <2>1. /\ At("granted")' = At("granted")
        /\ At("counted")' = {} /\ At("reverting")' = {}
        /\ At("lost")' = (At("lost") \cup At("counted")) \cup At("reverting")
    BY <1>6 DEF Crash, At, QuotaTypes, States
  <2>2. /\ At("lost") \cap At("counted") = {}
        /\ (At("lost") \cup At("counted")) \cap At("reverting") = {}
    BY DEF At
  <2>3. Cardinality(At("lost")') = Cardinality(At("lost"))
          + Cardinality(At("counted")) + Cardinality(At("reverting"))
    <3>1. /\ IsFiniteSet(At("lost") \cup At("counted"))
          /\ Cardinality(At("lost") \cup At("counted"))
               = Cardinality(At("lost")) + Cardinality(At("counted"))
      BY <2>2, AtIsFinite, DisjointUnion
    <3> QED
      BY <2>1, <2>2, <3>1, AtIsFinite, DisjointUnion
  <2>4. Cardinality(At("counted")') = 0 /\ Cardinality(At("reverting")') = 0
    BY <2>1, FS_EmptySet
  <2>5. CountIsExact'
    BY <1>6, <2>1, <2>3, <2>4, CardinalitiesAreNat DEF Crash, CountIsExact, QuotaTypes, States
  <2>6. QuotaTypes'
    BY <1>6, QuotaAssumption DEF Crash, QuotaTypes, States, QuotaAssumption
  <2>7. NeverOverGranted'
    BY <1>6, <2>1 DEF Crash, NeverOverGranted
  <2> QED
    BY <2>5, <2>6, <2>7
<1>7. CASE UNCHANGED quotaVars
  BY <1>7 DEF quotaVars, At, QuotaTypes, CountIsExact, NeverOverGranted
<1> QED
  BY <1>1, <1>2, <1>3, <1>4, <1>5, <1>6, <1>7 DEF QuotaNext, Step

-----------------------------------------------------------------------------
\* Every variable keeps its type, and videos_created never goes below zero.
THEOREM QuotaTypeOK == QuotaSpec => []QuotaTypes
<1>1. QuotaInv => QuotaTypes
  BY DEF QuotaInv
<1> QED
  BY <1>1, QuotaStarts, QuotaStep, PTL DEF QuotaSpec

\* The row counts exactly the requests that hold a video or may still get one.
THEOREM QuotaCountIsExact == QuotaSpec => []CountIsExact
<1>1. QuotaInv => CountIsExact
  BY DEF QuotaInv
<1> QED
  BY <1>1, QuotaStarts, QuotaStep, PTL DEF QuotaSpec

\* No interleaving of the user's requests grants more than the quota.
THEOREM QuotaNeverOverGranted == QuotaSpec => []NeverOverGranted
<1>1. QuotaInv => NeverOverGranted
  BY DEF QuotaInv
<1> QED
  BY <1>1, QuotaStarts, QuotaStep, PTL DEF QuotaSpec

-----------------------------------------------------------------------------
(* The feature gates, for any versions and any number of edits and         *)
(* restarts.                                                               *)

\* Times are taken from the clock, which edits move on; unless a write gave no
\* later time, nobody has seen a later time than the file's.
TimesAreRead ==
  /\ mtime <= edits + 1 /\ seen <= edits + 1 /\ stat <= edits + 1
  /\ old \/ (seen <= mtime /\ stat <= mtime)

\* The cache holds the file whose time it has recorded.
CacheIsFile ==
  old \/ (cache # "none" /\ seen = mtime /\ file \in Parsed => cache = file)

\* Who decided by a version had it from the cache.
AnswerIsCached == answer \in Versions => cache \in Versions

GatesInv == GatesTypes /\ TimesAreRead /\ CacheIsFile /\ AnswerIsCached

\* The names of the file's and the cache's other states are not versions.
LEMMA NamesAreNoVersions ==
  /\ "missing" \notin Versions /\ "broken" \notin Versions
  /\ "none" \notin Versions /\ "unlisted" \notin Versions
  /\ "null" \notin Versions /\ "word" \notin Versions
  /\ "everybody" \notin Versions /\ "nobody" \notin Versions
BY GatesAssumption

\* What is in the cache decides by a version, lets everybody in, or nobody; by
\* a version only if it is that version.
LEMMA DecisionIsKnown ==
  ASSUME NEW gates
  PROVE  /\ Decision(gates) \in Versions \cup {"everybody", "nobody"}
         /\ Decision(gates) \in Versions => gates \in Versions
         /\ gates \in Versions => Decision(gates) = gates
BY NamesAreNoVersions DEF Decision

\* Taking None for {} leaves every other content of the cache as it is.
LEMMA OrEmptyIsCached ==
  ASSUME NEW gates \in Versions \cup {"none", "unlisted", "word"}
  PROVE  /\ OrEmpty(gates) \in Versions \cup {"unlisted", "word"}
         /\ gates # "none" => OrEmpty(gates) = gates
         /\ OrEmpty(gates) \in Versions => gates \in Versions
BY NamesAreNoVersions DEF OrEmpty

\* Inductive step for the calls of get_feature_gates: a call changes the cache
\* together with its time.
LEMMA CallKeepsGatesInv == GatesInv /\ Call => GatesInv'
<1> SUFFICES ASSUME GatesInv, Call PROVE GatesInv'
  OBVIOUS
<1> USE DEF GatesInv, GatesTypes, TimesAreRead, CacheIsFile, AnswerIsCached, outside
<1>1. CASE FileIsMissing
  BY <1>1, DecisionIsKnown, OrEmptyIsCached DEF FileIsMissing
<1>2. CASE CacheHit
  BY <1>2, DecisionIsKnown DEF CacheHit
<1>3. CASE CacheMiss
  BY <1>3 DEF CacheMiss
<1>4. CASE Reload
  <2> DEFINE gates == IF file = "null" THEN "none" ELSE file
  <2>1. gates \in Versions \cup {"none", "unlisted", "word"}
    BY <1>4 DEF Reload, Parsed, Stumps
  <2>2. gates # "none" => gates = file
    OBVIOUS
  <2>3. /\ cache' = gates /\ answer' = Decision(gates) /\ seen' = stat
        /\ UNCHANGED <<file, mtime, old, edits, starts, stat>>
        /\ looked' = FALSE
    BY <1>4 DEF Reload, Return
  <2> HIDE DEF gates
  <2>4. GatesTypes'
    BY <2>1, <2>3, DecisionIsKnown
  <2>5. TimesAreRead' /\ CacheIsFile'
    BY <2>2, <2>3
  <2>6. AnswerIsCached'
    BY <2>3, DecisionIsKnown
  <2> QED
    BY <2>4, <2>5, <2>6
<1>5. CASE ReloadFails
  <2> DEFINE gates == OrEmpty(cache)
  <2>1. /\ file \notin Parsed
        /\ cache' = gates /\ answer' = Decision(gates) /\ looked' = FALSE
        /\ UNCHANGED <<file, mtime, old, edits, starts, seen, stat>>
    BY <1>5 DEF ReloadFails, Return
  <2>2. gates \in Versions \cup {"unlisted", "word"}
    BY OrEmptyIsCached
  <2> HIDE DEF gates
  <2>3. GatesTypes'
    BY <2>1, <2>2, DecisionIsKnown
  <2>4. TimesAreRead' /\ CacheIsFile'
    BY <2>1
  <2>5. AnswerIsCached'
    BY <2>1, DecisionIsKnown
  <2> QED
    BY <2>3, <2>4, <2>5
<1> QED
  BY <1>1, <1>2, <1>3, <1>4, <1>5 DEF Call

\* Inductive step for the world around: an edit moves the time on, so that the
\* recorded one is past; a removal leaves nothing to be stale against.
LEMMA EditKeepsGatesInv ==
  GatesInv /\ (Write \/ Remove \/ Restore \/ ServerRestarts) => GatesInv'
<1> SUFFICES ASSUME GatesInv, Write \/ Remove \/ Restore \/ ServerRestarts PROVE GatesInv'
  OBVIOUS
<1> USE GatesAssumption DEF GatesInv, GatesTypes, TimesAreRead, CacheIsFile, AnswerIsCached
<1>1. CASE Write
  <2>1. /\ old' = FALSE /\ edits' = edits + 1 /\ mtime' = edits + 2
        /\ UNCHANGED <<cache, seen, stat, answer>>
    BY <1>1 DEF Write, Edit
  <2>2. old' \in BOOLEAN
    BY <1>1 DEF Write
  <2>3. GatesTypes'
    BY <1>1, <2>2 DEF Write, Edit
  <2>4. TimesAreRead'
    BY <2>1
  <2>5. CacheIsFile' /\ AnswerIsCached'
    BY <2>1
  <2> QED
    BY <2>3, <2>4, <2>5
<1>2. CASE Remove
  <2>1. "missing" \notin Parsed
    BY NamesAreNoVersions DEF Parsed, Stumps
  <2> QED
    BY <1>2, <2>1 DEF Remove, Edit
<1>3. CASE Restore
  BY <1>3 DEF Restore, Edit
<1>4. CASE ServerRestarts
  <2>1. /\ cache' = "none" /\ seen' = 0 /\ stat' = 0 /\ answer' = "everybody"
        /\ UNCHANGED <<file, mtime, old, edits>>
    BY <1>4 DEF ServerRestarts
  <2>2. looked' \in BOOLEAN /\ old' \in BOOLEAN
    BY <1>4 DEF ServerRestarts
  <2>3. GatesTypes'
    BY <1>4, <2>2 DEF ServerRestarts
  <2>4. TimesAreRead' /\ CacheIsFile'
    BY <2>1
  <2>5. AnswerIsCached'
    BY <2>1, NamesAreNoVersions
  <2> QED
    BY <2>3, <2>4, <2>5
<1> QED
  BY <1>1, <1>2, <1>3, <1>4

\* The inductive invariant holds in every reachable state.
THEOREM GatesInvariant ==
  GatesSpec => []GatesInv
<1>1. GatesInit => GatesInv
  <2>1. GatesInit => looked \in BOOLEAN /\ old \in BOOLEAN
    BY DEF GatesInit
  <2>2. GatesInit => GatesTypes
    BY <2>1, GatesAssumption DEF GatesInit, GatesTypes
  <2>3. GatesInit => TimesAreRead /\ CacheIsFile /\ AnswerIsCached
    BY NamesAreNoVersions DEF GatesInit, TimesAreRead, CacheIsFile, AnswerIsCached
  <2> QED
    BY <2>2, <2>3 DEF GatesInv
<1>2. GatesInv /\ [GatesNext]_gatesVars => GatesInv'
  <2> SUFFICES ASSUME GatesInv, [GatesNext]_gatesVars PROVE GatesInv'
    OBVIOUS
  <2>1. CASE GatesNext
    BY <2>1, CallKeepsGatesInv, EditKeepsGatesInv DEF GatesNext
  <2>2. CASE UNCHANGED gatesVars
    BY <2>2 DEF gatesVars, GatesInv, GatesTypes, TimesAreRead, CacheIsFile, AnswerIsCached
  <2> QED
    BY <2>1, <2>2
<1> QED
  BY <1>1, <1>2, PTL DEF GatesSpec

\* Types are kept by every edit, load and restart.
THEOREM GatesTypeOK ==
  GatesSpec => []GatesTypes
BY GatesInvariant, PTL DEF GatesInv

\* A call that is answered from the cache answers what the file says.
THEOREM HitsAreFresh ==
  GatesSpec => []HitIsFresh
<1>1. GatesInv => HitIsFresh
  BY DEF GatesInv, GatesTypes, TimesAreRead, CacheIsFile, HitIsFresh, Hit
<1> QED
  BY <1>1, GatesInvariant, PTL

\* A feature that was met gated is given up only by a restart or by the load of
\* a file that parses and does not gate it.
THEOREM GatesFallByTheirFile ==
  GatesSpec => GateFallsByItsFile
<1> DEFINE Falls == (answer \in Versions /\ answer' \notin Versions)
                      => ServerRestarts \/ (Reload /\ file \in Stumps)
<1>1. GatesInv /\ [GatesNext]_gatesVars => [Falls]_gatesVars
  <2> SUFFICES ASSUME GatesInv, GatesNext, ~ServerRestarts,
                      ~(Reload /\ file \in Stumps), answer \in Versions
               PROVE  answer' \in Versions
    OBVIOUS
  <2>1. cache \in Versions /\ cache # "none"
    BY NamesAreNoVersions DEF GatesInv, AnswerIsCached
  <2>2. OrEmpty(cache) = cache /\ Decision(cache) = cache
    BY <2>1, DecisionIsKnown DEF OrEmpty
  <2>3. CASE FileIsMissing \/ CacheHit
    BY <2>1, <2>2, <2>3 DEF FileIsMissing, CacheHit
  <2>4. CASE CacheMiss
    BY <2>4 DEF CacheMiss
  <2>5. CASE Reload
    <3>1. file \in Versions /\ file # "null"
      BY <2>5, NamesAreNoVersions DEF Reload, Parsed, Stumps
    <3>2. answer' = Decision(file)
      BY <2>5, <3>1 DEF Reload, Return
    <3> QED
      BY <3>1, <3>2, DecisionIsKnown
  <2>6. CASE ReloadFails
    BY <2>1, <2>2, <2>6 DEF ReloadFails, Return
  <2>7. CASE Write \/ Remove \/ Restore
    BY <2>7 DEF Write, Remove, Restore, Edit
  <2> QED
    BY <2>3, <2>4, <2>5, <2>6, <2>7 DEF GatesNext, Call
<1> QED
  BY <1>1, GatesInvariant, PTL DEF GatesSpec, GateFallsByItsFile
=============================================================================
