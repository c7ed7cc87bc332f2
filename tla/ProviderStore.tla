---------------------------- MODULE ProviderStore ----------------------------
(***************************************************************************)
(* The rows of one provider and of its users' keys, and the one connection *)
(* through which every coroutine of the server reads and writes them       *)
(* (services/provider_router.py).  A change is a statement and a commit    *)
(* with a suspension between them, so the transaction they run in is       *)
(* shared with whoever comes in between; and no statement that fails is    *)
(* followed by a rollback.  Other connections write to the same file.      *)
(***************************************************************************)
EXTENDS FiniteSets

CONSTANTS
  Users,     \* users; one request of each at a time
  Admins,    \* requests of administrators and desktop clients
  Keys       \* API keys

ASSUME StoreAssumption == Users \cap Admins = {} /\ "none" \notin Keys

VARIABLES
  own,      \* the rows as this connection sees them
  disk,     \* the rows as committed
  tx,       \* the connection's transaction
  behind,   \* it has a snapshot, and another connection has committed since
  other,    \* another connection holds the write lock
  at,       \* the next statement of each request
  broken,   \* history: a statement has failed since the last commit
  told,     \* history: the key each user has been told is set
  asked     \* history: what each user is asking for

vars == <<own, disk, tx, behind, other, at, broken, told, asked>>

Requests == Users \cup Admins

NoKey == "none"

\* Column is_active is kept apart: DELETE resets it and nothing sets it again.
Rows == [provider : BOOLEAN, key : [Users -> Keys \cup {NoKey}], active : [Users -> BOOLEAN]]

Init ==
  /\ own = [provider |-> FALSE,
            key |-> [u \in Users |-> NoKey],
            active |-> [u \in Users |-> TRUE]]
  /\ disk = own
  /\ tx = "none"
  /\ behind = FALSE
  /\ other = FALSE
  /\ at = [r \in Requests |-> "idle"]
  /\ broken = FALSE
  /\ told = [u \in Users |-> NoKey]
  /\ asked = [u \in Users |-> NoKey]

-----------------------------------------------------------------------------
(* The connection.  Python opens a transaction before a statement that     *)
(* writes: "begun" as long as none has succeeded.  A SELECT inside it takes*)
(* a snapshot ("reading"), a statement that writes takes the lock.         *)

Goto(r, to) == at' = [at EXCEPT ![r] = to]

CanLock == ~other /\ ~behind

\* execute() of a statement that writes
Writes(r, rows, to) ==
  /\ CanLock
  /\ own' = rows
  /\ tx' = "writing"
  /\ Goto(r, to)
  /\ UNCHANGED <<disk, behind, other, broken, told>>

\* "database is locked": at once if the snapshot is old, else after 5 seconds.
IsRefused(r) ==
  /\ ~CanLock
  /\ at[r] \in {"idle", "insert", "update", "delete", "upsert"}
  /\ tx' = IF tx = "none" THEN "begun" ELSE tx
  /\ broken' = TRUE
  /\ Goto(r, "idle")
  /\ UNCHANGED <<own, disk, behind, other, told, asked>>

\* A unique key: the statement is undone, the lock it has taken is not.
ViolatesKey(r) ==
  /\ CanLock
  /\ tx' = "writing"
  /\ broken' = TRUE
  /\ Goto(r, "idle")
  /\ UNCHANGED <<own, disk, behind, other, told>>

Selects(r, to) ==
  /\ tx' = IF tx = "begun" THEN "reading" ELSE tx
  /\ Goto(r, to)
  /\ UNCHANGED <<own, disk, behind, other, broken, told>>

Executed(r) == at[r] \in {"commit", "finish"}

\* commit() covers whatever has been executed by then.  Who has created or
\* updated a provider reads it back; the others are answered.
Commit(r) ==
  /\ Executed(r)
  /\ disk' = own
  /\ tx' = "none"
  /\ behind' = FALSE
  /\ broken' = FALSE
  /\ told' = IF r \in Users THEN [told EXCEPT ![r] = asked[r]] ELSE told
  /\ Goto(r, IF at[r] = "commit" THEN "readback" ELSE "idle")
  /\ UNCHANGED <<own, other, asked>>

ReadBack(r) ==
  /\ at[r] = "readback"
  /\ Selects(r, "idle")
  /\ UNCHANGED asked

\* get, get_by_type, list_all and list_available for anybody.
Look(r) ==
  /\ at[r] = "idle"
  /\ Selects(r, "idle")
  /\ UNCHANGED asked

-----------------------------------------------------------------------------
(* The provider, for administrators and desktop clients.                   *)

\* The router's create(), for an administrator or for new cookies.
Create(r) ==
  /\ at[r] \in {"idle", "insert"}
  /\ IF own.provider THEN ViolatesKey(r)
     ELSE Writes(r, [own EXCEPT !.provider = TRUE], "commit")
  /\ UNCHANGED asked

\* update(): where no row matches, the transaction is opened all the same.
Update(r) ==
  /\ at[r] \in {"idle", "update"}
  /\ Writes(r, own, "commit")
  /\ UNCHANGED asked

DeleteChecks(r) ==
  /\ at[r] = "idle"
  /\ Selects(r, IF own.provider THEN "delete" ELSE "idle")
  /\ UNCHANGED asked

Delete(r) ==
  /\ at[r] = "delete"
  /\ Writes(r, [own EXCEPT !.provider = FALSE], "finish")
  /\ UNCHANGED asked

\* push_platform_cookies
CookiesCheck(r) ==
  /\ at[r] = "idle"
  /\ Selects(r, IF own.provider THEN "update" ELSE "insert")
  /\ UNCHANGED asked

-----------------------------------------------------------------------------
(* A user's own key.                                                       *)

SetKeyChecks(u) ==
  /\ at[u] = "idle"
  /\ Selects(u, IF own.provider THEN "upsert" ELSE "idle")
  /\ \E k \in Keys : asked' = [asked EXCEPT ![u] = k]

BugUpsertKey(u) ==
  /\ at[u] = "upsert"
  /\ Writes(u, [own EXCEPT !.key[u] = IF @ = NoKey THEN asked[u] ELSE @], "finish")
  /\ UNCHANGED asked

UpsertKey(u) ==
  /\ at[u] = "upsert"
  /\ Writes(u, [own EXCEPT !.key[u] = asked[u]], "finish")
  /\ UNCHANGED asked

BugRemoveKeyUncommitted(u) ==
  /\ at[u] = "idle"
  /\ Writes(u, [own EXCEPT !.active[u] = own.key[u] = NoKey], "idle")
  /\ asked' = [asked EXCEPT ![u] = NoKey]

\* A soft delete, if there is a row.
RemoveKey(u) ==
  /\ at[u] = "idle"
  /\ Writes(u, [own EXCEPT !.active[u] = own.key[u] = NoKey], "finish")
  /\ asked' = [asked EXCEPT ![u] = NoKey]

-----------------------------------------------------------------------------
(* The rest of the server, whose requests have connections of their own,   *)
(* and the process.                                                        *)

OtherLocks ==
  /\ ~other /\ tx # "writing"
  /\ other' = TRUE
  /\ UNCHANGED <<own, disk, tx, behind, at, broken, told, asked>>

OtherEnds ==
  /\ other
  /\ other' = FALSE
  /\ behind' \in {behind, behind \/ tx = "reading"}
  /\ UNCHANGED <<own, disk, tx, at, broken, told, asked>>

InUse(rows, u) == IF rows.active[u] THEN rows.key[u] ELSE NoKey

\* The rows are as k asks for user u: the key is stored, or none is used.
Holds(rows, u, k) == IF k = NoKey THEN InUse(rows, u) = NoKey ELSE rows.key[u] = k

\* What was not answered may have been committed or not.
Restart ==
  /\ own' = disk
  /\ tx' = "none"
  /\ behind' = FALSE
  /\ other' = FALSE
  /\ at' = [r \in Requests |-> "idle"]
  /\ broken' = FALSE
  /\ told' = [u \in Users |->
                IF at[u] = "finish" /\ Holds(disk, u, asked[u]) THEN asked[u] ELSE told[u]]
  /\ UNCHANGED <<disk, asked>>

AdminStep(r) ==
  Create(r) \/ Update(r) \/ DeleteChecks(r) \/ Delete(r) \/ CookiesCheck(r)

UserStep(u) == SetKeyChecks(u) \/ UpsertKey(u) \/ RemoveKey(u)

AnyStep(r) == IsRefused(r) \/ Commit(r) \/ ReadBack(r) \/ Look(r)

Next ==
  \/ \E r \in Admins : AdminStep(r)
  \/ \E u \in Users : UserStep(u)
  \/ \E r \in Requests : AnyStep(r)
  \/ OtherLocks \/ OtherEnds \/ Restart

Spec == Init /\ [][Next]_vars

-----------------------------------------------------------------------------
\* Every variable holds a value of its kind; one connection has the lock; a
\* snapshot can be old only in a transaction that has not written; only a row
\* that exists is inactive.
TypeOK ==
  /\ own \in Rows /\ disk \in Rows
  /\ \A u \in Users : own.key[u] = NoKey => own.active[u]
  /\ \A u \in Users : disk.key[u] = NoKey => disk.active[u]
  /\ tx \in {"none", "begun", "reading", "writing"}
  /\ behind \in BOOLEAN /\ (behind => tx = "reading")
  /\ other \in BOOLEAN /\ (other => tx # "writing")
  /\ at \in [Requests -> {"idle", "insert", "update", "delete", "upsert",
                          "commit", "finish", "readback"}]
  /\ broken \in BOOLEAN
  /\ told \in [Users -> Keys \cup {NoKey}]
  /\ asked \in [Users -> Keys \cup {NoKey}]

\* However the statements, failures and commits of several requests fall into
\* one transaction: what a user was answered is on the disk, and a request that
\* failed has changed nothing.
AnsweredKeyHolds ==
  \A u \in Users : Holds(disk, u, told[u]) \/ (at[u] = "finish" /\ Holds(disk, u, asked[u]))

\* The connection's transaction, with the lock that all other connections wait
\* for, stays open with nobody about to commit it only if a statement failed.
OpenOnlyAfterFailure ==
  tx # "none" => broken \/ \E r \in Requests : Executed(r)

=============================================================================
