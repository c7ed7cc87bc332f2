------------------------- MODULE ProviderStoreProofs -------------------------
(***************************************************************************)
(* Proofs about ProviderStore, for any users, administrators and keys.     *)
(***************************************************************************)
EXTENDS ProviderStore, TLAPS

\* Whoever has not executed a change finds the connection's row as committed;
\* whoever has, finds the row as asked for.
OwnAgrees ==
  \A u \in Users :
    IF at[u] = "finish" THEN Holds(own, u, asked[u])
    ELSE own.key[u] = disk.key[u] /\ own.active[u] = disk.active[u]

\* A key is asked for before it is stored.
AsksForKey == \A u \in Users : at[u] = "upsert" => asked[u] # NoKey

\* Only changes of providers are read back, so no user's request is.
UserStages == \A u \in Users : at[u] \in {"idle", "upsert", "finish"}

StoreInv ==
  TypeOK /\ OwnAgrees /\ AsksForKey /\ UserStages /\ AnsweredKeyHolds /\ OpenOnlyAfterFailure

\* The two tables hold rows of their types.
LEMMA RowsOfUser ==
  ASSUME NEW rows \in Rows, NEW u \in Users
  PROVE  /\ rows.provider \in BOOLEAN
         /\ rows.key[u] \in Keys \cup {NoKey}
         /\ rows.active[u] \in BOOLEAN
BY DEF Rows

\* A statement that fails leaves its mark, one that succeeds its commit, and a
\* SELECT opens nothing: so an open transaction always has a reason.
LEMMA StatementKeepsReason ==
  ASSUME TypeOK, OpenOnlyAfterFailure, NEW r \in Requests, ~Executed(r),
         NEW rows, NEW to,
         \/ Writes(r, rows, to) /\ to \in {"commit", "finish"}
         \/ ViolatesKey(r)
         \/ Selects(r, to)
         \/ IsRefused(r)
  PROVE  OpenOnlyAfterFailure'
<1>1. CASE Writes(r, rows, to) /\ to \in {"commit", "finish"}
  <2>1. at'[r] = to
    BY <1>1 DEF TypeOK, Writes, Goto
  <2> QED
    BY <1>1, <2>1 DEF OpenOnlyAfterFailure, Executed
<1>2. CASE ViolatesKey(r) \/ IsRefused(r)
  BY <1>2 DEF ViolatesKey, IsRefused, OpenOnlyAfterFailure
<1>3. CASE Selects(r, to)
  <2>1. \A q \in Requests : q # r => at'[q] = at[q]
    BY <1>3 DEF TypeOK, Selects, Goto
  <2>2. (tx' # "none") => (tx # "none") /\ broken' = broken
    BY <1>3 DEF Selects
  <2> QED
    BY <2>1, <2>2 DEF OpenOnlyAfterFailure, Executed
<1> QED
  BY <1>1, <1>2, <1>3

\* Inductive step for the statements of providers, which leave keys alone.
LEMMA AdminKeepsStoreInv ==
  ASSUME StoreInv, NEW r \in Admins, AdminStep(r)
  PROVE  StoreInv'
<1> USE StoreAssumption DEF Requests
<1>1. /\ \A u \in Users : at'[u] = at[u]
      /\ \A q \in Requests : q # r => at'[q] = at[q]
      /\ r \notin Users
  BY DEF StoreInv, TypeOK, AdminStep, Create, Update, DeleteChecks, Delete, CookiesCheck,
         Writes, ViolatesKey, Selects, Goto
<1>2. disk' = disk /\ told' = told /\ asked' = asked
  BY DEF AdminStep, Create, Update, DeleteChecks, Delete, CookiesCheck,
         Writes, ViolatesKey, Selects
<1>3. own'.key = own.key /\ own'.active = own.active /\ own' \in Rows
  BY DEF StoreInv, TypeOK, Rows, AdminStep, Create, Update, DeleteChecks, Delete,
         CookiesCheck, Writes, ViolatesKey, Selects
<1>4. TypeOK'
  <2> USE <1>2, <1>3 DEF StoreInv, TypeOK, Goto
  <2>1. CASE Create(r)
    BY <2>1 DEF Create, Writes, ViolatesKey, CanLock
  <2>2. CASE Update(r) \/ Delete(r)
    BY <2>2 DEF Update, Delete, Writes, CanLock
  <2>3. CASE DeleteChecks(r) \/ CookiesCheck(r)
    BY <2>3 DEF DeleteChecks, CookiesCheck, Selects
  <2> QED
    BY <2>1, <2>2, <2>3 DEF AdminStep
<1>5. (OwnAgrees /\ AsksForKey /\ UserStages /\ AnsweredKeyHolds)'
  BY <1>1, <1>2, <1>3 DEF StoreInv, OwnAgrees, AsksForKey, UserStages, AnsweredKeyHolds,
         Holds, InUse
<1>6. OpenOnlyAfterFailure'
  <2> USE DEF StoreInv, Executed
  <2>1. CASE Create(r)
    BY <2>1, StatementKeepsReason DEF Create
  <2>2. CASE Update(r)
    BY <2>2, StatementKeepsReason DEF Update
  <2>3. CASE DeleteChecks(r)
    BY <2>3, StatementKeepsReason DEF DeleteChecks
  <2>4. CASE Delete(r)
    BY <2>4, StatementKeepsReason DEF Delete
  <2>5. CASE CookiesCheck(r)
    BY <2>5, StatementKeepsReason DEF CookiesCheck
  <2> QED
    BY <2>1, <2>2, <2>3, <2>4, <2>5 DEF AdminStep
<1> QED
  BY <1>4, <1>5, <1>6 DEF StoreInv

\* Inductive step for a user's own key: the row is the one asked for from the
\* statement on, while the disk still says what was answered last.
LEMMA UserKeepsStoreInv ==
  ASSUME StoreInv, NEW u \in Users, UserStep(u)
  PROVE  StoreInv'
<1> USE StoreAssumption DEF Requests, NoKey
<1>1. CASE SetKeyChecks(u)
  <2>1. PICK k \in Keys : asked' = [asked EXCEPT ![u] = k]
    BY <1>1 DEF SetKeyChecks
  <2>2. TypeOK'
    BY <1>1, <2>1 DEF SetKeyChecks, Selects, Goto, StoreInv, TypeOK
  <2>3. /\ at' = [at EXCEPT ![u] = at'[u]] /\ at'[u] \in {"idle", "upsert"} /\ at[u] = "idle"
        /\ own' = own /\ disk' = disk /\ told' = told
    BY <1>1 DEF SetKeyChecks, Selects, Goto, StoreInv, TypeOK
  <2>4. asked'[u] # NoKey /\ \A v \in Users : v # u => asked'[v] = asked[v] /\ at'[v] = at[v]
    BY <2>1, <2>3 DEF StoreInv, TypeOK
  <2>5. (OwnAgrees /\ AsksForKey /\ UserStages /\ AnsweredKeyHolds)'
    BY <2>3, <2>4 DEF StoreInv, OwnAgrees, AsksForKey, UserStages, AnsweredKeyHolds, Holds, InUse
  <2>6. OpenOnlyAfterFailure'
    BY <1>1, StatementKeepsReason DEF SetKeyChecks, StoreInv, Executed
  <2> QED
    BY <2>2, <2>5, <2>6 DEF StoreInv
<1>2. CASE UpsertKey(u)
  <2>1. at[u] = "upsert" /\ asked[u] \in Keys /\ asked' = asked
    BY <1>2 DEF UpsertKey, StoreInv, AsksForKey, TypeOK
  <2>2. /\ own' \in Rows /\ own'.key[u] = asked[u] /\ own'.active = own.active
        /\ \A v \in Users : v # u => own'.key[v] = own.key[v]
    BY <1>2, <2>1 DEF UpsertKey, Writes, StoreInv, TypeOK, Rows
  <2>3. /\ at'[u] = "finish" /\ \A v \in Users : v # u => at'[v] = at[v]
        /\ disk' = disk /\ told' = told
    BY <1>2 DEF UpsertKey, Writes, Goto, StoreInv, TypeOK
  <2>4. TypeOK'
    BY <1>2, <2>1, <2>2 DEF UpsertKey, Writes, CanLock, Goto, StoreInv, TypeOK
  <2>5. (OwnAgrees /\ AsksForKey /\ UserStages /\ AnsweredKeyHolds)'
    BY <2>1, <2>2, <2>3 DEF StoreInv, OwnAgrees, AsksForKey, UserStages, AnsweredKeyHolds, Holds, InUse
  <2>6. OpenOnlyAfterFailure'
    BY <1>2, StatementKeepsReason DEF UpsertKey, StoreInv, Executed
  <2> QED
    BY <2>4, <2>5, <2>6 DEF StoreInv
<1>3. CASE RemoveKey(u)
  <2>1. /\ at[u] = "idle" /\ asked' = [asked EXCEPT ![u] = NoKey]
    BY <1>3 DEF RemoveKey
  <2>2. /\ own' \in Rows /\ own'.key = own.key /\ own'.active[u] = (own.key[u] = NoKey)
        /\ \A v \in Users : v # u => own'.active[v] = own.active[v]
    BY <1>3 DEF RemoveKey, Writes, StoreInv, TypeOK, Rows
  <2>3. /\ at'[u] = "finish" /\ disk' = disk /\ told' = told
        /\ \A v \in Users : v # u => at'[v] = at[v] /\ asked'[v] = asked[v]
        /\ asked'[u] = NoKey
    BY <1>3, <2>1 DEF RemoveKey, Writes, Goto, StoreInv, TypeOK
  <2>4. TypeOK'
    BY <1>3, <2>1, <2>2 DEF RemoveKey, Writes, CanLock, Goto, StoreInv, TypeOK
  <2>5. (OwnAgrees /\ AsksForKey /\ UserStages /\ AnsweredKeyHolds)'
    <3>1. InUse(own, u)' = NoKey
      BY <2>2 DEF InUse
    <3>2. OwnAgrees'
      BY <2>2, <2>3, <3>1 DEF StoreInv, OwnAgrees, Holds, InUse
    <3>3. AsksForKey' /\ UserStages'
      BY <2>3 DEF StoreInv, AsksForKey, UserStages
    <3>4. AnsweredKeyHolds'
      BY <2>1, <2>3 DEF StoreInv, AnsweredKeyHolds, Holds, InUse
    <3> QED
      BY <3>2, <3>3, <3>4
  <2>6. OpenOnlyAfterFailure'
    BY <1>3, StatementKeepsReason DEF RemoveKey, StoreInv, Executed
  <2> QED
    BY <2>4, <2>5, <2>6 DEF StoreInv
<1> QED
  BY <1>1, <1>2, <1>3 DEF UserStep


\* Inductive step for a commit: it puts on the disk what everybody asked for who
\* has executed a statement, whether or not the commit is theirs.
LEMMA CommitKeepsStoreInv ==
  ASSUME StoreInv, NEW r \in Requests, Commit(r)
  PROVE  StoreInv'
<1> USE StoreAssumption DEF Requests
<1>1. /\ disk' = own /\ own' = own /\ asked' = asked
      /\ \A q \in Requests : q # r => at'[q] = at[q]
      /\ \A u \in Users : u # r => told'[u] = told[u]
      /\ r \in Users => told'[r] = asked[r] /\ at[r] = "finish" /\ at'[r] = "idle"
  BY DEF Commit, Executed, Goto, StoreInv, TypeOK, UserStages
<1>2. TypeOK'
  <2>1. told' \in [Users -> Keys \cup {NoKey}]
    BY DEF Commit, StoreInv, TypeOK
  <2>2. at' \in [Requests -> {"idle", "insert", "update", "delete", "upsert",
                             "commit", "finish", "readback"}]
    BY DEF Commit, Goto, StoreInv, TypeOK
  <2> QED
    BY <2>1, <2>2 DEF Commit, StoreInv, TypeOK
<1>3. OwnAgrees'
  BY <1>1 DEF StoreInv, OwnAgrees, Holds, InUse
<1>4. AsksForKey' /\ UserStages'
  BY <1>1 DEF StoreInv, AsksForKey, UserStages
<1>5. AnsweredKeyHolds'
  <2> SUFFICES ASSUME NEW u \in Users
               PROVE  Holds(disk, u, told[u])' \/ (at'[u] = "finish" /\ Holds(disk, u, asked[u])')
    BY DEF AnsweredKeyHolds
  <2>1. CASE at[u] = "finish"
    BY <1>1, <2>1 DEF StoreInv, OwnAgrees, Holds, InUse
  <2>2. CASE at[u] # "finish"
    <3>1. own.key[u] = disk.key[u] /\ own.active[u] = disk.active[u] /\ Holds(disk, u, told[u])
      BY <2>2 DEF StoreInv, OwnAgrees, AnsweredKeyHolds
    <3>2. told'[u] = told[u]
      BY <1>1, <2>2
    <3> QED
      BY <1>1, <3>1, <3>2 DEF Holds, InUse
  <2> QED
    BY <2>1, <2>2
<1>6. OpenOnlyAfterFailure'
  BY DEF Commit, OpenOnlyAfterFailure
<1> QED
  BY <1>2, <1>3, <1>4, <1>5, <1>6 DEF StoreInv

\* Inductive step for a statement that is refused and for SELECTs, which change
\* no row.
LEMMA ReadKeepsStoreInv ==
  ASSUME StoreInv, NEW r \in Requests, IsRefused(r) \/ ReadBack(r) \/ Look(r)
  PROVE  StoreInv'
<1> USE StoreAssumption DEF Requests
<1>1. /\ own' = own /\ disk' = disk /\ told' = told /\ asked' = asked
      /\ at' = [at EXCEPT ![r] = "idle"] /\ ~Executed(r)
  BY DEF IsRefused, ReadBack, Look, Selects, Goto, Executed
<1>2. TypeOK'
  <2> USE <1>1 DEF StoreInv, TypeOK
  <2>1. CASE IsRefused(r)
    BY <2>1 DEF IsRefused, CanLock
  <2>2. CASE ReadBack(r) \/ Look(r)
    BY <2>2 DEF ReadBack, Look, Selects
  <2> QED
    BY <2>1, <2>2
<1>3. \A u \in Users : at'[u] = at[u] \/ (at[u] # "finish" /\ at'[u] = "idle")
  BY <1>1 DEF StoreInv, TypeOK, Executed
<1>4. (OwnAgrees /\ AsksForKey /\ UserStages /\ AnsweredKeyHolds)'
  BY <1>1, <1>3 DEF StoreInv, OwnAgrees, AsksForKey, UserStages, AnsweredKeyHolds, Holds, InUse
<1>5. OpenOnlyAfterFailure'
  BY <1>1, StatementKeepsReason DEF ReadBack, Look, StoreInv, Requests
<1> QED
  BY <1>2, <1>4, <1>5 DEF StoreInv

\* Inductive step for other connections, which have rows of their own.
LEMMA OtherKeepsStoreInv == StoreInv /\ (OtherLocks \/ OtherEnds) => StoreInv'
<1> SUFFICES ASSUME StoreInv, OtherLocks \/ OtherEnds PROVE StoreInv'
  OBVIOUS
<1>1. own' = own /\ disk' = disk /\ told' = told /\ asked' = asked /\ at' = at /\ tx' = tx /\ broken' = broken
  BY DEF OtherLocks, OtherEnds
<1>2. TypeOK'
  <2>1. behind' \in BOOLEAN /\ (behind' => tx' = "reading")
    BY <1>1 DEF OtherLocks, OtherEnds, StoreInv, TypeOK
  <2>2. other' \in BOOLEAN /\ (other' => tx' # "writing")
    BY <1>1 DEF OtherLocks, OtherEnds, StoreInv, TypeOK
  <2> QED
    BY <1>1, <2>1, <2>2 DEF StoreInv, TypeOK
<1>3. (OwnAgrees /\ AsksForKey /\ UserStages /\ AnsweredKeyHolds)'
  BY <1>1 DEF StoreInv, OwnAgrees, AsksForKey, UserStages, AnsweredKeyHolds, Holds, InUse
<1>4. OpenOnlyAfterFailure'
  BY <1>1 DEF StoreInv, OpenOnlyAfterFailure, Executed
<1> QED
  BY <1>2, <1>3, <1>4 DEF StoreInv

\* Inductive step for a restart: what was executed and not committed is lost, and
\* nobody has been told otherwise.
LEMMA RestartKeepsStoreInv == StoreInv /\ Restart => StoreInv'
<1> SUFFICES ASSUME StoreInv, Restart PROVE StoreInv'
  OBVIOUS
<1> USE StoreAssumption DEF Requests
<1>1. /\ own' = disk /\ disk' = disk /\ asked' = asked /\ tx' = "none"
      /\ \A u \in Users : at'[u] = "idle"
  BY DEF Restart
<1>2. \A u \in Users : Holds(disk, u, told'[u])
  <2> SUFFICES ASSUME NEW u \in Users PROVE Holds(disk, u, told'[u])
    OBVIOUS
  <2>1. told'[u] = IF at[u] = "finish" /\ Holds(disk, u, asked[u]) THEN asked[u] ELSE told[u]
    BY DEF Restart
  <2>2. Holds(disk, u, told[u]) \/ (at[u] = "finish" /\ Holds(disk, u, asked[u]))
    BY DEF StoreInv, AnsweredKeyHolds
  <2>3. CASE at[u] = "finish" /\ Holds(disk, u, asked[u])
    BY <2>1, <2>3
  <2>4. CASE ~(at[u] = "finish" /\ Holds(disk, u, asked[u]))
    BY <2>1, <2>2, <2>4
  <2> QED
    BY <2>3, <2>4
<1>3. told' \in [Users -> Keys \cup {NoKey}]
  <2>1. \A u \in Users : told[u] \in Keys \cup {NoKey} /\ asked[u] \in Keys \cup {NoKey}
    BY DEF StoreInv, TypeOK
  <2> QED
    BY <2>1 DEF Restart
<1>4. TypeOK'
  <2>1. behind' \in BOOLEAN /\ ~behind' /\ other' \in BOOLEAN /\ ~other' /\ broken' \in BOOLEAN
    BY DEF Restart
  <2>2. at' \in [Requests -> {"idle", "insert", "update", "delete", "upsert",
                             "commit", "finish", "readback"}]
    BY DEF Restart
  <2> QED
    BY <1>1, <1>3, <2>1, <2>2 DEF StoreInv, TypeOK
<1>5. (OwnAgrees /\ AsksForKey /\ UserStages /\ OpenOnlyAfterFailure)'
  BY <1>1 DEF OwnAgrees, AsksForKey, UserStages, OpenOnlyAfterFailure
<1>6. AnsweredKeyHolds'
  BY <1>1, <1>2 DEF AnsweredKeyHolds, Holds, InUse
<1> QED
  BY <1>4, <1>5, <1>6 DEF StoreInv

\* The inductive invariant holds in every reachable state.
THEOREM StoreInvariant == Spec => []StoreInv
<1>1. Init => StoreInv
  <2> SUFFICES ASSUME Init PROVE StoreInv
    OBVIOUS
  <2>1. own \in Rows /\ disk = own /\ \A u \in Users : own.active[u] /\ own.key[u] = NoKey
    BY DEF Init, Rows
  <2>2. TypeOK
    <3>1. behind \in BOOLEAN /\ ~behind /\ other \in BOOLEAN /\ ~other /\ broken \in BOOLEAN
      BY DEF Init
    <3> QED
      BY <2>1, <3>1 DEF Init, TypeOK
  <2>3. OwnAgrees /\ AsksForKey /\ UserStages /\ AnsweredKeyHolds /\ OpenOnlyAfterFailure
    BY <2>1 DEF Init, Requests, OwnAgrees, AsksForKey, UserStages, AnsweredKeyHolds,
       OpenOnlyAfterFailure, Holds, InUse
  <2> QED
    BY <2>2, <2>3 DEF StoreInv
<1>2. StoreInv /\ [Next]_vars => StoreInv'
  <2> SUFFICES ASSUME StoreInv, [Next]_vars PROVE StoreInv'
    OBVIOUS
  <2>1. CASE \E r \in Admins : AdminStep(r)
    BY <2>1, AdminKeepsStoreInv
  <2>2. CASE \E u \in Users : UserStep(u)
    BY <2>2, UserKeepsStoreInv
  <2>3. CASE \E r \in Requests : AnyStep(r)
    BY <2>3, CommitKeepsStoreInv, ReadKeepsStoreInv DEF AnyStep
  <2>4. CASE OtherLocks \/ OtherEnds \/ Restart
    BY <2>4, OtherKeepsStoreInv, RestartKeepsStoreInv
  <2>5. CASE UNCHANGED vars
    BY <2>5 DEF vars, StoreInv, TypeOK, OwnAgrees, AsksForKey, UserStages, AnsweredKeyHolds,
       OpenOnlyAfterFailure, Executed, Holds, InUse
  <2> QED
    BY <2>1, <2>2, <2>3, <2>4, <2>5 DEF Next
<1> QED
  BY <1>1, <1>2, PTL DEF Spec

\* Types are kept, and the write lock is never with two connections.
THEOREM StoreTypeOK == Spec => []TypeOK
BY StoreInvariant, PTL DEF StoreInv

\* What a user was answered about a key is on the disk, whichever requests share
\* the transaction, fail in it or are cut off by a restart.
THEOREM AnsweredKeysHold == Spec => []AnsweredKeyHolds
BY StoreInvariant, PTL DEF StoreInv

\* The write lock is held with no commit to come only after a failed statement.
THEOREM LocksHaveReasons == Spec => []OpenOnlyAfterFailure
BY StoreInvariant, PTL DEF StoreInv

=============================================================================
