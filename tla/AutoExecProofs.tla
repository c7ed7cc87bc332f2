--------------------------- MODULE AutoExecProofs ---------------------------
(***************************************************************************)
(* Proofs about AutoExec and its pool of workers, for any plan, any number *)
(* of workers, messages, cancellations and edits.                          *)
(***************************************************************************)
EXTENDS AutoExec, RecursionTheorems

Words == {"result", "error"}

MonitorStates == {"none", "starting", "polling", "returned", "raised"}

\* Workers and monitors have a status, and only final messages are written.
WorkersOK ==
  /\ worker \in [Ids -> Statuses]
  /\ monitor \in [Ids -> MonitorStates]
  /\ outbox \in [Ids -> Seq(Words)]

VerdictInv == WorkersOK /\ VerdictsAreEarned

\* What is said later does not change the first word.
LEMMA FirstWordStays ==
  ASSUME NEW s \in Seq(Words), NEW m \in Words
  PROVE  /\ Append(s, m) \in Seq(Words) /\ Append(s, m) # <<>>
         /\ s # <<>> => Head(Append(s, m)) = Head(s)
<1>1. Append(s, m) \in Seq(Words) /\ Len(Append(s, m)) = Len(s) + 1
  BY AppendProperties
<1>2. Append(s, m) # <<>>
  BY <1>1, EmptySeq, LenProperties
<1>3. ASSUME s # <<>> PROVE Head(Append(s, m)) = Head(s)
  BY <1>1, <1>2, <1>3, AppendProperties, HeadTailProperties
<1> QED
  BY <1>1, <1>2, <1>3

\* A worker that is started has no verdict yet.
LEMMA DispatchKeepsVerdictInv ==
  ASSUME VerdictInv, NEW ts, Dispatch(ts), UNCHANGED outbox
  PROVE  VerdictInv'
BY DEF VerdictInv, WorkersOK, VerdictsAreEarned, Dispatch, Statuses, MonitorStates, Returned

\* What the monitor of t makes of its outbox: a success only out of the first
\* message.  A monitor that begins or raises gives no verdict.
LEMMA MonitorKeepsVerdictInv ==
  ASSUME VerdictInv, NEW t \in Ids, Monitor(t)
  PROVE  VerdictInv'
<1>1. ASSUME NEW status \in Statuses, Returns(t, status),
             status \notin {"none", "running"},
             status = "completed" => outbox[t] # <<>> /\ Head(outbox[t]) = "result"
      PROVE  VerdictInv'
  <2>1. /\ monitor' = [monitor EXCEPT ![t] = "returned"]
        /\ worker' = [worker EXCEPT ![t] = status] /\ outbox' = outbox
    BY <1>1 DEF Returns
  <2>2. WorkersOK'
    BY <2>1 DEF VerdictInv, WorkersOK, MonitorStates
  <2>3. \A w \in Ids \ {t} : worker'[w] = worker[w] /\ monitor'[w] = monitor[w]
    BY <2>1 DEF VerdictInv, WorkersOK
  <2>4. worker'[t] = status
    BY <2>1 DEF VerdictInv, WorkersOK
  <2>5. VerdictsAreEarned'
    BY <1>1, <2>1, <2>3, <2>4 DEF VerdictInv, VerdictsAreEarned, Returned
  <2> QED
    BY <2>2, <2>5 DEF VerdictInv
<1>2. CASE TimesOut(t)
  BY <1>1, <1>2 DEF TimesOut, Statuses
<1>3. CASE HearsWorker(t)
  <2>1. Readable(t) = outbox[t] /\ outbox[t] # <<>>
    BY <1>3 DEF HearsWorker, Readable
  <2>2. Head(outbox[t]) \in Words
    BY <2>1 DEF VerdictInv, WorkersOK
  <2>3. Returns(t, Verdict(outbox[t]))
    BY <1>3, <2>1 DEF HearsWorker
  <2> QED
    BY <1>1, <2>1, <2>2, <2>3 DEF Verdict, Words, Statuses
<1>4. CASE GivesUp(t)
  BY <1>1, <1>4 DEF GivesUp, Statuses
<1>5. CASE Begins(t) \/ ReadingFails(t)
  <2>1. PICK state \in {"polling", "raised"} :
          /\ monitor' = [monitor EXCEPT ![t] = state]
          /\ worker' = worker /\ outbox' = outbox
    BY <1>5 DEF Begins, ReadingFails
  <2>2. WorkersOK' /\ Returned' \subseteq Returned
    BY <2>1 DEF VerdictInv, WorkersOK, MonitorStates, Returned
  <2> QED
    BY <2>1, <2>2 DEF VerdictInv, VerdictsAreEarned
<1> QED
  BY <1>2, <1>3, <1>4, <1>5 DEF Monitor

\* A worker that speaks appends to its own file.
LEMMA SpeechKeepsVerdictInv ==
  ASSUME VerdictInv, NEW t \in Ids, NEW m \in Words, Says(t, m)
  PROVE  VerdictInv'
<1>1. /\ outbox[t] \in Seq(Words)
      /\ outbox' = [outbox EXCEPT ![t] = Append(outbox[t], m)]
      /\ UNCHANGED <<worker, monitor>>
  BY DEF VerdictInv, WorkersOK, Says
<1>2. WorkersOK'
  BY <1>1, FirstWordStays DEF VerdictInv, WorkersOK
<1>3. ASSUME NEW w \in Ids, outbox[w] # <<>>
      PROVE  outbox'[w] # <<>> /\ Head(outbox'[w]) = Head(outbox[w])
  BY <1>1, <1>3, FirstWordStays DEF VerdictInv, WorkersOK
<1>4. VerdictsAreEarned'
  BY <1>1, <1>3 DEF VerdictInv, VerdictsAreEarned, Returned
<1> QED
  BY <1>2, <1>4 DEF VerdictInv

-----------------------------------------------------------------------------
\* Only a first result makes a success, for any number of messages, workers and
\* cancellations, and every monitor that returns has given a verdict.
THEOREM VerdictsEarned == Spec => []VerdictsAreEarned
<1>1. Init => VerdictInv
  <2>1. <<>> \in Seq(Words)
    OBVIOUS
  <2> QED
    BY <2>1 DEF Init, PoolInit, VerdictInv, WorkersOK, VerdictsAreEarned, Statuses,
                MonitorStates, Returned
<1>2. VerdictInv /\ [Next]_vars => VerdictInv'
  <2> SUFFICES ASSUME VerdictInv, [Next]_vars PROVE VerdictInv'
    OBVIOUS
  <2>1. CASE UNCHANGED <<worker, monitor, outbox>>
    BY <2>1 DEF VerdictInv, WorkersOK, VerdictsAreEarned, Returned
  <2>2. CASE RunWithPlan
    BY <2>2, DispatchKeepsVerdictInv DEF RunWithPlan, RunBatch
  <2>3. CASE EngineStep
    BY <2>1, <2>3, DispatchKeepsVerdictInv DEF EngineStep, MonitorFailsBatch, NextWave, Collect
  <2>4. ASSUME NEW t \in Ids, Monitor(t) PROVE VerdictInv'
    BY <2>4, MonitorKeepsVerdictInv
  <2>5. ASSUME NEW t \in Ids, CancelWorker(t) PROVE VerdictInv'
    BY <2>5 DEF CancelWorker, VerdictInv, WorkersOK, VerdictsAreEarned, Statuses, Returned
  <2>6. ASSUME NEW ts, Cleanup(ts) PROVE VerdictInv'
    BY <2>1, <2>6 DEF Cleanup
  <2>7. ASSUME NEW t \in Ids, WorkerSays(t) PROVE VerdictInv'
    BY <2>7, SpeechKeepsVerdictInv DEF WorkerSays, Words
  <2>8. CASE Run \/ LooksAgain
    BY <2>1, <2>8 DEF Run, LooksAgain, poolVars
  <2>9. CASE CallEnds
    BY <2>1, <2>9 DEF CallEnds, LlmAnswers, HttpFails, HttpExhausted, LlmBreaks, Finishes,
                      poolVars
  <2>10. ASSUME NEW t \in Ids, RunSingle(t) \/ MarkDone(t) \/ GiveUp(t) \/ Reopen(t)
         PROVE  VerdictInv'
    BY <2>1, <2>10 DEF RunSingle, MarkDone, GiveUp, Reopen, Edit, poolVars
  <2>11. CASE UNCHANGED vars
    BY <2>1, <2>11 DEF vars, poolVars
  <2> QED
    BY <2>2, <2>3, <2>4, <2>5, <2>6, <2>7, <2>8, <2>9, <2>10, <2>11 DEF Next, PoolStep
<1>3. VerdictInv => VerdictsAreEarned
  BY DEF VerdictInv
<1> QED
  BY <1>1, <1>2, <1>3, PTL DEF Spec

-----------------------------------------------------------------------------
(* No task before what it depends on.  Half of the invariant is about the  *)
(* pool, half about the plan and the Orchestrator; an action of the one    *)
(* leaves the other's half alone.                                          *)

Started == {t \in Ids : monitor[t] # "none"}

\* Until the engine raises, it has started at most one wave, and nothing that is
\* still pending; a monitor has a worker to watch.
OneWave ==
  /\ \A t \in Started : worker[t] # "none"
  /\ engine = "idle" => Started = {}
  /\ engine \in {"idle", "waiting"} =>
       /\ Cardinality(Started) <= MaxConcurrent
       /\ \A k \in 1..Len(pending) : pending[k] \notin Started

\* Whatever the pool has started or will start may run.
PoolMayRun ==
  /\ \A t \in Ids : worker[t] # "none" => needs[t] \subseteq answered
  /\ \A k \in 1..Len(pending) : needs[pending[k]] \subseteq answered

PoolInv == PoolTypeOK /\ OneWave /\ PoolMayRun

PlanTypes ==
  /\ needs \in Plans
  /\ plan \in [Ids -> {"pending", "completed", "other"}]
  /\ at \in {"idle", "calling", "looking", "returned"}
  /\ mode \in {"run", "single"}
  /\ task \in Ids \cup {NoTask}
  /\ at = "calling" => task \in Ids
  /\ tries \in 0..MaxTries - 1
  /\ progress \in [task : Ids \cup {NoTask},
                   status : {"none", "running", "completed", "failed"}]
  /\ answered \subseteq Ids
  /\ edits \in 0..MaxEdits

\* A task is marked done only when it has been answered.
DoneWasAnswered == Completed \subseteq answered

TaskMayRun == at = "calling" /\ mode = "run" => needs[task] \subseteq answered

PlanInv == PlanTypes /\ DoneWasAnswered /\ TaskMayRun

AutoExecInv == PoolInv /\ PlanInv

\* The elements of a sequence are at most as many as its length.
LEMMA ElementsAreFew ==
  ASSUME NEW S, NEW s \in Seq(S)
  PROVE  IsFiniteSet(ToSet(s)) /\ Cardinality(ToSet(s)) <= Len(s)
<1> DEFINE f == [i \in 1..Len(s) |-> s[i]]
<1>1. Len(s) \in Nat /\ DOMAIN s = 1..Len(s)
  BY LenProperties
<1>2. f \in Surjection(1..Len(s), ToSet(s))
  BY <1>1 DEF ToSet, Surjection
<1>3. IsFiniteSet(1..Len(s)) /\ Cardinality(1..Len(s)) = Len(s)
  BY <1>1, FS_Interval
<1> QED
  BY <1>2, <1>3, FS_Surjection

\* A plan has finitely many tasks.
LEMMA IdsAreFinite == IsFiniteSet(Ids)
BY PlanAssumption, ElementsAreFew

\* The list of ready tasks has only tasks of the plan, each once, whose
\* dependencies are marked done.
LEMMA ReadyTasksMayRun ==
  /\ ReadyTasks \in Seq(Ids)
  /\ \A k \in 1..Len(ReadyTasks) : needs[ReadyTasks[k]] \subseteq Completed
  /\ \A j, k \in 1..Len(ReadyTasks) : ReadyTasks[j] = ReadyTasks[k] => j = k
<1> DEFINE kept == {t \in Ids : Ready(t)}
<1>1. ReadyTasks = Filter(Order, kept)
  BY DEF ReadyTasks
<1>2. \A t \in kept : needs[t] \subseteq Completed
  BY DEF Ready
<1> HIDE DEF kept
<1>3. \A j, k \in 1..Len(Order) : Order[j] = Order[k] => j = k
  BY PlanAssumption, LenProperties DEF IsInjective
<1>4. Order \in Seq(Ids)
  BY PlanAssumption
<1>5. \A k \in 1..Len(ReadyTasks) : ReadyTasks[k] \in kept
  BY <1>1, <1>4, FilterProperties
<1>6. ReadyTasks \in Seq(Ids)
  BY <1>1, <1>4, FilterProperties
<1>7. \A j, k \in 1..Len(ReadyTasks) : ReadyTasks[j] = ReadyTasks[k] => j = k
  BY <1>1, <1>3, <1>4, FilterIsInjective
<1> QED
  BY <1>2, <1>5, <1>6, <1>7

-----------------------------------------------------------------------------
(* The pool.                                                               *)

\* A pool that has not been started (parallel.py:140-144, 381-383).
LEMMA PoolStarts == Init => PoolInv
<1> SUFFICES ASSUME Init PROVE PoolInv
  OBVIOUS
<1>1. <<>> \in Seq(Ids) /\ <<>> \in Seq({"result", "error"}) /\ Len(<<>>) = 0
  OBVIOUS
<1>2. Watching = {} /\ Started = {} /\ Returned = {}
  BY DEF Init, PoolInit, Polling, Watching, Started, Returned
<1>3. Cardinality({}) = 0
  BY FS_EmptySet
<1>4. PoolTypeOK
  BY <1>1, <1>2, <1>3, PoolAssumption DEF Init, PoolInit, PoolTypeOK, Statuses
<1>5. OneWave
  BY <1>1, <1>2, <1>3, PoolAssumption DEF Init, PoolInit, OneWave
<1> QED
  BY <1>1, <1>4, <1>5 DEF Init, PoolInit, PoolInv, PoolMayRun

\* What the pool has may run as before when more tasks have been answered.
LEMMA PoolAside ==
  ASSUME PoolInv, UNCHANGED <<poolVars, needs>>, answered \subseteq answered'
  PROVE  PoolInv'
BY DEF PoolInv, PoolTypeOK, OneWave, PoolMayRun, poolVars, Polling, Watching, Returned, Started

\* The first wave: it has at most max_concurrent tasks, and none of them is left
\* pending, since no task is on the list twice.
LEMMA RunBatchKeepsPoolInv ==
  ASSUME PoolInv, DoneWasAnswered, RunBatch(ReadyTasks), UNCHANGED planVars
  PROVE  PoolInv'
<1> DEFINE tasks == ReadyTasks
           n == IF Len(tasks) <= MaxConcurrent THEN Len(tasks) ELSE MaxConcurrent
           wave == SubSeq(tasks, 1, n)
           rest == SubSeq(tasks, Len(wave) + 1, Len(tasks))
<1>1. /\ tasks \in Seq(Ids)
      /\ \A k \in 1..Len(tasks) : needs[tasks[k]] \subseteq answered
      /\ \A j, k \in 1..Len(tasks) : tasks[j] = tasks[k] => j = k
  BY ReadyTasksMayRun DEF DoneWasAnswered
<1>2. /\ engine = "idle" /\ engine' \in {"returned", "waiting"}
      /\ batch' = tasks /\ pending' = rest
      /\ Dispatch(ToSet(wave))
      /\ UNCHANGED <<collected, outbox, gone, meddling, needs, answered>>
  BY DEF RunBatch, FirstWave, planVars
<1> HIDE DEF tasks
<1>3. /\ Len(tasks) \in Nat /\ n \in 0..Len(tasks) /\ n <= MaxConcurrent
  BY <1>1, PoolAssumption, LenProperties
<1>4. /\ wave \in Seq(Ids) /\ Len(wave) = n
      /\ \A k \in 1..n : wave[k] = tasks[k]
  BY <1>1, <1>3, SubSeqProperties
<1>5. /\ rest \in Seq(Ids) /\ Len(rest) = Len(tasks) - n
      /\ \A k \in 1..Len(rest) : k + n \in 1..Len(tasks) /\ rest[k] = tasks[k + n]
  <2> HIDE DEF n, wave
  <2>1. rest = SubSeq(tasks, n + 1, Len(tasks))
    BY <1>4
  <2>2. /\ rest \in Seq(Ids)
        /\ Len(rest) = IF n + 1 <= Len(tasks) THEN Len(tasks) - (n + 1) + 1 ELSE 0
        /\ \A k \in 1..(Len(tasks) - (n + 1) + 1) : rest[k] = tasks[n + 1 + k - 1]
    <3>1. n + 1 \in Int /\ Len(tasks) \in Int /\ \A i \in (n + 1)..Len(tasks) : tasks[i] \in Ids
      BY <1>1, <1>3, ElementOfSeq
    <3> QED
      BY <2>1, <3>1, SubSeqProperties
  <2> HIDE DEF rest
  <2>3. Len(rest) = Len(tasks) - n
    BY <1>3, <2>2
  <2>4. ASSUME NEW k \in 1..Len(rest)
        PROVE  k + n \in 1..Len(tasks) /\ rest[k] = tasks[k + n]
    <3>1. k \in 1..(Len(tasks) - (n + 1) + 1) /\ n + 1 + k - 1 = k + n
      BY <1>3, <2>3
    <3> QED
      BY <1>3, <2>2, <2>3, <3>1
  <2> QED
    BY <2>2, <2>3, <2>4
<1> HIDE DEF wave, rest, n
<1>6. ToSet(wave) = {tasks[k] : k \in 1..n} /\ ToSet(wave) \subseteq Ids
  BY <1>1, <1>3, <1>4, LenProperties DEF ToSet
<1>7. IsFiniteSet(ToSet(wave)) /\ Cardinality(ToSet(wave)) <= MaxConcurrent
  BY <1>3, <1>4, ElementsAreFew, FS_CardinalityType, PoolAssumption
<1>8. Started = {} /\ \A t \in Ids : monitor[t] = "none"
  BY <1>2 DEF PoolInv, OneWave, Started
<1>9. /\ monitor' = [t \in Ids |-> IF t \in ToSet(wave) THEN "starting" ELSE monitor[t]]
      /\ worker' = [t \in Ids |-> IF t \in ToSet(wave) THEN "running" ELSE worker[t]]
  BY <1>2 DEF Dispatch
<1>10. Started' = ToSet(wave) /\ Watching' = ToSet(wave)
  BY <1>6, <1>8, <1>9 DEF Started, Polling, Watching
<1>11. PoolTypeOK'
  <2>1. collected = {}
    BY <1>8 DEF PoolInv, PoolTypeOK, Returned
  <2> QED
    BY <1>1, <1>2, <1>5, <1>7, <1>9, <1>10, <2>1 DEF PoolInv, PoolTypeOK, Statuses
<1>12. \A k \in 1..Len(rest) : rest[k] \notin ToSet(wave)
  <2> SUFFICES ASSUME NEW k \in 1..Len(rest), NEW j \in 1..n, rest[k] = tasks[j]
               PROVE  FALSE
    BY <1>6
  <2> QED
    BY <1>1, <1>3, <1>5
<1>13. OneWave'
  BY <1>2, <1>7, <1>9, <1>10, <1>12 DEF OneWave, Started
<1>14. PoolMayRun'
  <2>1. ASSUME NEW t \in Ids, worker'[t] # "none" PROVE needs[t] \subseteq answered
    <3>1. CASE t \in ToSet(wave)
      BY <1>1, <1>3, <1>6, <3>1
    <3>2. CASE t \notin ToSet(wave)
      BY <1>9, <2>1, <3>2 DEF PoolInv, PoolMayRun
    <3> QED
      BY <3>1, <3>2
  <2> QED
    BY <1>1, <1>2, <1>5, <2>1 DEF PoolMayRun
<1> QED
  BY <1>11, <1>13, <1>14 DEF PoolInv

\* A batch that a monitor has failed leaves its workers as they are.
LEMMA FailedBatchKeepsPoolInv ==
  ASSUME PoolInv, MonitorFailsBatch, UNCHANGED planVars
  PROVE  PoolInv'
<1>1. /\ collected' = {} /\ engine = "waiting" /\ engine' = "raised"
      /\ UNCHANGED <<batch, pending, worker, monitor, outbox, gone, meddling, needs, answered>>
  BY DEF MonitorFailsBatch, planVars
<1>2. PoolTypeOK'
  BY <1>1 DEF PoolInv, PoolTypeOK, Polling, Watching, Returned
<1> QED
  BY <1>1, <1>2 DEF PoolInv, OneWave, PoolMayRun, Started

\* One more worker is started only after another one's monitor has ended.
LEMMA NextWaveKeepsPoolInv ==
  ASSUME PoolInv, NextWave, UNCHANGED planVars
  PROVE  PoolInv'
<1> DEFINE h == Head(pending)
<1>1. pending \in Seq(Ids) /\ pending # <<>> /\ engine = "waiting" /\ engine' = "raised"
  BY DEF NextWave, PoolInv, PoolTypeOK
<1>2. /\ Len(pending) \in Nat \ {0} /\ h \in Ids /\ h = pending[1]
      /\ pending' \in Seq(Ids) /\ Len(pending') = Len(pending) - 1
      /\ \A k \in 1..Len(pending') : k + 1 \in 1..Len(pending) /\ pending'[k] = pending[k + 1]
  BY <1>1, HeadTailProperties, EmptySeq, LenProperties DEF NextWave
<1>3. h \notin Started /\ needs[h] \subseteq answered
  BY <1>1, <1>2 DEF PoolInv, OneWave, PoolMayRun
<1> HIDE DEF h
<1>4. /\ monitor' = [t \in Ids |-> IF t = h THEN "starting" ELSE monitor[t]]
      /\ worker' = [t \in Ids |-> IF t = h THEN "running" ELSE worker[t]]
      /\ collected' = {}
      /\ UNCHANGED <<batch, outbox, gone, meddling, needs, answered>>
  BY DEF NextWave, Dispatch, h, planVars
<1>5. monitor[h] = "none"
  BY <1>2, <1>3 DEF Started
<1>6. Watching' = Watching \cup {h}
  BY <1>2, <1>4, <1>5 DEF Polling, Watching
<1>7. Cardinality(Watching') <= MaxConcurrent
  <2>1. PICK t \in Ids : t \in Returned \cup Raised
    BY DEF NextWave, Done, Returned, Raised
  <2>2. Watching \subseteq Started \ {t} /\ t \in Started
    BY <2>1 DEF Polling, Watching, Returned, Raised, Started
  <2>3. IsFiniteSet(Started)
    BY IdsAreFinite, FS_Subset DEF Started
  <2>4. /\ Cardinality(Started) \in Nat
        /\ Cardinality(Started \ {t}) = Cardinality(Started) - 1
        /\ IsFiniteSet(Started \ {t})
    BY <2>2, <2>3, FS_RemoveElement, FS_CardinalityType
  <2>5. Cardinality(Watching) <= Cardinality(Started) - 1 /\ IsFiniteSet(Watching)
    BY <2>2, <2>4, FS_Subset
  <2>6. Cardinality(Watching) \in Nat /\ h \notin Watching
    BY <1>5, <2>5, FS_CardinalityType DEF Polling, Watching
  <2>7. Cardinality(Watching \cup {h}) = Cardinality(Watching) + 1
    BY <2>5, <2>6, FS_AddElement
  <2>8. Cardinality(Started) <= MaxConcurrent
    BY <1>1 DEF PoolInv, OneWave
  <2> QED
    BY <1>6, <2>4, <2>5, <2>6, <2>7, <2>8, PoolAssumption
<1>8. PoolTypeOK'
  BY <1>1, <1>2, <1>4, <1>7 DEF PoolInv, PoolTypeOK, Statuses
<1>9. OneWave'
  BY <1>1, <1>4 DEF PoolInv, OneWave, Started
<1>10. PoolMayRun'
  BY <1>2, <1>3, <1>4 DEF PoolInv, PoolMayRun
<1> QED
  BY <1>8, <1>9, <1>10 DEF PoolInv

\* The tail of run(): what has returned is collected, once.
LEMMA CollectKeepsPoolInv ==
  ASSUME PoolInv, Collect, UNCHANGED planVars
  PROVE  PoolInv'
<1>1. /\ engine = "waiting" /\ engine' \in {"returned", "waiting"}
      /\ collected' = collected \cup Done /\ Done \subseteq Returned
      /\ UNCHANGED <<batch, pending, worker, monitor, outbox, gone, meddling, needs, answered>>
  BY DEF Collect, Done, planVars
<1>2. PoolTypeOK'
  BY <1>1 DEF PoolInv, PoolTypeOK, Polling, Watching, Returned
<1> QED
  BY <1>1, <1>2 DEF PoolInv, OneWave, PoolMayRun, Started

\* A monitor that begins is still one to wait for, one that ends is none; only
\* the monitor that returns gives its worker another status.
LEMMA MonitorKeepsPoolInv ==
  ASSUME PoolInv, NEW t \in Ids, Monitor(t), UNCHANGED planVars
  PROVE  PoolInv'
<1>1. PICK status \in Statuses, state \in MonitorStates \ {"none", "starting"} :
        /\ monitor' = [monitor EXCEPT ![t] = state]
        /\ worker' = [worker EXCEPT ![t] = status]
        /\ worker[t] # "none" => status # "none"
        /\ UNCHANGED <<engine, batch, pending, collected, outbox, gone, meddling>>
  <2>1. CASE TimesOut(t) \/ HearsWorker(t) \/ GivesUp(t)
    <3>1. PICK status \in Statuses \ {"none"} : Returns(t, status)
      BY <2>1 DEF TimesOut, HearsWorker, GivesUp, Verdict, Statuses
    <3> QED
      BY <3>1 DEF Returns, MonitorStates
  <2>2. CASE Begins(t) \/ ReadingFails(t)
    <3>1. worker' = [worker EXCEPT ![t] = worker[t]] /\ worker[t] \in Statuses
      BY <2>2 DEF Begins, ReadingFails, PoolInv, PoolTypeOK
    <3>2. PICK state \in {"polling", "raised"} : monitor' = [monitor EXCEPT ![t] = state]
      BY <2>2 DEF Begins, ReadingFails
    <3>3. UNCHANGED <<engine, batch, pending, collected, outbox, gone, meddling>>
      BY <2>2 DEF Begins, ReadingFails
    <3> QED
      BY <3>1, <3>2, <3>3 DEF MonitorStates
  <2> QED
    BY <2>1, <2>2 DEF Monitor
<1>2. monitor[t] \in {"starting", "polling"}
  BY DEF Monitor, Begins, TimesOut, HearsWorker, GivesUp, ReadingFails, Polling
<1>3. monitor \in [Ids -> MonitorStates] /\ worker \in [Ids -> Statuses]
  BY DEF PoolInv, PoolTypeOK, MonitorStates
<1>4. monitor' \in [Ids -> MonitorStates] /\ worker' \in [Ids -> Statuses]
  BY <1>1, <1>3
<1>5. Started' = Started /\ Watching' \subseteq Watching /\ Returned \subseteq Returned'
  BY <1>1, <1>2, <1>3 DEF Started, Polling, Watching, Returned
<1>6. Cardinality(Watching') <= MaxConcurrent
  <2>1. IsFiniteSet(Watching)
    BY IdsAreFinite, FS_Subset DEF Polling, Watching
  <2>2. Cardinality(Watching') <= Cardinality(Watching) /\ Cardinality(Watching') \in Nat
        /\ Cardinality(Watching) \in Nat
    BY <1>5, <2>1, FS_Subset, FS_CardinalityType
  <2>3. Cardinality(Watching) <= MaxConcurrent
    BY DEF PoolInv, PoolTypeOK
  <2> QED
    BY <2>2, <2>3, PoolAssumption
<1>7. PoolTypeOK'
  BY <1>1, <1>4, <1>5, <1>6 DEF PoolInv, PoolTypeOK, MonitorStates
<1>8. t \in Started /\ worker[t] # "none" /\ worker'[t] # "none"
  <2>1. t \in Started
    BY <1>2 DEF Started
  <2> QED
    BY <1>1, <1>3, <2>1 DEF PoolInv, OneWave
<1>9. OneWave'
  BY <1>1, <1>3, <1>5, <1>8 DEF PoolInv, OneWave
<1>10. PoolMayRun'
  <2>1. needs' = needs /\ answered' = answered
    BY DEF planVars
  <2> QED
    BY <1>1, <1>3, <1>8, <2>1 DEF PoolInv, PoolMayRun
<1> QED
  BY <1>7, <1>9, <1>10 DEF PoolInv

\* Cancellation and clean-up begin no worker.
LEMMA MeddlingKeepsPoolInv ==
  ASSUME PoolInv, NEW t \in Ids, NEW ts \in SUBSET Ids, CancelWorker(t) \/ Cleanup(ts),
         UNCHANGED planVars
  PROVE  PoolInv'
<1>1. CASE CancelWorker(t)
  <2>1. /\ worker[t] # "none" /\ worker' = [worker EXCEPT ![t] = "failed"]
        /\ meddling < MaxMeddling /\ meddling' = meddling + 1
        /\ UNCHANGED <<engine, batch, pending, collected, monitor, outbox, gone, needs, answered>>
    BY <1>1 DEF CancelWorker, Meddle, planVars
  <2>2. meddling' \in 0..MaxMeddling
    BY <2>1, PoolAssumption DEF PoolInv, PoolTypeOK
  <2>4. worker' \in [Ids -> Statuses]
    BY <2>1 DEF PoolInv, PoolTypeOK, Statuses
  <2>5. PoolTypeOK'
    BY <2>1, <2>2, <2>4 DEF PoolInv, PoolTypeOK, Polling, Watching, Returned
  <2>3. OneWave' /\ PoolMayRun'
    BY <2>1 DEF PoolInv, PoolTypeOK, OneWave, PoolMayRun, Started
  <2> QED
    BY <2>3, <2>5 DEF PoolInv
<1>2. CASE Cleanup(ts)
  <2>1. /\ gone' = gone \cup {w \in ts : worker[w] # "none"}
        /\ meddling < MaxMeddling /\ meddling' = meddling + 1
        /\ UNCHANGED <<engine, batch, pending, collected, worker, monitor, outbox, needs, answered>>
    BY <1>2 DEF Cleanup, Meddle, planVars
  <2>2. PoolTypeOK'
    BY <2>1, PoolAssumption DEF PoolInv, PoolTypeOK, Polling, Watching, Returned
  <2>3. OneWave' /\ PoolMayRun'
    BY <2>1 DEF PoolInv, OneWave, PoolMayRun, Started
  <2> QED
    BY <2>2, <2>3 DEF PoolInv
<1> QED
  BY <1>1, <1>2

\* A worker's answer only adds to what has been answered.
LEMMA WorkerSaysKeepsInv ==
  ASSUME PoolInv, PlanInv, NEW t \in Ids, WorkerSays(t)
  PROVE  PoolInv' /\ PlanInv'
<1>1. PICK m \in Words : Says(t, m) /\ answered \subseteq answered' /\ answered' \subseteq Ids
  BY DEF WorkerSays, Words, PlanInv, PlanTypes
<1>2. /\ outbox' = [outbox EXCEPT ![t] = Append(outbox[t], m)]
      /\ UNCHANGED <<engine, batch, pending, collected, worker, monitor, gone, meddling>>
      /\ UNCHANGED <<needs, plan, at, mode, task, tries, progress, edits>>
  BY <1>1 DEF Says, WorkerSays
<1>3. outbox' \in [Ids -> Seq({"result", "error"})]
  BY <1>2, FirstWordStays DEF PoolInv, PoolTypeOK, Words
<1>4. PoolTypeOK'
  BY <1>2, <1>3 DEF PoolInv, PoolTypeOK, Polling, Watching, Returned
<1>5. OneWave' /\ PoolMayRun'
  BY <1>1, <1>2 DEF PoolInv, OneWave, PoolMayRun, Started
<1>6. PlanInv'
  BY <1>1, <1>2 DEF PlanInv, PlanTypes, DoneWasAnswered, TaskMayRun, Completed
<1> QED
  BY <1>4, <1>5, <1>6 DEF PoolInv

-----------------------------------------------------------------------------
(* The plan and the Orchestrator.                                          *)

\* No task is done before the first one begins.
LEMMA PlanStarts == Init => PlanInv
BY PlanAssumption
   DEF Init, PlanInv, PlanTypes, DoneWasAnswered, TaskMayRun, Completed

\* A step of the pool or of a worker leaves the plan and the orchestrator alone.
LEMMA PlanAside ==
  ASSUME PlanInv, UNCHANGED planVars
  PROVE  PlanInv'
BY DEF PlanInv, PlanTypes, DoneWasAnswered, TaskMayRun, Completed, planVars

\* The next task of the plan may run, because what it depends on is done.
LEMMA LooksKeepsPlanInv ==
  ASSUME PlanInv, Looks, mode' \in {"run", "single"},
         UNCHANGED <<needs, plan, answered, edits>>, at # "calling"
  PROVE  PlanInv'
<1>1. CASE ReadyTasks = <<>>
  BY <1>1 DEF Looks, PlanInv, PlanTypes, DoneWasAnswered, TaskMayRun, Completed
<1>2. CASE ReadyTasks # <<>>
  <2> DEFINE h == Head(ReadyTasks)
  <2>1. h \in Ids /\ needs[h] \subseteq Completed
    <3>1. Len(ReadyTasks) \in Nat \ {0} /\ h = ReadyTasks[1] /\ h \in Ids
      BY <1>2, ReadyTasksMayRun, HeadTailProperties, EmptySeq, LenProperties
    <3> QED
      BY <3>1, ReadyTasksMayRun
  <2>2. Executes(h)
    BY <1>2 DEF Looks
  <2> HIDE DEF h
  <2> QED
    BY <2>1, <2>2, PlanAssumption
       DEF Executes, PlanInv, PlanTypes, DoneWasAnswered, TaskMayRun, Completed
<1> QED
  BY <1>1, <1>2

\* The end of a call may mark a task answered, and never takes that back.
LEMMA CallEndsKeepsInv ==
  ASSUME PoolInv, PlanInv, CallEnds
  PROVE  PoolInv' /\ PlanInv'
<1>1. UNCHANGED <<poolVars, needs, plan>> /\ answered \subseteq answered'
  BY DEF CallEnds, LlmAnswers, HttpFails, HttpExhausted, LlmBreaks, Finishes
<1>2. PoolInv'
  BY <1>1, PoolAside
<1>3. DoneWasAnswered'
  BY <1>1 DEF PlanInv, DoneWasAnswered, Completed
<1>4. PlanTypes'
  <2>1. CASE LlmAnswers
    BY <2>1 DEF LlmAnswers, Finishes, PlanInv, PlanTypes
  <2>2. CASE HttpFails
    BY <2>2, PlanAssumption DEF HttpFails, PlanInv, PlanTypes
  <2>3. CASE HttpExhausted
    BY <2>3 DEF HttpExhausted, Finishes, PlanInv, PlanTypes
  <2>4. CASE LlmBreaks
    BY <2>4 DEF LlmBreaks, Finishes, PlanInv, PlanTypes
  <2> QED
    BY <2>1, <2>2, <2>3, <2>4 DEF CallEnds
<1>5. TaskMayRun'
  BY <1>1 DEF CallEnds, LlmAnswers, HttpFails, HttpExhausted, LlmBreaks, Finishes,
              PlanInv, TaskMayRun
<1> QED
  BY <1>2, <1>3, <1>4, <1>5 DEF PlanInv

\* Others mark a task done only when it has been answered.
LEMMA EditKeepsInv ==
  ASSUME PoolInv, PlanInv, NEW t \in Ids, MarkDone(t) \/ GiveUp(t) \/ Reopen(t)
  PROVE  PoolInv' /\ PlanInv'
<1>1. PICK status \in {"pending", "completed", "other"} :
         Edit(t, status) /\ (status = "completed" => t \in answered)
  BY DEF MarkDone, GiveUp, Reopen
<1>2. /\ UNCHANGED <<poolVars, needs, at, mode, task, tries, progress, answered>>
      /\ plan' = [plan EXCEPT ![t] = status]
      /\ edits < MaxEdits /\ edits' = edits + 1
  BY <1>1 DEF Edit
<1>3. PoolInv'
  BY <1>2, PoolAside
<1>4. PlanTypes'
  BY <1>2, PlanAssumption DEF PlanInv, PlanTypes
<1>5. DoneWasAnswered'
  BY <1>1, <1>2 DEF PlanInv, PlanTypes, DoneWasAnswered, Completed
<1>6. TaskMayRun'
  BY <1>2 DEF PlanInv, TaskMayRun
<1> QED
  BY <1>3, <1>4, <1>5, <1>6 DEF PlanInv

-----------------------------------------------------------------------------
\* Every step of either executor, of a worker and of the editor keeps the
\* invariant.
LEMMA AutoExecStep == AutoExecInv /\ [Next]_vars => AutoExecInv'
<1> SUFFICES ASSUME PoolInv, PlanInv, [Next]_vars PROVE PoolInv' /\ PlanInv'
  BY DEF AutoExecInv
<1>1. CASE Run
  <2>1. UNCHANGED <<poolVars, needs, plan, answered, edits>> /\ Looks
        /\ mode' = "run" /\ at = "idle"
    BY <1>1 DEF Run
  <2> QED
    BY <2>1, PoolAside, LooksKeepsPlanInv
<1>2. CASE LooksAgain
  <2>1. UNCHANGED <<poolVars, needs, plan, answered, edits>> /\ Looks
        /\ mode' \in {"run", "single"} /\ at = "looking"
    BY <1>2 DEF LooksAgain, PlanInv, PlanTypes
  <2> QED
    BY <2>1, PoolAside, LooksKeepsPlanInv
<1>3. ASSUME NEW t \in Ids, RunSingle(t) PROVE PoolInv' /\ PlanInv'
  <2>1. UNCHANGED <<poolVars, needs, plan, answered, edits>> /\ Executes(t) /\ mode' = "single"
    BY <1>3 DEF RunSingle
  <2>2. PoolInv'
    BY <2>1, PoolAside
  <2>3. PlanInv'
    BY <2>1, PlanAssumption
       DEF Executes, PlanInv, PlanTypes, DoneWasAnswered, TaskMayRun, Completed
  <2> QED
    BY <2>2, <2>3
<1>4. CASE RunWithPlan
  BY <1>4, RunBatchKeepsPoolInv, PlanAside DEF RunWithPlan, PlanInv
<1>5. CASE CallEnds
  BY <1>5, CallEndsKeepsInv
<1>6. ASSUME NEW t \in Ids, MarkDone(t) \/ GiveUp(t) \/ Reopen(t)
      PROVE  PoolInv' /\ PlanInv'
  BY <1>6, EditKeepsInv
<1>7. ASSUME NEW t \in Ids, WorkerSays(t) PROVE PoolInv' /\ PlanInv'
  BY <1>7, WorkerSaysKeepsInv
<1>8. CASE PoolStep
  <2>1. UNCHANGED planVars /\ PlanInv'
    BY <1>8, PlanAside DEF PoolStep
  <2>2. CASE EngineStep
    BY <2>1, <2>2, FailedBatchKeepsPoolInv, NextWaveKeepsPoolInv, CollectKeepsPoolInv
       DEF EngineStep
  <2>3. ASSUME NEW t \in Ids, Monitor(t) PROVE PoolInv'
    BY <2>1, <2>3, MonitorKeepsPoolInv
  <2>4. ASSUME NEW t \in Ids, CancelWorker(t) PROVE PoolInv'
    BY <2>1, <2>4, MeddlingKeepsPoolInv
  <2>5. ASSUME NEW ts \in SUBSET Ids, Cleanup(ts) PROVE PoolInv'
    <3>1. CASE Ids = {}
      BY <2>5, <3>1 DEF Cleanup
    <3> QED
      BY <2>1, <2>5, <3>1, MeddlingKeepsPoolInv
  <2> QED
    BY <1>8, <2>1, <2>2, <2>3, <2>4, <2>5 DEF PoolStep
<1>9. CASE UNCHANGED vars
  BY <1>9, PoolAside, PlanAside DEF vars, planVars
<1> QED
  BY <1>1, <1>2, <1>3, <1>4, <1>5, <1>6, <1>7, <1>8, <1>9 DEF Next

\* The inductive invariant holds in every history (orchestrator.py:84-134,
\* parallel.py:140-451).
LEMMA AutoExecInvariant == Spec => []AutoExecInv
<1>1. Init => AutoExecInv
  BY PoolStarts, PlanStarts DEF AutoExecInv
<1> QED
  BY <1>1, AutoExecStep, PTL DEF Spec

\* Types, and never more than max_concurrent monitors at once, for any number
\* of tasks and workers.
THEOREM AutoExecTypes == Spec => []TypeOK
<1>1. AutoExecInv => TypeOK
  BY DEF AutoExecInv, PoolInv, PlanInv, PlanTypes, TypeOK
<1> QED
  BY <1>1, AutoExecInvariant, PTL

\* No task is run before all it depends on has been answered, for any plan, any
\* edits of it and any number of tasks.
THEOREM TasksRunAfterDependencies == Spec => []RunsAfterDependencies
<1>1. AutoExecInv => RunsAfterDependencies
  BY DEF AutoExecInv, PoolInv, PoolMayRun, PlanInv, TaskMayRun, RunsAfterDependencies
<1> QED
  BY <1>1, AutoExecInvariant, PTL
=============================================================================
