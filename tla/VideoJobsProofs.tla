--------------------------- MODULE VideoJobsProofs ---------------------------
(***************************************************************************)
(* Theorems about video jobs end to end.  First the controller by itself,  *)
(* for every set of jobs, every number of slots, every length of the       *)
(* queue, and every use of the gate, of reset() and of restarts.  The      *)
(* routers and the background task drive it only through its own           *)
(* operations: JobsSpec implements Spec of VideoConcurrency, so every      *)
(* theorem about the controller holds of the whole.  Then what a client    *)
(* may rely on when it polls a row.                                        *)
(***************************************************************************)
EXTENDS VideoJobs, FiniteSetTheorems, TLAPS

-----------------------------------------------------------------------------
(* The set of the tasks that hold a slot, and its cardinality.             *)

\* Tasks that live are finitely many, before a step and after it.
LEMMA AliveIsFinite ==
  /\ IsFiniteSet(Alive) /\ Cardinality(Alive) \in Nat
  /\ IsFiniteSet(Alive') /\ Cardinality(Alive') \in Nat
<1>1. Alive \in SUBSET Jobs /\ Alive' \in SUBSET Jobs
  BY DEF Alive
<1>2. IsFiniteSet(Alive) /\ IsFiniteSet(Alive')
  BY <1>1, ControllerAssumption, FS_Subset DEF ControllerAssumption
<1> QED
  BY <1>2, FS_CardinalityType

\* A job without a task is given one: one slot more is taken.
LEMMA OneMoreAlive ==
  ASSUME NEW j \in Jobs, task \in [Jobs -> TaskStates], task[j] = "none",
         task' = [task EXCEPT ![j] = "created"]
  PROVE  Cardinality(Alive') = Cardinality(Alive) + 1
<1>1. Alive' = Alive \cup {j} /\ j \notin Alive
  BY DEF Alive
<1> QED
  BY <1>1, AliveIsFinite, FS_AddElement

\* A running task ends: one slot less is taken.
LEMMA OneLessAlive ==
  ASSUME NEW j \in Jobs, task \in [Jobs -> TaskStates], task[j] = "running",
         task' = [task EXCEPT ![j] = "ended"]
  PROVE  Cardinality(Alive') = Cardinality(Alive) - 1
<1>1. Alive' = Alive \ {j} /\ j \in Alive
  BY DEF Alive
<1> QED
  BY <1>1, AliveIsFinite, FS_RemoveElement

\* A running task ends and a waiting job takes its place.
LEMMA SameNumberAlive ==
  ASSUME NEW j \in Jobs, NEW k \in Jobs, task \in [Jobs -> TaskStates],
         task[j] = "running", task[k] = "none",
         task' = [task EXCEPT ![j] = "ended", ![k] = "created"]
  PROVE  Cardinality(Alive') = Cardinality(Alive)
<1>1. Alive' = (Alive \ {j}) \cup {k} /\ j \in Alive /\ k \notin Alive \ {j}
  BY DEF Alive
<1>2. /\ IsFiniteSet(Alive \ {j})
      /\ Cardinality(Alive \ {j}) = Cardinality(Alive) - 1
  BY <1>1, AliveIsFinite, FS_RemoveElement
<1>3. Cardinality((Alive \ {j}) \cup {k}) = Cardinality(Alive \ {j}) + 1
  BY <1>1, <1>2, FS_AddElement
<1> QED
  BY <1>1, <1>2, <1>3, AliveIsFinite

\* The count is 0 exactly when no task holds a slot.
LEMMA NobodyAlive == Cardinality(Alive) = 0 <=> Alive = {}
  BY AliveIsFinite, FS_EmptySet

-----------------------------------------------------------------------------
(* The queue as a sequence without repetitions.                            *)

Distinct == \A a, b \in 1..Len(queue) : a # b => queue[a] # queue[b]

\* A job that does not wait yet joins at the end.
LEMMA EnqueueKeepsDistinct ==
  ASSUME NEW j \in Jobs, queue \in Seq(Jobs), Distinct, j \notin Queued,
         queue' = Append(queue, j)
  PROVE  queue' \in Seq(Jobs) /\ Distinct' /\ Queued' = Queued \cup {j}
<1>1. queue' \in Seq(Jobs) /\ Len(queue') = Len(queue) + 1
  OBVIOUS
<1>2. /\ \A i \in 1..Len(queue) : queue'[i] = queue[i]
      /\ queue'[Len(queue) + 1] = j
  OBVIOUS
<1>3. Distinct'
  BY <1>1, <1>2 DEF Distinct, Queued
<1>4. Queued' = Queued \cup {j}
  BY <1>1, <1>2 DEF Queued
<1> QED
  BY <1>1, <1>3, <1>4

\* The oldest waiting job leaves, and it is gone from the queue.
LEMMA DequeueKeepsDistinct ==
  ASSUME queue \in Seq(Jobs), Distinct, queue # <<>>, queue' = Tail(queue)
  PROVE  /\ queue' \in Seq(Jobs) /\ Distinct'
         /\ Head(queue) \in Jobs /\ Head(queue) \in Queued
         /\ Queued' = Queued \ {Head(queue)}
<1>1. /\ queue' \in Seq(Jobs) /\ Len(queue') = Len(queue) - 1
      /\ Len(queue) \in Nat \ {0}
      /\ Head(queue) = queue[1] /\ queue[1] \in Jobs
  OBVIOUS
<1>2. \A i \in 1..Len(queue') : queue'[i] = queue[i + 1]
  BY <1>1
<1>3. Distinct'
  BY <1>1, <1>2 DEF Distinct
<1>4. Head(queue) \in Queued
  BY <1>1 DEF Queued
<1>5. Queued' = Queued \ {Head(queue)}
  <2>1. ASSUME NEW x \in Queued' PROVE x \in Queued \ {Head(queue)}
    <3>1. PICK i \in 1..Len(queue') : x = queue[i + 1]
      BY <1>2 DEF Queued
    <3> QED
      BY <1>1, <3>1 DEF Queued, Distinct
  <2>2. ASSUME NEW x \in Queued, x # Head(queue) PROVE x \in Queued'
    <3>1. PICK i \in 1..Len(queue) : x = queue[i]
      BY DEF Queued
    <3>2. i - 1 \in 1..Len(queue')
      BY <1>1, <2>2, <3>1
    <3>3. queue'[i - 1] = x
      BY <1>1, <1>2, <3>1, <3>2
    <3> QED
      BY <3>2, <3>3 DEF Queued
  <2> QED
    BY <2>1, <2>2
<1> QED
  BY <1>1, <1>3, <1>4, <1>5

\* reset(), a restart and the end of drain() leave nobody waiting.
LEMMA EmptyQueue ==
  ASSUME queue' = <<>>
  PROVE  queue' \in Seq(Jobs) /\ Distinct' /\ Queued' = {}
  BY DEF Distinct, Queued

-----------------------------------------------------------------------------
(* The inductive invariant.  The conjuncts need one another: the count is  *)
(* right because a waiting job has no task, a shutdown strands no job      *)
(* because the queue is empty when the count is 0, and the queue is served *)
(* one by one because the count is right.                                  *)

ControllerInv ==
  /\ TypeOK
  /\ ActiveCountsTasks
  /\ AcceptedJobHasOnePlace
  /\ NoStrandedQueue
  /\ StrictlySerial

\* A controller that has just been constructed satisfies the invariant.
LEMMA ControllerInit == Init => ControllerInv
<1> SUFFICES ASSUME Init PROVE ControllerInv
  OBVIOUS
<1>1. TypeOK
  BY ControllerAssumption
     DEF Init, TypeOK, Answers, TaskStates, Phases, ControllerAssumption
<1>2. Alive = {} /\ Cardinality(Alive) = 0
  BY NobodyAlive DEF Init, Alive
<1>3. ActiveCountsTasks
  BY <1>2 DEF Init, ActiveCountsTasks
<1>4. StrictlySerial
  BY <1>2, ControllerAssumption DEF StrictlySerial, ControllerAssumption
<1>5. AcceptedJobHasOnePlace /\ NoStrandedQueue
  BY DEF Init, AcceptedJobHasOnePlace, NoStrandedQueue, Queued
<1> QED
  BY <1>1, <1>3, <1>4, <1>5 DEF ControllerInv

\* A job that has not been submitted is nowhere.
LEMMA UnknownJobIsNowhere ==
  ASSUME ControllerInv, NEW j \in Jobs, answer[j] \in {"none", "rejected"}
  PROVE  task[j] = "none" /\ j \notin Queued
  BY DEF ControllerInv, AcceptedJobHasOnePlace

\* A new job is given its task at once.
LEMMA LaunchKeepsInv ==
  ASSUME ControllerInv, NEW j \in Jobs, answer[j] = "none", enabled' \in GateValues,
         Launch(j), Answer(j, "processing"), UNCHANGED <<queue, phase, resets, restarts>>,
         ~enabled' \/ active < MaxConcurrent
  PROVE  ControllerInv'
<1> USE DEF ControllerInv
<1>1. task[j] = "none" /\ j \notin Queued
  BY UnknownJobIsNowhere
<1>2. /\ task' = [task EXCEPT ![j] = "created"] /\ active' = active + 1
      /\ answer' = [answer EXCEPT ![j] = "processing"]
      /\ UNCHANGED <<queue, phase, resets, restarts>>
  BY DEF Launch, Answer
<1>3. Cardinality(Alive') = Cardinality(Alive) + 1
  BY <1>1, <1>2, OneMoreAlive DEF TypeOK
<1>4. TypeOK'
  BY <1>2, ControllerAssumption
     DEF TypeOK, Answers, TaskStates, ControllerAssumption
<1>5. ActiveCountsTasks'
  BY <1>2, <1>3 DEF ActiveCountsTasks
<1>6. AcceptedJobHasOnePlace'
  BY <1>1, <1>2 DEF AcceptedJobHasOnePlace, Queued, TypeOK
<1>7. NoStrandedQueue'
  BY <1>2, ControllerAssumption DEF NoStrandedQueue, TypeOK, ControllerAssumption
<1>8. StrictlySerial'
  BY <1>2, <1>3, AliveIsFinite, ControllerAssumption
     DEF StrictlySerial, ActiveCountsTasks, ControllerAssumption
<1> QED
  BY <1>4, <1>5, <1>6, <1>7, <1>8

\* A new job joins the queue.
LEMMA EnqueueKeepsInv ==
  ASSUME ControllerInv, NEW j \in Jobs, answer[j] = "none", enabled' \in GateValues,
         SubmitEnqueue(j), UNCHANGED <<phase, resets, restarts>>
  PROVE  ControllerInv'
<1> USE DEF ControllerInv
<1>1. task[j] = "none" /\ j \notin Queued
  BY UnknownJobIsNowhere
<1>2. /\ queue' = Append(queue, j) /\ active >= MaxConcurrent
      /\ answer' = [answer EXCEPT ![j] = "queued"]
      /\ UNCHANGED <<active, task, phase, resets, restarts>>
  BY DEF SubmitEnqueue, Answer
<1>3. Distinct
  BY DEF AcceptedJobHasOnePlace, Distinct
<1>4. queue' \in Seq(Jobs) /\ Distinct' /\ Queued' = Queued \cup {j}
  BY <1>1, <1>2, <1>3, EnqueueKeepsDistinct DEF TypeOK
<1>5. TypeOK'
  BY <1>2, <1>4, ControllerAssumption DEF TypeOK, Answers, ControllerAssumption
<1>6. Alive' = Alive
  BY <1>2 DEF Alive
<1>7. ActiveCountsTasks' /\ StrictlySerial'
  BY <1>2, <1>6 DEF ActiveCountsTasks, StrictlySerial
<1>8. AcceptedJobHasOnePlace'
  BY <1>1, <1>2, <1>4 DEF AcceptedJobHasOnePlace, Distinct, TypeOK
<1>9. NoStrandedQueue'
  BY <1>2 DEF NoStrandedQueue
<1> QED
  BY <1>5, <1>7, <1>8, <1>9

\* A new job is refused.
LEMMA RejectKeepsInv ==
  ASSUME ControllerInv, NEW j \in Jobs, answer[j] = "none", enabled' \in GateValues,
         Answer(j, "rejected"),
         UNCHANGED <<active, queue, task, phase, resets, restarts>>
  PROVE  ControllerInv'
<1> USE DEF ControllerInv
<1>1. task[j] = "none" /\ j \notin Queued
  BY UnknownJobIsNowhere
<1>2. answer' = [answer EXCEPT ![j] = "rejected"]
  BY DEF Answer
<1>3. Alive' = Alive /\ Queued' = Queued
  BY DEF Alive, Queued
<1>4. TypeOK'
  BY <1>2, ControllerAssumption DEF TypeOK, Answers, ControllerAssumption
<1>5. AcceptedJobHasOnePlace'
  BY <1>1, <1>2, <1>3 DEF AcceptedJobHasOnePlace, TypeOK
<1>6. ActiveCountsTasks' /\ StrictlySerial' /\ NoStrandedQueue'
  BY <1>3 DEF ActiveCountsTasks, StrictlySerial, NoStrandedQueue
<1> QED
  BY <1>4, <1>5, <1>6

\* submit(), by the five ways it can answer.
LEMMA SubmitKeepsInv ==
  ASSUME ControllerInv, NEW j \in Jobs, Submit(j)
  PROVE  ControllerInv'
<1>1. /\ answer[j] = "none" /\ enabled' \in GateValues
      /\ UNCHANGED <<phase, resets, restarts>>
  BY DEF Submit
<1>2. CASE SubmitUngated(j)
  BY <1>1, <1>2, LaunchKeepsInv DEF SubmitUngated
<1>3. CASE SubmitLowMemory(j)
  BY <1>1, <1>3, RejectKeepsInv DEF SubmitLowMemory
<1>4. CASE SubmitImmediate(j)
  BY <1>1, <1>4, LaunchKeepsInv DEF SubmitImmediate
<1>5. CASE SubmitEnqueue(j)
  BY <1>1, <1>5, EnqueueKeepsInv
<1>6. CASE SubmitFull(j)
  BY <1>1, <1>6, RejectKeepsInv DEF SubmitFull
<1> QED
  BY <1>2, <1>3, <1>4, <1>5, <1>6 DEF Submit

\* The first step of the task.
LEMMA BeginKeepsInv ==
  ASSUME ControllerInv, NEW j \in Jobs, Begin(j)
  PROVE  ControllerInv'
<1> USE DEF ControllerInv
<1>1. /\ task[j] = "created" /\ task' = [task EXCEPT ![j] = "running"]
      /\ UNCHANGED <<enabled, active, queue, answer, phase, resets, restarts>>
  BY DEF Begin
<1>2. Alive' = Alive /\ Queued' = Queued
  BY <1>1 DEF Alive, Queued, TypeOK
<1>3. TypeOK'
  BY <1>1 DEF TypeOK, TaskStates
<1>4. AcceptedJobHasOnePlace'
  BY <1>1, <1>2 DEF AcceptedJobHasOnePlace, TypeOK
<1>5. ActiveCountsTasks' /\ StrictlySerial' /\ NoStrandedQueue'
  BY <1>1, <1>2 DEF ActiveCountsTasks, StrictlySerial, NoStrandedQueue
<1> QED
  BY <1>3, <1>4, <1>5

\* The `finally` when nobody waits, and when the slot is handed on.
LEMMA ReleaseKeepsInv ==
  ASSUME ControllerInv, NEW j \in Jobs, Release(j)
  PROVE  ControllerInv'
<1> USE DEF ControllerInv
<1>1. /\ task[j] = "running"
      /\ UNCHANGED <<enabled, answer, phase, resets, restarts>>
  BY DEF Release
<1>2. CASE SlotFreed(j)
  <2>1. /\ queue = <<>> /\ queue' = queue /\ active' = active - 1
        /\ task' = [task EXCEPT ![j] = "ended"]
    BY <1>2 DEF SlotFreed
  <2>2. Cardinality(Alive') = Cardinality(Alive) - 1
    BY <1>1, <2>1, OneLessAlive DEF TypeOK
  <2>3. TypeOK'
    BY <1>1, <2>1 DEF TypeOK, TaskStates
  <2>4. ActiveCountsTasks' /\ NoStrandedQueue'
    BY <1>1, <2>1, <2>2 DEF ActiveCountsTasks, NoStrandedQueue
  <2>5. StrictlySerial'
    BY <1>1, <2>2, AliveIsFinite, ControllerAssumption
       DEF StrictlySerial, ControllerAssumption
  <2>6. AcceptedJobHasOnePlace'
    BY <1>1, <2>1 DEF AcceptedJobHasOnePlace, Queued, TypeOK
  <2> QED
    BY <2>3, <2>4, <2>5, <2>6
<1>3. CASE SlotHandedOn(j)
  <2> DEFINE k == Head(queue)
  <2>1. /\ queue # <<>> /\ queue' = Tail(queue) /\ active' = (active - 1) + 1
        /\ task' = [task EXCEPT ![j] = "ended", ![k] = "created"]
    BY <1>3 DEF SlotHandedOn
  <2>2. Distinct
    BY DEF AcceptedJobHasOnePlace, Distinct
  <2>3. /\ queue' \in Seq(Jobs) /\ Distinct'
        /\ k \in Jobs /\ k \in Queued /\ Queued' = Queued \ {k}
    BY <2>1, <2>2, DequeueKeepsDistinct DEF TypeOK
  <2>4. task[k] = "none" /\ answer[k] = "queued"
    BY <2>3 DEF AcceptedJobHasOnePlace
  <2>5. Cardinality(Alive') = Cardinality(Alive)
    BY <1>1, <2>1, <2>3, <2>4, SameNumberAlive DEF TypeOK
  <2>6. active' = active
    BY <2>1 DEF TypeOK
  <2>7. TypeOK'
    BY <1>1, <2>1, <2>3, <2>6 DEF TypeOK, TaskStates
  <2>8. ActiveCountsTasks' /\ StrictlySerial'
    BY <1>1, <2>5, <2>6 DEF ActiveCountsTasks, StrictlySerial
  <2>9. NoStrandedQueue'
    BY <2>1, <2>6 DEF NoStrandedQueue
  <2>10. AcceptedJobHasOnePlace'
    BY <1>1, <2>1, <2>3, <2>4 DEF AcceptedJobHasOnePlace, Distinct, TypeOK
  <2> QED
    BY <2>7, <2>8, <2>9, <2>10
<1> QED
  BY <1>2, <1>3 DEF Release

\* shutdown() finds nobody waiting and nobody running, unless reset() was called.
LEMMA NothingLeftAtShutdown ==
  ASSUME ControllerInv, FinishShutdown, resets = 0
  PROVE  queue = <<>> /\ Alive = {} /\ active = 0
<1>1. active = Cardinality(Alive) /\ active <= 0
  BY DEF ControllerInv, ActiveCountsTasks, FinishShutdown, Drained
<1>2. active = 0
  BY <1>1, AliveIsFinite
<1>3. queue = <<>>
  BY <1>2, ControllerAssumption
     DEF ControllerInv, NoStrandedQueue, ControllerAssumption
<1> QED
  BY <1>1, <1>2, <1>3, NobodyAlive

\* The end of shutdown(): nothing is left to drop or to cancel unless reset()
\* was called, and then only that loses a job.
LEMMA ShutdownKeepsInv ==
  ASSUME ControllerInv, FinishShutdown
  PROVE  ControllerInv'
<1> USE DEF ControllerInv
<1>1. /\ queue' = <<>> /\ phase' = "down"
      /\ task' = [j \in Jobs |-> IF j \in Alive THEN "killed" ELSE task[j]]
      /\ UNCHANGED <<enabled, active, answer, resets, restarts>>
  BY DEF FinishShutdown
<1>2. Alive' = {} /\ Cardinality(Alive') = 0
  BY <1>1, FS_EmptySet DEF Alive
<1>3. Distinct' /\ Queued' = {} /\ queue' \in Seq(Jobs)
  BY <1>1, EmptyQueue
<1>4. TypeOK'
  BY <1>1, <1>3 DEF TypeOK, TaskStates, Phases
<1>5. ActiveCountsTasks'
  BY <1>1, <1>2, NothingLeftAtShutdown DEF ActiveCountsTasks
<1>6. StrictlySerial'
  BY <1>2, ControllerAssumption DEF StrictlySerial, ControllerAssumption
<1>7. NoStrandedQueue'
  BY <1>1 DEF NoStrandedQueue
<1>8. AcceptedJobHasOnePlace'
  <2>1. \A j \in Jobs : task[j] = "none" <=> task'[j] = "none"
    BY <1>1 DEF TypeOK, Alive
  <2>2. resets = 0 => Queued = {}
    BY NothingLeftAtShutdown DEF Queued
  <2> QED
    BY <1>1, <1>3, <2>1, <2>2 DEF AcceptedJobHasOnePlace, Distinct
<1> QED
  BY <1>4, <1>5, <1>6, <1>7, <1>8

\* reset() empties the queue and forgets the tasks; from here on only the parts
\* of the invariant that do not speak of the count say anything.
LEMMA ResetKeepsInv ==
  ASSUME ControllerInv, Reset
  PROVE  ControllerInv'
<1> USE DEF ControllerInv
<1>1. /\ queue' = <<>> /\ resets < MaxResets /\ resets' = resets + 1
      /\ enabled' = TRUE /\ active' = 0
      /\ UNCHANGED <<answer, task, phase, restarts>>
  BY DEF Reset
<1>2. Distinct' /\ Queued' = {} /\ queue' \in Seq(Jobs)
  BY <1>1, EmptyQueue
<1>3. resets' \in 0..MaxResets /\ resets' # 0
  BY <1>1, ControllerAssumption DEF TypeOK, ControllerAssumption
<1>4. TypeOK'
  BY <1>1, <1>2, <1>3 DEF TypeOK
<1>5. ActiveCountsTasks' /\ StrictlySerial'
  BY <1>3 DEF ActiveCountsTasks, StrictlySerial
<1>6. NoStrandedQueue'
  BY <1>1 DEF NoStrandedQueue
<1>7. AcceptedJobHasOnePlace'
  BY <1>1, <1>2, <1>3 DEF AcceptedJobHasOnePlace, Distinct
<1> QED
  BY <1>4, <1>5, <1>6, <1>7

\* After a crash the old tasks are gone and the new controller is empty.
LEMMA RestartKeepsInv ==
  ASSUME ControllerInv, Restart
  PROVE  ControllerInv'
<1> USE DEF ControllerInv
<1>1. /\ queue' = <<>> /\ enabled' = TRUE /\ active' = 0 /\ phase' = "serving"
      /\ task' = [j \in Jobs |->
                    IF j \in Alive \cup Queued THEN "killed" ELSE task[j]]
      /\ restarts < MaxRestarts /\ restarts' = restarts + 1
      /\ UNCHANGED <<answer, resets>>
  BY DEF Restart
<1>2. Alive' = {} /\ Cardinality(Alive') = 0
  BY <1>1, FS_EmptySet DEF Alive
<1>3. Distinct' /\ Queued' = {} /\ queue' \in Seq(Jobs)
  BY <1>1, EmptyQueue
<1>4. TypeOK'
  BY <1>1, <1>3, ControllerAssumption
     DEF TypeOK, TaskStates, Phases, ControllerAssumption
<1>5. ActiveCountsTasks'
  BY <1>1, <1>2 DEF ActiveCountsTasks
<1>6. StrictlySerial'
  BY <1>2, ControllerAssumption DEF StrictlySerial, ControllerAssumption
<1>7. NoStrandedQueue'
  BY <1>1 DEF NoStrandedQueue
<1>8. AcceptedJobHasOnePlace'
  <2>1. \A j \in Jobs : task[j] # "none" => task'[j] # "none"
    BY <1>1 DEF TypeOK
  <2>2. \A j \in Jobs : j \in Queued => task'[j] # "none" /\ answer[j] = "queued"
    BY <1>1 DEF AcceptedJobHasOnePlace
  <2>3. \A j \in Jobs : j \notin Queued /\ task[j] = "none" => task'[j] = "none"
    BY <1>1 DEF Alive
  <2> QED
    BY <1>1, <1>3, <2>1, <2>2, <2>3 DEF AcceptedJobHasOnePlace, Distinct
<1> QED
  BY <1>4, <1>5, <1>6, <1>7, <1>8

\* No step of the controller breaks the invariant.
LEMMA ControllerStep == ControllerInv /\ [Next]_vars => ControllerInv'
<1> SUFFICES ASSUME ControllerInv, [Next]_vars PROVE ControllerInv'
  OBVIOUS
<1>1. ASSUME NEW j \in Jobs, Submit(j) \/ Begin(j) \/ Release(j) PROVE ControllerInv'
  BY <1>1, SubmitKeepsInv, BeginKeepsInv, ReleaseKeepsInv
<1>2. CASE BeginShutdown
  BY <1>2 DEF BeginShutdown, ControllerInv, TypeOK, Phases, ActiveCountsTasks, Alive,
              AcceptedJobHasOnePlace, Queued, NoStrandedQueue, StrictlySerial
<1>3. CASE FinishShutdown
  BY <1>3, ShutdownKeepsInv
<1>4. CASE Reset
  BY <1>4, ResetKeepsInv
<1>5. CASE Restart
  BY <1>5, RestartKeepsInv
<1>6. CASE UNCHANGED vars
  BY <1>6 DEF vars, ControllerInv, TypeOK, ActiveCountsTasks, Alive,
              AcceptedJobHasOnePlace, Queued, NoStrandedQueue, StrictlySerial
<1> QED
  BY <1>1, <1>2, <1>3, <1>4, <1>5, <1>6 DEF Next

-----------------------------------------------------------------------------
(* The theorems.                                                           *)

\* The inductive invariant holds in every reachable state of the controller,
\* for every number of jobs, slots and places in the queue.
THEOREM ControllerInvariant == Spec => []ControllerInv
  BY ControllerInit, ControllerStep, PTL DEF Spec

\* The count is the number of tasks that hold a slot: no slot leaks and none is
\* released twice, whatever the interleaving of submissions and releases.
THEOREM SlotsAreCounted == Spec => []ActiveCountsTasks
<1>1. ControllerInv => ActiveCountsTasks
  BY DEF ControllerInv
<1> QED
  BY <1>1, ControllerInvariant, PTL

\* No accepted job is lost or kept twice.
THEOREM JobsHaveOnePlace == Spec => []AcceptedJobHasOnePlace
<1>1. ControllerInv => AcceptedJobHasOnePlace
  BY DEF ControllerInv
<1> QED
  BY <1>1, ControllerInvariant, PTL

\* Whoever waits, waits for a task that will hand its slot on.
THEOREM QueueIsServed == Spec => []NoStrandedQueue
<1>1. ControllerInv => NoStrandedQueue
  BY DEF ControllerInv
<1> QED
  BY <1>1, ControllerInvariant, PTL

\* With the gate on, no more than MAX_CONCURRENT tasks at any time.
THEOREM VideosAreSerial == Spec => []StrictlySerial
<1>1. ControllerInv => StrictlySerial
  BY DEF ControllerInv
<1> QED
  BY <1>1, ControllerInvariant, PTL

\* The queue is first in, first out, and no submission slips past it.
LEMMA OvertakingStep ==
  ControllerInv /\ [Next]_vars =>
    \A j \in Jobs : Started(j) /\ enabled' => queue = <<>> \/ j = Head(queue)
<1> SUFFICES ASSUME ControllerInv, [Next]_vars, NEW j \in Jobs, Started(j), enabled'
             PROVE  queue = <<>> \/ j = Head(queue)
  OBVIOUS
<1> USE DEF ControllerInv, TypeOK, Started
<1>1. ASSUME NEW k \in Jobs, Submit(k) PROVE queue = <<>> \/ j = Head(queue)
  <2>1. CASE SubmitUngated(k)
    BY <2>1 DEF SubmitUngated
  <2>2. CASE SubmitImmediate(k)
    BY <2>2, ControllerAssumption
       DEF SubmitImmediate, NoStrandedQueue, ControllerAssumption
  <2>3. CASE SubmitLowMemory(k) \/ SubmitEnqueue(k) \/ SubmitFull(k)
    BY <2>3 DEF SubmitLowMemory, SubmitEnqueue, SubmitFull
  <2> QED
    BY <1>1, <2>1, <2>2, <2>3 DEF Submit
<1>2. ASSUME NEW k \in Jobs, Begin(k) PROVE queue = <<>> \/ j = Head(queue)
  BY <1>2 DEF Begin
<1>3. ASSUME NEW k \in Jobs, Release(k) PROVE queue = <<>> \/ j = Head(queue)
  BY <1>3 DEF Release, SlotFreed, SlotHandedOn
<1>4. CASE BeginShutdown \/ Reset \/ UNCHANGED vars
  BY <1>4 DEF BeginShutdown, Reset, vars
<1>5. CASE FinishShutdown \/ Restart
  BY <1>5 DEF FinishShutdown, Restart
<1> QED
  BY <1>1, <1>2, <1>3, <1>4, <1>5 DEF Next

\* While the gate is on jobs are started in the order in which they were queued.
THEOREM NobodyOvertakes == Spec => NoOvertaking
<1>1. ControllerInv /\ [Next]_vars =>
        [\A j \in Jobs : Started(j) /\ enabled' => queue = <<>> \/ j = Head(queue)]_vars
  BY OvertakingStep
<1> QED
  BY <1>1, ControllerInvariant, PTL DEF Spec, NoOvertaking

\* A shutdown neither drops a waiting job nor cancels a running one.
THEOREM DrainIsComplete == Spec => ShutdownLosesNothing
<1>1. ControllerInv /\ [Next]_vars =>
        [phase # "down" /\ phase' = "down" /\ resets = 0
           => queue = <<>> /\ Alive = {}]_vars
  <2> SUFFICES ASSUME ControllerInv, Next, phase # "down", phase' = "down", resets = 0
               PROVE  queue = <<>> /\ Alive = {}
    BY DEF vars
  <2>1. FinishShutdown
    BY DEF Next, Submit, Begin, Release, BeginShutdown, Reset, Restart
  <2> QED
    BY <2>1, NothingLeftAtShutdown
<1> QED
  BY <1>1, ControllerInvariant, PTL DEF Spec, ShutdownLosesNothing
-----------------------------------------------------------------------------
(* Refinement: the gate is on and nobody calls reset().                    *)

SeenJobs == {j \in Jobs : answer[j] # "none"}

\* The line counts as the controller does.
LEMMA LineCounts == \A S : Line!Cardinality(S) = Cardinality(S)
  BY DEF Line!Cardinality, Cardinality

\* A submission comes once and is served, waits or is turned away.
LEMMA SubmitIsLineStep ==
  ASSUME GateValues = {TRUE}, ControllerInv, resets = 0, NEW j \in Jobs, Submit(j)
  PROVE  Line!ServedAtOnce(j) \/ Line!Joins(j) \/ Line!TurnedAway(j)
<1> USE DEF ControllerInv, TypeOK, Answers
<1>1. /\ answer[j] = "none" /\ task[j] = "none" /\ enabled'
      /\ Cardinality(Alive) = active
  BY UnknownJobIsNowhere DEF Submit, ActiveCountsTasks
<1>2. ASSUME NEW a \in Answers, a # "none", Answer(j, a) PROVE Line!Comes(j)
  BY <1>1, <1>2 DEF Answer, Line!Comes
<1>3. CASE SubmitLowMemory(j) \/ SubmitFull(j)
  <2>1. Line!Comes(j)
    BY <1>2, <1>3 DEF SubmitLowMemory, SubmitFull
  <2>2. UNCHANGED <<queue, Alive>>
    BY <1>3 DEF SubmitLowMemory, SubmitFull, Alive
  <2> QED
    BY <2>1, <2>2 DEF Line!TurnedAway
<1>4. CASE SubmitImmediate(j)
  <2>1. Line!Comes(j)
    BY <1>2, <1>4 DEF SubmitImmediate
  <2>2. queue = <<>> /\ UNCHANGED queue
    BY <1>4, ControllerAssumption
       DEF SubmitImmediate, NoStrandedQueue, ControllerAssumption
  <2>3. Alive' = Alive \cup {j}
    BY <1>4 DEF SubmitImmediate, Launch, Alive
  <2> QED
    BY <1>1, <1>4, <2>1, <2>2, <2>3, LineCounts DEF SubmitImmediate, Line!ServedAtOnce
<1>5. CASE SubmitEnqueue(j)
  <2>1. Line!Comes(j)
    BY <1>2, <1>5 DEF SubmitEnqueue
  <2>2. Alive' = Alive
    BY <1>5 DEF SubmitEnqueue, Alive
  <2> QED
    BY <1>1, <1>5, <2>1, <2>2, LineCounts DEF SubmitEnqueue, Line!Joins
<1> QED
  BY <1>1, <1>3, <1>4, <1>5 DEF Submit, SubmitUngated

\* The `finally` of a task leaves, and calls the next one in the same step.
LEMMA ReleaseIsLineStep ==
  ASSUME ControllerInv, NEW j \in Jobs, Release(j)
  PROVE  Line!Leaves(j)
<1> USE DEF ControllerInv, TypeOK
<1>1. task[j] = "running" /\ j \in Alive /\ UNCHANGED SeenJobs
  BY DEF Release, Alive, SeenJobs
<1>2. CASE SlotFreed(j)
  <2>1. Alive' = Alive \ {j}
    BY <1>1, <1>2 DEF SlotFreed, Alive
  <2> QED
    BY <1>1, <1>2, <2>1 DEF SlotFreed, Line!Leaves, SeenJobs
<1>3. CASE SlotHandedOn(j)
  <2>1. Head(queue) \in Jobs /\ Head(queue) \in Queued
    BY <1>3 DEF SlotHandedOn, Queued
  <2>2. task[Head(queue)] = "none"
    BY <2>1 DEF AcceptedJobHasOnePlace
  <2>3. Alive' = (Alive \ {j}) \cup {Head(queue)}
    BY <1>1, <1>3, <2>1, <2>2 DEF SlotHandedOn, Alive
  <2> QED
    BY <1>1, <1>3, <2>3 DEF SlotHandedOn, Line!Leaves, SeenJobs
<1> QED
  BY <1>2, <1>3 DEF Release

\* A restart and the end of drain() empty the place.
LEMMA EndIsLineStep ==
  ASSUME ControllerInv, FinishShutdown \/ Restart
  PROVE  Line!PowerCut
<1>1. queue' = <<>> /\ answer' = answer
  BY DEF FinishShutdown, Restart
<1>2. Alive' = {}
  BY DEF FinishShutdown, Restart, Alive, ControllerInv, TypeOK
<1> QED
  BY <1>1, <1>2 DEF Line!PowerCut

\* Every step of the controller is a step of the line or leaves it as it is.
LEMMA ControllerIsLineStep ==
  ASSUME GateValues = {TRUE}, MaxResets = 0
  PROVE  ControllerInv /\ [Next]_vars => [Line!Next]_Line!place
<1> SUFFICES ASSUME ControllerInv, [Next]_vars
             PROVE  Line!Next \/ UNCHANGED <<queue, Alive, SeenJobs>>
  BY DEF Line!place, SeenJobs
<1>1. resets = 0
  BY DEF ControllerInv, TypeOK
<1>2. ASSUME NEW j \in Jobs, Submit(j) PROVE Line!Next
  BY <1>1, <1>2, SubmitIsLineStep DEF Line!Next
<1>3. ASSUME NEW j \in Jobs, Begin(j) PROVE UNCHANGED <<queue, Alive, SeenJobs>>
  BY <1>3 DEF Begin, Alive, SeenJobs, ControllerInv, TypeOK
<1>4. ASSUME NEW j \in Jobs, Release(j) PROVE Line!Next
  BY <1>4, ReleaseIsLineStep DEF Line!Next
<1>5. CASE FinishShutdown \/ Restart
  BY <1>5, EndIsLineStep DEF Line!Next
<1>6. CASE BeginShutdown \/ UNCHANGED vars
  BY <1>6 DEF BeginShutdown, vars, Alive, SeenJobs
<1>7. ~Reset
  BY <1>1 DEF Reset
<1> QED
  BY <1>2, <1>3, <1>4, <1>5, <1>6, <1>7 DEF Next

\* With the gate on and without reset() the controller is a first-in-first-out
\* line in front of MAX_CONCURRENT servers, for every number of jobs, servers and
\* places (concurrency_control.py:1, 78-150).
THEOREM ControllerImplementsLine ==
  ASSUME GateValues = {TRUE}, MaxResets = 0
  PROVE  Spec => ImplementsLine
<1>1. Init => Line!Init
  BY DEF Init, Line!Init, Alive
<1>2. ControllerInv /\ [Next]_vars => [Line!Next]_Line!place
  BY ControllerIsLineStep
<1> QED
  BY <1>1, <1>2, ControllerInvariant, PTL DEF Spec, ImplementsLine, Line!Spec

-----------------------------------------------------------------------------
(* Refinement.                                                             *)

\* A step of a router, a background task or the process is a step of the
\* controller or leaves it alone.
LEMMA JobsStepIsControllerStep == [JobsNext]_allVars => [Next]_vars
<1> SUFFICES ASSUME [JobsNext]_allVars PROVE [Next]_vars
  OBVIOUS
<1>1. ASSUME NEW j \in Jobs, JobsNext, InsertRow(j) \/ JobStep(j) \/ RetryRead(j)
                                        \/ AnswerRaises(j) \/ WriteRaises(j)
      PROVE  [Next]_vars
  <2>1. CASE SubmitJob(j) \/ BeginTask(j) \/ EndTask(j)
    BY <2>1 DEF SubmitJob, BeginTask, EndTask, Next
  <2>2. CASE InsertRow(j) \/ AnswerTooBusy(j) \/ AnswerAccepted(j)
             \/ AnswerRaises(j) \/ RetryRead(j) \/ RetryWrite(j)
    BY <2>2 DEF InsertRow, AnswerTooBusy, AnswerAccepted, AnswerRaises, RetryRead,
                RetryWrite, vars
  <2>3. CASE WriteProcessing(j) \/ Produce(j) \/ WriteDone(j) \/ WriteFailed(j)
             \/ WriteRaises(j)
    BY <2>3 DEF WriteProcessing, Produce, WriteDone, WriteFailed, WriteRaises,
                WorkStep, vars
  <2> QED
    BY <1>1, <2>1, <2>2, <2>3 DEF JobStep
<1>2. CASE Stop /\ UNCHANGED jobVars
  BY <1>2 DEF Stop, Next
<1>3. CASE CrashAndRestart
  BY <1>3 DEF CrashAndRestart, Next
<1>4. CASE UNCHANGED allVars
  BY <1>4 DEF allVars, vars
<1> QED
  BY <1>1, <1>2, <1>3, <1>4 DEF JobsNext

\* The routers, the background tasks and the process use the controller only
\* as VideoConcurrency describes it.
THEOREM JobsImplementController == JobsSpec => Spec
<1>1. JobsInit => Init
  BY DEF JobsInit
<1> QED
  BY <1>1, JobsStepIsControllerStep, PTL DEF JobsSpec, Spec

\* With the gate on, video jobs are generated one at a time, end to end.
THEOREM JobsAreSerial == JobsSpec => []StrictlySerial
  BY JobsImplementController, VideosAreSerial, PTL

\* Seen through the routers, too, video jobs are served in a bounded line while
\* the gate is on and nobody calls reset().
THEOREM JobsImplementLine ==
  ASSUME GateValues = {TRUE}, MaxResets = 0
  PROVE  JobsSpec => ImplementsLine
  BY JobsImplementController, ControllerImplementsLine, PTL

-----------------------------------------------------------------------------
(* What one step of the controller can do to the jobs.                     *)

\* A submission concerns the submitted job alone: the place of every other job
\* in the queue stays what it was.
LEMMA SubmitFrame ==
  ASSUME ControllerInv, NEW j \in Jobs, Submit(j)
  PROVE  /\ answer[j] = "none" /\ answer'[j] # "none"
         /\ \A k \in Jobs : k # j => answer'[k] = answer[k]
         /\ \A k \in Jobs : k # j /\ k \in Queued' => k \in Queued
         /\ \A k \in Jobs : \/ task'[k] = task[k]
                            \/ task[k] = "none" /\ task'[k] = "created"
<1> USE DEF ControllerInv, TypeOK, Answer
<1>1. answer[j] = "none" /\ task[j] = "none" /\ j \notin Queued
  BY UnknownJobIsNowhere DEF Submit
<1>2. CASE SubmitUngated(j) \/ SubmitImmediate(j)
  BY <1>1, <1>2 DEF SubmitUngated, SubmitImmediate, Launch, Queued
<1>3. CASE SubmitLowMemory(j) \/ SubmitFull(j)
  BY <1>1, <1>3 DEF SubmitLowMemory, SubmitFull, Queued
<1>4. CASE SubmitEnqueue(j)
  <2>1. queue' = Append(queue, j) /\ answer' = [answer EXCEPT ![j] = "queued"]
        /\ task' = task
    BY <1>4 DEF SubmitEnqueue
  <2>2. Queued' = Queued \cup {j}
    BY <1>1, <2>1, EnqueueKeepsDistinct DEF AcceptedJobHasOnePlace, Distinct
  <2> QED
    BY <1>1, <2>1, <2>2
<1> QED
  BY <1>2, <1>3, <1>4 DEF Submit

\* A release ends one task and may start one waiting job; nobody joins the queue.
LEMMA ReleaseFrame ==
  ASSUME ControllerInv, NEW j \in Jobs, Release(j)
  PROVE  /\ answer' = answer
         /\ \A k \in Jobs : k \in Queued' => k \in Queued
         /\ \A k \in Jobs : \/ task'[k] = task[k]
                            \/ task[k] = "none" /\ task'[k] = "created"
                            \/ task[k] = "running" /\ task'[k] = "ended"
<1> USE DEF ControllerInv, TypeOK
<1>1. CASE SlotFreed(j)
  BY <1>1 DEF Release, SlotFreed, Queued
<1>2. CASE SlotHandedOn(j)
  <2>1. /\ Head(queue) \in Jobs /\ Head(queue) \in Queued
        /\ Queued' = Queued \ {Head(queue)}
    BY <1>2, DequeueKeepsDistinct DEF SlotHandedOn, AcceptedJobHasOnePlace, Distinct
  <2>2. task[Head(queue)] = "none"
    BY <2>1 DEF AcceptedJobHasOnePlace
  <2> QED
    BY <1>2, <2>1, <2>2 DEF Release, SlotHandedOn
<1> QED
  BY <1>1, <1>2 DEF Release

-----------------------------------------------------------------------------
(* The inductive invariant of the rows.                                    *)

\* The row exists from the INSERT to the refusal, and submit() is called once.
RequestInv ==
  \A j \in Jobs :
    /\ req[j] = "idle" => row[j] = "absent" /\ answer[j] = "none"
    /\ req[j] = "inserted" => row[j] # "absent" /\ answer[j] = "none"
    /\ req[j] = "submitted" => row[j] # "absent" /\ answer[j] # "none"
    /\ req[j] = "answered" => answer[j] # "none"

\* Only the job's own task makes a status final, as its last act; what can be
\* retried has failed and will not be written 'done' any more.
WorkInv ==
  \A j \in Jobs :
    /\ task[j] \in {"none", "created"} => work[j] = "idle"
    /\ row[j] \in Terminal => work[j] = "finished"
    /\ retry[j] = "read" => work[j] = "finished" /\ row[j] # "done"

JobsInv ==
  /\ ControllerInv
  /\ JobsTypeOK
  /\ RequestInv
  /\ WorkInv
  /\ RowTellsTheAnswer

\* An empty table of jobs satisfies the invariant.
LEMMA JobsInitInv == JobsInit => JobsInv
<1> SUFFICES ASSUME JobsInit PROVE JobsInv
  OBVIOUS
<1>1. ControllerInv
  BY ControllerInit DEF JobsInit
<1>2. JobsTypeOK
  BY <1>1, JobsAssumption
     DEF JobsInit, ControllerInv, JobsTypeOK, RowStates, ReqStates, WorkStates,
         RetryStates, JobsAssumption
<1>3. RequestInv /\ WorkInv /\ RowTellsTheAnswer
  BY DEF JobsInit, Init, RequestInv, WorkInv, RowTellsTheAnswer, Terminal
<1> QED
  BY <1>1, <1>2, <1>3 DEF JobsInv

\* No step of a router, a background task or the process breaks the invariant.
LEMMA JobsStepInv == JobsInv /\ [JobsNext]_allVars => JobsInv'
<1> SUFFICES ASSUME JobsInv, [JobsNext]_allVars PROVE JobsInv'
  OBVIOUS
<1> USE DEF JobsInv
<1>c. ControllerInv'
  BY JobsStepIsControllerStep, ControllerStep
<1>t. TypeOK'
  BY <1>c DEF ControllerInv
<1>1. ASSUME NEW j \in Jobs, InsertRow(j) PROVE JobsInv'
  <2>1. /\ req[j] = "idle" /\ req' = [req EXCEPT ![j] = "inserted"]
        /\ row' = [row EXCEPT ![j] = "pending"]
        /\ UNCHANGED <<vars, work, retry, dbErrors>>
    BY <1>1 DEF InsertRow, ReqStep
  <2> USE DEF vars
  <2>2. JobsTypeOK'
    BY <1>t, <2>1 DEF JobsTypeOK, RowStates, ReqStates
  <2>3. RequestInv' /\ WorkInv'
    BY <2>1 DEF RequestInv, WorkInv, JobsTypeOK, Terminal
  <2>4. RowTellsTheAnswer'
    BY <2>1 DEF RowTellsTheAnswer, JobsTypeOK, Queued
  <2> QED
    BY <1>c, <2>2, <2>3, <2>4
<1>2. ASSUME NEW j \in Jobs, SubmitJob(j) PROVE JobsInv'
  <2>1. /\ req[j] = "inserted" /\ req' = [req EXCEPT ![j] = "submitted"]
        /\ Submit(j) /\ UNCHANGED <<row, work, retry, dbErrors>>
    BY <1>2 DEF SubmitJob, ReqStep
  <2>2. JobsTypeOK'
    BY <1>t, <2>1 DEF JobsTypeOK, ReqStates
  <2>3. RequestInv' /\ WorkInv'
    BY <2>1, SubmitFrame DEF RequestInv, WorkInv, JobsTypeOK
  <2>4. RowTellsTheAnswer'
    BY <2>1, SubmitFrame DEF RowTellsTheAnswer, JobsTypeOK
  <2> QED
    BY <1>c, <2>2, <2>3, <2>4
<1>3. ASSUME NEW j \in Jobs, AnswerTooBusy(j) PROVE JobsInv'
  <2>1. /\ req[j] = "submitted" /\ req' = [req EXCEPT ![j] = "answered"]
        /\ answer[j] = "rejected" /\ row' = [row EXCEPT ![j] = "absent"]
        /\ UNCHANGED <<vars, work, retry, dbErrors>>
    BY <1>3 DEF AnswerTooBusy, ReqStep
  <2>2. j \notin Queued
    BY <2>1, UnknownJobIsNowhere
  <2> USE DEF vars
  <2>3. JobsTypeOK'
    BY <1>t, <2>1 DEF JobsTypeOK, RowStates, ReqStates
  <2>4. RequestInv' /\ WorkInv'
    BY <2>1 DEF RequestInv, WorkInv, JobsTypeOK, Terminal
  <2>5. RowTellsTheAnswer'
    BY <2>1, <2>2 DEF RowTellsTheAnswer, JobsTypeOK, Queued
  <2> QED
    BY <1>c, <2>3, <2>4, <2>5
<1>4. ASSUME NEW j \in Jobs, AnswerAccepted(j) PROVE JobsInv'
  <2>1. /\ req[j] = "submitted" /\ req' = [req EXCEPT ![j] = "answered"]
        /\ answer[j] \in {"queued", "processing"} /\ row[j] # "absent"
        /\ row' = [row EXCEPT ![j] = answer[j]]
        /\ UNCHANGED <<vars, work, retry, dbErrors>>
    BY <1>4 DEF AnswerAccepted, ReqStep, SetRow, RequestInv, JobsTypeOK
  <2>2. j \in Queued => answer[j] = "queued"
    BY DEF ControllerInv, AcceptedJobHasOnePlace
  <2> USE DEF vars
  <2>3. JobsTypeOK'
    BY <1>t, <2>1 DEF JobsTypeOK, RowStates, ReqStates
  <2>4. RequestInv' /\ WorkInv'
    BY <2>1 DEF RequestInv, WorkInv, JobsTypeOK, Terminal
  <2>5. RowTellsTheAnswer'
    BY <2>1, <2>2 DEF RowTellsTheAnswer, JobsTypeOK, Queued
  <2> QED
    BY <1>c, <2>3, <2>4, <2>5
<1>5. ASSUME NEW j \in Jobs, BeginTask(j) PROVE JobsInv'
  <2>1. /\ task[j] = "created" /\ task' = [task EXCEPT ![j] = "running"]
        /\ work' = [work EXCEPT ![j] = "begun"]
        /\ UNCHANGED <<queue, answer, row, req, retry, dbErrors>>
    BY <1>5 DEF BeginTask, Begin
  <2>2. JobsTypeOK'
    BY <1>t, <2>1 DEF JobsTypeOK, WorkStates
  <2>3. RequestInv'
    BY <2>1 DEF RequestInv
  <2>4. WorkInv'
    BY <2>1 DEF WorkInv, JobsTypeOK, TypeOK
  <2>5. RowTellsTheAnswer'
    BY <2>1 DEF RowTellsTheAnswer, Queued
  <2> QED
    BY <1>c, <2>2, <2>3, <2>4, <2>5
<1>6. ASSUME NEW j \in Jobs,
             WriteProcessing(j) \/ Produce(j) \/ WriteDone(j) \/ WriteFailed(j)
               \/ WriteRaises(j)
      PROVE  JobsInv'
  \* The task runs, so the job does not wait and its row is not final yet.
  <2>1. /\ task[j] = "running" /\ work[j] \in {"begun", "producing", "produced", "failing"}
        /\ work'[j] \in WorkStates
        /\ work' = [work EXCEPT ![j] = work'[j]]
        /\ UNCHANGED <<vars, req, retry>>
    BY <1>6 DEF WriteProcessing, Produce, WriteDone, WriteFailed, WriteRaises, WorkStep,
                WorkStates, JobsTypeOK
  <2>2. j \notin Queued
    BY <2>1 DEF ControllerInv, AcceptedJobHasOnePlace
  <2>3. \/ row' = row
        \/ row[j] # "absent" /\ row' = [row EXCEPT ![j] = "processing"]
        \/ /\ row[j] # "absent" /\ work'[j] = "finished"
           /\ \E s \in Terminal : row' = [row EXCEPT ![j] = s]
    BY <1>6 DEF WriteProcessing, Produce, WriteDone, WriteFailed, WriteRaises, WorkStep,
                SetRow, JobsTypeOK, Terminal
  <2>4. dbErrors' \in 0..MaxDbErrors
    BY <1>6, JobsAssumption
       DEF WriteProcessing, Produce, WriteDone, WriteFailed, WriteRaises, JobsTypeOK,
           JobsAssumption
  <2> USE DEF vars
  <2>5. JobsTypeOK'
    BY <1>t, <2>1, <2>3, <2>4 DEF JobsTypeOK, RowStates, Terminal
  <2>6. RequestInv'
    BY <2>1, <2>3 DEF RequestInv, JobsTypeOK, Terminal
  <2>7. WorkInv'
    BY <2>1, <2>3 DEF WorkInv, JobsTypeOK, Terminal
  <2>8. RowTellsTheAnswer'
    BY <2>1, <2>2, <2>3 DEF RowTellsTheAnswer, JobsTypeOK, Queued, Terminal
  <2> QED
    BY <1>c, <2>5, <2>6, <2>7, <2>8
<1>7. ASSUME NEW j \in Jobs, EndTask(j) PROVE JobsInv'
  <2>1. Release(j) /\ UNCHANGED jobVars
    BY <1>7 DEF EndTask
  <2> USE DEF jobVars
  <2>2. JobsTypeOK'
    BY <1>t, <2>1 DEF JobsTypeOK
  <2>3. RequestInv' /\ WorkInv'
    BY <2>1, ReleaseFrame DEF RequestInv, WorkInv
  <2>4. RowTellsTheAnswer'
    BY <2>1, ReleaseFrame DEF RowTellsTheAnswer
  <2> QED
    BY <1>c, <2>2, <2>3, <2>4
<1>8. ASSUME NEW j \in Jobs, RetryRead(j) PROVE JobsInv'
  <2>1. /\ row[j] = "failed" /\ retry' = [retry EXCEPT ![j] = "read"]
        /\ UNCHANGED <<vars, row, req, work, dbErrors>>
    BY <1>8 DEF RetryRead
  <2> USE DEF vars
  <2>2. JobsTypeOK'
    BY <1>t, <2>1 DEF JobsTypeOK, RetryStates
  <2>3. RequestInv' /\ WorkInv'
    BY <2>1 DEF RequestInv, WorkInv, JobsTypeOK, Terminal
  <2>4. RowTellsTheAnswer'
    BY <2>1 DEF RowTellsTheAnswer, Queued
  <2> QED
    BY <1>c, <2>2, <2>3, <2>4
<1>9. ASSUME NEW j \in Jobs, RetryWrite(j) PROVE JobsInv'
  <2>1. /\ retry[j] = "read" /\ retry' = [retry EXCEPT ![j] = "answered"]
        /\ \/ row' = row
           \/ row[j] # "absent" /\ row' = [row EXCEPT ![j] = "pending"]
        /\ UNCHANGED <<vars, req, work, dbErrors>>
    BY <1>9 DEF RetryWrite, SetRow, JobsTypeOK
  \* A job that can be retried has finished: it does not wait in the queue.
  <2>2. j \notin Queued
    BY <2>1 DEF WorkInv, ControllerInv, AcceptedJobHasOnePlace
  <2> USE DEF vars
  <2>3. JobsTypeOK'
    BY <1>t, <2>1 DEF JobsTypeOK, RowStates, RetryStates
  <2>4. RequestInv' /\ WorkInv'
    BY <2>1 DEF RequestInv, WorkInv, JobsTypeOK, Terminal
  <2>5. RowTellsTheAnswer'
    BY <2>1, <2>2 DEF RowTellsTheAnswer, JobsTypeOK, Queued
  <2> QED
    BY <1>c, <2>3, <2>4, <2>5
<1>10. CASE Stop /\ UNCHANGED jobVars
  <2>1. /\ answer' = answer
        /\ \A k \in Jobs : k \in Queued' => k \in Queued
        /\ \A k \in Jobs : task'[k] \in {task[k], "killed"}
    BY <1>10 DEF Stop, BeginShutdown, FinishShutdown, Reset, Queued
  <2> USE <1>10 DEF jobVars
  <2>2. JobsTypeOK'
    BY <1>t DEF JobsTypeOK
  <2>3. RequestInv' /\ WorkInv' /\ RowTellsTheAnswer'
    BY <2>1 DEF RequestInv, WorkInv, RowTellsTheAnswer
  <2> QED
    BY <1>c, <2>2, <2>3
<1>11. CASE CrashAndRestart
  <2>1. /\ answer' = answer /\ Queued' = {}
        /\ \A k \in Jobs : task'[k] \in {task[k], "killed"}
        /\ UNCHANGED <<row, work, dbErrors>>
        /\ req' = [j \in Jobs |-> IF req[j] \in {"inserted", "submitted"}
                                    THEN "dropped" ELSE req[j]]
        /\ retry' = [j \in Jobs |-> IF retry[j] = "read" THEN "answered" ELSE retry[j]]
    BY <1>11, EmptyQueue DEF CrashAndRestart, Restart
  <2>2. JobsTypeOK'
    BY <1>t, <2>1 DEF JobsTypeOK, ReqStates, RetryStates
  <2>3. RequestInv'
    BY <2>1 DEF RequestInv, JobsTypeOK
  <2>4. WorkInv'
    BY <2>1 DEF WorkInv, JobsTypeOK
  <2>5. RowTellsTheAnswer'
    BY <2>1 DEF RowTellsTheAnswer, JobsTypeOK
  <2> QED
    BY <1>c, <2>2, <2>3, <2>4, <2>5
<1>12. ASSUME NEW j \in Jobs, AnswerRaises(j) PROVE JobsInv'
  <2>1. /\ req[j] = "submitted" /\ req' = [req EXCEPT ![j] = "dropped"]
        /\ dbErrors < MaxDbErrors /\ dbErrors' = dbErrors + 1
        /\ UNCHANGED <<vars, row, work, retry>>
    BY <1>12 DEF AnswerRaises, ReqStep
  <2> USE DEF vars
  <2>2. JobsTypeOK'
    BY <1>t, <2>1, JobsAssumption DEF JobsTypeOK, ReqStates, JobsAssumption
  <2>3. RequestInv' /\ WorkInv'
    BY <2>1 DEF RequestInv, WorkInv, JobsTypeOK
  <2>4. RowTellsTheAnswer'
    BY <2>1 DEF RowTellsTheAnswer, JobsTypeOK, Queued
  <2> QED
    BY <1>c, <2>2, <2>3, <2>4
<1>13. CASE UNCHANGED allVars
  BY <1>13, <1>c, <1>t
     DEF allVars, vars, jobVars, JobsTypeOK, RequestInv, WorkInv, RowTellsTheAnswer, Queued
<1> QED
  BY <1>1, <1>2, <1>3, <1>4, <1>5, <1>6, <1>7, <1>8, <1>9, <1>10, <1>11, <1>12,
     <1>13 DEF JobsNext, JobStep

-----------------------------------------------------------------------------
(* The theorems.                                                           *)

\* The inductive invariant of the routers holds in every reachable state.
THEOREM JobsInvariant == JobsSpec => []JobsInv
  BY JobsInitInv, JobsStepInv, PTL DEF JobsSpec

\* Every variable of the routers and of the controller keeps its type.
THEOREM JobsKeepTypes == JobsSpec => []JobsTypeOK
<1>1. JobsInv => JobsTypeOK
  BY DEF JobsInv
<1> QED
  BY <1>1, JobsInvariant, PTL

\* What a client polls agrees with what it was answered.
THEOREM RowsTellTheAnswers == JobsSpec => []RowTellsTheAnswer
<1>1. JobsInv => RowTellsTheAnswer
  BY DEF JobsInv
<1> QED
  BY <1>1, JobsInvariant, PTL

\* The steps that write a row over a final status are the handler's own UPDATE
\* and that of a retry.
LEMMA FinalRowStep ==
  JobsInv /\ [JobsNext]_allVars =>
    \A j \in Jobs : row[j] \in Terminal /\ row'[j] # row[j] =>
      \/ req[j] = "submitted"
      \/ row[j] = "failed" /\ retry[j] = "read"
<1> SUFFICES ASSUME JobsInv, [JobsNext]_allVars, NEW j \in Jobs,
                    row[j] \in Terminal, row'[j] # row[j], req[j] # "submitted"
             PROVE  row[j] = "failed" /\ retry[j] = "read"
  OBVIOUS
<1> USE DEF JobsInv, JobsTypeOK, Terminal
\* The job's own task has finished, and the row is not inserted twice.
<1>1. work[j] = "finished" /\ req[j] # "idle"
  BY DEF WorkInv, RequestInv
<1>2. ASSUME NEW k \in Jobs, RetryWrite(k) PROVE row[j] = "failed" /\ retry[j] = "read"
  BY <1>2 DEF RetryWrite, SetRow, WorkInv
<1>3. ASSUME NEW k \in Jobs,
             InsertRow(k) \/ AnswerTooBusy(k) \/ AnswerAccepted(k)
      PROVE  FALSE
  BY <1>1, <1>3 DEF InsertRow, AnswerTooBusy, AnswerAccepted, ReqStep, SetRow
<1>4. ASSUME NEW k \in Jobs,
             WriteProcessing(k) \/ Produce(k) \/ WriteDone(k) \/ WriteFailed(k)
               \/ WriteRaises(k)
      PROVE  FALSE
  BY <1>1, <1>4
     DEF WriteProcessing, Produce, WriteDone, WriteFailed, WriteRaises, WorkStep, SetRow
<1>5. ASSUME NEW k \in Jobs, SubmitJob(k) \/ BeginTask(k) \/ EndTask(k) \/ RetryRead(k)
                                \/ AnswerRaises(k)
      PROVE  FALSE
  BY <1>5 DEF SubmitJob, BeginTask, EndTask, RetryRead, AnswerRaises, jobVars
<1>6. CASE (Stop /\ UNCHANGED jobVars) \/ CrashAndRestart \/ UNCHANGED allVars
  BY <1>6 DEF CrashAndRestart, jobVars, allVars
<1> QED
  BY <1>2, <1>3, <1>4, <1>5, <1>6 DEF JobsNext, JobStep

\* A final status is overwritten only by the request that has not answered yet
\* or by a retry of a failed job.
THEOREM FinalRowsAreKept == JobsSpec => FinalOnceAnswered
<1>1. JobsInv /\ [JobsNext]_allVars =>
        [\A j \in Jobs : row[j] \in Terminal /\ row'[j] # row[j] =>
           \/ req[j] = "submitted"
           \/ row[j] = "failed" /\ retry[j] = "read"]_allVars
  BY FinalRowStep
<1> QED
  BY <1>1, JobsInvariant, PTL DEF JobsSpec, FinalOnceAnswered
=============================================================================
