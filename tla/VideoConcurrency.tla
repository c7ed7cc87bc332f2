-------------------------- MODULE VideoConcurrency --------------------------
(***************************************************************************)
(* The controller that serialises video generation                         *)
(* (services/concurrency_control.py) together with the two phases of       *)
(* AppLifecycle.shutdown that act on it (services/lifecycle.py).           *)
(*                                                                         *)
(* The program is one asyncio event loop.  A coroutine that never really   *)
(* suspends is one atomic step: submit() and the `finally` of              *)
(* _run_with_release() await only such coroutines, so each is one action.  *)
(* What a job does while it owns the slot is left to the module VideoJobs. *)
(*                                                                         *)
(* Operators whose name begins with Bug are seeded faults: no formula of   *)
(* the specification uses them.  Each is a plausible mistake that one of   *)
(* the properties must expose (README, "Mutants").                         *)
(***************************************************************************)
EXTENDS Integers, Sequences, FiniteSets

CONSTANTS
  Jobs,           \* the job ids the routers may submit, each at most once (uuid4)
  MaxConcurrent,  \* VideoConcurrencyController.MAX_CONCURRENT
  MaxQueueSize,   \* VideoConcurrencyController.MAX_QUEUE_SIZE
  GateValues,     \* the values feature_gates.yaml may hold when a job is submitted
  MaxResets,      \* bound on the operator's calls of reset()
  MaxRestarts     \* bound on the crashes and restarts of the process

ASSUME ControllerAssumption ==
  /\ IsFiniteSet(Jobs)
  /\ MaxConcurrent \in Nat \ {0}
  /\ MaxQueueSize \in Nat \ {0}
  /\ GateValues \subseteq BOOLEAN
  /\ MaxResets \in Nat
  /\ MaxRestarts \in Nat

VARIABLES
  enabled,  \* _enabled
  active,   \* _active_count
  queue,    \* _queue, oldest first
  answer,   \* what submit() returned for each job
  task,     \* the asyncio task that runs _run_with_release() for each job
  phase,    \* how far AppLifecycle.shutdown() has come
  resets,   \* calls of reset() so far
  restarts  \* restarts of the process so far

vars == <<enabled, active, queue, answer, task, phase, resets, restarts>>

Answers    == {"none", "processing", "queued", "rejected"}
TaskStates == {"none", "created", "running", "ended", "killed"}
Phases     == {"serving", "draining", "down"}

Alive == {j \in Jobs : task[j] \in {"created", "running"}}

Queued == {queue[i] : i \in 1..Len(queue)}

Init ==
  /\ enabled = TRUE
  /\ active = 0
  /\ queue = <<>>
  /\ answer = [j \in Jobs |-> "none"]
  /\ task = [j \in Jobs |-> "none"]
  /\ phase = "serving"
  /\ resets = 0
  /\ restarts = 0

-----------------------------------------------------------------------------
(* submit(), right after _sync_concurrency_gate() has copied the gate.     *)

Answer(j, a) == answer' = [answer EXCEPT ![j] = a]

\* _active_count += 1; create_task(_run_with_release(...)); lifecycle.register
Launch(j) ==
  /\ active' = active + 1
  /\ task' = [task EXCEPT ![j] = "created"]

\* The gate is off: the job runs at once, counted but not limited.
SubmitUngated(j) ==
  /\ ~enabled'
  /\ Launch(j)
  /\ Answer(j, "processing")
  /\ UNCHANGED queue

\* The memory check may fail at any submission, whatever the load.
SubmitLowMemory(j) ==
  /\ enabled'
  /\ Answer(j, "rejected")
  /\ UNCHANGED <<active, queue, task>>

BugSubmitImmediate(j) ==
  /\ enabled'
  /\ active <= MaxConcurrent
  /\ Launch(j)
  /\ Answer(j, "processing")
  /\ UNCHANGED queue

SubmitImmediate(j) ==
  /\ enabled'
  /\ active < MaxConcurrent
  /\ Launch(j)
  /\ Answer(j, "processing")
  /\ UNCHANGED queue

SubmitEnqueue(j) ==
  /\ enabled'
  /\ active >= MaxConcurrent
  /\ Len(queue) < MaxQueueSize
  /\ queue' = Append(queue, j)
  /\ Answer(j, "queued")
  /\ UNCHANGED <<active, task>>

SubmitFull(j) ==
  /\ enabled'
  /\ active >= MaxConcurrent
  /\ Len(queue) >= MaxQueueSize
  /\ Answer(j, "rejected")
  /\ UNCHANGED <<active, queue, task>>

\* drain() sets no flag that submit() looks at: only the end of the process
\* stops new jobs.
Submit(j) ==
  /\ phase # "down"
  /\ answer[j] = "none"
  /\ enabled' \in GateValues
  /\ \/ SubmitUngated(j)
     \/ SubmitLowMemory(j)
     \/ SubmitImmediate(j)
     \/ SubmitEnqueue(j)
     \/ SubmitFull(j)
  /\ UNCHANGED <<phase, resets, restarts>>

-----------------------------------------------------------------------------
(* _run_with_release(): the first step of the task, and its `finally`.     *)

Begin(j) ==
  /\ phase # "down"
  /\ task[j] = "created"
  /\ task' = [task EXCEPT ![j] = "running"]
  /\ UNCHANGED <<enabled, active, queue, answer, phase, resets, restarts>>

BugSlotLeaked(j) ==
  /\ queue = <<>>
  /\ task' = [task EXCEPT ![j] = "ended"]
  /\ UNCHANGED <<active, queue>>

SlotFreed(j) ==
  /\ queue = <<>>
  /\ active' = active - 1
  /\ task' = [task EXCEPT ![j] = "ended"]
  /\ UNCHANGED queue

BugSlotHandedOnPeeked(j) ==
  /\ queue # <<>>
  /\ active' = (active - 1) + 1
  /\ task' = [task EXCEPT ![j] = "ended", ![Head(queue)] = "created"]
  /\ UNCHANGED queue

BugSlotHandedOnDropped(j) ==
  /\ queue # <<>>
  /\ active' = active - 1
  /\ task' = [task EXCEPT ![j] = "ended"]
  /\ queue' = Tail(queue)

\* The slot goes to the oldest waiting job in the same step, whatever the
\* count and the gate say by then.
SlotHandedOn(j) ==
  /\ queue # <<>>
  /\ active' = (active - 1) + 1
  /\ task' = [task EXCEPT ![j] = "ended", ![Head(queue)] = "created"]
  /\ queue' = Tail(queue)

\* An exception of the job is swallowed, so its outcome does not matter here.
Release(j) ==
  /\ phase # "down"
  /\ task[j] = "running"
  /\ SlotFreed(j) \/ SlotHandedOn(j)
  /\ UNCHANGED <<enabled, answer, phase, resets, restarts>>

-----------------------------------------------------------------------------
(* AppLifecycle.shutdown(): drain(), then cancel whatever is left.         *)

BeginShutdown ==
  /\ phase = "serving"
  /\ phase' = "draining"
  /\ UNCHANGED <<enabled, active, queue, answer, task, resets, restarts>>

BugDrained == phase = "draining" /\ active <= MaxConcurrent

\* drain() polls the count until no job is active
Drained == phase = "draining" /\ active <= 0

\* ... then empties the queue, and shutdown() cancels the registered tasks,
\* without suspending in between.
FinishShutdown ==
  /\ Drained
  /\ queue' = <<>>
  /\ task' = [j \in Jobs |-> IF j \in Alive THEN "killed" ELSE task[j]]
  /\ phase' = "down"
  /\ UNCHANGED <<enabled, active, answer, resets, restarts>>

\* reset(), which forgets the running tasks without stopping them.
Reset ==
  /\ phase # "down"
  /\ resets < MaxResets
  /\ enabled' = TRUE
  /\ active' = 0
  /\ queue' = <<>>
  /\ resets' = resets + 1
  /\ UNCHANGED <<answer, task, phase, restarts>>

\* The process dies at any moment, or has been stopped, and is started again:
\* the module-level controller is a new one and the old tasks are gone.
Restart ==
  /\ restarts < MaxRestarts
  /\ enabled' = TRUE
  /\ active' = 0
  /\ queue' = <<>>
  /\ task' = [j \in Jobs |-> IF j \in Alive \cup Queued THEN "killed" ELSE task[j]]
  /\ phase' = "serving"
  /\ restarts' = restarts + 1
  /\ UNCHANGED <<answer, resets>>

-----------------------------------------------------------------------------
Next ==
  \/ \E j \in Jobs : Submit(j) \/ Begin(j) \/ Release(j)
  \/ BeginShutdown
  \/ FinishShutdown
  \/ Reset
  \/ Restart

Spec == Init /\ [][Next]_vars

-----------------------------------------------------------------------------
(* Every variable holds a value of its kind.                               *)
TypeOK ==
  /\ enabled \in BOOLEAN
  /\ active \in Int
  /\ queue \in Seq(Jobs)
  /\ answer \in [Jobs -> Answers]
  /\ task \in [Jobs -> TaskStates]
  /\ phase \in Phases
  /\ resets \in 0..MaxResets
  /\ restarts \in 0..MaxRestarts

\* _active_count is the number of tasks that hold a slot: no path through
\* submit() and the `finally` leaks a slot or releases one twice.  reset() is
\* the only thing that breaks it.
ActiveCountsTasks == resets = 0 => active = Cardinality(Alive)

\* An accepted job is in exactly one place: it waits in the queue once, or it
\* has its task; a refused one is in neither.  Only reset() loses a job.
AcceptedJobHasOnePlace ==
  /\ \A a, b \in 1..Len(queue) : a # b => queue[a] # queue[b]
  /\ \A j \in Jobs :
       /\ j \in Queued => answer[j] = "queued" /\ task[j] = "none"
       /\ answer[j] = "processing" => task[j] # "none"
       /\ answer[j] \in {"none", "rejected"} => task[j] = "none"
       /\ answer[j] = "queued" /\ resets = 0 => j \in Queued \/ task[j] # "none"

\* A job waits only while all slots are taken, so there is always a `finally`
\* to come that will start it: nothing else in the controller looks at the
\* queue.  Holds even after reset().
NoStrandedQueue == queue # <<>> => active >= MaxConcurrent

\* At most MAX_CONCURRENT video tasks at a time (concurrency_control.py:1), as
\* long as the gate stays on and nobody calls reset().
StrictlySerial ==
  GateValues = {TRUE} /\ resets = 0 => Cardinality(Alive) <= MaxConcurrent

\* While the gate is on and nobody calls reset(), the controller is a bounded
\* line with MAX_CONCURRENT servers and MAX_QUEUE_SIZE places: at most that many
\* jobs run, whoever waits is served in turn, exactly once, as soon as there is a
\* slot, and nobody waits beside a free one ("at most one video task at a time",
\* concurrency_control.py:1).
Line == INSTANCE BoundedLine WITH
  Clients <- Jobs,
  Servers <- MaxConcurrent,
  Places  <- MaxQueueSize,
  line    <- queue,
  serving <- Alive,
  seen    <- {j \in Jobs : answer[j] # "none"}

ImplementsLine == Line!Spec

\* The gate is on, nobody has called reset(), and job j is given its task.
Started(j) == task[j] = "none" /\ task'[j] = "created"

\* While the gate is on a job is started only when it is the oldest one
\* waiting, or when nobody waits: no late submission overtakes the queue.
NoOvertaking ==
  [][\A j \in Jobs :
       Started(j) /\ enabled' => queue = <<>> \/ j = Head(queue)]_vars

\* drain() neither drops a waiting job nor lets shutdown() cancel a running
\* one: when it returns, every accepted job has run (lifecycle.py:77-95).
ShutdownLosesNothing ==
  [][phase # "down" /\ phase' = "down" /\ resets = 0
       => queue = <<>> /\ Alive = {}]_vars

\* A job that was answered "queued" gets its turn and runs to the end, unless
\* reset() throws it away.
QueuedJobRuns ==
  \A j \in Jobs : answer[j] = "queued" ~> task[j] = "ended" \/ resets > 0

\* drain() does return: shutdown() is not kept waiting for ever.
DrainReturns == phase = "draining" ~> phase = "down"

-----------------------------------------------------------------------------
(* "strict single-concurrency video tasks" (concurrency_control.py:29):    *)
(* while the gate is on, no task is started beside another one.            *)
GatedStartsAreSerial ==
  [][\A j \in Jobs :
       Started(j) /\ enabled /\ enabled' => Cardinality(Alive') <= MaxConcurrent]_vars
=============================================================================
