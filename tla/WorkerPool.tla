----------------------------- MODULE WorkerPool -----------------------------
(***************************************************************************)
(* The parallel engine of auto_exec/parallel.py: a batch of tasks, a       *)
(* workspace with inbox, outbox and heartbeat files for each, and a        *)
(* coroutine that polls those files until the worker has said something    *)
(* final, is silent, or is too late.  The workers are other processes.     *)
(*                                                                         *)
(* A line that is no JSON ends what a reader sees of a file, so it counts  *)
(* as not written yet, with all that follows it; messages of type          *)
(* "progress" decide nothing.  A monitor may find the last heartbeat too   *)
(* old, its deadline passed, or a line in a file that the reader does not  *)
(* bear, at any of its polls.                                              *)
(*                                                                         *)
(* Operators whose name begins with Bug are seeded faults that no formula  *)
(* of the specification uses.                                              *)
(***************************************************************************)
EXTENDS Naturals, Sequences, FiniteSets, SequencesExt

CONSTANTS
  Ids,            \* task ids
  MaxConcurrent,  \* ParallelConfig.max_concurrent
  MaxMeddling,    \* bound on calls of cancel_worker and cleanup
  MaxMessages     \* bound on the final messages of all workers

ASSUME PoolAssumption ==
  MaxConcurrent \in Nat \ {0} /\ MaxMeddling \in Nat /\ MaxMessages \in Nat

VARIABLES
  engine,     \* where ParallelEngine.run() stands
  batch,      \* its argument
  pending,    \* the tasks it has not dispatched
  collected,  \* the tasks whose WorkerSpec is among the results
  worker,     \* WorkerSpec.status of the task's worker
  monitor,    \* the task's monitor_worker() coroutine
  outbox,     \* the final messages in outbox.jsonl
  gone,       \* workers that cleanup() has removed
  meddling    \* calls of cancel_worker and cleanup so far

poolVars == <<engine, batch, pending, collected, worker, monitor, outbox,
              gone, meddling>>

\* PENDING lasts only from create_worker() to the next line of run(), and
\* CANCELLED is never set.
Statuses == {"none", "running", "completed", "failed", "stale"}

PoolInit ==
  /\ engine = "idle"
  /\ batch = <<>> /\ pending = <<>>
  /\ collected = {}
  /\ worker = [t \in Ids |-> "none"]
  /\ monitor = [t \in Ids |-> "none"]
  /\ outbox = [t \in Ids |-> <<>>]
  /\ gone = {}
  /\ meddling = 0

Polling == {t \in Ids : monitor[t] = "polling"}

\* Coroutines that have not ended, with those that have not begun yet.
Watching == Polling \cup {t \in Ids : monitor[t] = "starting"}

Returned == {t \in Ids : monitor[t] = "returned"}

Raised == {t \in Ids : monitor[t] = "raised"}

-----------------------------------------------------------------------------
(* ParallelEngine.run().                                                   *)

\* create_worker, status RUNNING, create_task(monitor_worker), for each of them.
Dispatch(ts) ==
  /\ worker' = [t \in Ids |-> IF t \in ts THEN "running" ELSE worker[t]]
  /\ monitor' = [t \in Ids |-> IF t \in ts THEN "starting" ELSE monitor[t]]

BugFirstWave(tasks) ==
  SubSeq(tasks, 1, IF Len(tasks) <= MaxConcurrent THEN Len(tasks) ELSE MaxConcurrent + 1)

\* The loop that fills up to max_concurrent.
FirstWave(tasks) ==
  SubSeq(tasks, 1, IF Len(tasks) <= MaxConcurrent THEN Len(tasks) ELSE MaxConcurrent)

RunBatch(tasks) ==
  /\ engine = "idle"
  /\ engine' = IF tasks = <<>> THEN "returned" ELSE "waiting"
  /\ batch' = tasks
  /\ pending' = SubSeq(tasks, Len(FirstWave(tasks)) + 1, Len(tasks))
  /\ Dispatch(ToSet(FirstWave(tasks)))
  /\ UNCHANGED <<collected, outbox, gone, meddling>>

\* What wait() gives back.
Done == (Returned \cup Raised) \ collected

\* done_task.result() raises what the monitor raised: run() ends, and its list
\* of results goes with it; the other monitors go on without it.
MonitorFailsBatch ==
  /\ engine = "waiting" /\ Done \cap Raised # {}
  /\ collected' = {}
  /\ engine' = "raised"
  /\ UNCHANGED <<batch, pending, worker, monitor, outbox, gone, meddling>>

\* wait() has given back a set: the next worker is created and its monitor
\* started, and then `running.append` raises.
NextWave ==
  /\ engine = "waiting" /\ Done # {} /\ Done \cap Raised = {} /\ pending # <<>>
  /\ collected' = {}
  /\ Dispatch({Head(pending)})
  /\ pending' = Tail(pending)
  /\ engine' = "raised"
  /\ UNCHANGED <<batch, outbox, gone, meddling>>

BugCollect ==
  /\ engine = "waiting" /\ Done # {} /\ Done \cap Raised = {} /\ pending = <<>>
  /\ \E t \in Done : collected' = collected \cup {t}
  /\ engine' = IF Watching = {} THEN "returned" ELSE "waiting"
  /\ UNCHANGED <<batch, pending, worker, monitor, outbox, gone, meddling>>

Collect ==
  /\ engine = "waiting" /\ Done # {} /\ Done \cap Raised = {} /\ pending = <<>>
  /\ collected' = collected \cup Done
  /\ engine' = IF Watching = {} THEN "returned" ELSE "waiting"
  /\ UNCHANGED <<batch, pending, worker, monitor, outbox, gone, meddling>>

EngineStep == MonitorFailsBatch \/ NextWave \/ Collect

-----------------------------------------------------------------------------
(* monitor_worker(): one round of its loop.                                *)

\* The worker is looked up once; unknown if it has been removed already.
Begins(t) ==
  /\ monitor[t] = "starting"
  /\ monitor' = [monitor EXCEPT ![t] = IF t \in gone THEN "raised" ELSE "polling"]
  /\ UNCHANGED <<engine, batch, pending, collected, worker, outbox, gone, meddling>>

Returns(t, status) ==
  /\ monitor' = [monitor EXCEPT ![t] = "returned"]
  /\ worker' = [worker EXCEPT ![t] = status]
  /\ UNCHANGED <<engine, batch, pending, collected, outbox, gone, meddling>>

\* _read_outbox(): nothing is found for a worker that was removed.
Readable(t) == IF t \in gone THEN <<>> ELSE outbox[t]

BugVerdict(messages) ==
  IF messages[Len(messages)] = "result" THEN "completed" ELSE "failed"

Verdict(messages) == IF Head(messages) = "result" THEN "completed" ELSE "failed"

\* The deadline is looked at first: what has been said since the last poll is
\* not read.
TimesOut(t) ==
  /\ t \in Polling
  /\ Returns(t, "failed")

HearsWorker(t) ==
  /\ t \in Polling
  /\ Readable(t) # <<>>
  /\ Returns(t, Verdict(Readable(t)))

\* _is_stale(): no recent heartbeat, or no worker any more to read one of.
GivesUp(t) ==
  /\ t \in Polling
  /\ Readable(t) = <<>>
  /\ Returns(t, "stale")

\* The readers catch lines that are no JSON and errors of the file system.  JSON
\* that is no message or no heartbeat, and a character of which the worker has
\* written only a part, raise; the worker stays RUNNING.
ReadingFails(t) ==
  /\ t \in Polling \ gone
  /\ monitor' = [monitor EXCEPT ![t] = "raised"]
  /\ UNCHANGED <<engine, batch, pending, collected, worker, outbox, gone, meddling>>

Monitor(t) ==
  Begins(t) \/ TimesOut(t) \/ HearsWorker(t) \/ GivesUp(t) \/ ReadingFails(t)

-----------------------------------------------------------------------------
(* cancel_worker() and cleanup(), whatever the worker and its monitor do.  *)

Meddle == meddling < MaxMeddling /\ meddling' = meddling + 1

\* Whatever the status is, a success too.
CancelWorker(t) ==
  /\ Meddle
  /\ worker[t] # "none" /\ t \notin gone
  /\ worker' = [worker EXCEPT ![t] = "failed"]
  /\ UNCHANGED <<engine, batch, pending, collected, monitor, outbox, gone>>

Cleanup(ts) ==
  /\ Meddle
  /\ gone' = gone \cup {t \in ts : worker[t] # "none"}
  /\ gone' # gone
  /\ UNCHANGED <<engine, batch, pending, collected, worker, monitor, outbox>>

-----------------------------------------------------------------------------
(* The worker process.                                                     *)

\* What is said when nobody polls any more is never read.
Says(t, message) ==
  /\ t \in Watching \ gone
  /\ MapThenSumSet(LAMBDA w : Len(outbox[w]), Ids) < MaxMessages
  /\ outbox' = [outbox EXCEPT ![t] = Append(@, message)]
  /\ UNCHANGED <<engine, batch, pending, collected, worker, monitor, gone, meddling>>

-----------------------------------------------------------------------------
\* The values of the variables; never more than max_concurrent monitors at once,
\* those a failed engine leaves behind included.
PoolTypeOK ==
  /\ engine \in {"idle", "waiting", "returned", "raised"}
  /\ batch \in Seq(Ids) /\ pending \in Seq(Ids)
  /\ collected \subseteq Returned
  /\ worker \in [Ids -> Statuses]
  /\ monitor \in [Ids -> {"none", "starting", "polling", "returned", "raised"}]
  /\ Cardinality(Watching) <= MaxConcurrent
  /\ outbox \in [Ids -> Seq({"result", "error"})]
  /\ gone \subseteq Ids
  /\ meddling \in 0..MaxMeddling

\* A worker counts as successful only if a result was the first final thing it
\* said: no later message, cancellation, removal, time-out or other worker turns
\* what it failed at first into a success.  And a monitor never returns a worker
\* without a verdict.  A success, on the other hand, is no last word: a
\* cancellation makes a failure of it, and so does a time-out before it is read.
VerdictsAreEarned ==
  \A t \in Ids :
    /\ worker[t] = "completed" => outbox[t] # <<>> /\ Head(outbox[t]) = "result"
    /\ t \in Returned => worker[t] \notin {"none", "running"}

\* A batch that fits into max_concurrent ends with a verdict on every task,
\* however cancelled or removed the workers are, or in an exception that the
\* monitor of one of them raised.  A larger one ends in an exception.
BatchEnds ==
  engine = "waiting" ~>
    \/ engine = "returned" /\ collected = ToSet(batch) /\ Len(batch) <= MaxConcurrent
    \/ engine = "raised" /\ (Len(batch) > MaxConcurrent \/ Raised \cap ToSet(batch) # {})
=============================================================================
