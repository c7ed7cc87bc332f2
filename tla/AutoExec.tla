------------------------------ MODULE AutoExec ------------------------------
(***************************************************************************)
(* Automatic execution of a task plan: the sequential Orchestrator         *)
(* (auto_exec/orchestrator.py) and the parallel engine (module WorkerPool) *)
(* over one plan file.  Neither writes the plan: it is edited by others,   *)
(* who mark a task done when it has been answered, give one up or reopen   *)
(* it, while a coroutine waits for the language model.  Counts of executed *)
(* tasks and the text of the prompts are left out.                         *)
(***************************************************************************)
EXTENDS WorkerPool, Filters

CONSTANTS
  Order,      \* the tasks in the order of the plan file
  Plans,      \* what the column Dep may say: which tasks each one depends on
  MaxTries,   \* OrchestratorConfig.max_retries
  MaxEdits,   \* bound on edits of the plan
  MaxStarts   \* bound on executors that are started, of the two there are

ASSUME PlanAssumption ==
  /\ Order \in Seq(Ids) /\ IsInjective(Order) /\ ToSet(Order) = Ids
  /\ Plans \subseteq [Ids -> SUBSET Ids]
  /\ MaxTries \in Nat \ {0}
  /\ MaxEdits \in Nat /\ MaxStarts \in 1..2

VARIABLES
  needs,     \* column Dep of task_plan.md
  plan,      \* column Status: "pending", "completed" or any "other" status
  at,        \* where the Orchestrator stands
  mode,      \* run() or run_single()
  task,      \* the task it executes
  tries,     \* failed calls of the model for it
  progress,  \* progress.md: the current task and its status
  answered,  \* history: tasks that have been answered, by whomever
  edits      \* edits of the plan so far

planVars == <<needs, plan, at, mode, task, tries, progress, answered, edits>>

vars == <<poolVars, planVars>>

NoTask == "none"

Init ==
  /\ PoolInit
  /\ needs \in Plans
  /\ plan = [t \in Ids |-> "pending"]
  /\ at = "idle" /\ mode = "run"
  /\ task = NoTask
  /\ tries = 0
  /\ progress = [task |-> NoTask, status |-> "none"]
  /\ answered = {}
  /\ edits = 0

-----------------------------------------------------------------------------
(* Finding tasks in the plan.                                              *)

Completed == {t \in Ids : plan[t] = "completed"}

BugReady(t) == plan[t] = "pending" /\ \A d \in needs[t] : plan[d] # "pending"

Ready(t) == plan[t] = "pending" /\ needs[t] \subseteq Completed

\* _find_next_task() and the filter of run_with_plan(), in the plan's order.
ReadyTasks == Filter(Order, {t \in Ids : Ready(t)})

Executes(t) ==
  /\ task' = t
  /\ tries' = 0
  /\ at' = "calling"
  /\ progress' = [task |-> t, status |-> "running"]

\* One turn of run(): the next task, up to the first call of the model.
Looks ==
  IF ReadyTasks = <<>>
  THEN at' = "returned" /\ UNCHANGED <<task, tries, progress>>
  ELSE Executes(Head(ReadyTasks))

StartsLeft == Cardinality({e \in {at, engine} : e # "idle"}) < MaxStarts

Run ==
  /\ at = "idle" /\ StartsLeft
  /\ mode' = "run"
  /\ Looks
  /\ UNCHANGED <<poolVars, needs, plan, answered, edits>>

\* run_single() looks at neither status nor dependencies.
RunSingle(t) ==
  /\ at = "idle" /\ StartsLeft
  /\ mode' = "single"
  /\ Executes(t)
  /\ UNCHANGED <<poolVars, needs, plan, answered, edits>>

RunWithPlan ==
  /\ StartsLeft
  /\ RunBatch(ReadyTasks)
  /\ UNCHANGED planVars

-----------------------------------------------------------------------------
(* _execute_task() waits for the model; then progress is written and run() *)
(* looks for the next task without suspending, in an action of its own.    *)

Finishes(status) ==
  /\ progress' = [task |-> task, status |-> status]
  /\ at' = IF mode = "run" THEN "looking" ELSE "returned"
  /\ UNCHANGED <<poolVars, needs, plan, mode, task, edits>>

LlmAnswers ==
  /\ at = "calling"
  /\ answered' = answered \cup {task}
  /\ Finishes("completed")
  /\ UNCHANGED tries

HttpFails ==
  /\ at = "calling" /\ tries + 1 < MaxTries
  /\ tries' = tries + 1
  /\ UNCHANGED <<poolVars, needs, plan, at, mode, task, progress, answered, edits>>

HttpExhausted ==
  /\ at = "calling" /\ tries + 1 = MaxTries
  /\ Finishes("failed")
  /\ UNCHANGED <<tries, answered>>

\* Any other exception: run() records it, run_single() raises it and leaves
\* progress.md with a running task.
LlmBreaks ==
  /\ at = "calling"
  /\ IF mode = "run" THEN Finishes("failed")
     ELSE at' = "returned" /\ UNCHANGED <<poolVars, needs, plan, mode, task, progress, edits>>
  /\ UNCHANGED <<tries, answered>>

LooksAgain ==
  /\ at = "looking"
  /\ Looks
  /\ UNCHANGED <<poolVars, needs, plan, mode, answered, edits>>

CallEnds == LlmAnswers \/ HttpFails \/ HttpExhausted \/ LlmBreaks

-----------------------------------------------------------------------------
(* Others: the editors of the plan, and the workers of the pool.           *)

Edit(t, status) ==
  /\ edits < MaxEdits
  /\ edits' = edits + 1
  /\ plan' = [plan EXCEPT ![t] = status]
  /\ UNCHANGED <<poolVars, needs, at, mode, task, tries, progress, answered>>

MarkDone(t) == t \in answered /\ plan[t] = "pending" /\ Edit(t, "completed")

GiveUp(t) == plan[t] = "pending" /\ Edit(t, "other")

Reopen(t) == plan[t] # "pending" /\ Edit(t, "pending")

WorkerSays(t) ==
  /\ \E message \in {"result", "error"} :
       /\ Says(t, message)
       /\ answered' = IF message = "result" THEN answered \cup {t} ELSE answered
  /\ UNCHANGED <<needs, plan, at, mode, task, tries, progress, edits>>

\* What happens in the pool alone.
PoolStep ==
  /\ \/ EngineStep
     \/ \E t \in Ids :
          Monitor(t) \/ CancelWorker(t) \/ Cleanup({t})
     \/ Cleanup(Ids)
  /\ UNCHANGED planVars

-----------------------------------------------------------------------------
Next ==
  \/ Run \/ RunWithPlan \/ CallEnds \/ LooksAgain
  \/ \E t \in Ids :
       RunSingle(t) \/ MarkDone(t) \/ GiveUp(t) \/ Reopen(t) \/ WorkerSays(t)
  \/ PoolStep

Spec == Init /\ [][Next]_vars

\* Coroutines that can go on do, the model answers or the call fails, and the
\* clock goes on; no worker has to answer and nobody has to edit the plan.
Fairness ==
  /\ WF_vars(CallEnds)
  /\ WF_vars(EngineStep /\ UNCHANGED planVars)
  /\ \A t \in Ids : WF_vars(Monitor(t) /\ UNCHANGED planVars)

FairSpec == Spec /\ Fairness

-----------------------------------------------------------------------------
\* Every variable holds a value of its kind, see PoolTypeOK.
TypeOK ==
  /\ PoolTypeOK
  /\ needs \in Plans
  /\ plan \in [Ids -> {"pending", "completed", "other"}]
  /\ at \in {"idle", "calling", "looking", "returned"}
  /\ mode \in {"run", "single"}
  /\ task \in Ids \cup {NoTask}
  /\ at = "calling" => task \in Ids
  /\ tries \in 0..MaxTries - 1
  /\ progress \in [task : Ids \cup {NoTask},
                   status : {"none", "running", "completed", "failed"}]
  /\ answered \subseteq Ids
  /\ edits \in 0..MaxEdits

\* No task is given to the model or to a worker before everything it depends on
\* has been answered, although the plan changes under both executors; only
\* run_single() starts a task whatever the plan says.
RunsAfterDependencies ==
  /\ at = "calling" /\ mode = "run" => needs[task] \subseteq answered
  /\ \A t \in Ids : worker[t] # "none" => needs[t] \subseteq answered
=============================================================================
