----------------------------- MODULE BlockEngine -----------------------------
(***************************************************************************)
(* One run of the block engine (engine/executor.py, ExecutionEngine.run)   *)
(* as the video pipeline uses it (services/pipeline_v2.py,                 *)
(* run_block_pipeline): nodes in topological order, retries with back-off, *)
(* the state of every node saved in table block_node_states, the step      *)
(* label and the outcome written to the job's row by the callbacks.        *)
(*                                                                         *)
(* The engine is one coroutine.  Between two of its awaits the process may *)
(* die; every await of the database may fail.                              *)
(***************************************************************************)
EXTENDS BlockGraph

CONSTANTS
  Graphs,       \* the lists of links a caller may pass
  MaxRetries,   \* RetryPolicy.max_retries
  MaxFaults     \* bound on database calls that raise

ASSUME EngineAssumption ==
  /\ \A g \in Graphs : Len(g) \in Nat /\ DOMAIN g = 1..Len(g)
  /\ MaxRetries \in Nat /\ MaxFaults \in Nat

VARIABLES
  links,    \* graph.links
  pc,       \* where run() stands
  then,     \* where it goes on once _persist_state() has returned
  order,    \* exec_order
  pos,      \* index of the current node in exec_order
  attempt,  \* the retry loop's counter
  state,    \* _node_states, "absent" for a node that has not been visited
  outputs,  \* the keys of _node_outputs
  errors,   \* the keys of _node_errors
  stored,   \* status and retry_count of each row of block_node_states
  row,      \* the job's status: "pending", the node being run, or an outcome
  faults    \* database calls that have raised so far

vars == <<links, pc, then, order, pos, attempt, state, outputs, errors, stored,
          row, faults>>

graphVars == <<links, order, pos>>

NodeStates == {"absent", "pending", "running", "completed", "failed"}

Points == {"new", "next", "prepare", "running", "backoff", "completed", "failing",
           "failed", "finishing", "save", "returned", "raised", "dead"}

Over == pc \in {"returned", "raised", "dead"}

Node == order[pos]

Init ==
  /\ links \in Graphs
  /\ pc = "new"
  /\ then = "new"
  /\ order = <<>>
  /\ pos = 1
  /\ attempt = 0
  /\ state = [n \in Ids |-> "absent"]
  /\ outputs = {}
  /\ errors = {}
  /\ stored = [n \in Ids |-> [status |-> "absent", retries |-> 0]]
  /\ row = "pending"
  /\ faults = 0

Goto(from, to) == pc = from /\ pc' = to

\* Enter _persist_state() and go on at `to` afterwards.
SaveThen(from, to) == Goto(from, "save") /\ then' = to

Mark(s) == state' = [state EXCEPT ![Node] = s]

DatabaseFails == faults < MaxFaults /\ faults' = faults + 1

-----------------------------------------------------------------------------
(* run(): validation, then the loop over the nodes.                        *)

BugStart ==
  /\ pc = "new"
  /\ order' = NodeList
  /\ pc' = IF Valid(links) THEN "next" ELSE "raised"
  /\ UNCHANGED <<links, then, pos, attempt, state, outputs, errors, stored, row,
                 faults>>

Start ==
  /\ pc = "new"
  /\ order' = IF Valid(links) THEN TopologicalSort(links) ELSE <<>>
  /\ pc' = IF Valid(links) THEN "next" ELSE "raised"
  /\ UNCHANGED <<links, then, pos, attempt, state, outputs, errors, stored, row,
                 faults>>

\* PENDING, version check, on_node_start: the job's row shows the step.
BeginNode ==
  /\ Goto("next", "prepare")
  /\ pos <= Len(order)
  /\ Mark("pending")
  /\ attempt' = 0
  /\ row' = Node
  /\ UNCHANGED <<graphVars, then, outputs, errors, stored, faults>>

\* The version differs, or on_node_start raises.
BeginNodeFails ==
  /\ Goto("next", "failing")
  /\ pos <= Len(order)
  /\ Mark("pending")
  /\ UNCHANGED <<graphVars, then, attempt, outputs, errors, stored, row, faults>>

\* The inputs resolve and validate: RUNNING.
Prepare ==
  /\ SaveThen("prepare", "running")
  /\ Mark("running")
  /\ UNCHANGED <<graphVars, attempt, outputs, errors, stored, row, faults>>

\* Unknown block or inputs that do not validate: not a retryable exception.
PrepareFails ==
  /\ Goto("prepare", "failing")
  /\ UNCHANGED <<graphVars, then, attempt, state, outputs, errors, stored, row,
                 faults>>

BlockCompletes ==
  /\ SaveThen("running", "completed")
  /\ Mark("completed")
  /\ outputs' = outputs \cup {Node}
  /\ UNCHANGED <<graphVars, attempt, errors, stored, row, faults>>

BugBlockFailsRetryably ==
  /\ SaveThen("running", IF attempt <= MaxRetries THEN "backoff" ELSE "failing")
  /\ Mark("failed")
  /\ errors' = errors \cup {Node}
  /\ UNCHANGED <<graphVars, attempt, outputs, stored, row, faults>>

\* A retryable exception: FAILED is saved with retry_count attempt + 1; then
\* either one more round or MaxRetriesExceeded.
BlockFailsRetryably ==
  /\ SaveThen("running", IF attempt < MaxRetries THEN "backoff" ELSE "failing")
  /\ Mark("failed")
  /\ errors' = errors \cup {Node}
  /\ UNCHANGED <<graphVars, attempt, outputs, stored, row, faults>>

BlockFailsFatally ==
  /\ Goto("running", "failing")
  /\ UNCHANGED <<graphVars, then, attempt, state, outputs, errors, stored, row,
                 faults>>

BugBackoff ==
  /\ Goto("backoff", "prepare")
  /\ Mark("pending")
  /\ UNCHANGED <<graphVars, then, attempt, outputs, errors, stored, row, faults>>

\* PENDING in memory only, asyncio.sleep(delay), next attempt.
Backoff ==
  /\ Goto("backoff", "prepare")
  /\ Mark("pending")
  /\ attempt' = attempt + 1
  /\ UNCHANGED <<graphVars, then, outputs, errors, stored, row, faults>>

\* on_node_complete returns (the pipeline sets none).
CompleteNode ==
  /\ Goto("completed", "next")
  /\ pos' = pos + 1
  /\ UNCHANGED <<links, then, order, attempt, state, outputs, errors, stored, row,
                 faults>>

CompleteCallbackRaises ==
  /\ Goto("completed", "failing")
  /\ UNCHANGED <<graphVars, then, attempt, state, outputs, errors, stored, row,
                 faults>>

BugFailNode ==
  /\ SaveThen("failing", "next")
  /\ Mark("failed")
  /\ errors' = errors \cup {Node}
  /\ pos' = pos + 1
  /\ UNCHANGED <<links, order, attempt, outputs, stored, row, faults>>

\* The outer handler: FAILED is saved once more, with retry_count 0.
FailNode ==
  /\ SaveThen("failing", "failed")
  /\ Mark("failed")
  /\ errors' = errors \cup {Node}
  /\ UNCHANGED <<graphVars, attempt, outputs, stored, row, faults>>

\* on_node_fail returns: break.  When it raises, run() raises.
AbortGraph ==
  /\ Goto("failed", "finishing") \/ Goto("failed", "raised")
  /\ UNCHANGED <<graphVars, then, attempt, state, outputs, errors, stored, row,
                 faults>>

LoopEnds ==
  /\ Goto("next", "finishing")
  /\ pos > Len(order)
  /\ UNCHANGED <<graphVars, then, attempt, state, outputs, errors, stored, row,
                 faults>>

-----------------------------------------------------------------------------
(* _persist_state(): an exception of the database is logged and dropped.   *)

\* The retry_count passed with the state; the outer handler passes none.
RetryCount ==
  CASE then = "failed" -> 0
    [] then \in {"backoff", "failing"} -> attempt + 1
    [] OTHER -> attempt

BugSave ==
  /\ pc = "save"
  /\ pc' = then
  /\ stored' = IF state[Node] = "failed" THEN stored
               ELSE [stored EXCEPT ![Node] = [status |-> state[Node],
                                              retries |-> RetryCount]]
  /\ UNCHANGED <<graphVars, then, attempt, state, outputs, errors, row, faults>>

Save ==
  /\ pc = "save"
  /\ pc' = then
  /\ stored' = [stored EXCEPT ![Node] =
                 [status |-> state[Node], retries |-> RetryCount]]
  /\ UNCHANGED <<graphVars, then, attempt, state, outputs, errors, row, faults>>

SaveFails ==
  /\ pc = "save"
  /\ pc' = then
  /\ DatabaseFails
  /\ UNCHANGED <<graphVars, then, attempt, state, outputs, errors, stored, row>>

-----------------------------------------------------------------------------
(* The result and _fire_callbacks, whose exceptions are logged and dropped. *)

Visited == {n \in Ids : state[n] # "absent"}

\* ExecutionResult.success looks at the nodes that have a state.
Succeeded == \A n \in Visited : state[n] = "completed"

\* _finalize's UPDATE names a column output_path that table jobs does not
\* have: it raises, and the row stays as it is.
ReportSuccess ==
  /\ Succeeded
  /\ Goto("finishing", "returned")
  /\ UNCHANGED <<graphVars, then, attempt, state, outputs, errors, stored, row,
                 faults>>

ReportFailure ==
  /\ ~Succeeded
  /\ Goto("finishing", "returned")
  /\ row' = "failed"
  /\ UNCHANGED <<graphVars, then, attempt, state, outputs, errors, stored, faults>>

ReportFails ==
  /\ ~Succeeded
  /\ Goto("finishing", "returned")
  /\ DatabaseFails
  /\ UNCHANGED <<graphVars, then, attempt, state, outputs, errors, stored, row>>

\* The process dies; load_states() is called by nothing, so no run resumes.
Die ==
  /\ ~Over
  /\ pc' = "dead"
  /\ UNCHANGED <<graphVars, then, attempt, state, outputs, errors, stored, row,
                 faults>>

EngineStep ==
  \/ Start \/ BeginNode \/ BeginNodeFails \/ Prepare \/ PrepareFails
  \/ BlockCompletes \/ BlockFailsRetryably \/ BlockFailsFatally \/ Backoff
  \/ CompleteNode \/ CompleteCallbackRaises \/ FailNode \/ AbortGraph \/ LoopEnds
  \/ Save \/ SaveFails \/ ReportSuccess \/ ReportFailure \/ ReportFails

Next == EngineStep \/ Die

Spec == Init /\ [][Next]_vars

\* The event loop carries the coroutine on, sleeps end, and a block ends.
FairSpec == Spec /\ WF_vars(EngineStep)

-----------------------------------------------------------------------------
\* Every variable holds a value of its kind; links is what the caller passed.
TypeOK ==
  /\ pc \in Points /\ then \in Points
  /\ order \in Seq(Ids) /\ pos \in 1..(Len(order) + 1)
  /\ attempt \in 0..MaxRetries
  /\ state \in [Ids -> NodeStates]
  /\ outputs \subseteq Ids /\ errors \subseteq Ids
  /\ stored \in [Ids -> [status : NodeStates, retries : 0..(MaxRetries + 1)]]
  /\ row \in Ids \cup {"pending", "done", "failed"}
  /\ faults \in 0..MaxFaults

\* validate() accepts exactly the graphs that can be sorted, and the order that
\* run() follows is a topological order of the whole graph.
OrderIsTopological ==
  Visited = {} =>
    /\ pc = "raised" => ~Sortable(links)
    /\ pc = "next" => Sortable(links) /\ IsTopologicalOrder(links, order)

\* A block runs only when every block that feeds it has completed and its
\* output is there to be read by _resolve_inputs().
RunsAfterUpstream ==
  \A i \in DOMAIN links :
    Target(links, i) \in {n \in Ids : state[n] \in {"running", "completed"}} =>
      Source(links, i) \in {n \in outputs : state[n] = "completed"}

\* One failure stops the graph: the failed node is the last one visited, and
\* every node before it has completed.
FailureStopsTheGraph ==
  \A n \in Ids : state[n] = "failed" =>
    /\ Node = n
    /\ Visited = {order[i] : i \in 1..pos}
    /\ \A i \in 1..(pos - 1) : state[order[i]] = "completed"

\* success is judged from the visited nodes alone, yet it means the whole graph.
SuccessIsWholeGraph ==
  pc \in {"finishing", "returned"} /\ Succeeded =>
    \A n \in Ids : state[n] = "completed" /\ n \in outputs

\* A run that fails says so in the job's row, if the database does not fail.
FailureIsReported ==
  pc = "returned" /\ ~Succeeded /\ faults = 0 => row = "failed"

\* The outcome tells the truth about the graph: a failure ends the run at the
\* node that failed and reaches the job's row, and a run that calls itself a
\* success has completed every node, although it looks at visited ones only
\* (executor.py:257-297, 489-506).
OutcomeIsHonest == FailureStopsTheGraph /\ SuccessIsWholeGraph /\ FailureIsReported

\* What a later process could read back is what happened: between two saves,
\* and if no save was lost, table block_node_states agrees with the engine about
\* every node that has been started; only the PENDING of a back-off is never
\* saved.  A crash can cost at most the state of the current node.
StoredAgrees ==
  pc # "save" /\ faults = 0 =>
    \A n \in Ids :
      state[n] \in {"running", "completed", "failed"} =>
        \/ stored[n].status = state[n]
        \/ pc = "dead" /\ n = Node

\* run() ends: back-off and retries do not go on for ever.
RunEnds == <>Over
=============================================================================
