------------------------------ MODULE VideoJobs ------------------------------
(***************************************************************************)
(* Video jobs end to end (routers/video.py): the request handler that      *)
(* inserts the row of table `jobs`, submits the job to the controller and  *)
(* then updates the row, interleaved with the background task that writes  *)
(* the same row, and with the controller of module VideoConcurrency.       *)
(*                                                                         *)
(* Every await of the handler and of the background task is a step         *)
(* boundary.  An UPDATE with its commit is one step: SQLite serialises     *)
(* the writers.  The daily quota is checked before the row exists; it is   *)
(* the subject of the module Quota.                                        *)
(***************************************************************************)
EXTENDS VideoConcurrency

CONSTANTS
  StoryJobs,    \* the jobs of POST /story2video; the others are POST /video
  MaxDbErrors   \* bound on UPDATEs and DELETEs that raise

ASSUME JobsAssumption == StoryJobs \subseteq Jobs /\ MaxDbErrors \in Nat

VARIABLES
  row,       \* the status column of each job's row, or "absent"
  req,       \* where the request handler of each job stands
  work,      \* where _run_story2video_background of each job stands
  retry,     \* where POST /detail/{id}/retry stands, once per job
  dbErrors   \* statements that have raised so far

jobVars == <<row, req, work, retry, dbErrors>>
allVars == <<vars, jobVars>>

RowStates  == {"absent", "pending", "queued", "processing", "done", "failed"}
ReqStates  == {"idle", "inserted", "submitted", "answered", "dropped"}
RetryStates == {"idle", "read", "answered"}
WorkStates == {"idle", "begun", "producing", "produced", "failing", "finished"}

Terminal == {"done", "failed"}

JobsInit ==
  /\ Init
  /\ row = [j \in Jobs |-> "absent"]
  /\ req = [j \in Jobs |-> "idle"]
  /\ work = [j \in Jobs |-> "idle"]
  /\ retry = [j \in Jobs |-> "idle"]
  /\ dbErrors = 0

\* UPDATE jobs SET status = s WHERE id = j: no effect when the row is gone.
SetRow(j, s) ==
  row' = [row EXCEPT ![j] = IF @ = "absent" THEN "absent" ELSE s]

-----------------------------------------------------------------------------
(* The request handler: create_video_job / create_story2video_job.         *)

ReqStep(j, from, to) ==
  /\ phase # "down"
  /\ req[j] = from
  /\ req' = [req EXCEPT ![j] = to]

\* The article exists and the quota allows the job: INSERT ... 'pending'.
InsertRow(j) ==
  /\ phase = "serving"
  /\ ReqStep(j, "idle", "inserted")
  /\ row' = [row EXCEPT ![j] = "pending"]
  /\ UNCHANGED <<vars, work, retry, dbErrors>>

SubmitJob(j) ==
  /\ ReqStep(j, "inserted", "submitted")
  /\ Submit(j)
  /\ UNCHANGED <<row, work, retry, dbErrors>>

BugAnswerTooBusy(j) ==
  /\ answer[j] = "rejected"
  /\ ReqStep(j, "submitted", "answered")
  /\ UNCHANGED <<vars, row, work, retry, dbErrors>>

\* DELETE the row, answer 429.
AnswerTooBusy(j) ==
  /\ answer[j] = "rejected"
  /\ ReqStep(j, "submitted", "answered")
  /\ row' = [row EXCEPT ![j] = "absent"]
  /\ UNCHANGED <<vars, work, retry, dbErrors>>

\* UPDATE the row to what submit() returned, answer with it.
AnswerAccepted(j) ==
  /\ answer[j] \in {"queued", "processing"}
  /\ ReqStep(j, "submitted", "answered")
  /\ SetRow(j, answer[j])
  /\ UNCHANGED <<vars, work, retry, dbErrors>>

\* The handler's DELETE or UPDATE raises: the client gets a 500, and an
\* accepted job goes on all the same.
AnswerRaises(j) ==
  /\ dbErrors < MaxDbErrors
  /\ dbErrors' = dbErrors + 1
  /\ ReqStep(j, "submitted", "dropped")
  /\ UNCHANGED <<vars, row, work, retry>>

-----------------------------------------------------------------------------
(* The task: _run_with_release around _run_story2video_background or       *)
(* _run_video_pipeline.                                                    *)

BeginTask(j) ==
  /\ Begin(j)
  /\ work' = [work EXCEPT ![j] = "begun"]
  /\ UNCHANGED <<row, req, retry, dbErrors>>

WorkStep(j, from, to) ==
  /\ phase # "down"
  /\ task[j] = "running"
  /\ j \in StoryJobs
  /\ work[j] = from
  /\ work' = [work EXCEPT ![j] = to]
  /\ UNCHANGED <<vars, req, retry>>

WriteProcessing(j) ==
  /\ WorkStep(j, "begun", "producing")
  /\ SetRow(j, "processing")
  /\ UNCHANGED dbErrors

\* run_story2video_pipeline() succeeds, reports failure or raises.
Produce(j) ==
  /\ WorkStep(j, "producing", "produced") \/ WorkStep(j, "producing", "failing")
  /\ UNCHANGED <<row, dbErrors>>

WriteDone(j) ==
  /\ WorkStep(j, "produced", "finished")
  /\ SetRow(j, "done")
  /\ UNCHANGED dbErrors

BugWriteFailed(j) ==
  /\ WorkStep(j, "failing", "finished")
  /\ UNCHANGED <<row, dbErrors>>

WriteFailed(j) ==
  /\ WorkStep(j, "failing", "finished")
  /\ SetRow(j, "failed")
  /\ UNCHANGED dbErrors

\* An UPDATE raises (the database stays locked): the handler of the exception
\* tries to write 'failed'; when that raises too, the task just ends.
WriteRaises(j) ==
  /\ dbErrors < MaxDbErrors
  /\ dbErrors' = dbErrors + 1
  /\ \/ WorkStep(j, "begun", "failing")
     \/ WorkStep(j, "produced", "failing")
     \/ WorkStep(j, "failing", "finished")
  /\ UNCHANGED row

\* A POST /video job does nothing: run_pipeline_v2 imports db.get_db_path,
\* which does not exist, and _run_video_pipeline logs the ImportError.
EndTask(j) ==
  /\ j \in StoryJobs => work[j] = "finished"
  /\ Release(j)
  /\ UNCHANGED jobVars

-----------------------------------------------------------------------------
(* retry_job (routers/jobs.py): a SELECT, then an UPDATE that does not look *)
(* at the status again.  Nothing submits the job once more.                *)

BugRetryRead(j) ==
  /\ phase # "down"
  /\ retry[j] = "idle"
  /\ row[j] # "absent"
  /\ retry' = [retry EXCEPT ![j] = "read"]
  /\ UNCHANGED <<vars, row, req, work, dbErrors>>

RetryRead(j) ==
  /\ phase # "down"
  /\ retry[j] = "idle"
  /\ row[j] = "failed"
  /\ retry' = [retry EXCEPT ![j] = "read"]
  /\ UNCHANGED <<vars, row, req, work, dbErrors>>

RetryWrite(j) ==
  /\ phase # "down"
  /\ retry[j] = "read"
  /\ retry' = [retry EXCEPT ![j] = "answered"]
  /\ SetRow(j, "pending")
  /\ UNCHANGED <<vars, req, work, dbErrors>>

-----------------------------------------------------------------------------
(* The process.                                                            *)

Stop == BeginShutdown \/ FinishShutdown \/ Reset

\* The rows are what survives.  init_db creates missing tables and nothing
\* looks at the jobs that were under way.
CrashAndRestart ==
  /\ Restart
  /\ req' = [j \in Jobs |-> IF req[j] \in {"inserted", "submitted"}
                              THEN "dropped" ELSE req[j]]
  /\ retry' = [j \in Jobs |-> IF retry[j] = "read" THEN "answered" ELSE retry[j]]
  /\ UNCHANGED <<row, work, dbErrors>>

JobStep(j) ==
  \/ SubmitJob(j) \/ AnswerTooBusy(j) \/ AnswerAccepted(j)
  \/ BeginTask(j) \/ WriteProcessing(j) \/ Produce(j)
  \/ WriteDone(j) \/ WriteFailed(j) \/ EndTask(j)
  \/ RetryWrite(j)

JobsNext ==
  \/ \E j \in Jobs : \/ InsertRow(j) \/ JobStep(j) \/ RetryRead(j)
                   \/ AnswerRaises(j) \/ WriteRaises(j)
  \/ Stop /\ UNCHANGED jobVars
  \/ CrashAndRestart

JobsSpec == JobsInit /\ [][JobsNext]_allVars

\* The event loop runs every ready coroutine, a request that has begun is
\* finished, and a generation job ends (its calls to the outside have
\* timeouts).  Nobody has to send a request or to stop the process; drain()
\* polls until it can return.
JobsFairness ==
  /\ \A j \in Jobs : WF_allVars(JobStep(j))
  /\ WF_allVars(FinishShutdown /\ UNCHANGED jobVars)

JobsFairSpec == JobsSpec /\ JobsFairness

-----------------------------------------------------------------------------
(* Every variable of this module and of the controller is of its type.     *)
JobsTypeOK ==
  /\ TypeOK
  /\ row \in [Jobs -> RowStates]
  /\ req \in [Jobs -> ReqStates]
  /\ work \in [Jobs -> WorkStates]
  /\ retry \in [Jobs -> RetryStates]
  /\ dbErrors \in 0..MaxDbErrors

\* What a client polls agrees with what it was answered: a refused job has no
\* row and an accepted one has, and while an answered job waits in the queue
\* its row says so, whatever the tasks of other jobs do.
RowTellsTheAnswer ==
  \A j \in Jobs : req[j] = "answered" =>
    /\ row[j] = "absent" <=> answer[j] = "rejected"
    /\ j \in Queued => row[j] = "queued"

\* A final status is overwritten by nobody but the job's own request handler,
\* which does so only before it has answered, and by a retry the user asked
\* for, which never touches a job that is done.
FinalOnceAnswered ==
  [][\A j \in Jobs :
       row[j] \in Terminal /\ row'[j] # row[j] =>
         \/ req[j] = "submitted"
         \/ row[j] = "failed" /\ retry[j] = "read"]_allVars

\* A story job that was answered while it waited, or before its task began,
\* settles: its row reaches 'done' or 'failed', unless reset() throws it away.
WaitingStoryJobSettles ==
  \A j \in StoryJobs :
    (req[j] = "answered" /\ answer[j] = "queued" /\ work[j] = "idle")
      ~> row[j] \in Terminal \/ resets > 0
=============================================================================
