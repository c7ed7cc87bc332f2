----------------------------- MODULE Publishing -----------------------------
(***************************************************************************)
(* Publish tasks (routers/publish.py): the handlers that create them, the  *)
(* background task that publishes and keeps the row in `jobs`, retry_job   *)
(* (routers/jobs.py), the desktop client that polls for pending rows and   *)
(* publishes them itself, and restarts, which lose the background tasks.   *)
(*                                                                         *)
(* A background task opens a connection for every status it writes, and    *)
(* the write may fail (the database is locked).                            *)
(*                                                                         *)
(* Operators whose name begins with Bug are seeded faults that no formula  *)
(* of the specification uses.                                              *)
(***************************************************************************)
EXTENDS PlatformUpload

CONSTANTS
  Destinations,   \* the platforms tasks may name
  MaxDbErrors,    \* bound on status writes that fail
  MaxRetryCalls,  \* bound on calls of retry_job for a task
  MaxRestarts     \* bound on crashes and restarts of the process

ASSUME PublishingAssumption ==
  /\ Destinations \subseteq VideoPlatforms \cup {"wechat_mp", "elsewhere"}
  /\ MaxDbErrors \in Nat /\ MaxRetryCalls \in Nat /\ MaxRestarts \in Nat

VARIABLES
  row,       \* jobs.status
  when,      \* what scheduled_at says: "unset", "later", "garbage", "zoned"
  due,       \* the scheduled time has come
  worker,    \* where the request handler, then the background task stands
  desktop,   \* the desktop client: has not seen the task, holds it, has posted it
  dbErrors,  \* writes that failed so far
  retries,   \* calls of retry_job so far
  restarts   \* restarts so far

rowVars == <<row, when, due, worker, desktop, dbErrors, retries, restarts>>

vars == <<uploadVars, rowVars>>

Rows == {"absent", "pending", "scheduled", "downloading", "publishing", "success", "failed"}

\* The program counter of a task: first of its handler, then of its background task.
Workers == {"none", "marking", "created", "sleeping", "ready", "fetching",
            "uploading", "failing", "ended", "silent", "killed"}

Init ==
  /\ UploadInit
  /\ row = [t \in Tasks |-> "absent"]
  /\ when = [t \in Tasks |-> "unset"]
  /\ due = [t \in Tasks |-> FALSE]
  /\ worker = [t \in Tasks |-> "none"]
  /\ desktop = [t \in Tasks |-> "unaware"]
  /\ dbErrors = 0
  /\ retries = [t \in Tasks |-> 0]
  /\ restarts = 0

Goes(t, to) == worker' = [worker EXCEPT ![t] = to]

Says(t, status) == row' = [row EXCEPT ![t] = status]

Names(t, where, chunks) ==
  /\ platform' = [platform EXCEPT ![t] = where]
  /\ size' = [size EXCEPT ![t] = chunks]
  /\ UNCHANGED <<pos, acked, tries, verdict, stored, posts, lost>>

-----------------------------------------------------------------------------
(* The handlers that create a task.                                        *)

\* create_publish_task: only WeChat has a background task; for any other
\* platform the row stays as it is.
CreateArticle(t) ==
  /\ row[t] = "absent"
  /\ \E where \in Destinations \ VideoPlatforms :
       /\ Names(t, where, 0)
       /\ Goes(t, IF where = "wechat_mp" THEN "created" ELSE "none")
  /\ Says(t, "pending")
  /\ UNCHANGED <<when, due, desktop, dbErrors, retries, restarts>>

\* create_video_publish_task: the row is committed as pending first.
CreateVideo(t) ==
  /\ row[t] = "absent"
  /\ \E where \in Destinations \cap VideoPlatforms, chunks \in {1, Parts} :
       (where = "douyin" => chunks = 1) /\ Names(t, where, chunks)
  /\ when' \in {[when EXCEPT ![t] = w] : w \in {"unset", "later", "garbage", "zoned"}}
  /\ Says(t, "pending")
  /\ Goes(t, IF when'[t] = "unset" THEN "created" ELSE "marking")
  /\ UNCHANGED <<due, desktop, dbErrors, retries, restarts>>

\* ... and the UPDATE for a scheduled one; the background task comes after it,
\* and never if it raises: the row then stays pending.
MarkScheduled(t) ==
  /\ worker[t] = "marking"
  /\ \/ Says(t, "scheduled") /\ Goes(t, "created") /\ UNCHANGED dbErrors
     \/ /\ dbErrors < MaxDbErrors
        /\ dbErrors' = dbErrors + 1
        /\ Goes(t, "none")
        /\ UNCHANGED row
  /\ UNCHANGED <<uploadVars, when, due, desktop, retries, restarts>>

-----------------------------------------------------------------------------
(* The background task.                                                    *)

BugWritesOrDies(t, status, then) ==
  \/ Says(t, status) /\ Goes(t, then) /\ UNCHANGED dbErrors
  \/ /\ dbErrors < MaxDbErrors
     /\ dbErrors' = dbErrors + 1
     /\ Goes(t, "ended")
     /\ UNCHANGED row

\* _update(): the statement is committed, or raises and the handler of the
\* exception is next.  When the handler's own _update() raises, the task ends
\* without a word.
Writes(t, status, then) ==
  \/ Says(t, status) /\ Goes(t, then) /\ UNCHANGED dbErrors
  \/ /\ dbErrors < MaxDbErrors
     /\ dbErrors' = dbErrors + 1
     /\ Goes(t, IF worker[t] = "failing" THEN "silent" ELSE "failing")
     /\ UNCHANGED row

BeginUpload(t) ==
  /\ pos' = [pos EXCEPT ![t] = 1]
  /\ UNCHANGED <<platform, size, acked, tries, verdict, stored, posts, lost>>

\* _publish_wechat leaves the row pending while it publishes.
WechatBegins(t) ==
  /\ worker[t] = "created" /\ platform[t] = "wechat_mp"
  /\ BeginUpload(t)
  /\ Goes(t, "uploading")
  /\ UNCHANGED <<row, when, due, desktop, dbErrors, retries, restarts>>

\* A time that has not come is slept for; one that cannot be parsed counts as
\* none; one with an offset cannot be compared with now() and raises.
VideoBegins(t) ==
  /\ worker[t] = "created" /\ platform[t] \in VideoPlatforms
  /\ \/ /\ when[t] = "later" /\ ~due[t]
        /\ Writes(t, "scheduled", "sleeping")
     \/ /\ when[t] \in {"unset", "garbage"} \/ due[t]
        /\ Goes(t, "ready") /\ UNCHANGED <<row, dbErrors>>
     \/ /\ when[t] = "zoned"
        /\ Goes(t, "failing") /\ UNCHANGED <<row, dbErrors>>
  /\ UNCHANGED <<uploadVars, when, due, desktop, retries, restarts>>

Wakes(t) ==
  /\ worker[t] = "sleeping" /\ due[t]
  /\ Goes(t, "ready")
  /\ UNCHANGED <<uploadVars, row, when, due, desktop, dbErrors, retries, restarts>>

BugStartsDownload(t) ==
  /\ worker[t] = "ready"
  /\ Goes(t, "fetching")
  /\ UNCHANGED <<uploadVars, row, when, due, desktop, dbErrors, retries, restarts>>

StartsDownload(t) ==
  /\ worker[t] = "ready"
  /\ Writes(t, "downloading", "fetching")
  /\ UNCHANGED <<uploadVars, when, due, desktop, retries, restarts>>

Fetched(t) ==
  /\ worker[t] = "fetching"
  /\ Writes(t, "publishing", "uploading")
  /\ IF worker'[t] = "uploading" THEN BeginUpload(t) ELSE UNCHANGED uploadVars
  /\ UNCHANGED <<when, due, desktop, retries, restarts>>

FetchFails(t) ==
  /\ worker[t] = "fetching"
  /\ Goes(t, "failing")
  /\ UNCHANGED <<uploadVars, row, when, due, desktop, dbErrors, retries, restarts>>

Uploads(t) ==
  /\ worker[t] = "uploading"
  /\ UploadStep(t)
  /\ UNCHANGED rowVars

Outcome(t) == IF verdict[t] = "published" THEN "success" ELSE "failed"

Reports(t) ==
  /\ worker[t] = "uploading" /\ verdict[t] # "none"
  /\ Writes(t, Outcome(t), "ended")
  /\ UNCHANGED <<uploadVars, when, due, desktop, retries, restarts>>

ReportsException(t) ==
  /\ worker[t] = "failing"
  /\ Writes(t, "failed", "ended")
  /\ UNCHANGED <<uploadVars, when, due, desktop, retries, restarts>>

Works(t) ==
  \/ WechatBegins(t) \/ VideoBegins(t) \/ Wakes(t) \/ StartsDownload(t)
  \/ Fetched(t) \/ FetchFails(t) \/ Uploads(t) \/ Reports(t) \/ ReportsException(t)

-----------------------------------------------------------------------------
(* Everybody else.                                                         *)

TimeComes(t) ==
  /\ when[t] = "later" /\ ~due[t]
  /\ due' = [due EXCEPT ![t] = TRUE]
  /\ UNCHANGED <<uploadVars, row, when, worker, desktop, dbErrors, retries, restarts>>

\* retry_job of routers/jobs.py: nothing is started again.
RetryJob(t) ==
  /\ row[t] = "failed"
  /\ retries[t] < MaxRetryCalls
  /\ retries' = [retries EXCEPT ![t] = @ + 1]
  /\ Says(t, "pending")
  /\ UNCHANGED <<uploadVars, when, due, worker, desktop, dbErrors, restarts>>

\* get_pending_publish_tasks: the answer claims nothing.
Offered(t) == row[t] = "pending" /\ platform[t] \in VideoPlatforms

Poll ==
  /\ \E t \in Tasks : Offered(t) /\ desktop[t] = "unaware"
  /\ desktop' = [t \in Tasks |->
                   IF Offered(t) /\ desktop[t] = "unaware" THEN "holds" ELSE desktop[t]]
  /\ UNCHANGED <<uploadVars, row, when, due, worker, dbErrors, retries, restarts>>

\* The client publishes by itself; there is no endpoint to report it to.
DesktopPosts(t) ==
  /\ desktop[t] = "holds"
  /\ desktop' = [desktop EXCEPT ![t] = "posted"]
  /\ UNCHANGED <<uploadVars, row, when, due, worker, dbErrors, retries, restarts>>

Restart ==
  /\ restarts < MaxRestarts
  /\ restarts' = restarts + 1
  /\ worker' = [t \in Tasks |->
                  IF worker[t] \in {"none", "ended", "silent"} THEN worker[t] ELSE "killed"]
  /\ pos' = [t \in Tasks |-> 0]
  /\ tries' = [t \in Tasks |-> 0]
  /\ UNCHANGED <<platform, size, acked, verdict, stored, posts, lost>>
  /\ UNCHANGED <<row, when, due, desktop, dbErrors, retries>>

Next ==
  \/ \E t \in Tasks :
       \/ CreateArticle(t) \/ CreateVideo(t) \/ MarkScheduled(t) \/ Works(t)
       \/ TimeComes(t) \/ RetryJob(t) \/ DesktopPosts(t)
  \/ Poll
  \/ Restart

Spec == Init /\ [][Next]_vars

\* A handler that has begun, a background task and the clock go on; nobody has
\* to create, retry, poll or restart anything.
Fairness ==
  \A t \in Tasks : /\ WF_vars(MarkScheduled(t))
                   /\ WF_vars(Works(t))
                   /\ WF_vars(TimeComes(t))

FairSpec == Spec /\ Fairness

-----------------------------------------------------------------------------
\* Every variable holds a value of its kind, and publish_video() runs only
\* inside a background task that has come to it.
TypeOK ==
  /\ UploadTypeOK
  /\ row \in [Tasks -> Rows]
  /\ when \in [Tasks -> {"unset", "later", "garbage", "zoned"}]
  /\ due \in [Tasks -> BOOLEAN]
  /\ worker \in [Tasks -> Workers]
  /\ \A t \in Tasks : pos[t] > 0 => worker[t] = "uploading"
  /\ desktop \in [Tasks -> {"unaware", "holds", "posted"}]
  /\ dbErrors \in 0..MaxDbErrors
  /\ retries \in [Tasks -> 0..MaxRetryCalls]
  /\ restarts \in 0..MaxRestarts

\* The final row tells whether there is a post.  'success' is wrong only for
\* tencent_video, whose publisher trusts an answer that says nothing; 'failed'
\* is wrong only when the platform's answer or the write of 'success' was lost.
RowTellsTheTruth ==
  \A t \in Tasks :
    /\ row[t] = "success" => posts[t] > 0 \/ platform[t] = "tencent_video"
    /\ row[t] = "failed" /\ posts[t] > 0 => lost[t] > 0 \/ dbErrors > 0

\* The desktop client is never offered a video that the server is working on,
\* whatever is retried, fails or crashes: only one it has not begun, or one that
\* is over.
OfferedTaskIsIdle ==
  \A t \in Tasks :
    Offered(t) => worker[t] \notin {"fetching", "uploading"}

\* A task that has a background task comes to 'success' or 'failed', whatever
\* request or status write fails on the way: it is left hanging only by a restart
\* or when the last write, that of its failure, fails.
TaskSettles ==
  \A t \in Tasks :
    worker[t] = "created" ~>
      row[t] \in {"success", "failed"} \/ worker[t] \in {"killed", "silent"}
=============================================================================
