# Formal models of platform-orchestrator

TLA+ specifications of the parts of platform-orchestrator whose correctness
depends on interleaving, failure or order: the queue in front of video
generation, the rows clients poll, the daily quota, the block engine, the plan and
tokens of an account, calls to language models through a fallback chain, the
connection on which providers and keys are stored, the cached feature gates,
publishing to platforms, the automatic execution of a plan, and the pipeline from
an article to a film. TLC checks them on small instances; TLAPS proves every invariant
and every action property that TLC checks, for every value of the constants. Source paths below are relative to the
repository.

The server is one asyncio process on SQLite. Nothing runs in parallel inside it,
so an interleaving can happen only where a coroutine really suspends; every
module makes exactly those points the boundaries of its actions.

## 1. The system

| Part | State | Operations | Talks to | Hard because |
|---|---|---|---|---|
| Video concurrency controller, `services/concurrency_control.py` | gate, active count, queue of 10 | `submit`, release (the `finally` of a task), `drain`, `reset` | video router (calls it), lifecycle (`drain` callback, task registry) | count and queue are shared by every request and task; the gate changes at run time |
| Application lifecycle, `services/lifecycle.py`, `main.py` | registered tasks, drain callbacks | start-up hooks, `shutdown` | controller | shutdown runs beside requests and tasks |
| Video job router, `routers/video.py` | rows of `jobs` | two create handlers, two background tasks, reads | quota, controller, both pipelines, database | handler and background task write the same row |
| Jobs router, `routers/jobs.py` | rows of `jobs` | `retry_job`; list, statistics, export | database | status read, then written without another look |
| Daily quota, `services/quota.py` | one row per user and day | `increment_usage`, `get_usage` | video router, payments (the plan) | three statements, no transaction around them |
| Block graph, `engine/graph.py` | nodes and links | validation, topological sort | engine | cycles, parallel links, unknown nodes |
| Block engine, `engine/executor.py` | node states, outputs, errors; table `block_node_states` | `run`, retries, persistence, callbacks | graph, blocks, pipeline callbacks | failures at every await |
| Block pipeline, `services/pipeline_v2.py` | the job's row | builds the graph, step and outcome callbacks | engine, database | the row is the only thing a client sees |
| Story pipeline, `services/story2video/`, `services/compositor.py`, `services/tts_service.py` | clips, mixed sound, slideshow, final video | segmentation, speech, mixing, slideshow, composition, one call | video router | each stage has a fallback that works on what the stage before left on disk |
| Payments and subscriptions, `routers/payment.py`, `services/subscription_lifecycle.py` | payments, subscriptions, the user's plan | checkout, webhook, expiry at start-up | quota | duplicate and contradictory deliveries |
| Authentication, `routers/auth.py`, `middleware/auth.py` | users, refresh tokens | register, login, refresh, logout, upgrade | every router | tokens outlive what they say |
| Providers, `services/provider_router.py`, `providers/` | provider rows, user keys, circuit breakers, round-robin index | selection, fallback chains, administration | content routers | outcomes of overlapping calls arrive in any order at one breaker |
| Publishing, `routers/publish.py`, `services/*publish*` | publish rows, the platform's side of an upload | create, background task, poll, retry | desktop client, four video platforms, WeChat | two parties work on one row; a request may succeed and its answer be lost |
| Automatic execution, `auto_exec/` | plan and progress files, worker files | planning loop, single task, worker pool | language models, worker processes | the plan changes under both executors; workers are late, silent, contradict themselves |
| Feature gates, `middleware/feature_gate.py` | cached YAML | load, `requires_feature` | most routers | cache by file time |
| Content routers, dashboard, administration, other media services | rows, files | single statements around external calls | | data rather than control |

What makes each correct, and where a test would hardly look, is the list of
hazards in PROJECT.json. Those with properties are covered by the
modules below; the others say why no property covers them.

## 2. Modules

| Module | Models | State | Actions |
|---|---|---|---|
| `BoundedLine` | what the controller promises while its gate is on: a line in front of servers | `line`, `serving`, `seen` | `ServedAtOnce`, `Joins`, `TurnedAway`, `Leaves`, `PowerCut` |
| `VideoConcurrency` | controller and shutdown | `enabled`, `active`, `queue` are the controller's fields; `answer` is what `submit` returned; `task` the asyncio task of each job | `Submit` (five answers), `Begin`, `Release`, `BeginShutdown`, `FinishShutdown`, `Reset`, `Restart` |
| `VideoJobs`, extends it | video and jobs routers end to end | `row` the status column, `req`, `work`, `retry` the program counters of handler, background task and retry | `InsertRow` to `AnswerAccepted`, `AnswerTooBusy` or `AnswerRaises`; `BeginTask` to `EndTask`; `RetryRead`, `RetryWrite`; `CrashAndRestart` |
| `Quota` | `increment_usage` | `created`, `limit` are the row; `pc`, `read` each request; `plan` the user's plan | `Count`, `ReadBackGrants`, `ReadBackRefuses`, `Revert`, `ChangePlan`, `Crash` |
| `Filters` | the list comprehension `[x for x in s if ...]` of planner, router and graph | none: operators | `Filter` |
| `BlockGraph` | the graph | none: operators | `TopologicalSort`, `Valid`; and, independently of them, `Sortable` and `IsTopologicalOrder` |
| `BlockEngine`, extends it | one `run()` with the pipeline's callbacks | `pc`, `then` where the coroutine stands; `state`, `outputs`, `errors` the engine's dictionaries; `stored` the table; `row` the job's row | one action per stretch between two awaits, `Die` |
| `Membership` | payments, plan changes, tokens and expiry for one account | `account`, `sub` the rows of users and subscriptions in each database; `payment`; `hook`, `upgrade` the program counters of webhook and upgrade, with what the upgrade has read; `lock` a flushed write; `session`; `tokens` what `get_current_user` accepts, of both kinds | `CreateCheckout`; `WebhookReads`, `WebhookWrites`; `UpgradeReadsUser` to `UpgradeCommits` or `UpgradeRollsBack`; `Login`, `Refresh`, `Logout`; `Tick`, `Restart` |
| `CircuitBreaker` | the breaker of `providers/fallback_provider.py` | `failures`, `cooling`, `halfOpen` are its dictionaries, a moment being the time that is left | `RecordFailure`, `RecordSuccess`, `ResetBreaker`, `Tick` |
| `ProviderFallback`, extends it | `call` and `call_with_router`, the router's selection and its table | `config` the table; `index` the round robin; `at`, `on`, `rows` where each call stands, whom it waits for, whom it has still to try | `BeginChain`, `Answers`, `Fails`; `BeginRouted`, `Select`, `FirstAnswers`, `FirstFails`, `ListOthers`, `TryOthers`; `Create`, `Update`, `Delete`, `Reset`; `TimePasses` |
| `ProviderStore` | rows of a provider and of its users' keys behind the one connection of `ProviderRouter` | `own`, `disk` the rows as the connection sees them and as committed; `tx`, `behind`, `other` its transaction, its snapshot, another connection's lock; `at` the next statement of each request | `Create`, `Update`, `DeleteChecks`, `Delete`, `CookiesCheck`; `SetKeyChecks`, `UpsertKey`, `RemoveKey`; `Commit`, `ReadBack`, `Look`, `IsRefused`; `OtherLocks`, `OtherEnds`, `Restart` |
| `FeatureGates` | `get_feature_gates` and `requires_feature` | `file`, `mtime` are the editor's; `cache`, `seen` the module's `_gates_cache`, `_gates_mtime`; `looked`, `stat` a call between `getmtime` and `open`; `answer` the gates by which the last call decided, or whom it let in | `FileIsMissing`, `CacheHit`, `CacheMiss`, `Reload`, `ReloadFails`; `Write`, `Remove`, `Restore`, `ServerRestarts` |
| `PlatformUpload` | `publish_video()` of the four video platforms and `publish_to_wechat()` | `pos` the step of its flow; `acked`, `tries`, `verdict` what the publisher knows; `stored`, `posts` what the platform has | one action per kind of request and outcome |
| `Publishing`, extends it | publish tasks in `routers/publish.py` | `row`, `when` columns of `jobs`; `worker` handler and background task; `desktop` the client that polls | the create handlers, `MarkScheduled`, the stages of the background task, poll and publication by the desktop client, `retry_job`, restart |
| `WorkerPool` | `auto_exec/parallel.py` | `engine`, `batch`, `pending`, `collected` are locals of `run()`; `worker` the status, `monitor` the coroutine, `outbox` the file of each worker | dispatch, waits, the exception of a monitor; its polls, which may raise; messages of workers, cancellation, clean-up |
| `AutoExec`, extends it | the sequential orchestrator and the pool over one plan file | `plan`, `needs` columns of the file; `at`, `task`, `tries` the orchestrator; `progress` the file | find, call, retry and finish a task; edits of the plan; start of either executor |
| `StoryPipeline` | one run from article to film | `scenes`, `audio_clips`, `mixed_audio`, `result` are the pipeline's variables; `files` what is on disk: absent, broken off or whole | one action per stage and outcome |
| `MC*` | instances for TLC | | |
| `*Proofs` | theorems: `VideoJobsProofs` about `VideoConcurrency` and `VideoJobs`, `AccountProofs` about `Membership`, `Quota` and `FeatureGates`, `PipelineProofs` about `BlockGraph`, `BlockEngine` and `StoryPipeline`, the others about the module in their name | | |
| `RecursionTheorems` | induction over intervals of numbers, recursive functions, filtered lists | | |

Where one proof module is about several components, the names in these differ
(`QuotaSpec`, `GatesSpec`, `StorySpec` beside `Spec`). `VideoConcurrency` implements
`BoundedLine` (queue for line, living tasks for those
served, answered jobs for those seen), and `VideoJobs` implements `VideoConcurrency`.

Choices worth knowing when reading them:

- **Atomicity.** `submit()` and the `finally` of `_run_with_release` await only
  coroutines that do not suspend, so each is one action: the count, the queue and
  the new task change together. A statement of SQLite with its commit is one
  action, but for `ProviderStore`, whose point is that they are two. Where the code
  awaits between a read and a write (`increment_usage`, `retry_job`, the handler after
  `submit()`), the model has two actions.
- **Job ids** are `uuid4`, so every job is submitted at most once.
- **Memory.** The memory check may refuse any submission.
- **Gate.** `_sync_concurrency_gate` copies the YAML file's value at each
  submission; the model takes any value of `GateValues` there.
- **POST /video.** `run_pipeline_v2` fails on its import, so the background task
  of such a job has no effect on the row; `EndTask` is all it does.
- **Crash.** `Restart` gives a new controller; the rows stay as they were.
  Jobs that waited or ran are marked `killed` in `task`. Nothing in the code
  looks at their rows again, although docs/PRD.md:595 wants running jobs reset.
- **Retry.** `retry_job` sets the row to `pending` and answers "Job queued for
  retry" (routers/jobs.py:162-170); nothing submits the job again, and no action
  of the model does. For a publish task the desktop client's poll may find it.
- **drain.** It sets no flag that `submit` looks at, although docs/DESIGN.md:147
  says it refuses new tasks: `Submit` stays enabled while draining, and `drain`
  returns only when no task happens to be active.
- **Engine.** `_persist_state` is entered through `SaveThen` and left by `Save` or
  `SaveFails`, so that a crash can fall between the change in memory and the row.
  Values of inputs and outputs are abstracted to their presence. The store is
  always there, as the pipeline passes `db_path`.
- **Two databases.** `get_db` opens the SQLite file, `get_db_pg` the database of
  `database_url`; each has tables users and subscriptions. `Membership` keeps both,
  or one when `SharedDatabase` says the url names that file. In a file of its own
  the account may have no row (`"absent"`): the UPDATE of the webhook then matches
  nothing. Tables payments and subscriptions have no foreign key to users.
- **Transactions.** SQLAlchemy flushes changed columns before the next SELECT and
  writes only columns whose value differs from what was read; so an upgrade that
  changes the plan holds a row lock from its second read to its commit, and one
  that keeps the plan writes nothing to users. A writer that meets the lock waits.
  SQLite's busy timeout, after which the request fails with 500, is left out. Two
  first upgrades both INSERT; the unique key fails the second (`UpgradeRollsBack`).
- **Dates.** The webhook stores `...T...`, the ORM a space in that place, and the
  expiry compares strings: `Ended` compares instants for the one and days for the
  other.
- **Status of a step.** The pipeline's labels ("splitting", ...) are represented
  by the node's id.
- **Breaker.** Counts of failures from the threshold on behave alike and are
  represented by the threshold. A first provider that answers is returned without
  `record_success` (fallback_provider.py:230), so failures that are not consecutive
  can open a circuit, although lines 25-27 speak of consecutive ones; the model does
  as the code does, and only the other direction is a property. The fallback list
  ignores `enabled`, and so does the model's.
- **Lost answers.** Each request of a publisher may have its effect and still be
  answered with an error; `stored` and `posts` are the platform's, `acked` and
  `verdict` the publisher's. Covers never reach a publisher, because the router
  fetches them with a client it has closed (routers/publish.py:384-394), so covers are
  left out.
- **Xiaohongshu.** The completion of the upload uses `base64`
  (services/xiaohongshu_publisher.py:307), which is imported inside `publish_video`
  only (line 553), and raises a NameError: the flow ends there and the task fails.
- **One connection.** `ProviderRouter` keeps one aiosqlite connection for all
  coroutines. Python opens a transaction before a statement that writes, and nothing
  rolls back when that statement fails: a violated key keeps the lock it has taken, a
  refused one leaves the transaction begun, and the next SELECT in it takes a snapshot.
  Once another connection has committed, every later write from the old snapshot is
  refused, until a commit that was already due or a restart ends the transaction. A
  user has one request at a time. Of a provider's row only its presence matters to
  the statements; keys are model values, their encryption is left out.
- **Time of the gates' file.** Edits move it on, since seconds pass between them, but
  `Restore` brings a file back with a time it may have had before, or no later one.
- **Contents of the gates' file.** What matters is what `gates.get("features", {})`
  makes of it: a version that gates the feature; a file that parses and does not list it
  (`"unlisted"`), with nothing under `features:` (`"null"`: the cache is None and every
  gated request fails), or with a bare word in the place of a table (`"word"`: the same,
  but cached); or what does not parse (`"broken"`). A file cut short may be any of them,
  and a file that drops the feature on purpose looks no different from one that was cut.
- **Credentials.** `get_current_user` takes every signed token with a subject
  (middleware/auth.py:67-72), whatever its type and whether or not it was revoked, so a
  login issues two: the access token with the tier of the account, and the refresh token,
  which names no tier and counts as 1 (middleware/feature_gate.py:111).
- **Schedules.** A text without zone is compared, one with a zone raises and the task
  fails, one that is no date is ignored and the task published at once. Between the
  INSERT of `pending` and the UPDATE to `scheduled` the desktop client can take the
  task; the model lets it.
- **Articles** for a platform other than WeChat have no background task; their rows
  stay `pending` until the desktop client takes them.
- **Workers of the pool** are other processes: they write final messages in any
  order and number, up to `MaxMessages`, or none. A monitor may find a worker silent
  or too late at any of its polls, or a line that makes the readers raise: they catch
  what is no JSON, and not JSON that is no message. A task whose calls all fail is reported by an
  error that the orchestrator counts as completed; the first such task leads the
  list again and can starve later ones. Status CANCELLED is never set: a
  cancelled worker is `failed`, also when it had completed.
- **Story time** is counted in half-seconds. The code's numbers are 30 seconds for
  a scene and one for a crossfade; the instance takes 6 and 2 ticks, which keeps the
  only relation that matters, a limit of three crossfades (`StoryAssumption`). Every stage blocks the
  event loop except speech, so nothing interleaves with a run. The speech file is named by a
  hash of the text; scenes with equal text share a file with equal content.

### Mutants

Operators whose name begins with `Bug` stand next to the definition they
distort. No specification uses them. PROJECT.json pairs each property of a
passing run with one: put in the place of the definition, it makes TLC find the
property violated. They document which mistake each property catches: a slot not
counted, a queue entry peeked instead of popped, a count set to the limit instead
of decremented, a retry of an upload that skips a chunk, and so on.

## 3. Runs

Bounds are named constants; they appear in guards of environment steps only
(faults, resets, restarts, edits, messages), never in a step of the program.

| Run | Instance | Shows |
|---|---|---|
| `video_safety` | four jobs, one of them a story job, one slot, two queue places, gate on, one crash, one failing statement | the controller is a bounded line: at most one video at a time, in turn, nobody waits beside a free slot; every accepted job is in one place; rows agree with answers; shutdown loses nothing; final rows stay |
| `video_live` | three jobs, gate switched freely, one `reset()` | no stranded queue, queued jobs run, `drain` returns, a story job that waited settles |
| `quota_day` | four requests, quotas 2 and 3, one crash | exact count, no over-grant |
| `engine_graphs` | all 2048 graphs over three nodes with self loops and an unknown node, two retries, one failing database call | the order is topological, inputs are ready, saved state agrees, the outcome is honest (failure stops the graph and reaches the row, success means the whole graph), the run ends |
| `member_shared` | one shared database; a completed and a failed delivery for one payment, two upgrades, one login, four half days, a plan of one day and a half, one restart | an expired plan is free, premium tokens and access tokens of a closed login fade, its refresh token ends when it would have ended, nothing expires early |
| `providers` | two providers, threshold and cool-down two; a chain and a routed call, each repeated without end; two changes by an administrator, resets at will | a failing provider is never taken for healthy, selection is fair while the same providers are available, an open circuit is tried again |
| `publish` | one task of any platform, files of one or three chunks, three tries; two failing writes, two `retry_job`, one restart, a polling desktop client | no second post unless the first one's answer was lost, only whole files are posted, the row tells what was posted, an offered task is idle, a task settles |
| `autoexec` | three tasks, independent or the third after the first; two workers at a time; two edits of the plan, two final messages, one cancellation or clean-up, unreadable lines | dependencies are answered first, a success is earned by a worker's first word, a batch ends with a verdict on every task or in the exception of a monitor |
| `story` | all articles of up to four sentences of four lengths, every outcome of every stage | success means a video written to the end, with no broken clip in its sound; scenes tile the text, every crossfade after the first fits |
| `store` | two users, two administrators or desktop clients, two keys; another connection that writes at any time, a restart at any time | what a user was answered is on the disk; the shared transaction stays open only after a failure |
| `gates` | two versions of the file, three ways of being cut short, four edits, one restart | answers from the cache are fresh, a gated feature is given up only by a load of a file that parses and does not gate it |
| `video_gate` | three jobs, gate switched | the finding below |

Why these bounds suffice to show the interesting cases:

- *Jobs.* With one slot and two queue places, four jobs are the fewest that fill the
  slot and the queue and have one refused; three are the fewest for two to wait.
  In `video_safety` jobs of one kind are interchangeable, which the symmetry set
  states; it is not used in a run with liveness.
- *Quota.* Four requests at a quota of two let two be granted and two contend over
  the limit.
- *Graphs.* Three nodes give every shape of chain, fork and join, with cycles of
  length one to three, and two parallel paths; two retries are what the pipeline
  asks for.
- *Membership.* The clock runs past the end of the plan and past the end of that day, a
  token expires before the plan and a refresh token before the clock stops; two
  upgrades and a webhook are the fewest that make one of them find a row inserted or
  a lock held. A second copy of the same event, which `Copies` allows, adds no
  behaviour of the plan beyond a second extension of it, and multiplies the states by
  more than seven.
- *Providers.* Two overlapping calls are the fewest whose outcomes arrive out of
  order. With two providers a list can shrink below the index and grow again, and two
  changes are what it takes to do that while a call holds an old list.
- *The shared connection.* Two users and two administrators are the fewest with which
  one request's commit covers another one's statement of the same kind; with a third
  connection in the background each of them may find the lock taken or its snapshot old.
- *Edits of the gates.* A load meets at most one state of the file at each of its two
  looks; four edits allow a load in between, a file cut short or broken, a removal and a
  restored one.
- *Publish tasks* meet only in the poll, which treats each row by itself, and in a
  restart, so one task shows what can happen to it. Three chunks have a first, a
  middle and a last; two failing writes are the fewest that silence a task; two
  retries let the desktop client take a task that has failed, and again.
- *Tasks of a plan.* Three are the fewest that exceed two workers, and for a chain
  beside an independent task. `MaxStarts` is 1: either executor runs over a plan that
  is being edited. With both at once the instance outgrows the time a routine run
  may take; the code has no entry point that starts them together.
- *Articles.* The four sentence lengths are one shorter than a crossfade, one as long,
  one that nearly fills a scene, and one longer than a scene may be. Four
  sentences make up to four scenes, and the second crossfade is the first that
  depends on an earlier one.

Deadlock is not checked where the system may stop: after a shutdown without a
restart, after a run of the engine, of the executors or of the story pipeline, when
a publish task is over. `quota_day`, `providers`, `store` and `gates` check it;
`member_shared` stops with the clock.

Type invariants are listed in a run where a mutant of the code breaks them; every module's
is a theorem.

### Fairness

Every fairness condition is weak. `JobsFairness`: the event loop runs every coroutine
that is ready, and a request that has begun is carried to its end; `drain` polls until
it can return. That a generation job ends is an assumption: its requests, the
composition, the mux and the silence have time-outs, but the ffmpeg commands of the
slideshow and of the mix have none (services/story2video/slideshow.py:235), and one that
hangs keeps `QueuedJobRuns` and `DrainReturns` from holding.
Nothing is assumed of new requests, of an operator's stop, reset or retry, of memory,
of the gate or of crashes. `DrainReturns` holds although new submissions are allowed
while draining because the number of jobs is finite; under an endless stream of
submissions `drain` may wait for ever. Liveness of jobs is checked in histories in which
no statement of the routers raises; the safety run includes such statements.

`BlockEngine!FairSpec`: the one coroutine goes on. `ProviderFallback!Fairness`: time
passes and a call that has begun is carried on, since every request has a timeout of
120 seconds; nobody has to call. `OpenCircuitCools` still holds then, because
`is_available` looks at the clock alone. `Publishing!Fairness`: handlers that have begun,
background tasks and the clock go on; nobody has to create, retry, poll or restart.
`AutoExec!Fairness`: coroutines go on and the model answers or the call fails; no
worker has to answer and nobody has to edit the plan, so `BatchEnds` rests on the
monitors' time limits. Nobody has to write an unreadable line either.

## 4. Findings

**A gate that was off leaves two chains** (`video_gate`,
services/concurrency_control.py:123). While the gate is off `submit` starts a
task beside the running one. Each `finally` then starts a waiting job without
comparing the count with the limit, so with the gate on again jobs are still
started side by side until the queue runs empty. The class promises "strict
single-concurrency video tasks" (line 29).

What the models show beside their properties, or reading them against the code showed,
without a run of its own:

- *Payments.* The webhook updates the SQLite tables (routers/payment.py:182); login,
  `/me` and `/subscription` read the database of `database_url`, PostgreSQL by default
  (config.py:29). A payment then does not reach the account, although
  tests/test_payment.py:181-187 expects the new plan there. With `SharedDatabase` both
  are one, and `member_shared` is about what happens then.
- *Jobs.* The task is started before the handler writes `processing`
  (routers/video.py:82); a task that fails quickly has written `failed` first, and the
  row is never final again. `FinalOnceAnswered` exempts exactly this. The queue has
  10 places, not 5 (docs/DESIGN.md:141). `increment_usage` is called without
  `subscription_type` (routers/video.py:149), so paid plans get the free quota, against
  docs/membership-design.md:21. `run_pipeline_v2` imports `db.get_db_path`, which does
  not exist (services/pipeline_v2.py:285), so a POST /video stays `processing`;
  `_finalize`'s UPDATE names a column `output_path` that `jobs` lacks
  (services/pipeline_v2.py:236). Job statistics count `completed` while the routers
  write `done`.
- *Engine.* `RetryPolicy.non_retryable_exceptions` is never consulted; `load_states`,
  written "for resuming", has no caller.
- *Providers.* The fallback list ignores `enabled`; the index that
  `RoundRobinState.next` returns may be past the list, which the caller's modulo makes
  good. A user's key that is set after an earlier one was deleted is answered with
  success, stored (`AnsweredKeyHolds`) and never used: the ON CONFLICT branch
  (services/provider_router.py:125) does not take back `is_active = 0`, against the
  class's docstring ("Returns user's key if set, else admin key", line 156).
- *Feature gates.* A file that is replaced by another one with an older or equal time is
  not loaded (middleware/feature_gate.py:56), against "If the file has changed since the
  last load, reloads it transparently" (lines 43-44). `HitIsFresh` exempts it. A file
  that is cut at a line boundary while it is being written parses: gates without the
  feature are loaded and it is open to all (lines 60-65, 106-108), a bare `features:` or
  a word after it fails every gated request, until a later call finds a newer time. The
  docstring promises "the previous (valid) cache" for an "incomplete write" (lines 45-46);
  that holds only of one that does not parse, which is what `GateFallsByItsFile` says.
- *Tokens.* The refresh token is accepted wherever an access token is, for
  `refresh_token_expire_days`, also after the logout that revoked it
  (middleware/auth.py:67-76 looks at neither type nor revocation). `TokensFade` bounds
  this by the token's own end and by tier 1.
- *Migration of users.* scripts/migrate_users.py:140 skips a user whose pair of name and
  address exists; if only one of the two is taken the INSERT violates a unique key and
  the whole run fails, against its docstring (lines 8-9). The script is not modelled.
- *Publishing.* Xiaohongshu tasks always fail at the completion of the upload
  (services/xiaohongshu_publisher.py:307 uses `base64`, imported inside `publish_video`
  only). A success whose write fails becomes `failed`, and a retry then offers a posted
  video to the desktop client. tests/test_publish_status.py expects
  `PUT /publish/{id}/status`, which the router lacks. The second cookies route
  (routers/publish.py:553-585) is shadowed by the first.
- *Automatic execution.* `cancel_worker` makes a failure of a worker that has completed
  (auto_exec/parallel.py:222), a deadline that has passed hides a result not yet read
  (line 213), and a worker that is cancelled and then answers counts as its answer;
  `success_rate` follows. The readers catch what is no JSON and errors of the file
  system (lines 254, 274): a line that does not fit `OutboxMessage` or `Heartbeat`, or a
  character written by half, raises out of `monitor_worker`, and `done_task.result()`
  (line 417) out of `run()`. The results collected so far are lost, the other monitors
  go on unwatched, and that worker stays RUNNING for good. The orchestrator counts a
  task whose calls all failed as completed.
- *Story pipeline.* The composed video lasts as long as the longest scene times their
  number, while `duration_seconds` is the sum. The plain mux cuts the narration to the
  slideshow, which the crossfades make shorter. A skipped clip moves all later ones
  forward. A timeout of the mux (60 s) or of the silence (30 s) is not caught and fails
  the run, as a refusal of the speech service does.

## 5. Proofs

`tlapm` checks every theorem from the definitions and the named assumptions on
constants, which TLC evaluates in the runs: `ControllerAssumption` (finitely many
jobs, at least one slot and one queue place), `JobsAssumption`, `QuotaAssumption`,
`MembershipAssumption` (the two kinds of plan are disjoint, times are natural numbers),
`StoreAssumption` (nobody is both user and administrator), `GatesAssumption` (a version
is none of the other contents of the file), `BreakerAssumption` (threshold and cool-down
are positive), `FallbackAssumption` and `PlanAssumption` (lists name each provider, each
task once), `PoolAssumption`, `UploadAssumption` and `PublishingAssumption` (a file of
two chunks or more takes several requests, and a request is repeated at least once),
`NodeListAssumption` and `EngineAssumption` (nodes are named once, a graph is a list of
links), `StoryAssumption` (a sentence takes time; a scene may last three crossfades: 30
seconds against one in the code).

Every invariant and every action property of the runs is stated by a theorem, the type
invariants included. The inductive invariants that are new in a proof module were checked
by TLC on the instance of the run before they were proved.

**`RecursionTheorems`.** The library states induction and recursion for operators, which
the provers cannot instantiate. Here they are stated for sets and functions, which they
can: `IntervalInduction` (a subset of `0..N` that holds 0 and every successor is the whole),
derived from the well-foundedness of `<` with a set in the place of a predicate, and
`RecursionExists` (a recursive function on `0..N` exists and satisfies its equation),
without which `f[i] == ... f[i - 1] ...` is only a CHOOSE. Both need the step as a function
on a set, so the loops of the code (filter, Kahn's algorithm, segmentation, the length of
the film) are recursive functions in the modules, and never SelectSeq or a fold. From them
follow the theorems about `Filter` that three proof modules use.

**`VideoJobsProofs`, the controller.** `ControllerInv` joins the type invariant,
`ActiveCountsTasks`, `AcceptedJobHasOnePlace`, `NoStrandedQueue` and
`StrictlySerial`. None of the four is inductive alone. That the count goes up by
one when a waiting job starts needs that the job has no task yet
(`AcceptedJobHasOnePlace`); that shutdown leaves everybody in one place needs an empty
queue at count 0 (`NoStrandedQueue`) and no living task (`ActiveCountsTasks`); that
`StrictlySerial` survives a submission needs the count to be right. Three lemmas
about the cardinality of `Alive` and two about queues without repetition carry the
arithmetic; then there is one lemma per action. The action properties `NoOvertaking` and
`ShutdownLosesNothing` follow from the same invariant. `ActiveCountsTasks`,
`NoStrandedQueue`, `StrictlySerial` and `NoOvertaking` are theorems and not listed in a
run: `video_safety` checks the refinement `ImplementsLine`, which is stronger than the
last two, and `video_live` that queued jobs run.

`ControllerImplementsLine` proves that refinement: `Spec => Line!Spec`, for a gate that
stays on and without `reset`, the two things that break it. Initial states map to
initial states. For each action of the controller a step shows which step of the line it
is: `ActiveCountsTasks` turns the comparison of the count into one of living tasks, and
`NoStrandedQueue` says that the line is empty when a job is served at once, so that
nobody is overtaken. `JobsImplementLine` carries it to the routers.

**`VideoJobsProofs`, the routers.** `JobsImplementController` shows that the routers, the tasks
and the process together are an implementation of the controller's specification
(`JobsSpec => Spec`, variables mapped to themselves): every step is a controller
step or leaves the controller alone, so all its theorems hold end to end
(`JobsAreSerial`). `JobsInv` adds `RequestInv` (what the row and the answer are at
each point of the handler) and `WorkInv` (only the job's own task makes a row final,
as its last act; what is being retried is never written `done`). From it follow
`JobsTypeOK`, `RowTellsTheAnswer` and the action property `FinalOnceAnswered`. Two
frame lemmas, `SubmitFrame` and `ReleaseFrame`, say what a controller step can do to
the other jobs.

**`AccountProofs`, the quota.** `QuotaTypes`, `CountIsExact` and `NeverOverGranted` are inductive
together. The count stays a natural number only because the request that takes one
back is among the counted ones; a grant keeps within the limit because the count
that was read includes every granted request.

**`AccountProofs`, the membership.** `MembershipInv` proves `TypeOK`, `ExpiredMeansFree` and
`TokensFade` for one database or two, any number of deliveries,
upgrades and logins, and any lifetimes. `ExpiredMeansFree` is not inductive: an
upgrade that has read an active subscription will not write the status, so `ReadInv`
says that it is still active then (only a restart expires, and no request survives a
restart). Of `TokensFade`, `PremiumFades` needs `ClockInv` (while the plan is premium
the recorded moment is the present), `LogoutFades` needs `IssueInv` (no access token ends
later than one issued now, and a refresh token has tier 1 and ends with its session).
Two frame lemmas, `TokensAside` and `SessionsAside`,
separate the steps that change plans from those that issue tokens. The action property
`NoEarlyExpiry` needs no invariant beyond the types, but that the day of a moment, a
division, grows with the moment (`DaysAreOrdered`): comparing strings loses no day.

**`ProviderStoreProofs`.** `StoreInv` proves `AnsweredKeyHolds` and
`OpenOnlyAfterFailure` for any number of users, administrators and keys. The first needs
`OwnAgrees`: whoever has executed a statement finds his row as he asked for it,
whoever has not finds it as committed; a commit by anybody then makes both agree, and a
restart returns to the disk exactly those who were not answered. `AsksForKey` and
`UserStages` say what a user's request may be waiting for.

**`AccountProofs`, the gates.** `GatesInv` proves `HitIsFresh` and `GateFallsByItsFile`.
The latter needs that whoever decided by a version had it from the cache
(`AnswerIsCached`), which every failing path returns again.
`HitIsFresh` needs that nobody has recorded a time later than the file's
(`TimesAreRead`) and that a cache with the file's time holds the file's content
(`CacheIsFile`); both hold because the time is read before the file is opened, so an edit
in between leaves an old time behind and the next call loads again; so it is with a file
that is loaded while it is cut short.

**`ProviderFallbackProofs`.** `FailingProvidersAreIsolated`: the breaker knows of at least as many
failures as there were in a row (`NoFailureIsMissed`), whatever order the outcomes of
overlapping calls come in, and although a success of a first routed call is not recorded.
`RoundRobinIsFairAlways` needs more than the remembered picks being different:
`PicksAreNeighbours` says that they are the places of the list that lie before the index,
round the end if need be, so that the next place is new until all were picked. The index
that a shrunk list leaves too large is the reason for the case of a new list, which
remembers nothing. `NextRemainder` supplies what division with remainder the solver lacks.

**`AutoExecProofs`.** `VerdictsEarned`: a worker's file only grows, and a success is
taken from its first message only, so no later message, cancellation or removal makes a
success out of a failure (`VerdictInv` is inductive as it stands, with the types of the
pool). `TasksRunAfterDependencies` needs that whatever the plan calls
done was answered (`DoneWasAnswered`), that nobody takes an answer back, and that tasks
still waiting in the pool, chosen from a plan that has changed since, had their
dependencies answered when they were chosen (`PoolMayRun`). `AutoExecTypes` includes
that at most `max_concurrent` workers are monitored at once, the ones an engine that
failed has left behind among them: `OneWave` counts those that were started.

**`PublishingProofs`.** `PublishingInv` is a conjunction of one part for each task, and
`OneTaskKeepsInv` reduces a step to the task it is about. `UploadOK` relates the
publisher's knowledge to the platform's: chunks up to the last acknowledged one are
stored, a post is beyond the lost answers at most once, and, by the place in the flow, the
file is complete past its step and there is no post before its own (`Running`). Every kind
of request keeps it, for each flow. `RowOK` says what each stage of the background task
knows of the row. From both follow `NoNeedlessDuplicate`, `RowTellsTheTruth`,
`OfferedTaskIsIdle` and the action property `PostsWholeFile`.

**`PipelineProofs`, the graph.** `ValidGraphsAreSorted` and `SortableGraphsAreValid` are the
correctness and the completeness of Kahn's algorithm for every graph: its loop invariant
`KahnInv` says that the degree of a node is the number of links from nodes not yet listed,
that it is 0 exactly for the nodes listed or queued, and that nodes are listed after those
with a link to them. That the loop is through after as many visits as there are keys is a
matter of counting. If a graph has an order, and a node were missing from the list, the
first missing node of that order would have degree 0.

**`PipelineProofs`, the engine.** `EngineInv` ties the program counter to the order:
nodes before `pos` are completed with their output, those after it are untouched
(`NodesFollowOrder`), and the current one is as the point in the code says
(`CurrentNode`). `RunsAfterUpstream` and `OutcomeIsHonest` are not inductive without it.
`StoredAgrees`, which speaks of the moments between two saves, follows from
`SavedStates`, which also knows what a save in progress may leave behind.

**`PipelineProofs`, the story.** `SegmentTiles`: the loop invariant `SegInv` says that the
closed scenes tile the text up to the open one, whose length is that of its sentences.
`NeighboursAreLong`: of two neighbouring scenes the second begins with a sentence that did
not fit into the first, so together they outlast the limit. That is why every crossfade
after the first fits although a scene may be shorter than one (`FilmFits`): with a limit
of three crossfades the film before it is longer than it, two pictures at a time. The
first has one picture before it only, and begins too early if that scene is short.
`StoryInv` adds to this that each stage finds whole what it is handed on (`StoryClips`,
`StoryFiles`), and `ResultIsHonest` follows, which is about the clips there are: a film
may have no sound, or that of its first clip only.

Only model-checked: liveness (`QueuedJobRuns`, `DrainReturns`, `WaitingStoryJobSettles`,
`RunEnds`, `OpenCircuitCools`, `TaskSettles`, `BatchEnds`), which needs fairness and
ENABLED, for which there is no prover here.

## 6. Not modelled

Language-model prompts, HTML collection, formatting, statistics and the filters given to
ffmpeg are data without control that could go wrong between actors. Cryptography and
the rate limiter are libraries. The signal handler's effect depends on the server.
The setter of `max_queue_size` is called by tests only. Registration is decided by
a unique key; API keys are not in `Membership`. Threads do not appear in the
modelled code. The migration of users is a script that is run once, by hand.

Of the providers, the selection strategies other than round robin are pure choices. Of
publishing, the image posts of Xiaohongshu, which repeat the shape of the video flow,
are left out; so are the phases of `auto_exec/orchestrator.py:312-366` and `auto_exec/memory.py`, which
read files and join strings; and the disk that refuses a worker's files (`create_worker`).
The content routers, the dashboard and the administration
are single statements around external calls, with no state that two of them share. Of
the story pipeline's options, `bgm_path` and `max_scenes` are not used by the code.

The quota is not composed with the jobs, so that a job refused by
the controller keeps its place in the day's count is seen in the code
(routers/video.py:60) and not in a run.

## 7. Plan

Done, in this order, the system's core promise first: `VideoConcurrency` and
`VideoJobs` with proofs; `Quota` with proofs; `BlockGraph` and `BlockEngine`;
`Membership` with proofs; `ProviderFallback`; `Publishing`; `AutoExec`; `BoundedLine`
and the refinement with its proof; `StoryPipeline`; `ProviderStore` and `FeatureGates`
with proofs; induction and recursion as theorems; then every remaining invariant and
action property: of providers, automatic execution, publishing, engine and story.

Next:

1. The composition of `Quota` with `VideoJobs`, for what a refused job does to the day's
   count (routers/video.py:60).
2. Safety parts of the liveness properties that could be proved: that a monitor which polls
   has polls left, that a task which settles has no other way out.
3. An abstract specification of a publish task, post at most once beyond lost answers,
   that `Publishing` implements.
