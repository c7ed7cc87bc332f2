-------------------------- MODULE PublishingProofs --------------------------
(***************************************************************************)
(* Theorems about publish tasks and the uploads inside them, for any       *)
(* number of tasks, chunks and tries, and any number of failed writes,     *)
(* retries of a job, polls of the desktop client and restarts.             *)
(***************************************************************************)
EXTENDS Publishing, SequenceTheorems, TLAPS

-----------------------------------------------------------------------------
(* The inductive invariant.                                                *)

AllPlatforms == VideoPlatforms \cup {"wechat_mp", "elsewhere", NoPlatform}

UploadTypes ==
  /\ platform \in [Tasks -> AllPlatforms]
  /\ size \in [Tasks -> 0..Parts]
  /\ pos \in [Tasks -> Nat] /\ acked \in [Tasks -> Nat]
  /\ tries \in [Tasks -> 0..MaxRetries - 1]
  /\ verdict \in [Tasks -> {"none", "published", "refused"}]
  /\ stored \in [Tasks -> SUBSET (1..Parts)]
  /\ posts \in [Tasks -> Nat] /\ lost \in [Tasks -> Nat]

RowTypes ==
  /\ row \in [Tasks -> Rows]
  /\ when \in [Tasks -> {"unset", "later", "garbage", "zoned"}]
  /\ due \in [Tasks -> BOOLEAN]
  /\ worker \in [Tasks -> Workers]
  /\ desktop \in [Tasks -> {"unaware", "holds", "posted"}]
  /\ dbErrors \in 0..MaxDbErrors
  /\ retries \in [Tasks -> 0..MaxRetryCalls]
  /\ restarts \in 0..MaxRestarts

\* The place of the file, and that of the post, in the flow of a platform;
\* xiaohongshu never comes to a post.
FileAt(t) ==
  CASE platform[t] = "bilibili"      -> 3
    [] platform[t] = "douyin"        -> 3
    [] platform[t] = "tencent_video" -> 5
    [] platform[t] = "xiaohongshu"   -> 4
    [] OTHER                         -> 0

PostAt(t) ==
  CASE platform[t] = "bilibili"      -> IF size[t] > 1 THEN 5 ELSE 4
    [] platform[t] = "douyin"        -> 4
    [] platform[t] = "tencent_video" -> 7
    [] platform[t] = "xiaohongshu"   -> 6
    [] OTHER                         -> 2

\* While publish_video() runs: the file is complete when it is past it, it has
\* not heard of a post, and it has tried as often as there are posts.
Running(t) ==
  /\ verdict[t] = "none"
  /\ posts[t] = lost[t]
  /\ pos[t] < FileAt(t) => acked[t] = 0
  /\ pos[t] = FileAt(t) => acked[t] < size[t]
  /\ pos[t] > FileAt(t) => acked[t] = size[t]
  /\ pos[t] < PostAt(t) => posts[t] = 0
  /\ posts[t] <= tries[t]

UploadOK(t) ==
  /\ pos[t] <= Len(Flow(t))
  /\ platform[t] \in VideoPlatforms => size[t] > 0
  /\ platform[t] \notin VideoPlatforms => size[t] = 0
  /\ acked[t] <= size[t]
  /\ 1..acked[t] \subseteq stored[t] /\ stored[t] \subseteq 1..size[t]
  /\ lost[t] <= posts[t] /\ posts[t] <= lost[t] + 1 /\ posts[t] <= MaxRetries
  /\ verdict[t] = "refused" => posts[t] = lost[t]
  /\ verdict[t] = "published" => posts[t] > 0 \/ platform[t] = "tencent_video"
  /\ pos[t] > 0 => Running(t)

\* Nothing has been sent to the platform.
Untouched(t) ==
  /\ pos[t] = 0 /\ acked[t] = 0 /\ tries[t] = 0
  /\ verdict[t] = "none"
  /\ stored[t] = {}
  /\ posts[t] = 0 /\ lost[t] = 0

\* What the row of a task says of its background task, and the other way round.
RowOK(t) ==
  /\ row[t] = "absent" => worker[t] = "none"
  /\ row[t] \in {"success", "failed"} => worker[t] = "ended"
  /\ worker[t] = "fetching" => row[t] = "downloading"
  /\ worker[t] = "uploading" /\ platform[t] \in VideoPlatforms => row[t] = "publishing"
  /\ worker[t] \in {"none", "marking", "created", "sleeping", "ready", "fetching"}
       => Untouched(t)
  /\ worker[t] # "uploading" => pos[t] = 0
  /\ worker[t] = "failing" /\ posts[t] > 0 => dbErrors > 0
  /\ row[t] = "success" => posts[t] > 0 \/ platform[t] = "tencent_video"
  /\ row[t] = "failed" /\ posts[t] > 0 => lost[t] > 0 \/ dbErrors > 0

TaskOK(t) == UploadOK(t) /\ RowOK(t)

PublishingInv == UploadTypes /\ RowTypes /\ \A t \in Tasks : TaskOK(t)

-----------------------------------------------------------------------------
(* The flows, and what a request changes.                                  *)

\* How long the flow of a platform is, and where its post is in it.
LEMMA FlowLength ==
  ASSUME NEW t \in Tasks
  PROVE  /\ Len(Flow(t)) = IF platform[t] = "xiaohongshu" THEN 5 ELSE PostAt(t)
         /\ PostAt(t) \in Nat /\ Len(Flow(t)) \in Nat /\ Len(Flow(t)) <= PostAt(t)
<1>1. Len(Flow(t)) = IF platform[t] = "xiaohongshu" THEN 5 ELSE PostAt(t)
  BY DEF Flow, PostAt, BilibiliFlow, DouyinFlow, TencentFlow, XiaohongshuFlow, WechatFlow
<1>2. PostAt(t) \in Nat
  BY DEF PostAt
<1>3. platform[t] = "xiaohongshu" => PostAt(t) = 6
  BY DEF PostAt
<1> QED
  BY <1>1, <1>2, <1>3

Preparations == {"cookies", "permit", "finder", "init", "complete"}

\* Where a task stands in its flow when it is at a request of some kind.
LEMMA FlowSteps ==
  ASSUME NEW t \in Tasks, NEW where \in VideoPlatforms \cup {"wechat_mp"}, NEW step,
         At(t, where, step), pos[t] \in Nat, pos[t] <= Len(Flow(t))
  PROVE  /\ pos[t] > 0 /\ platform[t] = where
         /\ step \in Preparations => pos[t] # FileAt(t) /\ pos[t] # PostAt(t)
         /\ step \in Preparations /\ (where # "xiaohongshu" \/ step # "complete") =>
              pos[t] + 1 <= Len(Flow(t))
         /\ step \in {"chunks", "single"} =>
              /\ pos[t] = FileAt(t) /\ pos[t] < PostAt(t)
              /\ pos[t] + 1 <= Len(Flow(t))
         /\ step = "post" => pos[t] = PostAt(t) /\ pos[t] > FileAt(t)
<1>1. /\ pos[t] > 0 /\ platform[t] = where /\ Flow(t)[pos[t]] = step
  BY DEF At
<1>2. pos[t] \in 1..7
  BY <1>1, FlowLength DEF PostAt
<1>3. CASE where = "bilibili" /\ size[t] > 1
  BY <1>1, <1>2, <1>3, FlowLength DEF Flow, BilibiliFlow, PostAt, FileAt, Preparations
<1>4. CASE where = "bilibili" /\ ~(size[t] > 1)
  BY <1>1, <1>2, <1>4, FlowLength DEF Flow, BilibiliFlow, PostAt, FileAt, Preparations
<1>5. CASE where = "douyin"
  BY <1>1, <1>2, <1>5, FlowLength DEF Flow, DouyinFlow, PostAt, FileAt, Preparations
<1>6. CASE where = "tencent_video"
  BY <1>1, <1>2, <1>6, FlowLength DEF Flow, TencentFlow, PostAt, FileAt, Preparations
<1>7. CASE where = "xiaohongshu"
  BY <1>1, <1>2, <1>7, FlowLength DEF Flow, XiaohongshuFlow, PostAt, FileAt, Preparations
<1>8. CASE where = "wechat_mp"
  BY <1>1, <1>2, <1>8, FlowLength DEF Flow, WechatFlow, PostAt, FileAt, Preparations
<1> QED
  BY <1>3, <1>4, <1>5, <1>6, <1>7, <1>8 DEF VideoPlatforms

Control(u) == <<pos[u], tries[u], verdict[u]>>

\* How the ends of a request move the publisher, and that they move no other one.
LEMMA ControlMoves ==
  ASSUME UploadTypes, NEW t \in Tasks
  PROVE  /\ NextStep(t) =>
              pos'[t] = pos[t] + 1 /\ tries'[t] = 0 /\ verdict'[t] = verdict[t]
         /\ \A v : Ends(t, v) => pos'[t] = 0 /\ tries'[t] = 0 /\ verdict'[t] = v
         /\ TriesAgain(t) =>
              pos'[t] = pos[t] /\ tries'[t] = tries[t] + 1 /\ verdict'[t] = verdict[t]
         /\ NextStep(t) \/ (\E v : Ends(t, v)) \/ TriesAgain(t) =>
              \A u \in Tasks \ {t} : Control(u)' = Control(u)
<1>1. /\ NextStep(t) =>
           pos'[t] = pos[t] + 1 /\ tries'[t] = 0 /\ verdict'[t] = verdict[t]
      /\ \A v : Ends(t, v) => pos'[t] = 0 /\ tries'[t] = 0 /\ verdict'[t] = v
      /\ TriesAgain(t) =>
           pos'[t] = pos[t] /\ tries'[t] = tries[t] + 1 /\ verdict'[t] = verdict[t]
  BY DEF UploadTypes, NextStep, Ends, TriesAgain
<1>2. ASSUME NextStep(t) \/ (\E v : Ends(t, v)) \/ TriesAgain(t),
             NEW u \in Tasks \ {t}
      PROVE  Control(u)' = Control(u)
  BY <1>2 DEF UploadTypes, NextStep, Ends, TriesAgain, Control
<1> QED
  BY <1>1, <1>2

ControlTypes ==
  /\ pos \in [Tasks -> Nat]
  /\ tries \in [Tasks -> 0..MaxRetries - 1]
  /\ verdict \in [Tasks -> {"none", "published", "refused"}]

\* Where a publisher is, whatever its request came to.
LEMMA ControlKeepsTypes ==
  ASSUME UploadTypes, NEW t \in Tasks,
         \/ NextStep(t) \/ Ends(t, "published") \/ Ends(t, "refused")
         \/ TriesAgain(t) /\ tries[t] + 1 < MaxRetries
  PROVE  ControlTypes'
<1>1. MaxRetries \in Nat /\ MaxRetries > 1
  BY UploadAssumption
<1>2. CASE NextStep(t)
  <2>1. pos' \in [Tasks -> Nat]
    BY <1>2 DEF UploadTypes, NextStep
  <2>2. tries' \in [Tasks -> 0..MaxRetries - 1]
    BY <1>1, <1>2 DEF UploadTypes, NextStep
  <2> QED
    BY <1>2, <2>1, <2>2 DEF UploadTypes, NextStep, ControlTypes
<1>3. CASE Ends(t, "published") \/ Ends(t, "refused")
  <2>1. pos' \in [Tasks -> Nat]
    BY <1>3 DEF UploadTypes, Ends
  <2>2. tries' \in [Tasks -> 0..MaxRetries - 1]
    BY <1>1, <1>3 DEF UploadTypes, Ends
  <2>3. verdict' \in [Tasks -> {"none", "published", "refused"}]
    BY <1>3 DEF UploadTypes, Ends
  <2> QED
    BY <2>1, <2>2, <2>3 DEF ControlTypes
<1>4. CASE TriesAgain(t) /\ tries[t] + 1 < MaxRetries
  <2>1. tries[t] + 1 \in 0..MaxRetries - 1
    BY <1>1, <1>4 DEF UploadTypes
  <2>2. tries' \in [Tasks -> 0..MaxRetries - 1]
    BY <1>4, <2>1 DEF UploadTypes, TriesAgain
  <2> QED
    BY <1>4, <2>2 DEF UploadTypes, TriesAgain, ControlTypes
<1> QED
  BY <1>2, <1>3, <1>4

-----------------------------------------------------------------------------
(* One request of a publisher.                                             *)

Upload(u) == <<platform[u], size[u], pos[u], acked[u], tries[u], verdict[u],
               stored[u], posts[u], lost[u]>>

Elsewhere(t) == \A u \in Tasks \ {t} : Upload(u)' = Upload(u)

\* A request of publish_video() keeps what is known of the upload and changes
\* nothing about other tasks.
KeepsUpload(t) == UploadTypes' /\ UploadOK(t)' /\ Elsewhere(t)

\* A flow depends on the platform and the size of the file alone.
LEMMA FlowStays ==
  ASSUME NEW t \in Tasks, UNCHANGED <<platform, size>>
  PROVE  FileAt(t)' = FileAt(t) /\ PostAt(t)' = PostAt(t) /\ Len(Flow(t)') = Len(Flow(t))
BY DEF FileAt, PostAt, Flow, BilibiliFlow, DouyinFlow, TencentFlow, XiaohongshuFlow,
       WechatFlow

\* An exception or a final refusal before the post.
LEMMA RefusalKeepsUpload ==
  ASSUME UploadTypes, NEW t \in Tasks, UploadOK(t), pos[t] > 0, Ends(t, "refused"),
         UNCHANGED <<platform, size, acked, stored, posts, lost>>
  PROVE  KeepsUpload(t)
<1>1. pos'[t] = 0 /\ verdict'[t] = "refused"
  BY ControlMoves
<1>2. UploadTypes'
  BY ControlKeepsTypes DEF UploadTypes, ControlTypes
<1>3. UploadOK(t)'
  BY <1>1, FlowStays, FlowLength DEF UploadOK, Running, PostAt
<1>4. Elsewhere(t)
  BY ControlMoves DEF Elsewhere, Upload, Control
<1> QED
  BY <1>2, <1>3, <1>4 DEF KeepsUpload

\* Requests that send neither a chunk nor a post.
LEMMA PreparationKeepsUpload ==
  ASSUME UploadTypes, NEW t \in Tasks, UploadOK(t),
         NEW where \in VideoPlatforms \cup {"wechat_mp"}, NEW step \in Preparations,
         where # "xiaohongshu" \/ step # "complete",
         Prepares(t, where, step)
  PROVE  KeepsUpload(t)
<1>1. /\ pos[t] \in Nat /\ pos[t] > 0 /\ pos[t] # FileAt(t) /\ pos[t] # PostAt(t)
      /\ pos[t] + 1 <= Len(Flow(t)) /\ platform[t] = where
  BY FlowSteps DEF Prepares, UploadTypes, UploadOK
<1>2. UNCHANGED <<platform, size, acked, stored, posts, lost>>
  BY DEF Prepares
<1>3. CASE NextStep(t)
  <2>1. pos'[t] = pos[t] + 1 /\ tries'[t] = 0 /\ verdict'[t] = verdict[t]
    BY <1>3, ControlMoves
  <2>2. UploadTypes'
    BY <1>2, <1>3, ControlKeepsTypes DEF UploadTypes, ControlTypes
  <2>3. Running(t)'
    <3>0. Len(Flow(t)) \in Nat /\ PostAt(t) \in Nat /\ Len(Flow(t)) <= PostAt(t)
      BY FlowLength
    <3>1. pos[t] < PostAt(t)
      BY <1>1, <3>0
    <3>2. posts[t] = 0
      BY <1>1, <3>1 DEF UploadOK, Running
    <3>3. FileAt(t) \in Nat /\ PostAt(t) \in Nat /\ acked[t] \in Nat /\ size[t] \in Nat
      BY DEF FileAt, PostAt, UploadTypes
    <3>4. pos[t] + 1 = FileAt(t) => size[t] > 0
      BY <1>1 DEF UploadOK, FileAt
    <3> QED
      BY <1>1, <1>2, <2>1, <3>1, <3>2, <3>3, <3>4, FlowStays DEF UploadOK, Running
  <2>4. UploadOK(t)'
    BY <1>1, <1>2, <2>1, <2>3, FlowStays DEF UploadOK, Running
  <2>5. Elsewhere(t)
    BY <1>2, <1>3, ControlMoves DEF Elsewhere, Upload, Control
  <2> QED
    BY <2>2, <2>4, <2>5 DEF KeepsUpload
<1>4. CASE Ends(t, "refused")
  BY <1>1, <1>2, <1>4, RefusalKeepsUpload
<1> QED
  BY <1>3, <1>4 DEF Prepares

\* The loop around a request: it gives up, or has another try.
LEMMA UnansweredEnds ==
  ASSUME NEW t \in Tasks, NEW again, NEW limit \in 1..MaxRetries, UploadTypes,
         Unanswered(t, again, limit)
  PROVE  Ends(t, "refused") \/ (TriesAgain(t) /\ tries[t] + 1 < MaxRetries)
<1>1. MaxRetries \in Nat /\ tries[t] \in Nat
  BY UploadAssumption DEF UploadTypes
<1> QED
  BY <1>1 DEF Unanswered

\* A chunk: the platform has all that the publisher takes for uploaded.
LEMMA ChunkKeepsUpload ==
  ASSUME UploadTypes, NEW t \in Tasks, UploadOK(t),
         NEW where \in VideoPlatforms, NEW step \in {"chunks", "single"},
         At(t, where, step), NEW again, NEW limit \in 1..MaxRetries,
         PutsChunk(t, again, limit)
  PROVE  KeepsUpload(t)
<1>1. /\ pos[t] \in Nat /\ pos[t] > 0 /\ pos[t] = FileAt(t) /\ pos[t] < PostAt(t)
      /\ pos[t] + 1 <= Len(Flow(t)) /\ platform[t] = where
  BY FlowSteps DEF UploadTypes, UploadOK
<1>2. UNCHANGED <<platform, size, posts, lost>>
  BY DEF PutsChunk
<1>3. /\ verdict[t] = "none" /\ posts[t] = 0 /\ lost[t] = 0 /\ acked[t] < size[t]
      /\ acked[t] \in Nat /\ size[t] \in 0..Parts /\ size[t] \in Nat
  BY <1>1, UploadAssumption DEF UploadOK, Running, UploadTypes
<1>4. acked[t] + 1 \in 1..size[t] /\ acked[t] + 1 \in 1..Parts
  BY <1>3, UploadAssumption
<1>5. FileAt(t) \in Nat /\ PostAt(t) \in Nat
  BY FlowLength DEF FileAt
<1>6. CASE ChunkIsAcknowledged(t)
  <2>1. /\ acked' = [acked EXCEPT ![t] = acked[t] + 1]
        /\ stored' = [stored EXCEPT ![t] = stored[t] \cup {acked'[t]}]
    BY <1>6 DEF ChunkIsAcknowledged
  <2>2. acked'[t] = acked[t] + 1 /\ stored'[t] = stored[t] \cup {acked[t] + 1}
    BY <2>1 DEF UploadTypes
  <2>3. acked' \in [Tasks -> Nat] /\ stored' \in [Tasks -> SUBSET (1..Parts)]
    BY <1>3, <1>4, <2>1, <2>2 DEF UploadTypes
  <2>4. \A u \in Tasks \ {t} : acked'[u] = acked[u] /\ stored'[u] = stored[u]
    BY <2>1 DEF UploadTypes
  <2>5. 1..acked'[t] \subseteq stored'[t] /\ stored'[t] \subseteq 1..size[t]
    BY <1>3, <1>4, <2>2 DEF UploadOK
  <2>6. CASE acked'[t] = size[t] /\ NextStep(t)
    <3>1. pos'[t] = pos[t] + 1 /\ tries'[t] = 0 /\ verdict'[t] = verdict[t]
      BY <2>6, ControlMoves
    <3>2. UploadTypes'
      BY <1>2, <2>3, <2>6, ControlKeepsTypes DEF UploadTypes, ControlTypes
    <3>3. Running(t)'
      BY <1>1, <1>2, <1>3, <1>5, <2>6, <3>1, FlowStays DEF Running
    <3>4. UploadOK(t)'
      BY <1>1, <1>2, <1>3, <2>5, <2>6, <3>1, <3>3, FlowStays DEF UploadOK
    <3>5. Elsewhere(t)
      BY <1>2, <2>4, <2>6, ControlMoves DEF Elsewhere, Upload, Control
    <3> QED
      BY <3>2, <3>4, <3>5 DEF KeepsUpload
  <2>7. CASE acked'[t] # size[t] /\ tries' = [tries EXCEPT ![t] = 0] /\ UNCHANGED <<pos, verdict>>
    <3>1. tries' \in [Tasks -> 0..MaxRetries - 1]
      BY <2>7, UploadAssumption DEF UploadTypes
    <3>2. UploadTypes'
      BY <1>2, <2>3, <2>7, <3>1 DEF UploadTypes
    <3>3. tries'[t] = 0 /\ \A u \in Tasks \ {t} : tries'[u] = tries[u]
      BY <2>7 DEF UploadTypes
    <3>4. Running(t)'
      BY <1>1, <1>2, <1>3, <1>5, <2>2, <2>7, <3>3, FlowStays DEF Running
    <3>5. UploadOK(t)'
      BY <1>1, <1>2, <1>3, <2>2, <2>5, <2>7, <3>4, FlowStays DEF UploadOK
    <3>6. Elsewhere(t)
      BY <1>2, <2>4, <2>7, <3>3 DEF Elsewhere, Upload
    <3> QED
      BY <3>2, <3>5, <3>6 DEF KeepsUpload
  <2> QED
    BY <1>6, <2>6, <2>7 DEF ChunkIsAcknowledged
<1>7. CASE ChunkFails(t, again, limit)
  <2>1. PICK had \in {{}, {acked[t] + 1}} : stored' = [stored EXCEPT ![t] = stored[t] \cup had]
    BY <1>7 DEF ChunkFails
  <2>2. UNCHANGED acked /\ stored'[t] = stored[t] \cup had
    BY <1>7, <2>1 DEF ChunkFails, UploadTypes
  <2>3. stored' \in [Tasks -> SUBSET (1..Parts)]
    BY <1>4, <2>1, <2>2 DEF UploadTypes
  <2>4. \A u \in Tasks \ {t} : stored'[u] = stored[u]
    BY <2>1 DEF UploadTypes
  <2>5. 1..acked'[t] \subseteq stored'[t] /\ stored'[t] \subseteq 1..size[t]
    BY <1>4, <2>2 DEF UploadOK
  <2>6. Ends(t, "refused") \/ (TriesAgain(t) /\ tries[t] + 1 < MaxRetries)
    BY <1>7, UnansweredEnds DEF ChunkFails
  <2>7. UploadTypes'
    BY <1>2, <2>2, <2>3, <2>6, ControlKeepsTypes DEF UploadTypes, ControlTypes
  <2>8. UploadOK(t)'
    <3>1. CASE Ends(t, "refused")
      <4>1. pos'[t] = 0 /\ verdict'[t] = "refused"
        BY <3>1, ControlMoves
      <4> QED
        BY <1>2, <1>3, <2>2, <2>5, <4>1, FlowStays, FlowLength DEF UploadOK
    <3>2. CASE TriesAgain(t)
      <4>1. pos'[t] = pos[t] /\ tries'[t] = tries[t] + 1 /\ verdict'[t] = verdict[t]
        BY <3>2, ControlMoves
      <4>2. Running(t)'
        BY <1>1, <1>2, <1>3, <1>5, <2>2, <2>7, <4>1, FlowStays DEF Running, UploadTypes
      <4> QED
        BY <1>1, <1>2, <1>3, <2>2, <2>5, <4>1, <4>2, FlowStays DEF UploadOK
    <3> QED
      BY <2>6, <3>1, <3>2
  <2>9. Elsewhere(t)
    BY <1>2, <2>2, <2>4, <2>6, ControlMoves DEF Elsewhere, Upload, Control
  <2> QED
    BY <2>7, <2>8, <2>9 DEF KeepsUpload
<1> QED
  BY <1>6, <1>7 DEF PutsChunk

\* The request that makes the post: what is posted and not heard of is lost.
LEMMA PostKeepsUpload ==
  ASSUME UploadTypes, NEW t \in Tasks, UploadOK(t),
         NEW where \in VideoPlatforms \cup {"wechat_mp"}, At(t, where, "post"),
         UNCHANGED <<platform, size, acked, stored>>,
         \/ Confirmed(t)
         \/ \E again : \E limit \in 1..MaxRetries : Unconfirmed(t, again, limit)
         \/ where = "tencent_video" /\ (Denied(t) \/ BlankTrusted(t))
  PROVE  KeepsUpload(t)
<1>1. /\ pos[t] \in Nat /\ pos[t] > 0 /\ pos[t] = PostAt(t) /\ pos[t] > FileAt(t)
      /\ platform[t] = where
  BY FlowSteps DEF UploadTypes, UploadOK
<1>2. /\ verdict[t] = "none" /\ posts[t] = lost[t] /\ acked[t] = size[t]
      /\ posts[t] <= tries[t] /\ lost[t] \in Nat /\ posts[t] \in Nat /\ tries[t] \in Nat
      /\ tries[t] + 1 <= MaxRetries /\ MaxRetries \in Nat
  BY <1>1, UploadAssumption DEF UploadOK, Running, UploadTypes
<1>3. FileAt(t) \in Nat /\ PostAt(t) \in Nat
  BY FlowLength DEF FileAt
<1>4. PICK made \in 0..1, untold \in 0..1 :
        /\ posts' = [posts EXCEPT ![t] = posts[t] + made]
        /\ lost' = [lost EXCEPT ![t] = lost[t] + untold]
        /\ \/ Ends(t, "refused") /\ made = untold
           \/ TriesAgain(t) /\ tries[t] + 1 < MaxRetries /\ made = untold
           \/ Ends(t, "published") /\ untold = 0 /\ (made = 1 \/ where = "tencent_video")
  <2> DEFINE How(made, untold) ==
        /\ posts' = [posts EXCEPT ![t] = posts[t] + made]
        /\ lost' = [lost EXCEPT ![t] = lost[t] + untold]
        /\ \/ Ends(t, "refused") /\ made = untold
           \/ TriesAgain(t) /\ tries[t] + 1 < MaxRetries /\ made = untold
           \/ Ends(t, "published") /\ untold = 0 /\ (made = 1 \/ where = "tencent_video")
  <2>1. lost = [lost EXCEPT ![t] = lost[t] + 0] /\ posts = [posts EXCEPT ![t] = posts[t] + 0]
    BY <1>2 DEF UploadTypes
  <2>2. CASE Confirmed(t)
    <3>1. How(1, 0)
      BY <2>1, <2>2 DEF Confirmed
    <3> QED
      BY <3>1
  <2>3. ASSUME NEW again, NEW limit \in 1..MaxRetries, Unconfirmed(t, again, limit)
        PROVE  \E made \in 0..1, untold \in 0..1 : How(made, untold)
    <3>1. PICK made \in 0..1 : /\ posts' = [posts EXCEPT ![t] = posts[t] + made]
                               /\ lost' = [lost EXCEPT ![t] = lost[t] + made]
      BY <2>3 DEF Unconfirmed
    <3>2. Ends(t, "refused") \/ (TriesAgain(t) /\ tries[t] + 1 < MaxRetries)
      BY <2>3, UnansweredEnds DEF Unconfirmed
    <3>3. How(made, made)
      BY <3>1, <3>2
    <3> HIDE DEF How
    <3> QED
      BY <3>3
  <2>4. CASE Denied(t)
    <3>1. How(0, 0)
      BY <2>1, <2>4 DEF Denied
    <3> QED
      BY <3>1
  <2>5. ASSUME where = "tencent_video", BlankTrusted(t)
        PROVE  \E made \in 0..1, untold \in 0..1 : How(made, untold)
    <3>1. PICK made \in 0..1 : posts' = [posts EXCEPT ![t] = posts[t] + made]
      BY <2>5 DEF BlankTrusted
    <3>2. How(made, 0)
      BY <2>1, <2>5, <3>1 DEF BlankTrusted
    <3> HIDE DEF How
    <3> QED
      BY <3>2
  <2> QED
    BY <2>2, <2>3, <2>4, <2>5
<1>5. posts'[t] = posts[t] + made /\ lost'[t] = lost[t] + untold
  BY <1>4 DEF UploadTypes
<1>6. posts' \in [Tasks -> Nat] /\ lost' \in [Tasks -> Nat]
  BY <1>4 DEF UploadTypes
<1>7. \A u \in Tasks \ {t} : posts'[u] = posts[u] /\ lost'[u] = lost[u]
  BY <1>4 DEF UploadTypes
<1>8. UploadTypes'
  BY <1>4, <1>6, ControlKeepsTypes DEF UploadTypes, ControlTypes
<1>9. UploadOK(t)'
  <2>1. CASE Ends(t, "refused") /\ made = untold
    <3>1. pos'[t] = 0 /\ verdict'[t] = "refused"
      BY <2>1, ControlMoves
    <3> QED
      BY <1>2, <1>5, <2>1, <3>1, FlowStays, FlowLength DEF UploadOK
  <2>2. CASE TriesAgain(t) /\ tries[t] + 1 < MaxRetries /\ made = untold
    <3>1. pos'[t] = pos[t] /\ tries'[t] = tries[t] + 1 /\ verdict'[t] = verdict[t]
      BY <2>2, ControlMoves
    <3>2. Running(t)'
      BY <1>1, <1>2, <1>3, <1>5, <2>2, <3>1, FlowStays DEF Running
    <3> QED
      BY <1>1, <1>2, <1>5, <2>2, <3>1, <3>2, FlowStays DEF UploadOK
  <2>3. CASE Ends(t, "published") /\ untold = 0 /\ (made = 1 \/ where = "tencent_video")
    <3>1. pos'[t] = 0 /\ verdict'[t] = "published"
      BY <2>3, ControlMoves
    <3> QED
      BY <1>1, <1>2, <1>5, <2>3, <3>1, FlowStays, FlowLength DEF UploadOK
  <2> QED
    BY <1>4, <2>1, <2>2, <2>3
<1>10. Elsewhere(t)
  BY <1>4, <1>7, ControlMoves DEF Elsewhere, Upload, Control
<1> QED
  BY <1>8, <1>9, <1>10 DEF KeepsUpload

\* Every request of every publisher.
LEMMA UploadStepKeepsUpload ==
  ASSUME UploadTypes, NEW t \in Tasks, UploadOK(t), UploadStep(t)
  PROVE  KeepsUpload(t)
<1>1. MaxRetries \in 1..MaxRetries /\ 1 \in 1..MaxRetries /\ 2 \in 1..MaxRetries
  BY UploadAssumption
<1>2. CASE \/ BilibiliCookies(t) \/ PreUpload(t) \/ BilibiliComplete(t)
           \/ DouyinCookies(t) \/ DouyinAuth(t) \/ TencentCookies(t) \/ FinderInfo(t)
           \/ UploadAuth(t) \/ InitUpload(t) \/ TencentComplete(t) \/ XiaohongshuCookies(t)
           \/ UploadPermit(t) \/ UploadId(t) \/ WechatPublisher(t)
  <2>1. PICK where \in VideoPlatforms \cup {"wechat_mp"}, step \in Preparations :
          Prepares(t, where, step) /\ (where # "xiaohongshu" \/ step # "complete")
    BY <1>2 DEF BilibiliCookies, PreUpload, BilibiliComplete, DouyinCookies, DouyinAuth,
      TencentCookies, FinderInfo, UploadAuth, InitUpload, TencentComplete,
      XiaohongshuCookies, UploadPermit, UploadId, WechatPublisher, VideoPlatforms, Preparations
  <2> QED
    BY <2>1, PreparationKeepsUpload
<1>3. CASE \/ BilibiliSingle(t) \/ BilibiliChunk(t) \/ DouyinUpload(t)
           \/ TencentChunk(t) \/ XiaohongshuPart(t)
  <2>1. PICK where \in VideoPlatforms, step \in {"chunks", "single"},
             again \in {{}, {"error", "timeout"}, Unheard}, limit \in 1..MaxRetries :
          At(t, where, step) /\ PutsChunk(t, again, limit)
    BY <1>1, <1>3 DEF BilibiliSingle, BilibiliChunk, DouyinUpload, TencentChunk,
      XiaohongshuPart, VideoPlatforms
  <2> QED
    BY <2>1, ChunkKeepsUpload
<1>4. CASE \/ CreateArchive(t) \/ DouyinCreate(t) \/ TencentCreate(t) \/ PublishToWechat(t)
  <2> DEFINE Result(where) ==
        /\ At(t, where, "post") /\ UNCHANGED <<platform, size, acked, stored>>
        /\ \/ Confirmed(t)
           \/ \E again : \E limit \in 1..MaxRetries : Unconfirmed(t, again, limit)
           \/ where = "tencent_video" /\ (Denied(t) \/ BlankTrusted(t))
  <2>1. ASSUME NEW where \in VideoPlatforms \cup {"wechat_mp"}, Result(where)
        PROVE  KeepsUpload(t)
    BY <2>1, PostKeepsUpload
  <2>2. ASSUME NEW where, NEW again, NEW limit \in 1..MaxRetries,
               At(t, where, "post"), Posts(t, again, limit)
        PROVE  Result(where)
    BY <2>2 DEF Posts
  <2>3. CreateArchive(t) => Result("bilibili")
    BY <1>1, <2>2 DEF CreateArchive
  <2>4. DouyinCreate(t) => Result("douyin")
    BY <1>1, <2>2 DEF DouyinCreate
  <2>5. TencentCreate(t) => Result("tencent_video")
    BY <1>1, <2>2 DEF TencentCreate
  <2>6. PublishToWechat(t) => Result("wechat_mp")
    BY <1>1, <2>2 DEF PublishToWechat
  <2> HIDE DEF Result
  <2> QED
    BY <1>4, <2>1, <2>3, <2>4, <2>5, <2>6 DEF VideoPlatforms
<1>5. CASE CompleteMultipart(t)
  <2>1. pos[t] > 0
    BY <1>5 DEF CompleteMultipart, At
  <2> QED
    BY <1>5, <2>1, RefusalKeepsUpload DEF CompleteMultipart
<1> QED
  BY <1>2, <1>3, <1>4, <1>5 DEF UploadStep, Bilibili, Douyin, Tencent, Xiaohongshu, Wechat

-----------------------------------------------------------------------------
(* Rows and background tasks.  A step of one task leaves the others alone. *)

RowElsewhere(t) == \A u \in Tasks \ {t} : row'[u] = row[u] /\ worker'[u] = worker[u]

\* A task that a step does not touch; failing writes only excuse more.
LEMMA TaskAside ==
  ASSUME NEW u \in Tasks, TaskOK(u), Upload(u)' = Upload(u),
         row'[u] = row[u], worker'[u] = worker[u],
         dbErrors \in Nat, dbErrors' \in Nat, dbErrors' >= dbErrors
  PROVE  TaskOK(u)'
<1>1. /\ platform'[u] = platform[u] /\ size'[u] = size[u] /\ pos'[u] = pos[u]
      /\ acked'[u] = acked[u] /\ tries'[u] = tries[u] /\ verdict'[u] = verdict[u]
      /\ stored'[u] = stored[u] /\ posts'[u] = posts[u] /\ lost'[u] = lost[u]
  BY DEF Upload
<1>2. /\ FileAt(u)' = FileAt(u) /\ PostAt(u)' = PostAt(u) /\ Flow(u)' = Flow(u)
  BY <1>1 DEF FileAt, PostAt, Flow, BilibiliFlow, DouyinFlow, TencentFlow,
              XiaohongshuFlow, WechatFlow
<1>3. UploadOK(u)'
  BY <1>1, <1>2 DEF TaskOK, UploadOK, Running
<1>4. RowOK(u)'
  BY <1>1 DEF TaskOK, RowOK, Untouched
<1> QED
  BY <1>3, <1>4 DEF TaskOK

\* A step of one task keeps the invariant if it keeps that of the task.
LEMMA OneTaskKeepsInv ==
  ASSUME PublishingInv, NEW t \in Tasks, Elsewhere(t), RowElsewhere(t),
         dbErrors' >= dbErrors, UploadTypes', RowTypes', TaskOK(t)'
  PROVE  PublishingInv'
<1>1. dbErrors \in Nat /\ dbErrors' \in Nat
  BY PublishingAssumption DEF PublishingInv, RowTypes
<1>2. ASSUME NEW u \in Tasks \ {t} PROVE TaskOK(u)'
  BY <1>1, TaskAside DEF PublishingInv, Elsewhere, RowElsewhere
<1> QED
  BY <1>2 DEF PublishingInv

\* The upload of a task is as it was.
LEMMA UploadStays ==
  ASSUME PublishingInv, NEW t \in Tasks, UNCHANGED uploadVars
  PROVE  UploadTypes' /\ UploadOK(t)' /\ Elsewhere(t) /\ Upload(t)' = Upload(t)
<1>1. FileAt(t)' = FileAt(t) /\ PostAt(t)' = PostAt(t) /\ Flow(t)' = Flow(t)
  BY DEF uploadVars, FileAt, PostAt, Flow, BilibiliFlow, DouyinFlow, TencentFlow,
         XiaohongshuFlow, WechatFlow
<1>2. UploadOK(t)'
  BY <1>1 DEF PublishingInv, TaskOK, uploadVars, UploadOK, Running
<1> QED
  BY <1>2 DEF PublishingInv, uploadVars, UploadTypes, Elsewhere, Upload

\* A task goes on, and its row is left or written.
Moves(t, status, to) ==
  /\ row'[t] = status /\ worker'[t] = to
  /\ row' \in [Tasks -> Rows] /\ worker' \in [Tasks -> Workers]
  /\ RowElsewhere(t)

\* A background task goes on, and writes a status or does not.
LEMMA GoesOn ==
  ASSUME RowTypes, NEW t \in Tasks, NEW to \in Workers, Goes(t, to)
  PROVE  /\ UNCHANGED row => Moves(t, row[t], to)
         /\ \A status \in Rows : Says(t, status) => Moves(t, status, to)
BY DEF RowTypes, Goes, Says, Moves, RowElsewhere

\* A write is committed, or raises; the counter of failures only grows.
LEMMA WriteEnds ==
  ASSUME RowTypes, NEW t \in Tasks, NEW status \in Rows, NEW then \in Workers,
         Writes(t, status, then)
  PROVE  /\ dbErrors' \in 0..MaxDbErrors /\ dbErrors' >= dbErrors
         /\ \/ Moves(t, status, then)
            \/ dbErrors' > 0 /\ worker[t] # "failing" /\ Moves(t, row[t], "failing")
            \/ dbErrors' > 0 /\ worker[t] = "failing" /\ Moves(t, row[t], "silent")
<1>1. dbErrors \in 0..MaxDbErrors /\ MaxDbErrors \in Nat
  BY PublishingAssumption DEF RowTypes
<1>2. CASE Says(t, status) /\ Goes(t, then) /\ UNCHANGED dbErrors
  BY <1>1, <1>2, GoesOn
<1>3. CASE dbErrors < MaxDbErrors /\ dbErrors' = dbErrors + 1 /\ UNCHANGED row
           /\ Goes(t, IF worker[t] = "failing" THEN "silent" ELSE "failing")
  <2>1. "failing" \in Workers /\ "silent" \in Workers
    BY DEF Workers
  <2>2. dbErrors' \in 0..MaxDbErrors /\ dbErrors' >= dbErrors /\ dbErrors' > 0
    BY <1>1, <1>3
  <2> QED
    BY <1>3, <2>1, <2>2, GoesOn
<1> QED
  BY <1>2, <1>3 DEF Writes

\* What a step of one task has to show.
LEMMA MoveKeepsInv ==
  ASSUME PublishingInv, NEW t \in Tasks, NEW status, NEW to, Moves(t, status, to),
         UploadTypes', UploadOK(t)', Elsewhere(t),
         when' \in [Tasks -> {"unset", "later", "garbage", "zoned"}],
         dbErrors' \in 0..MaxDbErrors, dbErrors' >= dbErrors,
         UNCHANGED <<due, desktop, retries, restarts>>,
         RowOK(t)'
  PROVE  PublishingInv'
<1>1. RowTypes'
  BY DEF PublishingInv, RowTypes, Moves
<1> QED
  BY <1>1, OneTaskKeepsInv DEF Moves, TaskOK

\* The handlers write about a task nobody has touched.
LEMMA CreationKeepsInv ==
  ASSUME PublishingInv, NEW t \in Tasks, CreateArticle(t) \/ CreateVideo(t)
  PROVE  PublishingInv'
<1>1. RowOK(t) /\ UploadOK(t) /\ row[t] = "absent" /\ worker[t] = "none" /\ Untouched(t)
  BY DEF PublishingInv, TaskOK, RowOK, CreateArticle, CreateVideo
<1>2. PICK where \in Destinations, chunks \in 0..Parts, to \in {"none", "created", "marking"} :
        /\ Names(t, where, chunks) /\ Says(t, "pending") /\ Goes(t, to)
        /\ where \in VideoPlatforms => chunks > 0
        /\ where \notin VideoPlatforms => chunks = 0
  <2>1. Parts \in Nat /\ Parts > 1
    BY UploadAssumption
  <2>2. CASE CreateArticle(t)
    <3>1. PICK where \in Destinations \ VideoPlatforms :
            Names(t, where, 0) /\ Goes(t, IF where = "wechat_mp" THEN "created" ELSE "none")
      BY <2>2 DEF CreateArticle
    <3>2. 0 \in 0..Parts /\ Says(t, "pending")
      BY <2>1, <2>2 DEF CreateArticle
    <3>3. CASE where = "wechat_mp"
      BY <3>1, <3>2, <3>3
    <3>4. CASE where # "wechat_mp"
      BY <3>1, <3>2, <3>4
    <3> QED
      BY <3>3, <3>4
  <2>3. CASE CreateVideo(t)
    <3>1. PICK where \in Destinations \cap VideoPlatforms, chunks \in {1, Parts} :
            Names(t, where, chunks)
      BY <2>3 DEF CreateVideo
    <3>2. chunks \in 0..Parts /\ chunks > 0
      BY <2>1
    <3>3. Says(t, "pending") /\ (Goes(t, "created") \/ Goes(t, "marking"))
      BY <2>3 DEF CreateVideo
    <3> QED
      BY <3>1, <3>2, <3>3
  <2> QED
    BY <2>2, <2>3
<1>3. /\ when' \in [Tasks -> {"unset", "later", "garbage", "zoned"}]
      /\ dbErrors' = dbErrors /\ UNCHANGED <<due, desktop, retries, restarts>>
  <2>1. when \in [Tasks -> {"unset", "later", "garbage", "zoned"}]
    BY DEF PublishingInv, RowTypes
  <2>2. CASE CreateArticle(t)
    BY <2>1, <2>2 DEF CreateArticle
  <2>3. CASE CreateVideo(t)
    <3>1. PICK w \in {"unset", "later", "garbage", "zoned"} : when' = [when EXCEPT ![t] = w]
      BY <2>3 DEF CreateVideo
    <3> QED
      BY <2>1, <2>3, <3>1 DEF CreateVideo
  <2> QED
    BY <2>2, <2>3
<1>4. Moves(t, "pending", to)
  BY <1>2, GoesOn DEF PublishingInv, Rows, Workers
<1>5. /\ platform'[t] = where /\ size'[t] = chunks
      /\ UNCHANGED <<pos, acked, tries, verdict, stored, posts, lost>>
  BY <1>2 DEF Names, PublishingInv, UploadTypes
<1>6. UploadTypes' /\ Elsewhere(t)
  <2>1. platform' \in [Tasks -> AllPlatforms] /\ size' \in [Tasks -> 0..Parts]
    BY <1>2, PublishingAssumption DEF Names, PublishingInv, UploadTypes, AllPlatforms
  <2>2. \A u \in Tasks \ {t} : platform'[u] = platform[u] /\ size'[u] = size[u]
    BY <1>2 DEF Names, PublishingInv, UploadTypes
  <2> QED
    BY <1>5, <2>1, <2>2 DEF PublishingInv, UploadTypes, Elsewhere, Upload
<1>7. UploadOK(t)'
  <2>1. Len(Flow(t)') >= 0
    BY DEF Flow, BilibiliFlow, DouyinFlow, TencentFlow, XiaohongshuFlow, WechatFlow
  <2>2. MaxRetries > 0
    BY UploadAssumption
  <2> QED
    BY <1>1, <1>2, <1>5, <2>1, <2>2 DEF UploadOK, Untouched
<1>8. RowOK(t)'
  BY <1>1, <1>4, <1>5 DEF RowOK, Moves, Untouched
<1>9. dbErrors \in Nat /\ dbErrors \in 0..MaxDbErrors
  BY PublishingAssumption DEF PublishingInv, RowTypes
<1> QED
  BY <1>3, <1>4, <1>6, <1>7, <1>8, <1>9, MoveKeepsInv

\* A step of a handler or a background task that leaves the upload alone.
LEMMA QuietMoveKeepsInv ==
  ASSUME PublishingInv, NEW t \in Tasks, NEW status, NEW to, Moves(t, status, to),
         UNCHANGED <<uploadVars, when, due, desktop, retries, restarts>>,
         dbErrors' \in 0..MaxDbErrors, dbErrors' >= dbErrors,
         RowOK(t)'
  PROVE  PublishingInv'
<1>1. when' \in [Tasks -> {"unset", "later", "garbage", "zoned"}]
  BY DEF PublishingInv, RowTypes
<1> QED
  BY <1>1, UploadStays, MoveKeepsInv

\* The handler's UPDATE to 'scheduled' (publish.py:232-235).
LEMMA MarkingKeepsInv ==
  ASSUME PublishingInv, NEW t \in Tasks, MarkScheduled(t)
  PROVE  PublishingInv'
<1>1. /\ RowOK(t) /\ worker[t] = "marking" /\ Untouched(t)
      /\ row[t] \notin {"absent", "success", "failed"} /\ RowTypes
      /\ UNCHANGED <<uploadVars, when, due, desktop, retries, restarts>>
  BY DEF PublishingInv, TaskOK, RowOK, MarkScheduled
<1>2. dbErrors \in 0..MaxDbErrors /\ MaxDbErrors \in Nat
  BY PublishingAssumption DEF PublishingInv, RowTypes
<1>3. CASE Says(t, "scheduled") /\ Goes(t, "created") /\ UNCHANGED dbErrors
  <2>1. Moves(t, "scheduled", "created")
    BY <1>1, <1>3, GoesOn DEF Rows, Workers
  <2>2. RowOK(t)'
    BY <1>1, <2>1 DEF RowOK, Moves, Untouched, uploadVars
  <2> QED
    BY <1>1, <1>2, <1>3, <2>1, <2>2, QuietMoveKeepsInv
<1>4. CASE /\ dbErrors < MaxDbErrors /\ dbErrors' = dbErrors + 1
           /\ Goes(t, "none") /\ UNCHANGED row
  <2>1. Moves(t, row[t], "none")
    BY <1>1, <1>4, GoesOn DEF Workers
  <2>2. RowOK(t)'
    BY <1>1, <2>1 DEF RowOK, Moves, Untouched, uploadVars
  <2>3. dbErrors' \in 0..MaxDbErrors /\ dbErrors' >= dbErrors
    BY <1>2, <1>4
  <2> QED
    BY <1>1, <2>1, <2>2, <2>3, QuietMoveKeepsInv
<1> QED
  BY <1>3, <1>4 DEF MarkScheduled

-----------------------------------------------------------------------------
(* The background task.                                                    *)

\* Where the background task is, its row is not final.
Busy == {"marking", "created", "sleeping", "ready", "fetching", "uploading", "failing"}

\* While a task is busy its row is not final.
LEMMA BusyRows ==
  ASSUME PublishingInv, NEW t \in Tasks, worker[t] \in Busy
  PROVE  row[t] \in Rows \ {"absent", "success", "failed"}
BY DEF PublishingInv, RowTypes, TaskOK, RowOK, Busy

\* A write before the upload, whether it is committed or raises.
LEMMA EarlyWriteKeepsInv ==
  ASSUME PublishingInv, NEW t \in Tasks, worker[t] \in {"created", "ready"},
         NEW status \in {"scheduled", "downloading"}, NEW then \in {"sleeping", "fetching"},
         then = "fetching" => status = "downloading",
         Writes(t, status, then),
         UNCHANGED <<uploadVars, when, due, desktop, retries, restarts>>
  PROVE  PublishingInv'
<1>1. RowOK(t) /\ Untouched(t) /\ RowTypes /\ row[t] \in Rows \ {"absent", "success", "failed"}
  BY BusyRows DEF PublishingInv, TaskOK, RowOK, Busy
<1>2. /\ dbErrors' \in 0..MaxDbErrors /\ dbErrors' >= dbErrors
      /\ Moves(t, status, then) \/ Moves(t, row[t], "failing")
  BY <1>1, WriteEnds DEF Rows, Workers
<1>3. CASE Moves(t, status, then)
  <2>1. RowOK(t)'
    BY <1>1, <1>3 DEF RowOK, Moves, Untouched, uploadVars
  <2> QED
    BY <1>2, <1>3, <2>1, QuietMoveKeepsInv
<1>4. CASE Moves(t, row[t], "failing")
  <2>1. RowOK(t)'
    BY <1>1, <1>4 DEF RowOK, Moves, Untouched, uploadVars
  <2> QED
    BY <1>2, <1>4, <2>1, QuietMoveKeepsInv
<1> QED
  BY <1>2, <1>3, <1>4

\* A step before the upload that writes nothing.
LEMMA EarlyStepKeepsInv ==
  ASSUME PublishingInv, NEW t \in Tasks,
         worker[t] \in {"created", "sleeping", "ready", "fetching"},
         NEW to \in {"ready", "failing"}, Goes(t, to),
         UNCHANGED <<uploadVars, row, when, due, desktop, dbErrors, retries, restarts>>
  PROVE  PublishingInv'
<1>1. RowOK(t) /\ Untouched(t) /\ RowTypes /\ row[t] \in Rows \ {"absent", "success", "failed"}
  BY BusyRows DEF PublishingInv, TaskOK, RowOK, Busy
<1>2. Moves(t, row[t], to)
  BY <1>1, GoesOn DEF Workers
<1>3. RowOK(t)'
  BY <1>1, <1>2 DEF RowOK, Moves, Untouched, uploadVars
<1>4. dbErrors' \in 0..MaxDbErrors /\ dbErrors' >= dbErrors
  BY PublishingAssumption DEF PublishingInv, RowTypes
<1> QED
  BY <1>2, <1>3, <1>4, QuietMoveKeepsInv

\* publish_video() begins at its first request.
LEMMA BeginningKeepsUpload ==
  ASSUME UploadTypes, NEW t \in Tasks, UploadOK(t), Untouched(t), BeginUpload(t)
  PROVE  UploadTypes' /\ UploadOK(t)' /\ Elsewhere(t) /\ pos'[t] = 1
<1>1. /\ pos'[t] = 1 /\ pos' \in [Tasks -> Nat]
      /\ \A u \in Tasks \ {t} : pos'[u] = pos[u]
      /\ UNCHANGED <<platform, size, acked, tries, verdict, stored, posts, lost>>
  BY DEF BeginUpload, UploadTypes
<1>2. /\ Len(Flow(t)) >= 1 /\ PostAt(t) > 1 /\ FileAt(t) \in Nat \ {1} /\ PostAt(t) \in Nat
      /\ FileAt(t) = 0 => platform[t] \notin VideoPlatforms
  <2>1. PostAt(t) > 1 /\ FileAt(t) \in Nat \ {1}
    BY DEF PostAt, FileAt
  <2>2. FileAt(t) = 0 => platform[t] \notin VideoPlatforms
    BY DEF FileAt, VideoPlatforms
  <2>3. PostAt(t) \in Nat /\ (Len(Flow(t)) = 5 \/ Len(Flow(t)) = PostAt(t))
    BY FlowLength
  <2>4. Len(Flow(t)) >= 1
    <3> DEFINE len == Len(Flow(t))
    <3>1. len = 5 \/ len = PostAt(t)
      BY <2>3
    <3> HIDE DEF len
    <3>2. len >= 1
      BY <2>1, <2>3, <3>1
    <3> QED
      BY <3>2 DEF len
  <2> QED
    BY <2>1, <2>2, <2>3, <2>4, Zenon
<1>3. size[t] \in Nat /\ size[t] \in 0..Parts
  BY UploadAssumption DEF UploadTypes
<1>4. Running(t)'
  BY <1>1, <1>2, <1>3, FlowStays DEF Running, Untouched, UploadOK
<1>5. UploadOK(t)'
  BY <1>1, <1>2, <1>4, FlowStays DEF UploadOK
<1> QED
  BY <1>1, <1>5 DEF UploadTypes, Elsewhere, Upload

\* An article goes to WeChat at once, without a file.
LEMMA WechatKeepsInv ==
  ASSUME PublishingInv, NEW t \in Tasks, WechatBegins(t)
  PROVE  PublishingInv'
<1>1. /\ RowOK(t) /\ UploadOK(t) /\ Untouched(t) /\ RowTypes /\ UploadTypes
      /\ row[t] \in Rows \ {"absent", "success", "failed"}
      /\ platform[t] \notin VideoPlatforms
  BY BusyRows DEF PublishingInv, TaskOK, RowOK, WechatBegins, Busy, VideoPlatforms
<1>2. /\ BeginUpload(t) /\ Goes(t, "uploading")
      /\ UNCHANGED <<row, when, due, desktop, dbErrors, retries, restarts>>
  BY DEF WechatBegins
<1>3. Moves(t, row[t], "uploading")
  BY <1>1, <1>2, GoesOn DEF Workers
<1>4. UploadTypes' /\ UploadOK(t)' /\ Elsewhere(t) /\ platform' = platform
  BY <1>1, <1>2, BeginningKeepsUpload DEF BeginUpload
<1>5. RowOK(t)'
  BY <1>1, <1>3, <1>4 DEF RowOK, Moves
<1>6. /\ dbErrors' \in 0..MaxDbErrors /\ dbErrors' >= dbErrors
      /\ when' \in [Tasks -> {"unset", "later", "garbage", "zoned"}]
  BY <1>1, <1>2, PublishingAssumption DEF RowTypes
<1> QED
  BY <1>2, <1>3, <1>4, <1>5, <1>6, MoveKeepsInv

\* The file is fetched: 'publishing' is written and the upload begins, or the
\* write fails (publish.py:395-450).
LEMMA FetchedKeepsInv ==
  ASSUME PublishingInv, NEW t \in Tasks, Fetched(t)
  PROVE  PublishingInv'
<1>1. /\ RowOK(t) /\ UploadOK(t) /\ Untouched(t) /\ RowTypes /\ UploadTypes
      /\ row[t] \in Rows \ {"absent", "success", "failed"}
      /\ when \in [Tasks -> {"unset", "later", "garbage", "zoned"}]
  BY BusyRows DEF PublishingInv, TaskOK, RowOK, Fetched, Busy, RowTypes
<1>2. /\ IF worker'[t] = "uploading" THEN BeginUpload(t) ELSE UNCHANGED uploadVars
      /\ UNCHANGED <<when, due, desktop, retries, restarts>>
      /\ worker[t] = "fetching"
  BY DEF Fetched
<1>3. /\ dbErrors' \in 0..MaxDbErrors /\ dbErrors' >= dbErrors
      /\ Moves(t, "publishing", "uploading") \/ Moves(t, row[t], "failing")
  BY <1>1, <1>2, WriteEnds DEF Fetched, Rows, Workers
<1>4. CASE Moves(t, "publishing", "uploading")
  <2>1. UploadTypes' /\ UploadOK(t)' /\ Elsewhere(t)
    BY <1>1, <1>2, <1>4, BeginningKeepsUpload DEF Moves
  <2>2. RowOK(t)'
    BY <1>4 DEF RowOK, Moves
  <2> QED
    BY <1>1, <1>2, <1>3, <1>4, <2>1, <2>2, MoveKeepsInv
<1>5. CASE Moves(t, row[t], "failing")
  <2>1. UNCHANGED uploadVars
    BY <1>2, <1>5 DEF Moves
  <2>2. RowOK(t)'
    BY <1>1, <1>5, <2>1 DEF RowOK, Moves, Untouched, uploadVars
  <2> QED
    BY <1>2, <1>3, <1>5, <2>1, <2>2, QuietMoveKeepsInv
<1> QED
  BY <1>3, <1>4, <1>5

\* A request of the publisher, with any outcome, touches no row.
LEMMA UploadingKeepsInv ==
  ASSUME PublishingInv, NEW t \in Tasks, Uploads(t)
  PROVE  PublishingInv'
<1>1. /\ RowOK(t) /\ UploadOK(t) /\ RowTypes /\ UploadTypes
      /\ row[t] \in Rows \ {"absent", "success", "failed"}
      /\ worker[t] = "uploading" /\ UNCHANGED rowVars
  BY BusyRows DEF PublishingInv, TaskOK, Uploads, Busy
<1>2. UploadTypes' /\ UploadOK(t)' /\ Elsewhere(t)
  BY <1>1, UploadStepKeepsUpload DEF Uploads, KeepsUpload
<1>3. platform' = platform
  BY DEF Uploads, UploadStep, Bilibili, Douyin, Tencent, Xiaohongshu, Wechat,
    BilibiliCookies, PreUpload, BilibiliSingle, BilibiliChunk, BilibiliComplete, CreateArchive,
    DouyinCookies, DouyinAuth, DouyinUpload, DouyinCreate, TencentCookies, FinderInfo,
    UploadAuth, InitUpload, TencentChunk, TencentComplete, TencentCreate,
    XiaohongshuCookies, UploadPermit, UploadId, XiaohongshuPart, CompleteMultipart,
    WechatPublisher, PublishToWechat, Prepares, PutsChunk, Posts
<1>4. Moves(t, row[t], worker[t])
  BY <1>1 DEF rowVars, RowTypes, Moves, RowElsewhere
<1>5. RowOK(t)'
  BY <1>1, <1>3 DEF RowOK, rowVars
<1>6. /\ dbErrors' \in 0..MaxDbErrors /\ dbErrors' >= dbErrors
      /\ when' \in [Tasks -> {"unset", "later", "garbage", "zoned"}]
      /\ UNCHANGED <<due, desktop, retries, restarts>>
  BY <1>1, PublishingAssumption DEF RowTypes, rowVars
<1> QED
  BY <1>2, <1>4, <1>5, <1>6, MoveKeepsInv

\* The last write: of the outcome, or of the exception that came before it.
LEMMA ReportKeepsInv ==
  ASSUME PublishingInv, NEW t \in Tasks, Reports(t) \/ ReportsException(t)
  PROVE  PublishingInv'
<1>1. /\ RowOK(t) /\ UploadOK(t) /\ RowTypes /\ UploadTypes
      /\ row[t] \in Rows \ {"absent", "success", "failed"}
      /\ worker[t] \in {"uploading", "failing"}
      /\ UNCHANGED <<uploadVars, when, due, desktop, retries, restarts>>
  BY BusyRows DEF PublishingInv, TaskOK, Reports, ReportsException, Busy
<1>2. PICK status \in {"success", "failed"} :
        /\ Writes(t, status, "ended")
        /\ worker[t] = "failing" => status = "failed"
        /\ worker[t] = "uploading" =>
             verdict[t] = IF status = "success" THEN "published" ELSE "refused"
  <2>1. CASE Reports(t)
    <3>1. verdict[t] \in {"published", "refused"} /\ worker[t] = "uploading"
      BY <1>1, <2>1 DEF Reports, UploadTypes
    <3>2. CASE verdict[t] = "published"
      BY <2>1, <3>1, <3>2 DEF Reports, Outcome
    <3>3. CASE verdict[t] = "refused"
      BY <2>1, <3>1, <3>3 DEF Reports, Outcome
    <3> QED
      BY <3>1, <3>2, <3>3
  <2>2. CASE ReportsException(t)
    BY <2>2 DEF ReportsException
  <2> QED
    BY <2>1, <2>2
<1>3. pos[t] = 0
  BY <1>1, <1>2 DEF RowOK, UploadOK, Running, UploadTypes
<1>4. /\ dbErrors' \in 0..MaxDbErrors /\ dbErrors' >= dbErrors
      /\ \/ Moves(t, status, "ended")
         \/ dbErrors' > 0 /\ Moves(t, row[t], "failing")
         \/ Moves(t, row[t], "silent")
  BY <1>1, <1>2, WriteEnds DEF Rows, Workers
<1>5. posts[t] \in Nat /\ lost[t] \in Nat /\ dbErrors \in Nat /\ dbErrors' \in Nat
  BY <1>1, <1>4, PublishingAssumption DEF UploadTypes, RowTypes
<1>6. CASE Moves(t, status, "ended")
  <2>1. status = "success" => posts[t] > 0 \/ platform[t] = "tencent_video"
    BY <1>1, <1>2 DEF UploadOK
  <2>2. status = "failed" /\ posts[t] > 0 => lost[t] > 0 \/ dbErrors' > 0
    BY <1>1, <1>2, <1>4, <1>5 DEF UploadOK, RowOK
  <2>3. RowOK(t)'
    BY <1>1, <1>2, <1>3, <1>6, <2>1, <2>2 DEF RowOK, Moves, uploadVars
  <2> QED
    BY <1>1, <1>4, <1>6, <2>3, QuietMoveKeepsInv
<1>7. CASE dbErrors' > 0 /\ Moves(t, row[t], "failing")
  <2>1. RowOK(t)'
    BY <1>1, <1>3, <1>7 DEF RowOK, Moves, uploadVars
  <2> QED
    BY <1>1, <1>4, <1>7, <2>1, QuietMoveKeepsInv
<1>8. CASE Moves(t, row[t], "silent")
  <2>1. RowOK(t)'
    BY <1>1, <1>3, <1>8 DEF RowOK, Moves, uploadVars
  <2> QED
    BY <1>1, <1>4, <1>8, <2>1, QuietMoveKeepsInv
<1> QED
  BY <1>4, <1>6, <1>7, <1>8

\* Every step of a background task keeps the invariant.
LEMMA WorkKeepsInv ==
  ASSUME PublishingInv, NEW t \in Tasks, Works(t)
  PROVE  PublishingInv'
<1>1. CASE VideoBegins(t)
  <2>1. CASE Writes(t, "scheduled", "sleeping")
    BY <1>1, <2>1, EarlyWriteKeepsInv DEF VideoBegins
  <2>2. CASE (Goes(t, "ready") \/ Goes(t, "failing")) /\ UNCHANGED <<row, dbErrors>>
    BY <1>1, <2>2, EarlyStepKeepsInv DEF VideoBegins
  <2> QED
    BY <1>1, <2>1, <2>2 DEF VideoBegins
<1>2. CASE Wakes(t)
  BY <1>2, EarlyStepKeepsInv DEF Wakes
<1>3. CASE StartsDownload(t)
  BY <1>3, EarlyWriteKeepsInv DEF StartsDownload
<1>4. CASE FetchFails(t)
  BY <1>4, EarlyStepKeepsInv DEF FetchFails
<1> QED
  BY <1>1, <1>2, <1>3, <1>4, WechatKeepsInv, FetchedKeepsInv, UploadingKeepsInv,
     ReportKeepsInv DEF Works

-----------------------------------------------------------------------------
(* Everybody else.                                                         *)

\* A step that leaves uploads, background tasks and failed writes alone.
LEMMA IdleMoveKeepsInv ==
  ASSUME PublishingInv, UNCHANGED <<uploadVars, worker, dbErrors>>, RowTypes',
         \A t \in Tasks : row'[t] = row[t] \/ (row[t] = "failed" /\ row'[t] = "pending")
  PROVE  PublishingInv'
<1>1. ASSUME NEW t \in Tasks PROVE TaskOK(t)'
  <2>1. UploadOK(t)'
    BY UploadStays
  <2>2. RowOK(t)'
    BY DEF PublishingInv, TaskOK, RowOK, Untouched, uploadVars
  <2> QED
    BY <2>1, <2>2 DEF TaskOK
<1> QED
  BY <1>1 DEF PublishingInv, uploadVars, UploadTypes

\* The clock, the operator and the desktop client touch no upload.
LEMMA OthersKeepInv ==
  ASSUME PublishingInv, NEW t \in Tasks,
         TimeComes(t) \/ RetryJob(t) \/ DesktopPosts(t) \/ Poll
  PROVE  PublishingInv'
<1>1. UNCHANGED <<uploadVars, worker, dbErrors, restarts, when>> /\ RowTypes
  BY DEF PublishingInv, TimeComes, RetryJob, DesktopPosts, Poll
<1>2. CASE TimeComes(t)
  <2>1. RowTypes'
    BY <1>1, <1>2 DEF TimeComes, RowTypes
  <2> QED
    BY <1>1, <1>2, <2>1, IdleMoveKeepsInv DEF TimeComes
<1>3. CASE RetryJob(t)
  <2>1. row' = [row EXCEPT ![t] = "pending"] /\ row[t] = "failed"
    BY <1>3 DEF RetryJob, Says
  <2>2. row' \in [Tasks -> Rows]
    BY <1>1, <2>1 DEF RowTypes, Rows
  <2>3. retries[t] + 1 \in 0..MaxRetryCalls
    BY <1>1, <1>3, PublishingAssumption DEF RetryJob, RowTypes
  <2>4. retries' \in [Tasks -> 0..MaxRetryCalls]
    BY <1>1, <1>3, <2>3 DEF RetryJob, RowTypes
  <2>5. RowTypes'
    BY <1>1, <1>3, <2>2, <2>4 DEF RetryJob, RowTypes
  <2> QED
    BY <1>1, <2>1, <2>5, IdleMoveKeepsInv DEF RowTypes
<1>4. CASE DesktopPosts(t)
  <2>1. RowTypes'
    BY <1>1, <1>4 DEF DesktopPosts, RowTypes
  <2> QED
    BY <1>1, <1>4, <2>1, IdleMoveKeepsInv DEF DesktopPosts
<1>5. CASE Poll
  <2>1. desktop' \in [Tasks -> {"unaware", "holds", "posted"}]
    BY <1>1, <1>5 DEF Poll, RowTypes
  <2>2. RowTypes'
    BY <1>1, <1>5, <2>1 DEF Poll, RowTypes
  <2> QED
    BY <1>1, <1>5, <2>2, IdleMoveKeepsInv DEF Poll
<1> QED
  BY <1>2, <1>3, <1>4, <1>5

\* A restart ends the background tasks; what was posted stays posted.
LEMMA RestartKeepsInv ==
  ASSUME PublishingInv, Restart
  PROVE  PublishingInv'
<1>1. /\ UploadTypes /\ RowTypes
      /\ worker' = [t \in Tasks |->
           IF worker[t] \in {"none", "ended", "silent"} THEN worker[t] ELSE "killed"]
      /\ pos' = [t \in Tasks |-> 0] /\ tries' = [t \in Tasks |-> 0]
      /\ UNCHANGED <<platform, size, acked, verdict, stored, posts, lost>>
      /\ UNCHANGED <<row, when, due, desktop, dbErrors, retries>>
      /\ restarts < MaxRestarts /\ restarts' = restarts + 1
  BY DEF PublishingInv, Restart
<1>2. UploadTypes'
  <2>1. tries' \in [Tasks -> 0..MaxRetries - 1]
    BY <1>1, UploadAssumption
  <2> QED
    BY <1>1, <2>1 DEF UploadTypes
<1>3. RowTypes'
  <2>1. restarts' \in 0..MaxRestarts
    BY <1>1, PublishingAssumption DEF RowTypes
  <2>2. worker' \in [Tasks -> Workers]
    BY <1>1 DEF RowTypes, Workers
  <2> QED
    BY <1>1, <2>1, <2>2 DEF RowTypes
<1>4. ASSUME NEW t \in Tasks PROVE TaskOK(t)'
  <2>1. UploadOK(t) /\ RowOK(t)
    BY DEF PublishingInv, TaskOK
  <2>2. pos'[t] = 0 /\ tries'[t] = 0
    BY <1>1
  <2>3. Len(Flow(t)') = Len(Flow(t)) /\ Len(Flow(t)) \in Nat
    BY <1>1, FlowStays, FlowLength
  <2>4. UploadOK(t)'
    BY <1>1, <2>1, <2>2, <2>3 DEF UploadOK
  <2>5. worker'[t] = IF worker[t] \in {"none", "ended", "silent"} THEN worker[t] ELSE "killed"
    BY <1>1
  <2>6. RowOK(t)'
    BY <1>1, <2>1, <2>2, <2>5 DEF RowOK, Untouched
  <2> QED
    BY <2>4, <2>6 DEF TaskOK
<1> QED
  BY <1>2, <1>3, <1>4 DEF PublishingInv

-----------------------------------------------------------------------------
(* The theorems.                                                           *)

\* No task has been created.
LEMMA PublishingStarts == Init => PublishingInv
<1> SUFFICES ASSUME Init PROVE PublishingInv
  OBVIOUS
<1>1. Parts \in Nat /\ MaxRetries \in Nat /\ MaxRetries > 0
  BY UploadAssumption
<1>2. UploadTypes
  BY <1>1 DEF Init, UploadInit, UploadTypes, AllPlatforms
<1>3. RowTypes
  BY PublishingAssumption DEF Init, RowTypes, Rows, Workers
<1>4. ASSUME NEW t \in Tasks PROVE TaskOK(t)
  <2>1. UploadOK(t)
    BY <1>1, FlowLength DEF Init, UploadInit, UploadOK, NoPlatform, VideoPlatforms
  <2>2. RowOK(t)
    BY DEF Init, UploadInit, RowOK, Untouched
  <2> QED
    BY <2>1, <2>2 DEF TaskOK
<1> QED
  BY <1>2, <1>3, <1>4 DEF PublishingInv

\* Every step of the model keeps the invariant.
LEMMA PublishingStep == PublishingInv /\ [Next]_vars => PublishingInv'
<1> SUFFICES ASSUME PublishingInv, [Next]_vars PROVE PublishingInv'
  OBVIOUS
<1>1. CASE UNCHANGED vars
  BY <1>1, IdleMoveKeepsInv DEF vars, rowVars, PublishingInv, RowTypes
<1>2. ASSUME NEW t \in Tasks, CreateArticle(t) \/ CreateVideo(t) PROVE PublishingInv'
  BY <1>2, CreationKeepsInv
<1>3. ASSUME NEW t \in Tasks, MarkScheduled(t) \/ Works(t) PROVE PublishingInv'
  BY <1>3, MarkingKeepsInv, WorkKeepsInv
<1>4. ASSUME NEW t \in Tasks, TimeComes(t) \/ RetryJob(t) \/ DesktopPosts(t) \/ Poll
      PROVE  PublishingInv'
  BY <1>4, OthersKeepInv
<1>5. CASE Poll
  <2>1. PICK t \in Tasks : TRUE
    BY <1>5 DEF Poll
  <2> QED
    BY <1>4, <1>5, <2>1
<1> QED
  BY <1>1, <1>2, <1>3, <1>4, <1>5, RestartKeepsInv DEF Next

\* The inductive invariant of tasks and uploads holds in every history
\* (publish.py:106-135, 188-255, 322-520, and the publishers).
THEOREM PublishingInvariant == Spec => []PublishingInv
BY PublishingStarts, PublishingStep, PTL DEF Spec

\* Types are kept: positions stay in the flow of the platform, posts within the
\* tries, and publish_video() runs only inside a background task at its upload.
THEOREM PublishingTypes == Spec => []TypeOK
<1>1. PublishingInv => TypeOK
  <2> SUFFICES ASSUME PublishingInv PROVE TypeOK
    OBVIOUS
  <2>1. /\ UploadTypes /\ RowTypes /\ \A t \in Tasks : UploadOK(t) /\ RowOK(t)
    BY DEF PublishingInv, TaskOK
  <2>2. \A t \in Tasks : posts[t] \in 0..MaxRetries /\ lost[t] \in 0..MaxRetries
    BY <2>1, UploadAssumption DEF UploadTypes, UploadOK
  <2>3. posts \in [Tasks -> 0..MaxRetries] /\ lost \in [Tasks -> 0..MaxRetries]
    BY <2>1, <2>2 DEF UploadTypes
  <2>4. ASSUME NEW t \in Tasks PROVE pos[t] \in 0..Len(Flow(t)) /\ acked[t] \in 0..size[t]
    BY <2>1, FlowLength DEF UploadTypes, UploadOK
  <2>5. \A t \in Tasks : pos[t] > 0 => worker[t] = "uploading"
    BY <2>1 DEF RowOK
  <2>6. UploadTypeOK
    BY <2>1, <2>3, <2>4 DEF UploadTypes, UploadTypeOK, AllPlatforms
  <2> QED
    BY <2>1, <2>5, <2>6 DEF TypeOK, RowTypes
<1> QED
  BY <1>1, PublishingInvariant, PTL

\* A publisher makes another post only in place of one it was not told of.
THEOREM NothingIsPostedTwice == Spec => []NoNeedlessDuplicate
<1>1. PublishingInv => NoNeedlessDuplicate
  BY DEF PublishingInv, TaskOK, UploadOK, UploadTypes, NoNeedlessDuplicate
<1> QED
  BY <1>1, PublishingInvariant, PTL

\* The final row tells whether there is a post, but for lost answers and writes.
THEOREM RowsTellTheTruth == Spec => []RowTellsTheTruth
<1>1. PublishingInv => RowTellsTheTruth
  BY DEF PublishingInv, TaskOK, RowOK, RowTellsTheTruth
<1> QED
  BY <1>1, PublishingInvariant, PTL

\* The desktop client is never offered what the server is working on.
THEOREM OfferedTasksAreIdle == Spec => []OfferedTaskIsIdle
<1>1. PublishingInv => OfferedTaskIsIdle
  BY DEF PublishingInv, TaskOK, RowOK, OfferedTaskIsIdle, Offered
<1> QED
  BY <1>1, PublishingInvariant, PTL

\* The requests that may make a post come when the file is complete.
LEMMA PostsComeLast ==
  ASSUME UploadTypes, NEW t \in Tasks, UploadOK(t), UploadStep(t)
  PROVE  UNCHANGED posts \/ stored[t] = 1..size[t]
<1>1. ASSUME NEW where \in VideoPlatforms \cup {"wechat_mp"}, At(t, where, "post")
      PROVE  stored[t] = 1..size[t]
  <2>1. pos[t] > 0 /\ pos[t] > FileAt(t)
    BY <1>1, FlowSteps DEF UploadTypes, UploadOK
  <2>2. acked[t] = size[t]
    BY <2>1 DEF UploadOK, Running
  <2> QED
    BY <2>2 DEF UploadOK
<1>2. CASE \/ BilibiliCookies(t) \/ PreUpload(t) \/ BilibiliComplete(t)
           \/ DouyinCookies(t) \/ DouyinAuth(t) \/ TencentCookies(t) \/ FinderInfo(t)
           \/ UploadAuth(t) \/ InitUpload(t) \/ TencentComplete(t) \/ XiaohongshuCookies(t)
           \/ UploadPermit(t) \/ UploadId(t) \/ WechatPublisher(t) \/ CompleteMultipart(t)
  BY <1>2 DEF BilibiliCookies, PreUpload, BilibiliComplete, DouyinCookies, DouyinAuth,
    TencentCookies, FinderInfo, UploadAuth, InitUpload, TencentComplete, XiaohongshuCookies,
    UploadPermit, UploadId, WechatPublisher, CompleteMultipart, Prepares
<1>3. CASE \/ BilibiliSingle(t) \/ BilibiliChunk(t) \/ DouyinUpload(t)
           \/ TencentChunk(t) \/ XiaohongshuPart(t)
  BY <1>3 DEF BilibiliSingle, BilibiliChunk, DouyinUpload, TencentChunk, XiaohongshuPart,
    PutsChunk
<1>4. CASE CreateArchive(t) \/ DouyinCreate(t) \/ TencentCreate(t) \/ PublishToWechat(t)
  BY <1>1, <1>4 DEF CreateArchive, DouyinCreate, TencentCreate, PublishToWechat, VideoPlatforms
<1> QED
  BY <1>2, <1>3, <1>4 DEF UploadStep, Bilibili, Douyin, Tencent, Xiaohongshu, Wechat

\* A post is only ever made when the platform has every chunk of the file,
\* whatever was retried and whatever answers were lost.
THEOREM OnlyWholeFilesArePosted == Spec => PostsWholeFile
<1>1. PublishingInv /\ [Next]_vars =>
        [\A t \in Tasks : posts'[t] > posts[t] => stored[t] = 1..size[t]]_uploadVars
  <2> SUFFICES ASSUME PublishingInv, [Next]_vars,
                      NEW t \in Tasks, posts'[t] > posts[t]
               PROVE  stored[t] = 1..size[t]
    OBVIOUS
  <2>1. posts' # posts
    BY DEF PublishingInv, UploadTypes
  <2>2. PICK u \in Tasks : Uploads(u)
    BY <2>1 DEF Next, vars, uploadVars, CreateArticle, CreateVideo, Names, MarkScheduled,
      Works, WechatBegins, VideoBegins, Wakes, StartsDownload, Fetched, FetchFails, Reports,
      ReportsException, BeginUpload, TimeComes, RetryJob, DesktopPosts, Poll, Restart
  <2>3. UploadTypes /\ UploadOK(u) /\ UploadStep(u)
    BY <2>2 DEF PublishingInv, TaskOK, Uploads
  <2>4. CASE u = t
    BY <2>1, <2>3, <2>4, PostsComeLast
  <2>5. CASE u # t
    <3>1. posts'[t] = posts[t]
      BY <2>3, <2>5, UploadStepKeepsUpload DEF KeepsUpload, Elsewhere, Upload
    <3> QED
      BY <3>1 DEF PublishingInv, UploadTypes
  <2> QED
    BY <2>4, <2>5
<1> QED
  BY <1>1, PublishingInvariant, PTL DEF Spec, PostsWholeFile
=============================================================================
