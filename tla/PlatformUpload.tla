--------------------------- MODULE PlatformUpload ---------------------------
(***************************************************************************)
(* publish_video() of the four platforms (services/*_publisher.py) and     *)
(* publish_to_wechat(): one attempt to put a task's video on its platform. *)
(*                                                                         *)
(* A publisher is a fixed sequence of requests.  A request that has had    *)
(* its effect may still be answered with an error, time out or break off,  *)
(* so the platform's side (stored, posts) and what the publisher knows of  *)
(* it (acked, verdict) are kept apart.  A cover never reaches a publisher: *)
(* the router fetches it with a client it has closed.                      *)
(*                                                                         *)
(* Operators whose name begins with Bug are seeded faults that no formula  *)
(* of the specification uses.                                              *)
(***************************************************************************)
EXTENDS Naturals, Sequences, FiniteSets

CONSTANTS
  Tasks,      \* ids of publish tasks
  Parts,      \* chunks of a large file
  MaxRetries  \* MAX_RETRIES of the publishers

ASSUME UploadAssumption == Parts \in Nat \ {0, 1} /\ MaxRetries \in Nat \ {0, 1}

VARIABLES
  platform,  \* where the task is to be published
  size,      \* chunks of its file, 0 for an article
  pos,       \* the step of its flow it is at, 0 when publish_video() is not running
  acked,     \* chunks the publisher takes for uploaded
  tries,     \* failed tries of the request it is at
  verdict,   \* how publish_video() ended, an exception being "refused"
  stored,    \* chunks the platform has
  posts,     \* posts the publisher has made
  lost       \* history: those of them it was not told of

uploadVars == <<platform, size, pos, acked, tries, verdict, stored, posts, lost>>

VideoPlatforms == {"bilibili", "douyin", "tencent_video", "xiaohongshu"}

NoPlatform == "none"

UploadInit ==
  /\ platform = [t \in Tasks |-> NoPlatform]
  /\ size = [t \in Tasks |-> 0]
  /\ pos = [t \in Tasks |-> 0]
  /\ acked = [t \in Tasks |-> 0]
  /\ tries = [t \in Tasks |-> 0]
  /\ verdict = [t \in Tasks |-> "none"]
  /\ stored = [t \in Tasks |-> {}]
  /\ posts = [t \in Tasks |-> 0]
  /\ lost = [t \in Tasks |-> 0]

\* The requests of publish_video(), in their order.
BilibiliFlow(t) ==
  IF size[t] > 1 THEN <<"cookies", "permit", "chunks", "complete", "post">>
  ELSE <<"cookies", "permit", "single", "post">>

DouyinFlow == <<"cookies", "permit", "single", "post">>

TencentFlow == <<"cookies", "finder", "permit", "init", "chunks", "complete", "post">>

XiaohongshuFlow == <<"cookies", "permit", "init", "chunks", "complete">>

WechatFlow == <<"cookies", "post">>

Flow(t) ==
  CASE platform[t] = "bilibili"      -> BilibiliFlow(t)
    [] platform[t] = "douyin"        -> DouyinFlow
    [] platform[t] = "tencent_video" -> TencentFlow
    [] platform[t] = "xiaohongshu"   -> XiaohongshuFlow
    [] OTHER                         -> WechatFlow

At(t, where, step) == platform[t] = where /\ pos[t] > 0 /\ Flow(t)[pos[t]] = step

-----------------------------------------------------------------------------
(* How a request can end.                                                  *)

\* Without a usable answer: an answer that reports an error, none in time, or a
\* connection that breaks off.
Unheard == {"error", "timeout", "broken"}

NextStep(t) ==
  /\ pos' = [pos EXCEPT ![t] = @ + 1]
  /\ tries' = [tries EXCEPT ![t] = 0]
  /\ UNCHANGED verdict

Ends(t, v) ==
  /\ verdict' = [verdict EXCEPT ![t] = v]
  /\ pos' = [pos EXCEPT ![t] = 0]
  /\ tries' = [tries EXCEPT ![t] = 0]

TriesAgain(t) ==
  /\ tries' = [tries EXCEPT ![t] = @ + 1]
  /\ UNCHANGED <<pos, verdict>>

\* A request without effect on the post, and without a second try.
Prepares(t, where, step) ==
  /\ At(t, where, step)
  /\ NextStep(t) \/ Ends(t, "refused")
  /\ UNCHANGED <<platform, size, acked, stored, posts, lost>>

BugUnanswered(t, again, limit) ==
  \E how \in Unheard :
    IF how \in again /\ tries[t] < limit
    THEN TriesAgain(t)
    ELSE Ends(t, "refused")

\* The loop around a request: another try after the failures in `again`.
Unanswered(t, again, limit) ==
  \E how \in Unheard :
    IF how \in again /\ tries[t] + 1 < limit
    THEN TriesAgain(t)
    ELSE Ends(t, "refused")

BugChunkFails(t, again, limit) ==
  /\ \E had \in {{}, {acked[t] + 1}} : stored' = [stored EXCEPT ![t] = @ \cup had]
  /\ IF tries[t] + 1 < limit
     THEN TriesAgain(t) /\ UNCHANGED acked
     ELSE /\ acked' = [acked EXCEPT ![t] = @ + 1]
          /\ IF acked'[t] = size[t] THEN NextStep(t)
             ELSE tries' = [tries EXCEPT ![t] = 0] /\ UNCHANGED <<pos, verdict>>

ChunkFails(t, again, limit) ==
  /\ \E had \in {{}, {acked[t] + 1}} : stored' = [stored EXCEPT ![t] = @ \cup had]
  /\ Unanswered(t, again, limit)
  /\ UNCHANGED acked

ChunkIsAcknowledged(t) ==
  /\ acked' = [acked EXCEPT ![t] = @ + 1]
  /\ stored' = [stored EXCEPT ![t] = @ \cup {acked'[t]}]
  /\ IF acked'[t] = size[t] THEN NextStep(t)
     ELSE tries' = [tries EXCEPT ![t] = 0] /\ UNCHANGED <<pos, verdict>>

PutsChunk(t, again, limit) ==
  /\ ChunkIsAcknowledged(t) \/ ChunkFails(t, again, limit)
  /\ UNCHANGED <<platform, size, posts, lost>>

BugConfirmed(t) ==
  /\ posts' = [posts EXCEPT ![t] = @ + 1]
  /\ Ends(t, "refused")
  /\ UNCHANGED lost

\* The request that makes the post: confirmed, or without a usable answer.
Confirmed(t) ==
  /\ posts' = [posts EXCEPT ![t] = @ + 1]
  /\ Ends(t, "published")
  /\ UNCHANGED lost

Unconfirmed(t, again, limit) ==
  /\ \E made \in 0..1 : /\ posts' = [posts EXCEPT ![t] = @ + made]
                        /\ lost' = [lost EXCEPT ![t] = @ + made]
  /\ Unanswered(t, again, limit)

Posts(t, again, limit) ==
  /\ Confirmed(t) \/ Unconfirmed(t, again, limit)
  /\ UNCHANGED <<platform, size, acked, stored>>

-----------------------------------------------------------------------------
(* Bilibili: one request or chunks; a broken connection is not retried.    *)

BilibiliCookies(t) == Prepares(t, "bilibili", "cookies")

PreUpload(t) == Prepares(t, "bilibili", "permit")

BilibiliSingle(t) == At(t, "bilibili", "single") /\ PutsChunk(t, {}, 1)

BilibiliChunk(t) ==
  At(t, "bilibili", "chunks") /\ PutsChunk(t, {"error", "timeout"}, MaxRetries)

BilibiliComplete(t) == Prepares(t, "bilibili", "complete")

CreateArchive(t) == At(t, "bilibili", "post") /\ Posts(t, {}, 1)

Bilibili(t) ==
  \/ BilibiliCookies(t) \/ PreUpload(t) \/ BilibiliSingle(t)
  \/ BilibiliChunk(t) \/ BilibiliComplete(t) \/ CreateArchive(t)

-----------------------------------------------------------------------------
(* Douyin: an answer other than 200 leads to a second API.                 *)

DouyinCookies(t) == Prepares(t, "douyin", "cookies")

DouyinAuth(t) == Prepares(t, "douyin", "permit")

DouyinUpload(t) == At(t, "douyin", "single") /\ PutsChunk(t, {}, 1)

DouyinCreate(t) == At(t, "douyin", "post") /\ Posts(t, {"error"}, 2)

Douyin(t) ==
  DouyinCookies(t) \/ DouyinAuth(t) \/ DouyinUpload(t) \/ DouyinCreate(t)

-----------------------------------------------------------------------------
(* WeChat channels: even the request that makes the post is retried.       *)

TencentCookies(t) == Prepares(t, "tencent_video", "cookies")

FinderInfo(t) == Prepares(t, "tencent_video", "finder")

UploadAuth(t) == Prepares(t, "tencent_video", "permit")

InitUpload(t) == Prepares(t, "tencent_video", "init")

TencentChunk(t) ==
  At(t, "tencent_video", "chunks") /\ PutsChunk(t, Unheard, MaxRetries)

TencentComplete(t) == Prepares(t, "tencent_video", "complete")

\* Login expired, or real-name verification required.
Denied(t) == Ends(t, "refused") /\ UNCHANGED <<posts, lost>>

\* An object without errCode and code passes for success.
BlankTrusted(t) ==
  /\ \E made \in 0..1 : posts' = [posts EXCEPT ![t] = @ + made]
  /\ Ends(t, "published")
  /\ UNCHANGED lost

BugTencentCreate(t) ==
  /\ At(t, "tencent_video", "post")
  /\ posts' = [posts EXCEPT ![t] = @ + 1]
  /\ IF tries[t] + 1 < MaxRetries THEN TriesAgain(t) ELSE Ends(t, "published")
  /\ UNCHANGED <<platform, size, acked, stored, lost>>

TencentCreate(t) ==
  /\ At(t, "tencent_video", "post")
  /\ \/ Posts(t, Unheard, MaxRetries)
     \/ Denied(t) /\ UNCHANGED <<platform, size, acked, stored>>
     \/ BlankTrusted(t) /\ UNCHANGED <<platform, size, acked, stored>>

Tencent(t) ==
  \/ TencentCookies(t) \/ FinderInfo(t) \/ UploadAuth(t) \/ InitUpload(t)
  \/ TencentChunk(t) \/ TencentComplete(t) \/ TencentCreate(t)

-----------------------------------------------------------------------------
(* Xiaohongshu: completing the upload needs base64, which is imported in   *)
(* another function only, so that every publication ends there.            *)

XiaohongshuCookies(t) == Prepares(t, "xiaohongshu", "cookies")

UploadPermit(t) == Prepares(t, "xiaohongshu", "permit")

UploadId(t) == Prepares(t, "xiaohongshu", "init")

XiaohongshuPart(t) ==
  At(t, "xiaohongshu", "chunks") /\ PutsChunk(t, Unheard, MaxRetries)

CompleteMultipart(t) ==
  /\ At(t, "xiaohongshu", "complete")
  /\ Ends(t, "refused")
  /\ UNCHANGED <<platform, size, acked, stored, posts, lost>>

Xiaohongshu(t) ==
  \/ XiaohongshuCookies(t) \/ UploadPermit(t) \/ UploadId(t)
  \/ XiaohongshuPart(t) \/ CompleteMultipart(t)

-----------------------------------------------------------------------------
(* WeChat articles: the library's calls block the event loop.              *)

WechatPublisher(t) == Prepares(t, "wechat_mp", "cookies")

PublishToWechat(t) == At(t, "wechat_mp", "post") /\ Posts(t, {}, 1)

Wechat(t) == WechatPublisher(t) \/ PublishToWechat(t)

UploadStep(t) ==
  Bilibili(t) \/ Douyin(t) \/ Tencent(t) \/ Xiaohongshu(t) \/ Wechat(t)

-----------------------------------------------------------------------------
UploadTypeOK ==
  /\ platform \in [Tasks -> VideoPlatforms \cup {"wechat_mp", "elsewhere", NoPlatform}]
  /\ size \in [Tasks -> 0..Parts]
  /\ \A t \in Tasks : pos[t] \in 0..Len(Flow(t)) /\ acked[t] \in 0..size[t]
  /\ tries \in [Tasks -> 0..MaxRetries - 1]
  /\ verdict \in [Tasks -> {"none", "published", "refused"}]
  /\ stored \in [Tasks -> SUBSET (1..Parts)]
  /\ posts \in [Tasks -> 0..MaxRetries]
  /\ lost \in [Tasks -> 0..MaxRetries]

\* A post is only ever made when the platform has every chunk of the file,
\* whatever was retried and whatever answers were lost.
PostsWholeFile ==
  [][\A t \in Tasks : posts'[t] > posts[t] => stored[t] = 1..size[t]]_uploadVars

\* A publisher makes another post only in place of one it was not told of: a
\* task is never posted twice while answers arrive.
NoNeedlessDuplicate == \A t \in Tasks : posts[t] <= 1 + lost[t]
=============================================================================
