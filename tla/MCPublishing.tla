---------------------------- MODULE MCPublishing ----------------------------
(* Bounds for Publishing: every platform, a video in one or two chunks.    *)
EXTENDS Publishing, TLC

Everywhere == VideoPlatforms \cup {"wechat_mp", "elsewhere"}
=============================================================================
