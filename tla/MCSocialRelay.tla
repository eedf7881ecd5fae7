----------------------------- MODULE MCSocialRelay -----------------------------
(* Module SocialRelay with two messages, one to an answer.       *)
EXTENDS SocialRelay, TLC

CONSTANTS r1, r2
================================================================================
