--------------------------- MODULE MCIdempotentSend ---------------------------
(***************************************************************************)
(* Senders under one key: two that were handed the same job, one of which   *)
(* tries again, and one that recycles the key for another message with a   *)
(* part computed anew at each try.  A fourth uses no key.                   *)
(***************************************************************************)
EXTENDS IdempotentSend

CONSTANTS s1, s2, s3, s4, k1, p1, p2

MCErrorNames == { "application_error", "rate_limit_exceeded",
                  "concurrent_idempotent_requests", "invalid_idempotent_request" }
MCKeyArgOf == [s \in Senders |-> IF s = s4 THEN None ELSE k1]
\* The sender without a key must not try again: that would be a second send.
MCTriesOf == [s \in Senders |-> IF s \in {s1, s3} THEN 2 ELSE 1]
MCPayloadOf == [s \in Senders |-> IF s = s3 THEN p2 ELSE p1]
==============================================================================
