----------------------------- MODULE MCWebhooks -----------------------------
(* Small instances of Webhooks for TLC. *)
EXTENDS Webhooks

CONSTANTS e1, e2, u1, v1

(* Two endpoints of one owner, who may have one; the first subscribes to   *)
(* the event.                                                              *)
MCOwner == [e \in Endpoints |-> u1]
MCSubscribes == [e \in Endpoints |-> IF e = e1 THEN Events ELSE {}]
============================================================================
