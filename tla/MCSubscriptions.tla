-------------------------- MODULE MCSubscriptions --------------------------
(* One client that subscribes and one that comes, goes or subscribes too;  *)
(* three requests make an old, a repeated and a late one.                  *)
EXTENDS Subscriptions

CONSTANTS c1, c2, v1, v2

MCClient == {c1, c2}
MCValue == {v1, v2}
=============================================================================
