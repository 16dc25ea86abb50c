----------------------------- MODULE MCLeoRelay -----------------------------
(* Small instances of LeoRelay for TLC, and a statement of the              *)
(* documentation that the code does not keep.                               *)
EXTENDS LeoRelay

\* "discard queued messages older than this" (leo_relay.py:42): no frame past
\* that age is passed on.
FreshWhenForwarded ==
  \A d \in Directions : pc[d] = "air" => hand[d].age <= MaxAge
=============================================================================
