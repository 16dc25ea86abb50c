----------------------------- MODULE MCHandshake -----------------------------
(* A small instance of Handshake for TLC, and a statement of its            *)
(* documentation that the code does not keep.                               *)
EXTENDS Handshake

MCCaps == {[cmds |-> {"yaw"}]}

\* "After ACK the session is established and a shared session_id is known to
\* both sides" (handshake.py:12-13): a session connect returns is one the
\* responder has established.
SharedSession ==
  \A c \in DOMAIN results : results[c].ok => results[c].agreedTo \in EstablishedIds
=============================================================================
