--------------------------- MODULE MCStopAndWait ---------------------------
(* A statement of the documentation of StopAndWait that the code does not   *)
(* keep; MCReliability checks the others.                                   *)
EXTENDS StopAndWait

\* send_reliable "Returns True on success" (reliability.py:48) of "Reliable,
\* ordered delivery" (reliability.py:26): when it returns True, the payload it
\* was given has reached the peer.
SuccessMeansReceived ==
  \A c \in DOMAIN outcomes :
    outcomes[c] = "ok" => \E f \in Range(received) : f.payload = c
=============================================================================
