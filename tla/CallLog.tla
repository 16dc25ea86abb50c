------------------------------ MODULE CallLog ------------------------------
(* What the calls of send_reliable come to, as the log of their results and *)
(* the frames the peer took show it.  StopAndWait says how the two threads  *)
(* make them.                                                               *)
EXTENDS Integers, Sequences, Functions

VARIABLES
  seq,       \* _seq
  outcomes,  \* history: what each finished call returned
  received   \* the different frames the peer took, in order of arrival

\* The sender moves past a number only when the peer has taken a frame with
\* that number, however late, repeated or overwritten the replies in
\* _last_ack are (reliability.py:69-72, 88-89).
PassedWasReceived ==
  \A s \in 0 .. seq - 1 : \E f \in Range(received) : f.seq = s

\* Until a call fails, True means what it says: the payloads of the calls that
\* returned True are those the peer took (reliability.py:70-73).
TrustworthyUntilFailure ==
  \A c \in DOMAIN outcomes :
    (\A d \in 1 .. c : outcomes[d] = "ok")
      => \E f \in Range(received) : f.payload = c

\* "Reliable, ordered delivery" (reliability.py:26): the peer sees a payload
\* for the first time after one of a later call only if its own call or one
\* before it failed.
OrderedUnlessFailed ==
  \A i, j \in DOMAIN received :
    (i < j /\ received[i].payload > received[j].payload)
      => \E c \in 1 .. received[j].payload : outcomes[c] = "failed"
=============================================================================
