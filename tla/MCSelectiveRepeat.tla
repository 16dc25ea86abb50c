------------------------- MODULE MCSelectiveRepeat -------------------------
(* Two statements of the documentation of SelectiveRepeat that the code     *)
(* does not keep; MCReliability checks the others.                          *)
EXTENDS SelectiveRepeat

\* A path as good as the code may hope for: what is sent again and again
\* arrives in the end, and so does the ACK.
FairPath == /\ \A f \in Frame : SF_vars(Receive(f))
            /\ \A s \in Seqs : SF_vars(ProcessAck(s))

FairPathSpec == Spec /\ FairPath

\* send() "Returns ... None if the window is full" (reliability.py:159-160) and
\* "Missing frames are selectively retransmitted by the sender"
\* (reliability.py:116): a full window has space again some time later.
WindowReopens == (~WindowHasSpace) ~> WindowHasSpace
=============================================================================
