--------------------------- MODULE MCReliability ---------------------------
(* Small instances for TLC of the two ARQs of reliability.py,               *)
(* SelectiveRepeat and StopAndWait, on one lap of the sequence numbers.     *)
(* They share no state, so each behaviour of this module follows one of     *)
(* them and lets the other rest.                                            *)
EXTENDS SelectiveRepeat, CallLog

CONSTANTS SAWSeqMod, SAWMaxRetry, MaxCalls

VARIABLES part,
          ackEvent, lastAck, pc, attempt, call, rx, sawFrames, replies

S == INSTANCE StopAndWait
       WITH SeqMod <- SAWSeqMod, MaxRetry <- SAWMaxRetry, frames <- sawFrames

ASSUME OneLap == NoWrap /\ S!SAWConstants /\ S!NoWrap

sawVars == <<seq, ackEvent, lastAck, pc, attempt, call, outcomes, rx, sawFrames,
             replies, received>>
allVars == <<part, vars, sawVars>>

InRepeat == part = "selective repeat" /\ UNCHANGED <<part, sawVars>>
InWait   == part = "stop and wait" /\ UNCHANGED <<part, vars>>

MCInit == /\ part \in {"selective repeat", "stop and wait"}
          /\ Init /\ S!Init

MCNext == (InRepeat /\ Next) \/ (InWait /\ S!Next)

MCSpec == /\ MCInit /\ [][MCNext]_allVars
          /\ \A s \in Seqs : WF_allVars(InRepeat /\ TimerExpires(s))
          /\ WF_allVars(InWait /\ S!SenderStep)

\* The types of both (reliability.py:54, 197).
TypesOK == TypeOK /\ S!TypeOK

\* See StopAndWait: send_reliable always comes back to its caller
\* (reliability.py:28-29).
EveryCallReturns == S!EveryCallReturns
=============================================================================
