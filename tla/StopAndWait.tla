---------------------------- MODULE StopAndWait ----------------------------
(* The Stop-and-Wait ARQ of src/protocol/reliability.py (class              *)
(* StopAndWaitARQ), with the two threads that share its state: the one in   *)
(* send_reliable, and the receiver thread that calls notify_ack for each    *)
(* ACK or NACK that comes back.  They share _last_ack and _ack_event and no *)
(* lock, so each access to them is an action of its own.  The path loses,   *)
(* repeats and delays both ways.  The peer is outside the class: it answers *)
(* every frame it takes with an ACK and may refuse one with a NACK.         *)
(*                                                                          *)
(* The payload of the n-th call of send_reliable is n itself.               *)
EXTENDS CallLog

CONSTANTS SeqMod,     \* sequence numbers are taken modulo this (2^32)
          MaxRetry,   \* ARQ_MAX_RETRIES
          MaxCalls    \* bound of the model: calls in one behaviour

\* What the constants must be.
SAWConstants == /\ SeqMod \in Nat \ {0}
                /\ MaxRetry \in Nat \ {0}
                /\ MaxCalls \in Nat

Seqs  == 0 .. SeqMod - 1
Calls == 1 .. MaxCalls
Frame == [seq : Seqs, payload : Calls]
Reply == [seq : Seqs, ok : BOOLEAN]

\* _last_ack before the first notify_ack: it matches no sequence number.
NoAck == [seq |-> SeqMod, ok |-> FALSE]

VARIABLES
  ackEvent,        \* _ack_event
  lastAck,         \* _last_ack
  pc, attempt,     \* where send_reliable is, and its loop variable
  call,            \* calls started
  rx,              \* where notify_ack is
  frames, replies  \* what the path may still bring, once or many times

senderVars == <<seq, pc, attempt, call, outcomes>>
pathVars   == <<frames, replies, received>>
vars == <<senderVars, ackEvent, lastAck, rx, pathVars>>

----------------------------------------------------------------------------
(* Helpers                                                                  *)

MutantMatches(r)      == r.ok
MutantAttemptsLeft(a) == a <= MaxRetry
MutantNextAttempt(a)  == a

Wrap(n) == n % SeqMod

\* The reply is about the frame now being sent.
Matches(r) == r.seq = seq

AttemptsLeft(a) == a < MaxRetry

NextAttempt(a) == a + 1

Return(result) == /\ pc' = "idle"
                  /\ outcomes' = Append(outcomes, result)
                  /\ UNCHANGED <<attempt, call>>

\* The end of the loop body: once more, or give up.
EndAttempt == /\ IF AttemptsLeft(attempt)
                 THEN /\ pc' = "send"
                      /\ attempt' = NextAttempt(attempt)
                      /\ UNCHANGED <<call, outcomes>>
                 ELSE Return("failed")
              /\ UNCHANGED seq

----------------------------------------------------------------------------
Init == /\ seq = 0 /\ ackEvent = FALSE /\ lastAck = NoAck
        /\ pc = "idle" /\ attempt = 0 /\ call = 0 /\ outcomes = << >>
        /\ rx = "idle"
        /\ frames = {} /\ replies = {} /\ received = << >>

(* The sending thread.                                                      *)

Call == /\ pc = "idle" /\ call < MaxCalls
        /\ call' = call + 1 /\ attempt' = 1 /\ pc' = "send"
        /\ UNCHANGED <<seq, outcomes, ackEvent, lastAck, rx, pathVars>>

SendTo == /\ pc = "send"
          /\ frames' = frames \cup {[seq |-> seq, payload |-> call]}
          /\ pc' = "clear"
          /\ UNCHANGED <<seq, attempt, call, outcomes, ackEvent, lastAck, rx,
                         replies, received>>

\* sendto raises OSError: send_reliable returns False at once.
SendFails == /\ pc = "send"
             /\ Return("failed")
             /\ UNCHANGED <<seq, ackEvent, lastAck, rx, pathVars>>

\* The event is cleared after the frame has gone out.
ClearEvent == /\ pc = "clear"
              /\ ackEvent' = FALSE
              /\ pc' = "wait"
              /\ UNCHANGED <<seq, attempt, call, outcomes, lastAck, rx, pathVars>>

WaitReturns == /\ pc = "wait" /\ ackEvent
               /\ pc' = "read"
               /\ UNCHANGED <<seq, attempt, call, outcomes, ackEvent, lastAck,
                              rx, pathVars>>

WaitTimesOut == /\ pc = "wait" /\ ~ackEvent
                /\ EndAttempt
                /\ UNCHANGED <<ackEvent, lastAck, rx, pathVars>>

\* Whatever _last_ack holds by now decides.  A NACK, and an ACK of another
\* number, end the attempt as a timeout does.
ReadAck == /\ pc = "read"
           /\ IF Matches(lastAck) /\ lastAck.ok
              THEN seq' = Wrap(seq + 1) /\ Return("ok")
              ELSE EndAttempt
           /\ UNCHANGED <<ackEvent, lastAck, rx, pathVars>>

(* The receiver thread: notify_ack in its two steps.                        *)

NotifyAssign == /\ rx = "idle"
                /\ \E r \in replies : lastAck' = r
                /\ rx' = "set"
                /\ UNCHANGED <<senderVars, ackEvent, pathVars>>

NotifySet == /\ rx = "set"
             /\ ackEvent' = TRUE
             /\ rx' = "idle"
             /\ UNCHANGED <<senderVars, lastAck, pathVars>>

(* The peer and the path.                                                   *)

PeerAccept == \E f \in frames :
  /\ received' = IF f \in Range(received) THEN received ELSE Append(received, f)
  /\ replies' = replies \cup {[seq |-> f.seq, ok |-> TRUE]}
  /\ UNCHANGED <<senderVars, ackEvent, lastAck, rx, frames>>

PeerRefuse == \E f \in frames :
  /\ replies' = replies \cup {[seq |-> f.seq, ok |-> FALSE]}
  /\ UNCHANGED <<senderVars, ackEvent, lastAck, rx, frames, received>>

Lose == /\ \/ /\ \E f \in frames : frames' = frames \ {f}
              /\ UNCHANGED replies
           \/ /\ \E r \in replies : replies' = replies \ {r}
              /\ UNCHANGED frames
        /\ UNCHANGED <<senderVars, ackEvent, lastAck, rx, received>>

SenderStep == \/ SendTo \/ SendFails \/ ClearEvent
              \/ WaitReturns \/ WaitTimesOut \/ ReadAck

Next == \/ Call \/ SenderStep
        \/ NotifyAssign \/ NotifySet
        \/ PeerAccept \/ PeerRefuse \/ Lose

\* A running thread takes its next step, and a wait with a timeout ends.
Spec == Init /\ [][Next]_vars /\ WF_vars(SenderStep)

----------------------------------------------------------------------------
(* Properties; those of the calls are in CallLog.                           *)

\* One lap of the sequence numbers, for which what True means is proved.
NoWrap == MaxCalls < SeqMod

\* Types, and send_reliable never tries more than MaxRetry times
\* (reliability.py:54).
TypeOK == /\ seq \in Seqs
          /\ ackEvent \in BOOLEAN
          /\ lastAck \in Reply \cup {NoAck}
          /\ pc \in {"idle", "send", "clear", "wait", "read"}
          /\ attempt \in 0 .. MaxRetry
          /\ call \in 0 .. MaxCalls
          /\ outcomes \in Seq({"ok", "failed"})
          /\ rx \in {"idle", "set"}
          /\ frames \subseteq Frame
          /\ replies \subseteq Reply
          /\ received \in Seq(Frame)

\* send_reliable always comes back to its caller (reliability.py:28-29).
EveryCallReturns == pc # "idle" ~> pc = "idle"
=============================================================================
