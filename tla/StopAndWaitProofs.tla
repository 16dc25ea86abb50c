-------------------------- MODULE StopAndWaitProofs --------------------------
(* Theorems about StopAndWait, for any number of calls and retries          *)
(* (SAWConstants).  What True means is proved for one lap of the sequence   *)
(* numbers (NoWrap).                                                        *)
EXTENDS StopAndWait, TLAPS

----------------------------------------------------------------------------
(* Types.                                                                   *)

\* Every call but the running one has returned.
CallInv == call = Len(outcomes) + (IF pc = "idle" THEN 0 ELSE 1)

TypeInv == TypeOK /\ CallInv

LEMMA TypeInit == ASSUME SAWConstants PROVE Init => TypeInv
<1> SUFFICES ASSUME Init PROVE TypeInv
  OBVIOUS
<1>1. TypeOK
  <2>1. seq \in Seqs /\ attempt \in 0 .. MaxRetry /\ call \in 0 .. MaxCalls
    BY DEF SAWConstants, Init, Seqs
  <2>2. outcomes \in Seq({"ok", "failed"}) /\ received \in Seq(Frame)
    BY DEF Init
  <2> QED
    BY <2>1, <2>2 DEF Init, TypeOK
<1>2. CallInv
  BY DEF Init, CallInv
<1> QED
  BY <1>1, <1>2 DEF TypeInv

\* What a sender's step may do to the sender's own state.
SenderTyped == /\ pc' \in {"idle", "send", "clear", "wait", "read"}
               /\ attempt' \in 0 .. MaxRetry
               /\ call' \in 0 .. MaxCalls
               /\ outcomes' \in Seq({"ok", "failed"})
               /\ CallInv'

\* Outside the loop body of send_reliable nothing of it changes.
LEMMA SenderRests ==
  ASSUME SAWConstants, TypeInv, UNCHANGED senderVars
  PROVE  SenderTyped /\ seq' \in Seqs
BY DEF TypeInv, TypeOK, CallInv, senderVars, SenderTyped

LEMMA ReturnTyped ==
  ASSUME SAWConstants, TypeInv, pc # "idle",
         NEW result \in {"ok", "failed"}, Return(result)
  PROVE  SenderTyped
BY DEF SAWConstants, TypeInv, CallInv, Return, TypeOK, SenderTyped

LEMMA EndAttemptTyped ==
  ASSUME SAWConstants, TypeInv, pc # "idle", EndAttempt
  PROVE  SenderTyped /\ seq' = seq
<1>1. CASE AttemptsLeft(attempt)
  BY <1>1
  DEF SAWConstants, EndAttempt, AttemptsLeft, NextAttempt, TypeInv, TypeOK, CallInv, SenderTyped
<1>2. CASE ~AttemptsLeft(attempt)
  BY <1>2, ReturnTyped DEF EndAttempt
<1> QED
  BY <1>1, <1>2

LEMMA TypeStep == ASSUME SAWConstants PROVE TypeInv /\ [Next]_vars => TypeInv'
<1> SUFFICES ASSUME TypeInv, [Next]_vars PROVE TypeInv'
  OBVIOUS
<1> USE DEF SAWConstants
<1>1. CASE Call
  <2>1. SenderTyped /\ seq' = seq
    BY <1>1 DEF Call, TypeInv, TypeOK, CallInv, SenderTyped
  <2> QED
    BY <1>1, <2>1 DEF Call, TypeInv, TypeOK, SenderTyped, pathVars
<1>2. CASE SendTo
  <2>1. call \in Calls /\ SenderTyped
    BY <1>2 DEF SendTo, TypeInv, TypeOK, CallInv, Calls, SenderTyped
  <2>2. [seq |-> seq, payload |-> call] \in Frame
    BY <2>1 DEF TypeInv, TypeOK, Frame
  <2> QED
    BY <1>2, <2>1, <2>2 DEF SendTo, TypeInv, TypeOK, SenderTyped
<1>3. CASE SendFails
  <2>1. SenderTyped /\ seq' = seq
    BY <1>3, ReturnTyped DEF SendFails
  <2> QED
    BY <1>3, <2>1 DEF SendFails, TypeInv, TypeOK, SenderTyped, pathVars
<1>4. CASE ClearEvent \/ WaitReturns
  <2>1. SenderTyped
    BY <1>4 DEF ClearEvent, WaitReturns, TypeInv, TypeOK, CallInv, SenderTyped
  <2> QED
    BY <1>4, <2>1 DEF ClearEvent, WaitReturns, TypeInv, TypeOK, SenderTyped, pathVars
<1>5. CASE WaitTimesOut
  <2>1. SenderTyped /\ seq' = seq
    BY <1>5, EndAttemptTyped DEF WaitTimesOut
  <2> QED
    BY <1>5, <2>1 DEF WaitTimesOut, TypeInv, TypeOK, SenderTyped, pathVars
<1>6. CASE ReadAck
  <2>1. SenderTyped /\ seq' \in Seqs
    <3>1. CASE Matches(lastAck) /\ lastAck.ok
      <4>1. pc # "idle" /\ Return("ok") /\ seq' = Wrap(seq + 1)
        BY <1>6, <3>1 DEF ReadAck
      <4>2. Wrap(seq + 1) \in Seqs
        BY DEF TypeInv, TypeOK, Wrap, Seqs
      <4> QED
        BY <4>1, <4>2, ReturnTyped
    <3>2. CASE ~(Matches(lastAck) /\ lastAck.ok)
      BY <1>6, <3>2, EndAttemptTyped DEF ReadAck, TypeInv, TypeOK
    <3> QED
      BY <3>1, <3>2
  <2> QED
    BY <1>6, <2>1 DEF ReadAck, TypeInv, TypeOK, SenderTyped, pathVars
<1>7. CASE NotifyAssign \/ NotifySet
  <2>1. SenderTyped /\ seq' \in Seqs
    BY <1>7, SenderRests DEF NotifyAssign, NotifySet
  <2> QED
    BY <1>7, <2>1 DEF NotifyAssign, NotifySet, TypeInv, TypeOK, SenderTyped, pathVars
<1>8. CASE PeerAccept
  <2>1. PICK f \in frames :
          /\ received' = IF f \in Range(received) THEN received ELSE Append(received, f)
          /\ replies' = replies \cup {[seq |-> f.seq, ok |-> TRUE]}
          /\ UNCHANGED <<senderVars, ackEvent, lastAck, rx, frames>>
    BY <1>8 DEF PeerAccept
  <2>2. f \in Frame /\ [seq |-> f.seq, ok |-> TRUE] \in Reply
    BY DEF TypeInv, TypeOK, Frame, Reply
  <2>3. received' \in Seq(Frame)
    BY <2>1, <2>2 DEF TypeInv, TypeOK
  <2>4. replies' \subseteq Reply /\ SenderTyped /\ seq' \in Seqs
    BY <2>1, <2>2, SenderRests DEF TypeInv, TypeOK
  <2> QED
    BY <2>1, <2>3, <2>4 DEF TypeInv, TypeOK, SenderTyped
<1>9. CASE PeerRefuse
  <2>1. PICK f \in frames :
          /\ replies' = replies \cup {[seq |-> f.seq, ok |-> FALSE]}
          /\ UNCHANGED <<senderVars, ackEvent, lastAck, rx, frames, received>>
    BY <1>9 DEF PeerRefuse
  <2>2. [seq |-> f.seq, ok |-> FALSE] \in Reply
    BY DEF TypeInv, TypeOK, Frame, Reply
  <2> QED
    BY <2>1, <2>2, SenderRests DEF TypeInv, TypeOK, SenderTyped
<1>10. CASE Lose
  BY <1>10, SenderRests DEF Lose, TypeInv, TypeOK, SenderTyped
<1>11. CASE UNCHANGED vars
  BY <1>11, SenderRests DEF vars, pathVars, TypeInv, TypeOK, SenderTyped
<1> QED
  BY <1>1, <1>2, <1>3, <1>4, <1>5, <1>6, <1>7, <1>8, <1>9, <1>10, <1>11
  DEF Next, SenderStep

LEMMA TypeInvariance == ASSUME SAWConstants PROVE Spec => []TypeInv
<1>1. Init => TypeInv
  BY TypeInit
<1>2. TypeInv /\ [Next]_vars => TypeInv'
  BY TypeStep
<1> QED
  BY <1>1, <1>2, PTL DEF Spec

\* Types, and never more attempts than there are retries (reliability.py:54).
THEOREM TypeCorrect == ASSUME SAWConstants PROVE Spec => []TypeOK
<1>1. TypeInv => TypeOK
  BY DEF TypeInv
<1> QED
  BY <1>1, TypeInvariance, PTL

----------------------------------------------------------------------------
(* Replies are truthful, and so the numbers passed are received.            *)

\* The number of a frame the peer has taken.
Taken(s) == \E f \in Range(received) : f.seq = s

AckInv == \A r \in replies \cup {lastAck} : r.ok => Taken(r.seq)

TruthInv == AckInv /\ PassedWasReceived

LEMMA TruthInit == Init => TruthInv
BY DEF Init, TruthInv, AckInv, NoAck, PassedWasReceived

\* What has been received stays so.
LEMMA TakenKept ==
  ASSUME Range(received) \subseteq Range(received)'
  PROVE  \A s : Taken(s) => Taken(s)'
BY DEF Taken

LEMMA ReceivedGrows ==
  ASSUME SAWConstants, TypeInv, NEW f \in frames,
         received' = IF f \in Range(received) THEN received ELSE Append(received, f)
  PROVE  /\ Range(received)' = Range(received) \cup {f}
         /\ received' \in Seq(Frame)
         /\ Len(received) \in Nat
         /\ \A i \in 1 .. Len(received) : received'[i] = received[i]
<1>1. received \in Seq(Frame) /\ f \in Frame
  BY DEF TypeInv, TypeOK
<1>2. CASE f \in Range(received)
  BY <1>1, <1>2
<1>3. CASE f \notin Range(received)
  <2>1. /\ received' = Append(received, f) /\ Len(received) \in Nat
        /\ DOMAIN received' = 1 .. Len(received) + 1
        /\ received'[Len(received) + 1] = f
        /\ \A i \in 1 .. Len(received) : received'[i] = received[i]
        /\ DOMAIN received = 1 .. Len(received)
    BY <1>1, <1>3
  <2> QED
    BY <1>1, <2>1 DEF Range
<1> QED
  BY <1>2, <1>3

LEMMA TruthStep ==
  ASSUME SAWConstants PROVE TypeInv /\ TruthInv /\ [Next]_vars => TruthInv'
<1> SUFFICES ASSUME TypeInv, TruthInv, [Next]_vars PROVE TruthInv'
  OBVIOUS
<1>1. CASE UNCHANGED received /\ UNCHANGED seq /\ replies' \subseteq replies
           /\ lastAck' \in replies \cup {lastAck}
  BY <1>1 DEF TruthInv, AckInv, PassedWasReceived, Taken
<1>2. CASE ReadAck
  <2>1. UNCHANGED <<received, replies, lastAck>>
    BY <1>2 DEF ReadAck, pathVars
  <2>2. CASE Matches(lastAck) /\ lastAck.ok
    <3>1. seq' = Wrap(seq + 1) /\ Taken(seq)
      BY <1>2, <2>2 DEF ReadAck, Matches, TruthInv, AckInv
    <3>2. seq \in Nat /\ (seq' = 0 \/ seq' = seq + 1)
      BY <3>1 DEF SAWConstants, TypeInv, TypeOK, Seqs, Wrap
    <3> QED
      BY <2>1, <3>1, <3>2 DEF TruthInv, AckInv, PassedWasReceived, Taken
  <2>3. CASE ~(Matches(lastAck) /\ lastAck.ok)
    BY <1>1, <1>2, <2>1, <2>3 DEF ReadAck, EndAttempt
  <2> QED
    BY <2>2, <2>3
<1>3. CASE PeerAccept
  <2>1. PICK f \in frames :
          /\ received' = IF f \in Range(received) THEN received ELSE Append(received, f)
          /\ replies' = replies \cup {[seq |-> f.seq, ok |-> TRUE]}
          /\ UNCHANGED <<seq, lastAck>>
    BY <1>3 DEF PeerAccept, senderVars
  <2>2. Range(received)' = Range(received) \cup {f}
    BY <2>1, ReceivedGrows
  <2> QED
    BY <2>1, <2>2 DEF TruthInv, AckInv, PassedWasReceived, Taken
<1>4. CASE PeerRefuse
  BY <1>4 DEF PeerRefuse, senderVars, TruthInv, AckInv, PassedWasReceived, Taken
<1>5. CASE SendFails \/ WaitTimesOut
  BY <1>1, <1>5 DEF SendFails, WaitTimesOut, EndAttempt, pathVars
<1>6. CASE Call \/ SendTo \/ ClearEvent \/ WaitReturns
  BY <1>1, <1>6 DEF Call, SendTo, ClearEvent, WaitReturns, pathVars
<1>7. CASE NotifyAssign \/ NotifySet \/ Lose
  BY <1>1, <1>7 DEF NotifyAssign, NotifySet, Lose, senderVars, pathVars
<1>8. CASE UNCHANGED vars
  BY <1>1, <1>8 DEF vars, senderVars, pathVars
<1> QED
  BY <1>2, <1>3, <1>4, <1>5, <1>6, <1>7, <1>8 DEF Next, SenderStep

LEMMA TruthInvariance == ASSUME SAWConstants PROVE Spec => []TruthInv
<1>1. TypeInv /\ TruthInv /\ [Next]_vars => TruthInv'
  BY TruthStep
<1> QED
  BY <1>1, TypeInvariance, TruthInit, PTL DEF Spec

\* A number is passed only when the peer has taken a frame of it
\* (reliability.py:69-72, 88-89), on every lap.
THEOREM PassedIsReceived == ASSUME SAWConstants PROVE Spec => []PassedWasReceived
<1>1. TruthInv => PassedWasReceived
  BY DEF TruthInv
<1> QED
  BY <1>1, TruthInvariance, PTL

----------------------------------------------------------------------------
(* What True means, on one lap.  Until a call fails, the k-th call uses the *)
(* number k - 1, and so a frame of that number bears its payload.           *)

AllOk(out, n) == \A d \in 1 .. n : out[d] = "ok"

SeqInv == AllOk(outcomes, Len(outcomes)) => seq = Len(outcomes)

FrameInv == \A f \in frames \cup Range(received) :
              /\ f.payload <= call
              /\ AllOk(outcomes, f.payload - 1) => f.seq = f.payload - 1

TrustInv == SeqInv /\ FrameInv /\ TrustworthyUntilFailure /\ OrderedUnlessFailed

LEMMA TrustInit == Init => TrustInv
<1> SUFFICES ASSUME Init PROVE TrustInv
  OBVIOUS
<1>1. Len(outcomes) = 0 /\ DOMAIN outcomes = {} /\ DOMAIN received = {}
  BY DEF Init
<1> QED
  BY <1>1 DEF Init, TrustInv, SeqInv, FrameInv, TrustworthyUntilFailure,
              OrderedUnlessFailed, Range

\* The frames the model has are of calls made.
LEMMA FrameTypes ==
  ASSUME SAWConstants, TypeInv
  PROVE  /\ \A f \in frames \cup Range(received) :
              f \in Frame /\ f.payload \in Nat \ {0} /\ f.seq \in Nat
         /\ Len(outcomes) \in Nat /\ DOMAIN outcomes = 1 .. Len(outcomes)
         /\ Len(received) \in Nat /\ DOMAIN received = 1 .. Len(received)
         /\ \A d \in 1 .. Len(outcomes) : outcomes[d] \in {"ok", "failed"}
         /\ call \in Nat /\ call <= MaxCalls /\ seq \in Nat
         /\ Len(outcomes) <= call /\ call <= Len(outcomes) + 1
<1>1. /\ received \in Seq(Frame) /\ frames \subseteq Frame
      /\ outcomes \in Seq({"ok", "failed"})
  BY DEF TypeInv, TypeOK
<1>2. \A f \in Range(received) : f \in Frame
  BY <1>1 DEF Range
<1>3. \A f \in Frame : f.payload \in Nat \ {0} /\ f.seq \in Nat
  BY DEF SAWConstants, Frame, Calls, Seqs
<1>4. call \in Nat /\ call <= MaxCalls /\ seq \in Nat
  BY DEF SAWConstants, TypeInv, TypeOK, Seqs
<1> QED
  BY <1>1, <1>2, <1>3, <1>4 DEF TypeInv, CallInv

\* Steps that end no call and bring the peer nothing.
LEMMA TrustKept ==
  ASSUME SAWConstants, TypeInv, TrustInv, UNCHANGED <<seq, outcomes, received>>,
         call' = call \/ call' = call + 1,
         \A f \in frames' : f \in frames \/ /\ f.payload = call /\ f.seq = seq
                                            /\ call = Len(outcomes) + 1
  PROVE  TrustInv'
<1>1. FrameInv'
  <2> SUFFICES ASSUME NEW f \in frames' \cup Range(received)
               PROVE  /\ f.payload <= call'
                      /\ AllOk(outcomes, f.payload - 1) => f.seq = f.payload - 1
    BY DEF FrameInv, AllOk
  <2>1. CASE f \in frames \cup Range(received)
    BY <2>1, FrameTypes DEF TrustInv, FrameInv
  <2>2. CASE f.payload = call /\ f.seq = seq /\ call = Len(outcomes) + 1
    <3>1. f.payload - 1 = Len(outcomes) /\ f.payload <= call'
      BY <2>2, FrameTypes
    <3> QED
      BY <2>2, <3>1 DEF TrustInv, SeqInv
  <2> QED
    BY <2>1, <2>2
<1> QED
  BY <1>1 DEF TrustInv, SeqInv, AllOk, TrustworthyUntilFailure, OrderedUnlessFailed

\* A call ends: what was said of those before it still holds.
LEMMA ReturnKeeps ==
  ASSUME SAWConstants, TypeInv, TrustInv, pc # "idle",
         NEW result \in {"ok", "failed"}, Return(result),
         UNCHANGED <<frames, received>>
  PROVE  /\ Len(outcomes') = Len(outcomes) + 1
         /\ outcomes'[Len(outcomes) + 1] = result
         /\ DOMAIN outcomes' = 1 .. Len(outcomes) + 1
         /\ \A n \in Int : n <= Len(outcomes) => (AllOk(outcomes', n) <=> AllOk(outcomes, n))
         /\ FrameInv' /\ OrderedUnlessFailed'
<1>1. /\ Len(outcomes') = Len(outcomes) + 1
      /\ outcomes'[Len(outcomes) + 1] = result
      /\ DOMAIN outcomes' = 1 .. Len(outcomes) + 1
      /\ \A d \in 1 .. Len(outcomes) : outcomes'[d] = outcomes[d]
  BY DEF Return, TypeInv, TypeOK
<1>2. ASSUME NEW n \in Int, n <= Len(outcomes) PROVE AllOk(outcomes', n) <=> AllOk(outcomes, n)
  <2>1. \A d \in 1 .. n : outcomes'[d] = outcomes[d]
    BY <1>1, <1>2, FrameTypes
  <2> QED
    BY <2>1 DEF AllOk
<1>3. FrameInv'
  <2> SUFFICES ASSUME NEW f \in frames \cup Range(received)
               PROVE  /\ f.payload <= call'
                      /\ AllOk(outcomes', f.payload - 1) => f.seq = f.payload - 1
    BY DEF FrameInv, AllOk
  <2>1. call' = call /\ f.payload <= call
    BY DEF Return, TrustInv, FrameInv
  <2>2. f.payload - 1 \in Int /\ f.payload - 1 <= Len(outcomes)
    BY <2>1, FrameTypes
  <2> QED
    BY <1>2, <2>1, <2>2 DEF TrustInv, FrameInv
<1>4. OrderedUnlessFailed'
  <2> SUFFICES ASSUME NEW i \in DOMAIN received, NEW j \in DOMAIN received,
                      i < j, received[i].payload > received[j].payload
               PROVE  \E c \in 1 .. received[j].payload : outcomes'[c] = "failed"
    BY DEF OrderedUnlessFailed
  <2>1. PICK c \in 1 .. received[j].payload : outcomes[c] = "failed"
    BY DEF TrustInv, OrderedUnlessFailed
  <2>2. received[i] \in Range(received) /\ received[j] \in Range(received)
    BY DEF Range
  <2>3. received[j].payload < call
    BY <2>2, FrameTypes DEF TrustInv, FrameInv
  <2>4. c \in 1 .. Len(outcomes)
    BY <2>1, <2>2, <2>3, FrameTypes
  <2> QED
    BY <1>1, <2>1, <2>4
<1> QED
  BY <1>1, <1>2, <1>3, <1>4

LEMMA FailureTrust ==
  ASSUME SAWConstants, TypeInv, TrustInv, pc # "idle", Return("failed"),
         UNCHANGED <<frames, received>>
  PROVE  TrustInv'
<1>1. /\ Len(outcomes') = Len(outcomes) + 1
      /\ outcomes'[Len(outcomes) + 1] = "failed"
      /\ DOMAIN outcomes' = 1 .. Len(outcomes) + 1
      /\ \A n \in Int : n <= Len(outcomes) => (AllOk(outcomes', n) <=> AllOk(outcomes, n))
      /\ FrameInv' /\ OrderedUnlessFailed'
  BY ReturnKeeps
<1>2. ~AllOk(outcomes', Len(outcomes) + 1)
  BY <1>1, FrameTypes DEF AllOk
<1>3. SeqInv'
  BY <1>1, <1>2 DEF SeqInv
<1>4. TrustworthyUntilFailure'
  <2> SUFFICES ASSUME NEW c \in DOMAIN outcomes', AllOk(outcomes', c)
               PROVE  \E f \in Range(received) : f.payload = c
    BY DEF TrustworthyUntilFailure, AllOk
  <2>1. c \in 1 .. Len(outcomes) /\ c \in DOMAIN outcomes /\ AllOk(outcomes, c)
    BY <1>1, <1>2, FrameTypes
  <2> QED
    BY <2>1 DEF TrustInv, TrustworthyUntilFailure, AllOk
<1> QED
  BY <1>1, <1>3, <1>4 DEF TrustInv

\* The number in the ACK is the one of the call, and only one payload has it.
LEMMA SuccessTrust ==
  ASSUME SAWConstants, NoWrap, TypeInv, TruthInv, TrustInv,
         ReadAck, Matches(lastAck), lastAck.ok
  PROVE  TrustInv'
<1>0. /\ pc # "idle" /\ Return("ok") /\ UNCHANGED <<frames, received>>
      /\ seq' = Wrap(seq + 1)
  BY DEF ReadAck, pathVars
<1>1. /\ Len(outcomes') = Len(outcomes) + 1
      /\ outcomes'[Len(outcomes) + 1] = "ok"
      /\ DOMAIN outcomes' = 1 .. Len(outcomes) + 1
      /\ \A n \in Int : n <= Len(outcomes) => (AllOk(outcomes', n) <=> AllOk(outcomes, n))
      /\ FrameInv' /\ OrderedUnlessFailed'
  BY <1>0, ReturnKeeps
<1>2. AllOk(outcomes', Len(outcomes) + 1) => AllOk(outcomes, Len(outcomes))
  <2>1. AllOk(outcomes', Len(outcomes) + 1) => AllOk(outcomes', Len(outcomes))
    BY <1>1, FrameTypes DEF AllOk
  <2> QED
    BY <1>1, <2>1, FrameTypes
<1>3. call = Len(outcomes) + 1
  BY <1>0 DEF TypeInv, CallInv
<1>4. ASSUME AllOk(outcomes, Len(outcomes)) PROVE seq = Len(outcomes) /\ seq' = seq + 1
  <2>1. seq = Len(outcomes)
    BY <1>4 DEF TrustInv, SeqInv
  <2>2. seq + 1 \in 0 .. SeqMod - 1
    BY <1>3, <2>1, FrameTypes DEF SAWConstants, NoWrap
  <2> QED
    BY <1>0, <2>1, <2>2 DEF SAWConstants, Wrap
<1>5. SeqInv'
  BY <1>1, <1>2, <1>4 DEF SeqInv
<1>6. AllOk(outcomes, Len(outcomes)) => \E f \in Range(received) : f.payload = call
  <2> SUFFICES ASSUME AllOk(outcomes, Len(outcomes))
               PROVE  \E f \in Range(received) : f.payload = call
    OBVIOUS
  <2>1. PICK f \in Range(received) : f.seq = Len(outcomes)
    BY <1>4 DEF Matches, TruthInv, AckInv, Taken
  <2>2. f.payload <= call /\ f.payload \in Nat \ {0}
    BY FrameTypes DEF TrustInv, FrameInv
  <2>3. AllOk(outcomes, f.payload - 1)
    BY <1>3, <2>2, FrameTypes DEF AllOk
  <2> QED
    BY <1>3, <2>1, <2>2, <2>3, FrameTypes DEF TrustInv, FrameInv
<1>7. TrustworthyUntilFailure'
  <2> SUFFICES ASSUME NEW c \in DOMAIN outcomes', AllOk(outcomes', c)
               PROVE  \E f \in Range(received) : f.payload = c
    BY <1>0 DEF TrustworthyUntilFailure, AllOk
  <2>1. CASE c \in 1 .. Len(outcomes)
    <3>1. c \in DOMAIN outcomes /\ AllOk(outcomes, c)
      BY <1>1, <2>1, FrameTypes
    <3> QED
      BY <3>1 DEF TrustInv, TrustworthyUntilFailure, AllOk
  <2>2. CASE c = Len(outcomes) + 1
    BY <1>2, <1>3, <1>6, <2>2
  <2> QED
    BY <1>1, <2>1, <2>2, FrameTypes
<1> QED
  BY <1>1, <1>5, <1>7 DEF TrustInv

\* A frame the peer sees for the first time after one of a later call: its own
\* call has returned, and if all went well until then the peer had it already.
LEMMA AcceptTrust ==
  ASSUME SAWConstants, NoWrap, TypeInv, TrustInv,
         NEW f \in frames, UNCHANGED <<senderVars, frames>>,
         received' = IF f \in Range(received) THEN received ELSE Append(received, f)
  PROVE  TrustInv'
<1>1. /\ Range(received)' = Range(received) \cup {f}
      /\ UNCHANGED <<seq, call, outcomes>>
  BY ReceivedGrows DEF senderVars
<1>2. SeqInv' /\ FrameInv' /\ TrustworthyUntilFailure'
  <2>1. \A n : AllOk(outcomes', n) <=> AllOk(outcomes, n)
    BY <1>1 DEF AllOk
  <2>2. SeqInv' /\ FrameInv'
    BY <1>1, <2>1 DEF TrustInv, SeqInv, FrameInv
  <2>3. TrustworthyUntilFailure'
    BY <1>1 DEF TrustInv, TrustworthyUntilFailure
  <2> QED
    BY <2>2, <2>3
<1>3. OrderedUnlessFailed'
  <2>1. CASE f \in Range(received)
    BY <1>1, <2>1 DEF TrustInv, OrderedUnlessFailed
  <2>2. CASE f \notin Range(received)
    <3>1. /\ DOMAIN received' = 1 .. Len(received) + 1
          /\ received'[Len(received) + 1] = f
          /\ \A i \in 1 .. Len(received) : received'[i] = received[i]
      BY <2>2, FrameTypes DEF TypeInv, TypeOK
    <3> SUFFICES ASSUME NEW i \in DOMAIN received', NEW j \in DOMAIN received',
                        i < j, received'[i].payload > received'[j].payload
                 PROVE  \E c \in 1 .. received'[j].payload : outcomes[c] = "failed"
      BY <1>1 DEF OrderedUnlessFailed
    <3>2. i \in DOMAIN received /\ received'[i] = received[i] /\ received[i] \in Range(received)
      BY <3>1, FrameTypes DEF Range
    <3>3. CASE j \in DOMAIN received
      BY <3>1, <3>2, <3>3, FrameTypes DEF TrustInv, OrderedUnlessFailed
    <3>4. CASE j = Len(received) + 1
      <4> DEFINE p == f.payload
      <4>1. received'[j] = f /\ p \in Nat \ {0} /\ p < received[i].payload
        BY <3>1, <3>2, <3>4, FrameTypes
      <4>2. p <= Len(outcomes)
        BY <3>2, <4>1, FrameTypes DEF TrustInv, FrameInv
      <4>3. ASSUME AllOk(outcomes, p) PROVE FALSE
        <5>0. p \in DOMAIN outcomes
          BY <4>1, <4>2, FrameTypes
        <5>1. PICK g \in Range(received) : g.payload = p
          BY <4>3, <5>0 DEF TrustInv, TrustworthyUntilFailure, AllOk
        <5>2. AllOk(outcomes, p - 1)
          BY <4>1, <4>3 DEF AllOk
        <5>3. f.seq = p - 1 /\ g.seq = p - 1
          BY <5>1, <5>2 DEF TrustInv, FrameInv
        <5>4. f \in Frame /\ g \in Frame
          BY FrameTypes
        <5>5. f = g
          BY <5>1, <5>3, <5>4 DEF Frame
        <5> QED
          BY <2>2, <5>1, <5>5
      <4>4. PICK c \in 1 .. p : outcomes[c] # "ok"
        BY <4>3 DEF AllOk
      <4>5. outcomes[c] = "failed"
        BY <4>1, <4>2, <4>4, FrameTypes
      <4> QED
        BY <4>1, <4>4, <4>5
    <3> QED
      BY <3>1, <3>3, <3>4, FrameTypes
  <2> QED
    BY <2>1, <2>2
<1> QED
  BY <1>2, <1>3 DEF TrustInv

LEMMA TrustStep ==
  ASSUME SAWConstants, NoWrap, TypeInv, TruthInv, TrustInv, [Next]_vars
  PROVE  TrustInv'
<1>1. CASE Call \/ ClearEvent \/ WaitReturns
  <2>1. /\ UNCHANGED <<seq, outcomes, received, frames>>
        /\ call' = call \/ call' = call + 1
    BY <1>1 DEF Call, ClearEvent, WaitReturns, pathVars
  <2> QED
    BY <2>1, TrustKept
<1>2. CASE SendTo
  <2>1. /\ UNCHANGED <<seq, outcomes, received, call>>
        /\ \A f \in frames' : f \in frames \/ (f.payload = call /\ f.seq = seq)
        /\ call = Len(outcomes) + 1
    BY <1>2 DEF SendTo, TypeInv, CallInv
  <2> QED
    BY <2>1, TrustKept
<1>3. CASE SendFails
  BY <1>3, FailureTrust DEF SendFails, pathVars
<1>4. ASSUME EndAttempt, pc # "idle", UNCHANGED pathVars PROVE TrustInv'
  <2>1. CASE AttemptsLeft(attempt)
    BY <1>4, <2>1, TrustKept DEF EndAttempt, pathVars
  <2>2. CASE ~AttemptsLeft(attempt)
    BY <1>4, <2>2, FailureTrust DEF EndAttempt, pathVars
  <2> QED
    BY <2>1, <2>2
<1>5. CASE WaitTimesOut
  BY <1>4, <1>5 DEF WaitTimesOut
<1>6. CASE ReadAck
  <2>1. CASE Matches(lastAck) /\ lastAck.ok
    BY <1>6, <2>1, SuccessTrust
  <2>2. CASE ~(Matches(lastAck) /\ lastAck.ok)
    BY <1>4, <1>6, <2>2 DEF ReadAck
  <2> QED
    BY <2>1, <2>2
<1>7. CASE PeerAccept
  BY <1>7, AcceptTrust DEF PeerAccept
<1>8. CASE NotifyAssign \/ NotifySet \/ PeerRefuse \/ Lose \/ UNCHANGED vars
  <2>1. UNCHANGED <<seq, outcomes, received, call>> /\ frames' \subseteq frames
    BY <1>8 DEF NotifyAssign, NotifySet, PeerRefuse, Lose, vars, senderVars, pathVars
  <2> QED
    BY <2>1, TrustKept
<1> QED
  BY <1>1, <1>2, <1>3, <1>5, <1>6, <1>7, <1>8 DEF Next, SenderStep

LEMMA TrustInvariance == ASSUME SAWConstants, NoWrap PROVE Spec => []TrustInv
<1>1. TypeInv /\ TruthInv /\ TrustInv /\ [Next]_vars => TrustInv'
  BY TrustStep
<1> QED
  BY <1>1, TrustInit, TypeInvariance, TruthInvariance, PTL DEF Spec

\* Until a call fails, True means that the peer has the payload
\* (reliability.py:70-73).
THEOREM TrueUntilFailure == ASSUME SAWConstants, NoWrap PROVE Spec => []TrustworthyUntilFailure
<1>1. TrustInv => TrustworthyUntilFailure
  BY DEF TrustInv
<1> QED
  BY <1>1, TrustInvariance, PTL

\* "Reliable, ordered delivery" (reliability.py:26) holds up to the first
\* failure.
THEOREM OrderUntilFailure == ASSUME SAWConstants, NoWrap PROVE Spec => []OrderedUnlessFailed
<1>1. TrustInv => OrderedUnlessFailed
  BY DEF TrustInv
<1> QED
  BY <1>1, TrustInvariance, PTL
=============================================================================
