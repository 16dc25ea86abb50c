----------------------- MODULE SelectiveRepeatProofs -----------------------
(* Proofs about SelectiveRepeat for every window, retry limit and modulus.  *)
(* Types hold on every lap of the sequence numbers, the rest on the first   *)
(* (NoWrap), which is where the code keeps it.                              *)
EXTENDS SelectiveRepeat, FiniteSetTheorems, TLAPS

----------------------------------------------------------------------------
(* The inductive invariant.                                                 *)

\* The sender's window lies across the receiver's base and is never wider than
\* Window.
Bases == /\ nextSeq = sent
         /\ sendBase <= recvBase /\ recvBase <= sent
         /\ sent - sendBase <= Window

\* A number stands for the payload of the same index.
FramesInv == \A f \in frames : f.seq = f.payload /\ f.payload < sent

SendBufInv == \A s \in DOMAIN sendBuf :
                /\ sendBuf[s].frame = [seq |-> s, payload |-> s]
                /\ sendBase <= s /\ s < sent
                /\ s \notin ackReceived

RecvBufInv == \A s \in DOMAIN recvBuf :
                recvBuf[s] = s /\ recvBase < s /\ s < sent

\* What is ACKed has been delivered or is buffered; the slide stops at a number
\* that is not ACKed.
AckInv == /\ \A s \in acks \cup ackReceived :
               s < recvBase \/ s \in DOMAIN recvBuf
          /\ sendBase \notin ackReceived

DeliveredInv == delivered = [i \in 1 .. recvBase |-> i - 1]

IInv == /\ TypeOK /\ Bases /\ FramesInv /\ SendBufInv
        /\ RecvBufInv /\ AckInv /\ DeliveredInv

----------------------------------------------------------------------------
(* Helpers of the model.                                                    *)

\* Numbers of the first lap are not changed by the reduction.
LEMMA WrapSmall == \A n \in 0 .. SeqMod - 1 : Wrap(n) = n
  BY SRConstants DEF Wrap

\* A contiguous run of k members of S at base, below n and without reduction.
PlainRun(base, S, k, n) ==
  /\ k \in Nat /\ base + k <= n
  /\ Wrap(base + k) = base + k
  /\ \A i \in 0 .. k - 1 : Wrap(base + i) = base + i
  /\ Run(base, k) = base .. base + k - 1
  /\ base .. base + k - 1 \subseteq S
  /\ base + k \notin S

\* The contiguous run at base of a set of numbers below n, base <= n, ends at n
\* at the latest: if it went on, it would contain n itself.
LEMMA RunBelow ==
  ASSUME NEW n \in 0 .. SeqMod - 1, NEW base \in 0 .. n,
         NEW S \in SUBSET (0 .. n - 1), NEW k, IsRun(base, S, k)
  PROVE  PlainRun(base, S, k, n)
<1>1. k \in 0 .. SeqMod
  BY DEF IsRun
<1>2. base + k <= n
  <2>1. SUFFICES ASSUME n < base + k PROVE FALSE
    BY <1>1, SRConstants
  <2>2. n - base \in 0 .. k - 1 /\ base + (n - base) = n
    BY <1>1, <2>1, SRConstants
  <2>3. Wrap(n) \in S
    BY <2>2 DEF IsRun
  <2> QED
    BY <2>3, WrapSmall
<1>3. \A i \in 0 .. k : base + i \in 0 .. SeqMod - 1
  BY <1>1, <1>2, SRConstants
<1>4. \A i \in 0 .. k : Wrap(base + i) = base + i
  BY <1>3, WrapSmall
<1>5. Run(base, k) = base .. base + k - 1
  <2>1. ASSUME NEW x \in base .. base + k - 1
        PROVE  \E i \in 0 .. k - 1 : x = Wrap(base + i)
    <3>1. x - base \in 0 .. k - 1 /\ base + (x - base) = x
      BY <1>1, <2>1, SRConstants
    <3> QED
      BY <1>1, <1>4, <3>1
  <2>2. ASSUME NEW i \in 0 .. k - 1
        PROVE  Wrap(base + i) \in base .. base + k - 1
    BY <1>1, <1>4, SRConstants
  <2> QED
    BY <2>1, <2>2 DEF Run
<1>6. base .. base + k - 1 \subseteq S
  BY <1>5 DEF IsRun, Run
<1>7. base + k \notin S
  <2>1. k < SeqMod
    BY <1>1, <1>2, SRConstants
  <2> QED
    BY <1>1, <1>4, <2>1 DEF IsRun
<1> QED
  BY <1>1, <1>2, <1>4, <1>5, <1>6, <1>7 DEF PlainRun

----------------------------------------------------------------------------
(* Types.                                                                   *)

\* Whatever is reduced is a sequence number.
LEMMA WrapInSeqs == \A n \in Int : Wrap(n) \in Seqs
  BY SRConstants DEF Wrap, Seqs

\* The types need no first lap: they survive any number of laps.
LEMMA TypeStep == TypeOK /\ [Next]_vars => TypeOK'
<1> SUFFICES ASSUME TypeOK, [Next]_vars
             PROVE  TypeOK'
  OBVIOUS
<1>1. CASE Send
  <2> DEFINE f == [seq |-> nextSeq, payload |-> sent]
  <2>1. /\ sent < MaxSends
        /\ frames' = frames \cup {f}
        /\ sendBuf' = Put(sendBuf, nextSeq, [frame |-> f, retries |-> 0])
        /\ nextSeq' = Wrap(nextSeq + 1) /\ sent' = sent + 1
        /\ UNCHANGED <<sendBase, ackReceived, acks, recvBase, recvBuf, delivered>>
    BY <1>1 DEF Send, receiverVars
  <2>2. nextSeq' \in Seqs /\ sent' \in 0 .. MaxSends
    <3>1. nextSeq + 1 \in Int
      BY SRConstants DEF TypeOK, Seqs
    <3>2. nextSeq' \in Seqs
      BY <2>1, <3>1, WrapInSeqs
    <3>3. sent' \in 0 .. MaxSends
      BY <2>1, SRConstants DEF TypeOK
    <3> QED
      BY <3>2, <3>3
  <2>3. f \in Frame
    BY <2>1, SRConstants DEF TypeOK, Frame, Payload
  <2>4. [frame |-> f, retries |-> 0] \in [frame : Frame, retries : 0 .. MaxRetry]
    BY <2>3, SRConstants
  <2>5. /\ DOMAIN sendBuf' = DOMAIN sendBuf \cup {nextSeq}
        /\ \A x \in DOMAIN sendBuf' :
             sendBuf'[x] = IF x = nextSeq THEN [frame |-> f, retries |-> 0]
                                          ELSE sendBuf[x]
    BY <2>1 DEF Put
  <2>6. /\ DOMAIN sendBuf' \subseteq Seqs
        /\ \A x \in DOMAIN sendBuf' :
             sendBuf'[x] \in [frame : Frame, retries : 0 .. MaxRetry]
    BY <2>4, <2>5 DEF TypeOK
  <2>7. frames' \subseteq Frame
    BY <2>1, <2>3 DEF TypeOK
  <2> QED
    BY <2>1, <2>2, <2>6, <2>7 DEF TypeOK
<1>2. ASSUME NEW s \in acks, ProcessAck(s) PROVE TypeOK'
  <2> DEFINE noted == ackReceived \cup {s}
  <2>1. PICK k \in 0 .. SeqMod : /\ sendBase' = Wrap(sendBase + k)
                                 /\ ackReceived' = noted \ Run(sendBase, k)
    BY <1>2 DEF ProcessAck
  <2>2. /\ sendBuf' = Restrict(sendBuf, DOMAIN sendBuf \ {s})
        /\ UNCHANGED <<nextSeq, sent, frames, acks, recvBase, recvBuf, delivered>>
    BY <1>2 DEF ProcessAck, receiverVars
  <2>3. sendBase' \in Seqs
    <3>1. sendBase + k \in Int
      BY SRConstants DEF TypeOK, Seqs
    <3> QED
      BY <2>1, <3>1, WrapInSeqs
  <2>4. ackReceived' \subseteq Seqs
    BY <2>1 DEF TypeOK
  <2>5. /\ DOMAIN sendBuf' \subseteq Seqs
        /\ \A x \in DOMAIN sendBuf' :
             sendBuf'[x] \in [frame : Frame, retries : 0 .. MaxRetry]
    BY <2>2 DEF TypeOK, Restrict
  <2> QED
    BY <2>2, <2>3, <2>4, <2>5 DEF TypeOK
<1>3. ASSUME NEW E \in SUBSET DOMAIN sendBuf, RetransmitExpired(E) PROVE TypeOK'
  <2> DEFINE dropped == {s \in E : RetriesExhausted(sendBuf[s].retries)}
  <2>1. /\ sendBuf' = [s \in DOMAIN sendBuf \ dropped |->
                         IF s \in E
                         THEN [sendBuf[s] EXCEPT !.retries = CountRetry(@)]
                         ELSE sendBuf[s]]
        /\ frames' = frames \cup {sendBuf[s].frame : s \in E \ dropped}
        /\ UNCHANGED <<nextSeq, sendBase, ackReceived, sent, acks,
                       recvBase, recvBuf, delivered>>
    BY <1>3 DEF RetransmitExpired, receiverVars
  <2>2. ASSUME NEW x \in DOMAIN sendBuf'
        PROVE  sendBuf'[x] \in [frame : Frame, retries : 0 .. MaxRetry]
    <3>1. x \in DOMAIN sendBuf /\ x \notin dropped
      BY <2>1, <2>2
    <3>2. sendBuf[x] \in [frame : Frame, retries : 0 .. MaxRetry]
      BY <3>1 DEF TypeOK
    <3>3. CASE x \in E
      <4>1. sendBuf[x].retries < MaxRetry
        BY <3>1, <3>2, <3>3, SRConstants DEF RetriesExhausted
      <4>2. sendBuf[x].retries + 1 \in 0 .. MaxRetry
        BY <3>2, <4>1, SRConstants
      <4>3. sendBuf'[x] = [sendBuf[x] EXCEPT !.retries = sendBuf[x].retries + 1]
        BY <2>1, <3>1, <3>2, <3>3 DEF CountRetry
      <4> QED
        BY <3>2, <4>2, <4>3
    <3>4. CASE x \notin E
      BY <2>1, <3>1, <3>2, <3>4
    <3> QED
      BY <3>3, <3>4
  <2>3. DOMAIN sendBuf' \subseteq Seqs
    BY <2>1 DEF TypeOK
  <2>4. frames' \subseteq Frame
    BY <2>1 DEF TypeOK
  <2> QED
    BY <2>1, <2>2, <2>3, <2>4 DEF TypeOK
<1>4. ASSUME NEW f \in frames, Receive(f) PROVE TypeOK'
  <2> DEFINE buf == Buffered(f)
  <2>1. PICK k \in 0 .. SeqMod :
          /\ IsRun(recvBase, DOMAIN buf, k)
          /\ delivered' = delivered \o RunPayloads(buf, k)
          /\ recvBuf' = Restrict(buf, DOMAIN buf \ Run(recvBase, k))
          /\ recvBase' = Wrap(recvBase + k)
    BY <1>4 DEF Receive
  <2>2. /\ acks' = acks \cup {f.seq}
        /\ UNCHANGED <<nextSeq, sendBase, sendBuf, ackReceived, sent, frames>>
    BY <1>4 DEF Receive, senderVars
  <2>3. f.seq \in Seqs /\ f.payload \in Payload
    BY <1>4 DEF TypeOK, Frame
  <2>4. /\ DOMAIN buf \subseteq Seqs
        /\ \A x \in DOMAIN buf : buf[x] \in Payload
    BY <2>3 DEF TypeOK, Buffered, Put
  <2> HIDE DEF buf
  <2>5. RunPayloads(buf, k) \in Seq(Payload)
    <3>1. k \in Nat
      BY <2>1, SRConstants
    <3>2. ASSUME NEW i \in 1 .. k
          PROVE  buf[Wrap(recvBase + i - 1)] \in Payload
      <4>1. i - 1 \in 0 .. k - 1 /\ recvBase + (i - 1) = recvBase + i - 1
        BY <3>1, SRConstants DEF TypeOK, Seqs
      <4>2. Wrap(recvBase + (i - 1)) \in DOMAIN buf
        BY <2>1, <4>1 DEF IsRun
      <4> QED
        BY <2>4, <4>1, <4>2
    <3>3. RunPayloads(buf, k) \in [1 .. k -> Payload]
      BY <3>2 DEF RunPayloads
    <3> QED
      BY <3>1, <3>3
  <2>6. delivered' \in Seq(Payload)
    BY <2>1, <2>5 DEF TypeOK
  <2>7. recvBase' \in Seqs
    <3>1. recvBase + k \in Int
      BY SRConstants DEF TypeOK, Seqs
    <3> QED
      BY <2>1, <3>1, WrapInSeqs
  <2>8. /\ DOMAIN recvBuf' \subseteq Seqs
        /\ \A x \in DOMAIN recvBuf' : recvBuf'[x] \in Payload
    BY <2>1, <2>4 DEF Restrict
  <2> QED
    BY <2>2, <2>3, <2>6, <2>7, <2>8 DEF TypeOK
<1>5. CASE Lose
  BY <1>5 DEF Lose, TypeOK, senderVars, receiverVars
<1>6. CASE UNCHANGED vars
  BY <1>6 DEF TypeOK, vars, senderVars, receiverVars
<1> QED
  BY <1>1, <1>2, <1>3, <1>4, <1>5, <1>6 DEF Next

----------------------------------------------------------------------------
(* Every step preserves the invariant.                                      *)

\* On the first lap all the numbers in use and the receive window fit below
\* SeqMod.
LEMMA Fits ==
  ASSUME NoWrap, IInv
  PROVE  /\ sent \in 0 .. SeqMod - 1
         /\ recvBase \in 0 .. sent /\ sendBase \in 0 .. sent
         /\ recvBase + Window - 1 \in 0 .. SeqMod - 1
  BY SRConstants DEF NoWrap, IInv, TypeOK, Bases, Seqs

LEMMA InitInv == Init => IInv
  BY SRConstants DEF Init, IInv, TypeOK, Bases, FramesInv, SendBufInv, RecvBufInv,
     AckInv, DeliveredInv, Seqs, Payload, Frame

LEMMA SendInv ==
  ASSUME NoWrap, IInv, Send
  PROVE  IInv'
<1> DEFINE f == [seq |-> nextSeq, payload |-> sent]
<1>1. /\ sent < MaxSends /\ WindowHasSpace
      /\ frames' = frames \cup {f}
      /\ sendBuf' = Put(sendBuf, nextSeq, [frame |-> f, retries |-> 0])
      /\ nextSeq' = Wrap(nextSeq + 1)
      /\ sent' = sent + 1
      /\ UNCHANGED <<sendBase, ackReceived, acks, recvBase, recvBuf, delivered>>
  BY DEF Send, receiverVars
<1>2. sent \in Nat /\ sent + 1 \in 0 .. SeqMod - 1 /\ nextSeq = sent
  BY <1>1, SRConstants DEF NoWrap, IInv, TypeOK, Bases
<1>3. nextSeq' = sent'
  BY <1>1, <1>2, WrapSmall
<1>4. f \in Frame /\ f.seq = sent /\ f.payload = sent
  BY <1>1, <1>2, SRConstants DEF IInv, TypeOK, Frame, Seqs, Payload
<1>5. /\ DOMAIN sendBuf' = DOMAIN sendBuf \cup {sent}
      /\ \A s \in DOMAIN sendBuf' :
           sendBuf'[s] = IF s = sent THEN [frame |-> f, retries |-> 0] ELSE sendBuf[s]
  BY <1>1, <1>2 DEF Put
<1>6. TypeOK'
  BY TypeStep DEF IInv, Next
<1>7. Bases'
  BY <1>1, <1>2, <1>3, SRConstants
  DEF IInv, TypeOK, Bases, WindowHasSpace, Seqs
<1>8. FramesInv'
  BY <1>1, <1>2, <1>4, SRConstants DEF IInv, TypeOK, FramesInv, Frame, Seqs, Payload
<1>9. SendBufInv'
  <2> SUFFICES ASSUME NEW s \in DOMAIN sendBuf'
               PROVE  /\ sendBuf'[s].frame = [seq |-> s, payload |-> s]
                      /\ sendBase <= s /\ s < sent + 1
                      /\ s \notin ackReceived
    BY <1>1 DEF SendBufInv
  <2>1. CASE s = sent
    <3>1. sendBase <= sent /\ sent \notin ackReceived
      BY <1>2, SRConstants
      DEF IInv, TypeOK, Bases, AckInv, RecvBufInv, Seqs
    <3> QED
      BY <1>2, <1>5, <2>1, <3>1
  <2>2. CASE s # sent
    <3>1. s \in DOMAIN sendBuf /\ sendBuf'[s] = sendBuf[s]
      BY <1>5, <2>2
    <3>2. s \in Int
      BY <3>1 DEF IInv, TypeOK, Seqs
    <3> QED
      BY <1>2, <3>1, <3>2 DEF IInv, SendBufInv
  <2> QED
    BY <2>1, <2>2
<1>10. RecvBufInv' /\ AckInv' /\ DeliveredInv'
  BY <1>1, <1>2, SRConstants
  DEF IInv, TypeOK, RecvBufInv, AckInv, DeliveredInv, Seqs
<1> QED
  BY <1>6, <1>7, <1>8, <1>9, <1>10 DEF IInv

LEMMA ProcessAckInv ==
  ASSUME NoWrap, IInv, NEW s \in acks, ProcessAck(s)
  PROVE  IInv'
<1> DEFINE noted == ackReceived \cup {s}
<1>1. PICK k : /\ IsRun(sendBase, noted, k)
               /\ sendBase' = Wrap(sendBase + k)
               /\ ackReceived' = noted \ Run(sendBase, k)
  BY DEF ProcessAck
<1>2. /\ sendBuf' = Restrict(sendBuf, DOMAIN sendBuf \ {s})
      /\ UNCHANGED <<nextSeq, sent, frames, acks, recvBase, recvBuf, delivered>>
  BY DEF ProcessAck, receiverVars
<1>3. /\ DOMAIN sendBuf' = DOMAIN sendBuf \ {s}
      /\ \A x \in DOMAIN sendBuf' : sendBuf'[x] = sendBuf[x]
  BY <1>2 DEF Restrict
<1>4. noted \in SUBSET (0 .. sent - 1)
  BY SRConstants DEF IInv, TypeOK, AckInv, RecvBufInv, Bases, Seqs
<1>5. /\ k \in Nat
      /\ sendBase' = sendBase + k
      /\ sendBase + k <= sent
      /\ Run(sendBase, k) = sendBase .. sendBase + k - 1
      /\ sendBase .. sendBase + k - 1 \subseteq noted
      /\ sendBase + k \notin noted
  <2>1. sent \in 0 .. SeqMod - 1 /\ sendBase \in 0 .. sent
    BY Fits
  <2>2. IsRun(sendBase, noted, k)
    BY <1>1
  <2> HIDE DEF noted
  <2>3. PlainRun(sendBase, noted, k, sent)
    BY <1>4, <2>1, <2>2, RunBelow
  <2> QED
    BY <1>1, <2>3 DEF PlainRun
<1>6. recvBase \notin noted
  BY SRConstants DEF IInv, TypeOK, AckInv, RecvBufInv, Seqs
<1>7. sendBase + k <= recvBase
  BY <1>5, <1>6, SRConstants DEF IInv, TypeOK, Bases, Seqs
<1>8. TypeOK'
  BY TypeStep DEF IInv, Next
<1>9. Bases'
  BY <1>2, <1>5, <1>7, SRConstants DEF IInv, TypeOK, Bases, Seqs
<1>10. SendBufInv'
  <2> SUFFICES ASSUME NEW x \in DOMAIN sendBuf \ {s}
               PROVE  /\ sendBuf[x].frame = [seq |-> x, payload |-> x]
                      /\ sendBase + k <= x /\ x < sent
                      /\ x \notin ackReceived'
    BY <1>2, <1>3, <1>5 DEF SendBufInv
  <2>1. /\ sendBuf[x].frame = [seq |-> x, payload |-> x]
        /\ sendBase <= x /\ x < sent
        /\ x \notin noted
    BY DEF IInv, SendBufInv
  <2>2. x \in Int /\ sendBase \in Int
    BY DEF IInv, TypeOK, Seqs
  <2>3. x \notin sendBase .. sendBase + k - 1
    BY <1>5, <2>1
  <2>4. sendBase + k <= x
    BY <1>5, <2>1, <2>2, <2>3
  <2> QED
    BY <1>1, <2>1, <2>4
<1>11. FramesInv' /\ RecvBufInv' /\ DeliveredInv'
  BY <1>2 DEF IInv, FramesInv, RecvBufInv, DeliveredInv
<1>12. AckInv'
  BY <1>1, <1>2, <1>5 DEF IInv, AckInv
<1> QED
  BY <1>8, <1>9, <1>10, <1>11, <1>12 DEF IInv

LEMMA RetransmitInv ==
  ASSUME NoWrap, IInv, NEW E \in SUBSET DOMAIN sendBuf, RetransmitExpired(E)
  PROVE  IInv'
<1> DEFINE dropped == {s \in E : RetriesExhausted(sendBuf[s].retries)}
<1>1. /\ sendBuf' = [s \in DOMAIN sendBuf \ dropped |->
                      IF s \in E
                      THEN [sendBuf[s] EXCEPT !.retries = CountRetry(@)]
                      ELSE sendBuf[s]]
      /\ frames' = frames \cup {sendBuf[s].frame : s \in E \ dropped}
      /\ UNCHANGED <<nextSeq, sendBase, ackReceived, sent, acks,
                     recvBase, recvBuf, delivered>>
  BY DEF RetransmitExpired, receiverVars
<1>2. \A s \in DOMAIN sendBuf \ dropped : sendBuf'[s].frame = sendBuf[s].frame
  <2> SUFFICES ASSUME NEW s \in DOMAIN sendBuf \ dropped
               PROVE  sendBuf'[s].frame = sendBuf[s].frame
    OBVIOUS
  <2>1. sendBuf[s] \in [frame : Frame, retries : 0 .. MaxRetry]
    BY DEF IInv, TypeOK
  <2> QED
    BY <1>1, <2>1
<1>3. DOMAIN sendBuf' = DOMAIN sendBuf \ dropped
  BY <1>1
<1>4. \A f \in frames' : f \in Frame /\ f.seq = f.payload /\ f.payload < sent
  <2> SUFFICES ASSUME NEW f \in frames'
               PROVE  f \in Frame /\ f.seq = f.payload /\ f.payload < sent
    OBVIOUS
  <2>1. CASE f \in frames
    BY <2>1 DEF IInv, TypeOK, FramesInv
  <2>2. CASE f \notin frames
    <3>1. PICK s \in DOMAIN sendBuf : f = sendBuf[s].frame
      BY <1>1, <2>2
    <3>2. f \in Frame
      BY <3>1 DEF IInv, TypeOK
    <3>3. f = [seq |-> s, payload |-> s] /\ s < sent
      BY <3>1 DEF IInv, SendBufInv
    <3> QED
      BY <3>2, <3>3
  <2> QED
    BY <2>1, <2>2
<1>5. TypeOK'
  BY TypeStep DEF IInv, Next
<1>6. SendBufInv'
  BY <1>1, <1>2, <1>3 DEF IInv, SendBufInv
<1>7. FramesInv'
  BY <1>1, <1>4 DEF FramesInv
<1>8. Bases' /\ RecvBufInv' /\ AckInv' /\ DeliveredInv'
  BY <1>1 DEF IInv, Bases, RecvBufInv, AckInv, DeliveredInv
<1> QED
  BY <1>5, <1>6, <1>7, <1>8 DEF IInv

\* What receive holds after buffering a frame: only numbers from recvBase on,
\* each with its own payload, and the frame itself unless it is an old one.
LEMMA BufferedFacts ==
  ASSUME NoWrap, IInv, NEW f \in frames
  PROVE  /\ DOMAIN Buffered(f) \in SUBSET (0 .. sent - 1)
         /\ DOMAIN recvBuf \subseteq DOMAIN Buffered(f)
         /\ \A x \in DOMAIN Buffered(f) : Buffered(f)[x] = x /\ recvBase <= x
         /\ f.seq < recvBase \/ f.seq \in DOMAIN Buffered(f)
<1>1. /\ f.seq \in 0 .. sent - 1 /\ f.payload = f.seq
  BY SRConstants DEF IInv, TypeOK, FramesInv, Frame, Seqs, Payload
<1>2. /\ recvBase \in Nat /\ sent \in Nat
      /\ recvBase <= recvBase + Window - 1
      /\ sent - 1 <= recvBase + Window - 1
      /\ WindowTop = recvBase + Window - 1
  BY Fits, WrapSmall, SRConstants DEF IInv, TypeOK, Bases, WindowTop, Seqs
<1>3. InWindow(f.seq, recvBase, WindowTop) <=> recvBase <= f.seq
  BY <1>1, <1>2, SRConstants DEF InWindow
<1>4. /\ DOMAIN recvBuf \subseteq 0 .. sent - 1
      /\ \A x \in DOMAIN recvBuf : recvBuf[x] = x /\ recvBase <= x
  BY <1>2, SRConstants DEF IInv, TypeOK, RecvBufInv, Seqs
<1>5. CASE recvBase <= f.seq /\ f.seq \notin DOMAIN recvBuf
  <2>1. Buffered(f) = Put(recvBuf, f.seq, f.payload)
    BY <1>3, <1>5 DEF Buffered
  <2>2. /\ DOMAIN Buffered(f) = DOMAIN recvBuf \cup {f.seq}
        /\ \A x \in DOMAIN Buffered(f) :
             Buffered(f)[x] = IF x = f.seq THEN f.payload ELSE recvBuf[x]
    BY <2>1 DEF Put
  <2> QED
    BY <1>1, <1>4, <1>5, <2>2
<1>6. CASE ~(recvBase <= f.seq /\ f.seq \notin DOMAIN recvBuf)
  <2>1. Buffered(f) = recvBuf
    BY <1>3, <1>6 DEF Buffered
  <2> QED
    BY <1>1, <1>2, <1>4, <1>6, <2>1
<1> QED
  BY <1>5, <1>6

LEMMA ReceiveInv ==
  ASSUME NoWrap, IInv, NEW f \in frames, Receive(f)
  PROVE  IInv' /\ recvBase <= recvBase'
<1> DEFINE buf == Buffered(f)
<1>1. PICK k : /\ IsRun(recvBase, DOMAIN buf, k)
               /\ delivered' = delivered \o RunPayloads(buf, k)
               /\ recvBuf' = Restrict(buf, DOMAIN buf \ Run(recvBase, k))
               /\ recvBase' = Wrap(recvBase + k)
  BY DEF Receive
<1>2. /\ acks' = acks \cup {f.seq}
      /\ UNCHANGED <<nextSeq, sendBase, sendBuf, ackReceived, sent, frames>>
  BY DEF Receive, senderVars
<1>3. /\ DOMAIN buf \in SUBSET (0 .. sent - 1)
      /\ DOMAIN recvBuf \subseteq DOMAIN buf
      /\ \A x \in DOMAIN buf : buf[x] = x /\ recvBase <= x
      /\ f.seq < recvBase \/ f.seq \in DOMAIN buf
  BY BufferedFacts
<1> HIDE DEF buf
<1>4. /\ sent \in 0 .. SeqMod - 1 /\ recvBase \in 0 .. sent
      /\ sent <= MaxSends /\ sendBase \in 0 .. recvBase
  BY Fits, SRConstants DEF IInv, TypeOK, Bases, Seqs
<1>5. PlainRun(recvBase, DOMAIN buf, k, sent)
  BY <1>1, <1>3, <1>4, RunBelow
<1>6. /\ k \in Nat /\ recvBase' = recvBase + k /\ recvBase' \in recvBase .. sent
      /\ Run(recvBase, k) = recvBase .. recvBase + k - 1
      /\ \A i \in 0 .. k - 1 : Wrap(recvBase + i) = recvBase + i
      /\ recvBase .. recvBase + k - 1 \subseteq DOMAIN buf
      /\ recvBase + k \notin DOMAIN buf
  BY <1>1, <1>4, <1>5, SRConstants DEF PlainRun
<1>7. /\ DOMAIN recvBuf' = DOMAIN buf \ (recvBase .. recvBase + k - 1)
      /\ \A x \in DOMAIN recvBuf' : recvBuf'[x] = x
  BY <1>1, <1>3, <1>6 DEF Restrict
<1>8. \A x \in DOMAIN recvBuf' : x \in 0 .. sent - 1 /\ recvBase' < x
  <2> SUFFICES ASSUME NEW x \in DOMAIN recvBuf'
               PROVE  x \in 0 .. sent - 1 /\ recvBase + k < x
    BY <1>6
  <2>1. /\ x \in 0 .. sent - 1 /\ recvBase <= x
        /\ x \notin recvBase .. recvBase + k - 1 /\ x # recvBase + k
    BY <1>3, <1>6, <1>7
  <2> QED
    BY <1>4, <1>6, <2>1
<1>9. delivered' = [i \in 1 .. recvBase' |-> i - 1]
  <2>1. \A i \in 1 .. k : RunPayloads(buf, k)[i] = recvBase + i - 1
    <3> SUFFICES ASSUME NEW i \in 1 .. k
                 PROVE  RunPayloads(buf, k)[i] = recvBase + i - 1
      OBVIOUS
    <3>1. /\ i - 1 \in 0 .. k - 1 /\ recvBase + i - 1 = recvBase + (i - 1)
          /\ recvBase + (i - 1) \in recvBase .. recvBase + k - 1
      BY <1>4, <1>6
    <3>2. Wrap(recvBase + i - 1) = recvBase + i - 1
      BY <1>6, <3>1
    <3>3. buf[recvBase + i - 1] = recvBase + i - 1
      BY <1>3, <1>6, <3>1
    <3> QED
      BY <3>2, <3>3 DEF RunPayloads
  <2>2. RunPayloads(buf, k) = [i \in 1 .. k |-> recvBase + i - 1]
    BY <2>1 DEF RunPayloads
  <2>3. delivered = [i \in 1 .. recvBase |-> i - 1]
    BY DEF IInv, DeliveredInv
  <2>4. [i \in 1 .. recvBase |-> i - 1] \o [i \in 1 .. k |-> recvBase + i - 1]
          = [i \in 1 .. recvBase + k |-> i - 1]
    BY <1>4, <1>6
  <2>5. delivered' = [i \in 1 .. recvBase |-> i - 1]
                       \o [i \in 1 .. k |-> recvBase + i - 1]
    BY <1>1, <2>2, <2>3, Zenon
  <2>6. delivered' = [i \in 1 .. recvBase + k |-> i - 1]
    BY <2>4, <2>5
  <2> QED
    BY <1>6, <2>6
<1>10. TypeOK'
  BY TypeStep DEF IInv, Next
<1>11. Bases'
  BY <1>2, <1>4, <1>6, SRConstants DEF IInv, Bases
<1>12. FramesInv' /\ SendBufInv'
  BY <1>2 DEF IInv, FramesInv, SendBufInv
<1>13. RecvBufInv'
  BY <1>2, <1>7, <1>8, <1>4 DEF RecvBufInv
<1>14. AckInv'
  <2>1. ASSUME NEW s \in acks' \cup ackReceived'
        PROVE  s < recvBase \/ s \in DOMAIN buf
    BY <1>2, <1>3 DEF IInv, AckInv
  <2>2. ASSUME NEW s \in acks' \cup ackReceived'
        PROVE  s < recvBase' \/ s \in DOMAIN recvBuf'
    <3>1. s \in Int
      BY <1>2 DEF IInv, TypeOK, Frame, Seqs
    <3> QED
      BY <1>4, <1>6, <1>7, <2>1, <3>1
  <2> QED
    BY <1>2, <2>2 DEF IInv, AckInv
<1> QED
  BY <1>4, <1>6, <1>9, <1>10, <1>11, <1>12, <1>13, <1>14 DEF IInv, DeliveredInv

LEMMA LoseInv ==
  ASSUME IInv, Lose
  PROVE  IInv'
<1>1. /\ frames' \subseteq frames /\ acks' \subseteq acks
      /\ UNCHANGED <<senderVars, receiverVars>>
  BY DEF Lose
<1>2. TypeOK'
  BY TypeStep DEF IInv, Next
<1>3. FramesInv' /\ AckInv'
  BY <1>1 DEF IInv, FramesInv, AckInv, senderVars, receiverVars
<1>4. Bases' /\ SendBufInv' /\ RecvBufInv' /\ DeliveredInv'
  BY <1>1 DEF IInv, Bases, SendBufInv, RecvBufInv, DeliveredInv, senderVars,
     receiverVars
<1> QED
  BY <1>2, <1>3, <1>4 DEF IInv

LEMMA StepInv ==
  ASSUME NoWrap, IInv, [Next]_vars
  PROVE  IInv'
<1>1. CASE Send
  BY <1>1, SendInv
<1>2. CASE \E s \in acks : ProcessAck(s)
  BY <1>2, ProcessAckInv
<1>3. CASE \E E \in SUBSET DOMAIN sendBuf : RetransmitExpired(E)
  BY <1>3, RetransmitInv
<1>4. CASE \E f \in frames : Receive(f)
  BY <1>4, ReceiveInv
<1>5. CASE Lose
  BY <1>5, LoseInv
<1>6. CASE UNCHANGED vars
  BY <1>6 DEF vars, senderVars, receiverVars, IInv, TypeOK, Bases, FramesInv,
     SendBufInv, RecvBufInv, AckInv, DeliveredInv
<1> QED
  BY <1>1, <1>2, <1>3, <1>4, <1>5, <1>6 DEF Next

THEOREM Invariance == ASSUME NoWrap PROVE Spec => []IInv
<1>1. Init => IInv
  BY InitInv
<1>2. IInv /\ [Next]_vars => IInv'
  BY StepInv
<1> QED
  BY <1>1, <1>2, PTL DEF Spec

----------------------------------------------------------------------------
(* What the runs check on one instance, for all of them.                    *)

\* Types and the retry limit (reliability.py:188-206), on every lap.
THEOREM TypeCorrect == Spec => []TypeOK
<1>1. Init => TypeOK
  BY SRConstants DEF Init, TypeOK, Seqs, Payload, Frame
<1> QED
  BY <1>1, TypeStep, PTL DEF Spec

\* Nothing counts as ACKed that the receiver does not hold
\* (reliability.py:177-186 against 210-230).
THEOREM AckedIsReceived == ASSUME NoWrap PROVE Spec => []AckedWasReceived
<1>1. IInv => AckedWasReceived
  <2> SUFFICES ASSUME IInv PROVE AckedWasReceived
    OBVIOUS
  <2>1. recvBase \in Nat /\ sendBase \in Nat /\ sendBase <= recvBase
    BY SRConstants DEF IInv, TypeOK, Bases, Seqs
  <2>2. Len(delivered) = recvBase
    BY <2>1 DEF IInv, DeliveredInv
  <2>3. \A s \in acks \cup ackReceived : s < recvBase \/ s \in DOMAIN recvBuf
    BY DEF IInv, AckInv
  <2>4. \A s \in 0 .. sendBase - 1 : s < recvBase
    BY <2>1
  <2> QED
    BY <2>2, <2>3, <2>4 DEF AckedWasReceived, Received
<1> QED
  BY <1>1, Invariance, PTL

\* The two windows fit each other: no frame the receiver still lacks is out of
\* its window (reliability.py:154-164 against 218-220).
THEOREM WindowsFit == ASSUME NoWrap PROVE Spec => []FreshFramesFit
<1>1. IInv => FreshFramesFit
  <2> SUFFICES ASSUME IInv, NEW f \in frames
               PROVE  Received(f.payload) \/ InWindow(f.seq, recvBase, WindowTop)
    BY DEF FreshFramesFit
  <2>1. /\ f.seq \in 0 .. sent - 1 /\ f.payload = f.seq
    BY SRConstants DEF IInv, TypeOK, FramesInv, Frame, Seqs, Payload
  <2>2. /\ recvBase \in Nat /\ sent \in Nat
        /\ recvBase <= recvBase + Window - 1
        /\ sent - 1 <= recvBase + Window - 1
        /\ WindowTop = recvBase + Window - 1
    BY Fits, WrapSmall, SRConstants DEF IInv, TypeOK, Bases, WindowTop, Seqs
  <2>3. Len(delivered) = recvBase
    BY <2>2 DEF IInv, DeliveredInv
  <2> QED
    BY <2>1, <2>2, <2>3, SRConstants DEF InWindow, Received
<1> QED
  BY <1>1, Invariance, PTL

\* At most Window frames are outstanding (reliability.py:114, 154-164).
THEOREM WindowBounded == ASSUME NoWrap PROVE Spec => []WindowBound
<1>1. IInv => WindowBound
  <2> SUFFICES ASSUME IInv PROVE Cardinality(DOMAIN sendBuf) <= Window
    BY DEF WindowBound
  <2>1. sendBase \in Int /\ sent \in Int /\ sent - sendBase \in 0 .. Window
    BY SRConstants DEF IInv, TypeOK, Bases, Seqs
  <2>2. DOMAIN sendBuf \subseteq sendBase .. sent - 1
    <3> SUFFICES ASSUME NEW s \in DOMAIN sendBuf
                 PROVE  s \in sendBase .. sent - 1
      OBVIOUS
    <3>1. s \in Int
      BY DEF IInv, TypeOK, Seqs
    <3>2. sendBase <= s /\ s < sent
      BY DEF IInv, SendBufInv
    <3> QED
      BY <2>1, <3>1, <3>2
  <2>3. /\ IsFiniteSet(sendBase .. sent - 1)
        /\ Cardinality(sendBase .. sent - 1) <= Window
    <3>1. sent - 1 \in Int
      BY <2>1
    <3>2. /\ IsFiniteSet(sendBase .. sent - 1)
          /\ Cardinality(sendBase .. sent - 1)
               = IF sendBase > sent - 1 THEN 0 ELSE (sent - 1) - sendBase + 1
      BY <2>1, <3>1, FS_Interval
    <3> QED
      BY <2>1, <3>2, SRConstants
  <2>4. /\ Cardinality(DOMAIN sendBuf) <= Cardinality(sendBase .. sent - 1)
        /\ IsFiniteSet(DOMAIN sendBuf)
    BY <2>2, <2>3, FS_Subset
  <2>5. /\ Cardinality(DOMAIN sendBuf) \in Nat
        /\ Cardinality(sendBase .. sent - 1) \in Nat
    BY <2>3, <2>4, FS_CardinalityType
  <2> QED
    BY <2>3, <2>4, <2>5, SRConstants
<1> QED
  BY <1>1, Invariance, PTL

\* The detailed protocol implements the ordered stream: submissions map to
\* Send, a delivering receive to HandOver, everything else to stuttering.
THEOREM ImplementsStream == ASSUME NoWrap PROVE Spec => StreamSafety
<1> DEFINE Subm(n) == [i \in 1 .. n |-> i - 1]
<1>1. Init => Stream!Init
  BY DEF Init, Stream!Init
<1>2. IInv /\ IInv' /\ [Next]_vars => [Stream!Next]_(Stream!vars)
  <2> SUFFICES ASSUME IInv, IInv', [Next]_vars
               PROVE  [Stream!Next]_(Stream!vars)
    OBVIOUS
  <2>1. CASE Send
    <3>1. /\ sent \in Payload /\ sent \in Nat /\ sent' = sent + 1
          /\ delivered' = delivered
      BY <2>1, SRConstants DEF Send, receiverVars, IInv, TypeOK, Payload
    <3>2. Subm(sent + 1) = Append(Subm(sent), sent)
      BY <3>1
    <3> QED
      BY <3>1, <3>2 DEF Stream!Next, Stream!Submit
  <2>2. CASE \E f \in frames : Receive(f)
    <3>1. recvBase <= recvBase' /\ sent' = sent
      BY <2>2, ReceiveInv DEF Receive, senderVars
    <3>2. /\ recvBase \in Nat /\ recvBase' \in Nat /\ sent \in Nat
          /\ recvBase' <= sent
          /\ delivered = Subm(recvBase) /\ delivered' = Subm(recvBase')
      BY <3>1, SRConstants DEF IInv, TypeOK, Bases, DeliveredInv, Seqs
    <3>3. CASE recvBase = recvBase'
      BY <3>1, <3>2, <3>3 DEF Stream!vars
    <3>4. CASE recvBase < recvBase'
      <4>1. Len(delivered) = recvBase /\ Len(Subm(sent)) = sent
        BY <3>2
      <4>2. Subm(recvBase') = SubSeq(Subm(sent), 1, recvBase')
        BY <3>2
      <4>3. recvBase' \in (Len(delivered) + 1) .. Len(Subm(sent))
        BY <3>2, <3>4, <4>1
      <4> QED
        BY <3>1, <3>2, <4>2, <4>3 DEF Stream!Next, Stream!HandOver
    <3> QED
      BY <3>1, <3>2, <3>3, <3>4
  <2>3. CASE (\E s \in acks : ProcessAck(s))
               \/ (\E E \in SUBSET DOMAIN sendBuf : RetransmitExpired(E))
    <3>1. sent' = sent /\ delivered' = delivered
      BY <2>3 DEF ProcessAck, RetransmitExpired, receiverVars
    <3> QED
      BY <3>1 DEF Stream!vars
  <2>4. CASE Lose \/ UNCHANGED vars
    <3>1. sent' = sent /\ delivered' = delivered
      BY <2>4 DEF Lose, vars, senderVars, receiverVars
    <3> QED
      BY <3>1 DEF Stream!vars
  <2> QED
    BY <2>1, <2>2, <2>3, <2>4 DEF Next
<1>3. ASSUME NoWrap PROVE Spec => []IInv
  BY Invariance
<1> QED
  BY <1>1, <1>2, <1>3, PTL DEF Spec, StreamSafety, Stream!Spec
=============================================================================
