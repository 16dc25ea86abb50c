-------------------------- MODULE SelectiveRepeat --------------------------
(* The Selective Repeat ARQ of src/protocol/reliability.py (class           *)
(* SelectiveRepeatARQ): one instance sends, the instance at the other end   *)
(* of a UDP path receives.  The path loses, repeats and reorders; a frame   *)
(* damaged on the way fails the CRC of parse_frame and is a lost frame.     *)
(*                                                                          *)
(* The payload of the k-th accepted send is k itself, so "the right payload *)
(* in the right place" is visible in the state.  Every method of the class  *)
(* runs under one lock and is one action here.                              *)
EXTENDS Integers, Sequences, FiniteSets, Functions

CONSTANTS SeqMod,    \* sequence numbers are taken modulo this (2^32)
          Window,    \* SR_WINDOW_SIZE
          MaxRetry,  \* ARQ_MAX_RETRIES
          MaxSends   \* bound of the model: sends accepted in one behaviour

ASSUME SRConstants == /\ SeqMod \in Nat \ {0}
                      /\ Window \in Nat \ {0}
                      /\ Window < SeqMod
                      /\ MaxRetry \in Nat
                      /\ MaxSends \in Nat

Seqs    == 0 .. SeqMod - 1
Payload == 0 .. MaxSends - 1
Frame   == [seq : Seqs, payload : Payload]

VARIABLES
  nextSeq, sendBase,  \* _next_seq, _send_base
  sendBuf,            \* _send_buf: seq -> frame not yet ACKed, times resent
  ackReceived,        \* the keys of _ack_received (the values are all True)
  recvBase, recvBuf,  \* _recv_base, _recv_buf
  delivered,          \* _delivered
  frames, acks,       \* what the path may still bring, once or many times
  sent                \* how many sends were accepted

senderVars   == <<nextSeq, sendBase, sendBuf, ackReceived, sent>>
receiverVars == <<recvBase, recvBuf, delivered>>
vars == <<senderVars, receiverVars, frames, acks>>

----------------------------------------------------------------------------
(* Helpers                                                                  *)

Wrap(n) == n % SeqMod

Put(f, k, v) == [x \in DOMAIN f \cup {k} |-> IF x = k THEN v ELSE f[x]]

\* k is how far a loop "while base in S: remove base from S; base += 1" gets.
IsRun(base, S, k) ==
  /\ k \in 0 .. SeqMod
  /\ \A i \in 0 .. k - 1 : Wrap(base + i) \in S
  /\ k = SeqMod \/ Wrap(base + k) \notin S

Run(base, k) == {Wrap(base + i) : i \in 0 .. k - 1}

\* Plausible slips, each put in the place of the definition after it to show
\* that a property of this module would notice.
MutantWindowHasSpace == nextSeq - sendBase <= Window
MutantRetriesExhausted(retries) == retries > MaxRetry
MutantCountRetry(retries) == retries
MutantWindowTop == Wrap(recvBase + Window - 2)
MutantRunPayloads(buf, k) == [i \in 1 .. k |-> buf[Wrap(recvBase + k - i)]]

WindowHasSpace == nextSeq - sendBase < Window

RetriesExhausted(retries) == retries >= MaxRetry

CountRetry(retries) == retries + 1

WindowTop == Wrap(recvBase + Window - 1)

InWindow(seq, base, hi) ==
  IF base <= hi THEN base <= seq /\ seq <= hi
                ELSE base <= seq \/ seq <= hi

\* receive buffers a frame of the window unless it already holds one.
Buffered(f) ==
  IF InWindow(f.seq, recvBase, WindowTop) /\ f.seq \notin DOMAIN recvBuf
  THEN Put(recvBuf, f.seq, f.payload)
  ELSE recvBuf

\* The payloads of the contiguous run of k frames of buf, in the order popped.
RunPayloads(buf, k) == [i \in 1 .. k |-> buf[Wrap(recvBase + i - 1)]]

----------------------------------------------------------------------------
Init == /\ nextSeq = 0 /\ sendBase = 0 /\ sent = 0
        /\ sendBuf = << >> /\ ackReceived = {}
        /\ recvBase = 0 /\ recvBuf = << >> /\ delivered = << >>
        /\ frames = {} /\ acks = {}

\* send(): a full window, like an OSError of sendto, returns None and changes
\* nothing, so only the accepting path is a step.
Send == /\ sent < MaxSends
        /\ WindowHasSpace
        /\ LET f == [seq |-> nextSeq, payload |-> sent] IN
             /\ frames' = frames \cup {f}
             /\ sendBuf' = Put(sendBuf, nextSeq, [frame |-> f, retries |-> 0])
        /\ nextSeq' = Wrap(nextSeq + 1)
        /\ sent' = sent + 1
        /\ UNCHANGED <<sendBase, ackReceived, acks, receiverVars>>

\* process_ack(): note the ACK, forget the frame, slide the base over every
\* number noted so far.
ProcessAck(s) ==
  /\ s \in acks
  /\ sendBuf' = Restrict(sendBuf, DOMAIN sendBuf \ {s})
  /\ LET noted == ackReceived \cup {s} IN
       \E k \in 0 .. SeqMod :
         /\ IsRun(sendBase, noted, k)
         /\ sendBase' = Wrap(sendBase + k)
         /\ ackReceived' = noted \ Run(sendBase, k)
  /\ UNCHANGED <<nextSeq, sent, frames, acks, receiverVars>>

\* retransmit_expired(): of the frames E whose timer has run out, those out of
\* retries are dropped from _send_buf and the others go out again.  Time is
\* abstracted: any frames may be the ones that expired.  An OSError of sendto
\* counts the retry like a frame lost at once.
RetransmitExpired(E) ==
  /\ E # {} /\ E \subseteq DOMAIN sendBuf
  /\ LET dropped == {s \in E : RetriesExhausted(sendBuf[s].retries)} IN
       /\ sendBuf' = [s \in DOMAIN sendBuf \ dropped |->
                        IF s \in E
                        THEN [sendBuf[s] EXCEPT !.retries = CountRetry(@)]
                        ELSE sendBuf[s]]
       /\ frames' = frames \cup {sendBuf[s].frame : s \in E \ dropped}
  /\ UNCHANGED <<nextSeq, sendBase, ackReceived, sent, acks, receiverVars>>

\* receive(): buffer, then deliver and pop the contiguous run at recv_base.
\* The caller ACKs each frame it was given, old and out-of-window ones too.
Receive(f) ==
  /\ f \in frames
  /\ LET buf == Buffered(f) IN
       \E k \in 0 .. SeqMod :
         /\ IsRun(recvBase, DOMAIN buf, k)
         /\ delivered' = delivered \o RunPayloads(buf, k)
         /\ recvBuf' = Restrict(buf, DOMAIN buf \ Run(recvBase, k))
         /\ recvBase' = Wrap(recvBase + k)
  /\ acks' = acks \cup {f.seq}
  /\ UNCHANGED <<senderVars, frames>>

\* The path drops what it holds of a frame or of an ACK.
Lose == \/ /\ \E f \in frames : frames' = frames \ {f}
           /\ UNCHANGED <<acks, senderVars, receiverVars>>
        \/ /\ \E s \in acks : acks' = acks \ {s}
           /\ UNCHANGED <<frames, senderVars, receiverVars>>

Next == \/ Send
        \/ \E s \in acks : ProcessAck(s)
        \/ \E E \in SUBSET DOMAIN sendBuf : RetransmitExpired(E)
        \/ \E f \in frames : Receive(f)
        \/ Lose

\* The timer thread the docstring of retransmit_expired asks for: a frame that
\* stays in _send_buf has its timer run out again and again.
TimerExpires(s) ==
  \E E \in SUBSET DOMAIN sendBuf : s \in E /\ RetransmitExpired(E)

Spec == Init /\ [][Next]_vars /\ \A s \in Seqs : WF_vars(TimerExpires(s))

----------------------------------------------------------------------------
(* Properties.  They speak of one lap of the sequence numbers, in which     *)
(* number s always means payload s (NoWrap); MCSelectiveRepeat shows what   *)
(* the code does on the second lap.                                         *)

NoWrap == MaxSends + Window <= SeqMod

\* Types, and each frame is resent at most MaxRetry times
\* (retransmit_expired, reliability.py:197).
TypeOK ==
  /\ nextSeq \in Seqs /\ sendBase \in Seqs /\ recvBase \in Seqs
  /\ sent \in 0 .. MaxSends
  /\ DOMAIN sendBuf \subseteq Seqs
  /\ \A s \in DOMAIN sendBuf :
       sendBuf[s] \in [frame : Frame, retries : 0 .. MaxRetry]
  /\ DOMAIN recvBuf \subseteq Seqs
  /\ \A s \in DOMAIN recvBuf : recvBuf[s] \in Payload
  /\ delivered \in Seq(Payload)
  /\ ackReceived \subseteq Seqs /\ acks \subseteq Seqs
  /\ frames \subseteq Frame

\* The receiver holds payload p, delivered or waiting for earlier ones.
Received(p) == p < Len(delivered) \/ p \in DOMAIN recvBuf

\* What the sender stops worrying about has arrived: a number that is ACKed,
\* noted as ACKed or left behind by _send_base names a payload the receiver
\* holds.  It takes both windows: a frame outside the receive window would be
\* ACKed by the caller and discarded by receive (reliability.py:220-230).
AckedWasReceived ==
  /\ \A s \in acks \cup ackReceived : Received(s)
  /\ \A s \in 0 .. sendBase - 1 : Received(s)

\* However late or reordered, a frame whose payload the receiver does not hold
\* yet falls into the receive window (reliability.py:218-220), so that no
\* frame is ever discarded for being early.
FreshFramesFit ==
  \A f \in frames : Received(f.payload) \/ InWindow(f.seq, recvBase, WindowTop)

\* "The sender maintains a window of SR_WINDOW_SIZE outstanding frames"
\* (reliability.py:114).
WindowBound == Cardinality(DOMAIN sendBuf) <= Window

\* The pair implements an ordered stream: _delivered is at every moment a
\* prefix of what was sent and grows in place (reliability.py:224-229).
Stream == INSTANCE OrderedStream
            WITH submitted <- [i \in 1 .. sent |-> i - 1], handed <- delivered

StreamSafety == Stream!Spec

\* Frames the sender gave up on without an ACK (reliability.py:197-199).
Abandoned ==
  {s \in sendBase .. nextSeq - 1 : s \notin DOMAIN sendBuf \cup ackReceived}

\* Payload p is delivered, or the sender ran out of retries for it or for one
\* before it.
Settled(p) == p < Len(delivered) \/ \E s \in Abandoned : s <= p

\* No payload is left in limbo: whenever one of those sent is not settled there
\* comes a moment when all of them are, for the sends come to an end
\* (reliability.py:188-206, 224-229).
DeliveredOrAbandoned ==
  (\E p \in 0 .. sent - 1 : ~Settled(p)) ~> (\A p \in 0 .. sent - 1 : Settled(p))
=============================================================================
