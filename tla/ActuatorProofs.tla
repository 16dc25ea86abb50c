--------------------------- MODULE ActuatorProofs ---------------------------
(* Theorems about Actuator, for any number of connections, any commands,    *)
(* any rates and any delay and limit of the commands that go together       *)
(* (RateSlack).                                                             *)
EXTENDS Actuator, FiniteSetTheorems, WellFoundedInduction, TLAPS

\* What an emergency stop needs of the state before it and with it.
StopInv == /\ pitch \in 0 .. PitchMax /\ pitchTarget \in 0 .. PitchMax
           /\ eStop \in BOOLEAN
           /\ eStop => pitchTarget = PitchMax

LEMMA StopInit == Init => StopInv
BY ActuatorConstants DEF Init, StopInv

\* A clamped value is in the range it is clamped to.
LEMMA ClampInRange ==
  ASSUME NEW lo \in Int, NEW hi \in Int, lo <= hi, NEW x \in Int
  PROVE  Clamp(lo, x, hi) \in lo .. hi
BY DEF Clamp, Smaller, Larger

\* A tick of the physics thread moves the pitch within its range, and during a
\* stop only towards the feathered position.
LEMMA TickPitch ==
  ASSUME StopInv, Tick
  PROVE  pitch' \in 0 .. PitchMax /\ (eStop => pitch' >= pitch)
<1> USE ActuatorConstants
<1>1. CASE eStop
  BY <1>1 DEF Tick, StopInv, StoppedPitch, Smaller
<1>2. CASE ~eStop
  <2> DEFINE move == Clamp(-PitchRate, pitchTarget - pitch, PitchRate)
  <2>1. move \in -PitchRate .. PitchRate
    BY ClampInRange DEF StopInv
  <2>2. pitch + move \in Int
    BY <2>1 DEF StopInv
  <2> HIDE DEF move
  <2>3. Clamp(0, pitch + move, PitchMax) \in 0 .. PitchMax
    BY <2>2, ClampInRange
  <2> QED
    BY <1>2, <2>3 DEF Tick, move
<1> QED
  BY <1>1, <1>2

\* The step a handler takes under the lock.
LEMMA ExecuteStop ==
  ASSUME StopInv, NEW c \in Conns, Execute(c)
  PROVE  /\ StopInv' /\ UNCHANGED <<yaw, pitch>>
         /\ eStop => eStop' /\ pitchTarget' = PitchMax /\ yawTarget' = yawTarget
<1> USE ActuatorConstants
<1>1. UNCHANGED <<yaw, pitch>> /\ eStop' = (eStop \/ cur[c].kind = "stop")
  BY DEF Execute
<1>2. CASE cur[c].kind = "stop"
  BY <1>1, <1>2 DEF Execute, StopInv
<1>3. CASE cur[c].kind # "stop" /\ InRange(cur[c]) /\ ~eStop
  <2>1. /\ eStop' = FALSE
        /\ pitchTarget' = IF cur[c].kind = "pitch" THEN cur[c].angle ELSE pitchTarget
    BY <1>1, <1>3 DEF Execute, Stopped
  <2>2. cur[c].kind = "pitch" => cur[c].angle \in 0 .. PitchMax
    BY <1>3 DEF InRange
  <2> QED
    BY <1>1, <1>3, <2>1, <2>2 DEF StopInv
<1>4. CASE cur[c].kind # "stop" /\ ~(InRange(cur[c]) /\ ~eStop)
  BY <1>1, <1>4 DEF Execute, Stopped, StopInv
<1> QED
  BY <1>2, <1>3, <1>4

LEMMA StopStep ==
  ASSUME StopInv, [Next]_vars
  PROVE  /\ StopInv'
         /\ eStop => /\ eStop' /\ pitchTarget' = PitchMax
                     /\ yaw' = yaw /\ yawTarget' = yawTarget /\ pitch' >= pitch
<1> USE ActuatorConstants
<1>1. CASE UNCHANGED stateVars
  BY <1>1 DEF stateVars, StopInv
<1>2. CASE \E c \in Conns, m \in Commands : Arrive(c, m)
  BY <1>1, <1>2 DEF Arrive
<1>3. CASE \E c \in Conns : Disconnect(c) \/ Heartbeat(c) \/ Dispatch(c) \/ Reply(c)
  BY <1>1, <1>3 DEF Disconnect, Heartbeat, Dispatch, Reply
<1>4. CASE \E c \in Conns : Execute(c)
  BY <1>4, ExecuteStop DEF StopInv
<1>5. CASE Tick
  <2>1. UNCHANGED <<yawTarget, pitchTarget, eStop>> /\ (eStop => yaw' = yaw)
    BY <1>5 DEF Tick
  <2> QED
    BY <1>5, <2>1, TickPitch DEF StopInv
<1>6. CASE UNCHANGED vars
  BY <1>1, <1>6 DEF vars
<1> QED
  BY <1>2, <1>3, <1>4, <1>5, <1>6 DEF Next, Handler

\* Once an emergency stop is engaged no later or concurrent command undoes it
\* (actuator_controller.py:71, 81, 86-90, 96-98).
THEOREM StopIsNeverUndone == Spec => StopIsFinal
<1>1. StopInv /\ [Next]_vars =>
        /\ StopInv'
        /\ [eStop => /\ eStop' /\ pitchTarget' = PitchMax
                     /\ yaw' = yaw /\ yawTarget' = yawTarget /\ pitch' >= pitch]_vars
  BY StopStep
<1> QED
  BY <1>1, StopInit, PTL DEF Spec, StopIsFinal

----------------------------------------------------------------------------
(* Arithmetic, and sequences that lose their front.                         *)

LEMMA TimesStep == ASSUME NEW x \in Int, NEW d \in Int PROVE (x + 1) * d = x * d + d
OBVIOUS

LEMMA TimesMono ==
  ASSUME NEW x \in Int, NEW y \in Int, x <= y, NEW d \in Nat
  PROVE  x * d <= y * d
<1>1. (y - x) * d >= 0
  <2>1. y - x \in Nat OBVIOUS
  <2> QED BY <2>1
<1>2. (y - x) * d = y * d - x * d OBVIOUS
<1>3. x * d \in Int /\ y * d \in Int OBVIOUS
<1> QED BY <1>1, <1>2, <1>3

\* A set of numbers that has any has a least one.
LEMMA Least ==
  ASSUME NEW T \in SUBSET Nat, T # {}
  PROVE  \E x \in T : \A y \in T : x <= y
<1> DEFINE R == OpToRel(<, Nat)
<1>1. IsWellFoundedOn(R, Nat) BY NatLessThanWellFounded
<1>2. \A x, y \in Nat : x < y => <<x, y>> \in R BY DEF OpToRel
<1> HIDE DEF R
<1>3. PICK x \in T : \A y \in T : ~ (<<y, x>> \in R) BY <1>1, WFMin
<1>4. ASSUME NEW y \in T PROVE x <= y
  <2>1. x \in Nat /\ y \in Nat OBVIOUS
  <2>2. ~ (y < x) BY <1>2, <1>3, <2>1
  <2> QED BY <2>1, <2>2
<1> QED BY <1>4

LEMMA UpTo == ASSUME NEW n \in Nat PROVE IsFiniteSet(1 .. n) /\ Cardinality(1 .. n) = n
<1>1. 1 \in Int /\ n \in Int OBVIOUS
<1>2. /\ IsFiniteSet(1 .. n)
      /\ Cardinality(1 .. n) = IF 1 > n THEN 0 ELSE n - 1 + 1
      BY ONLY <1>1, FS_Interval
<1> QED BY <1>2

\* The timestamps that have had their second are the first ones.
LEMMA GoneAreFirst ==
  ASSUME NEW ages \in Seq(Nat), \A i, j \in DOMAIN ages : i < j => ages[i] >= ages[j]
  PROVE  \E gone \in 0 .. Len(ages) :
           /\ Cardinality({i \in DOMAIN ages : ages[i] + 1 >= RateWindow}) = gone
           /\ \A i \in gone + 1 .. Len(ages) : ages[i] + 1 < RateWindow
<1> DEFINE old   == {i \in DOMAIN ages : ages[i] + 1 >= RateWindow}
           young == {i \in DOMAIN ages : ages[i] + 1 < RateWindow}
<1>1. Len(ages) \in Nat /\ DOMAIN ages = 1 .. Len(ages) /\ RateWindow \in Nat
      /\ \A i \in 1 .. Len(ages) : ages[i] \in Nat
      BY ActuatorConstants
<1>2. \A i, j \in 1 .. Len(ages) : i < j => ages[i] >= ages[j] OBVIOUS
<1>3. CASE young = {}
  <2>1. \A i \in 1 .. Len(ages) : ages[i] + 1 >= RateWindow BY <1>1, <1>3
  <2>2. old = 1 .. Len(ages) BY <1>1, <2>1
  <2>3. Cardinality(1 .. Len(ages)) = Len(ages) BY ONLY <1>1, UpTo
  <2>4. Len(ages) \in 0 .. Len(ages) /\ Len(ages) + 1 .. Len(ages) = {} BY ONLY <1>1
  <2> QED BY ONLY <2>2, <2>3, <2>4
<1>4. CASE young # {}
  <2>1. young \in SUBSET Nat BY <1>1
  <2>2. PICK k \in young : \A i \in young : k <= i BY <1>4, <2>1, Least
  <2>3. k \in 1 .. Len(ages) /\ ages[k] + 1 < RateWindow BY <1>1
  <2>4. ASSUME NEW i \in k .. Len(ages) PROVE ages[i] + 1 < RateWindow
    <3>1. i \in 1 .. Len(ages) /\ (i = k \/ k < i) BY ONLY <1>1, <2>3, i \in k .. Len(ages)
    <3>2. i = k \/ ages[k] >= ages[i] BY ONLY <1>2, <2>3, <3>1
    <3>3. ages[i] \in Nat /\ ages[k] \in Nat BY ONLY <1>1, <2>3, <3>1
    <3> QED BY ONLY <1>1, <2>3, <3>2, <3>3
  <2>5. ASSUME NEW i \in 1 .. k - 1 PROVE ages[i] + 1 >= RateWindow
    <3>1. i \in 1 .. Len(ages) /\ i < k BY ONLY <1>1, <2>3, i \in 1 .. k - 1
    <3>2. ~ (k <= i) BY ONLY <1>1, <2>3, <3>1
    <3>3. i \notin young BY ONLY <2>2, <3>2
    <3> QED BY <1>1, <3>1, <3>3
  <2> HIDE DEF young
  <2>6. old = 1 .. k - 1
    <3>1. ASSUME NEW i \in 1 .. Len(ages) PROVE i \in old <=> i \in 1 .. k - 1
      <4>1. i \in k .. Len(ages) \/ i \in 1 .. k - 1
            BY ONLY <1>1, <2>3, i \in 1 .. Len(ages)
      <4>2. CASE i \in k .. Len(ages)
        <5>1. i \notin 1 .. k - 1 BY ONLY <1>1, <2>3, <4>2
        <5>2. ages[i] + 1 < RateWindow /\ ages[i] \in Nat BY <1>1, <2>4, <4>2
        <5> QED BY <1>1, <5>1, <5>2
      <4>3. CASE i \in 1 .. k - 1 BY <1>1, <2>5, <4>3
      <4> QED BY <4>1, <4>2, <4>3
    <3>2. 1 .. k - 1 \subseteq 1 .. Len(ages) BY ONLY <1>1, <2>3
    <3>3. old \subseteq 1 .. Len(ages) BY <1>1
    <3> QED BY ONLY <3>1, <3>2, <3>3
  <2>7. Cardinality(1 .. k - 1) = k - 1
    <3>1. k - 1 \in Nat BY ONLY <1>1, <2>3
    <3> QED BY ONLY <3>1, UpTo
  <2>8. k - 1 \in 0 .. Len(ages) /\ (k - 1) + 1 = k BY ONLY <1>1, <2>3
  <2> QED BY ONLY <2>4, <2>6, <2>7, <2>8
<1> QED BY <1>3, <1>4

LEMMA ListOf == ASSUME NEW k \in Nat, NEW f \in [1 .. k -> Nat] PROVE f \in Seq(Nat) /\ Len(f) = k
OBVIOUS

LEMMA AgedIs ==
  ASSUME NEW ages \in Seq(Nat), \A i, j \in DOMAIN ages : i < j => ages[i] >= ages[j]
  PROVE  \E gone \in 0 .. Len(ages) :
           /\ Aged(ages) \in Seq(Nat) /\ Len(Aged(ages)) = Len(ages) - gone
           /\ \A i \in 1 .. Len(ages) - gone : /\ Aged(ages)[i] = ages[gone + i] + 1
                                               /\ Aged(ages)[i] < RateWindow
<1>1. PICK gone \in 0 .. Len(ages) :
           /\ Cardinality({i \in DOMAIN ages : ages[i] + 1 >= RateWindow}) = gone
           /\ \A i \in gone + 1 .. Len(ages) : ages[i] + 1 < RateWindow
      BY GoneAreFirst
<1>2. Len(ages) \in Nat /\ \A i \in 1 .. Len(ages) : ages[i] \in Nat OBVIOUS
<1>3. Aged(ages) = [i \in 1 .. Len(ages) - gone |-> ages[gone + i] + 1]
      BY <1>1 DEF Aged
<1>4. \A i \in 1 .. Len(ages) - gone : gone + i \in gone + 1 .. Len(ages)
                                       /\ gone + i \in 1 .. Len(ages)
      BY <1>2
<1>5. Aged(ages) \in [1 .. Len(ages) - gone -> Nat] BY <1>2, <1>3, <1>4
<1>6. Len(ages) - gone \in Nat BY <1>2
<1>7. Aged(ages) \in Seq(Nat) /\ Len(Aged(ages)) = Len(ages) - gone BY ONLY <1>5, <1>6, ListOf
<1>8. \A i \in 1 .. Len(ages) - gone : /\ Aged(ages)[i] = ages[gone + i] + 1
                                       /\ Aged(ages)[i] < RateWindow
      BY <1>1, <1>3, <1>4
<1> QED BY <1>7, <1>8

----------------------------------------------------------------------------
(* Types.                                                                   *)

Kind     == {"yaw", "pitch", "stop", "other"}
Frame    == [kind : Kind, angle : Int, n : Nat]
Answered == [n : Nat, verdict : {"ack", "nack", "rate_limit"}]

Shape == /\ connected \in [Conns -> BOOLEAN]
         /\ inbox \in [Conns -> Seq(Frame)]
         /\ pc \in [Conns -> {"idle", "delay", "reply"}]
         /\ cur \in [Conns -> Frame]
         /\ wait \in [Conns -> 0 .. Delay]
         /\ verdict \in [Conns -> {"ack", "nack"}]
         /\ recent \in [Conns -> Seq(Nat)]
         /\ log \in [Conns -> Seq(Kind)]
         /\ cut \in [Conns -> Nat]
         /\ answers \in [Conns -> Seq(Answered)]

YawInv == yaw \in 0 .. Circle - 1 /\ yawTarget \in 0 .. Circle

LEMMA ShapeInit == Init => Shape
<1> SUFFICES ASSUME Init PROVE Shape
    OBVIOUS
<1>1. NoCmd \in Frame BY DEF NoCmd, Frame, Kind
<1>2. 0 \in 0 .. Delay BY ActuatorConstants
<1> QED BY <1>1, <1>2 DEF Init, Shape

LEMMA CommandsTyped == ASSUME NEW m \in Commands PROVE m.kind \in Kind /\ m.angle \in Int
<1>1. CASE m \in [kind : {"yaw"}, angle : YawAngles]
      BY <1>1, ActuatorConstants DEF Kind
<1>2. CASE m \in [kind : {"pitch"}, angle : PitchAngles]
      BY <1>2, ActuatorConstants DEF Kind
<1>3. CASE m \in [kind : {"stop", "other"}, angle : {0}] BY <1>3 DEF Kind
<1> QED BY <1>1, <1>2, <1>3 DEF Commands

LEMMA AnswerTyped ==
  ASSUME Shape, NEW c \in Conns, NEW n \in Nat, NEW v \in {"ack", "nack", "rate_limit"},
         NEW whole \in BOOLEAN, Answer(c, n, v, whole)
  PROVE  /\ answers' \in [Conns -> Seq(Answered)]
         /\ \A d \in Conns : d # c => answers'[d] = answers[d]
         /\ connected[c] /\ whole => answers'[c] = Append(answers[c], [n |-> n, verdict |-> v])
         /\ ~whole => answers' = answers
<1>1. [n |-> n, verdict |-> v] \in Answered BY DEF Answered
<1>2. answers \in [Conns -> Seq(Answered)] BY DEF Shape
<1> HIDE DEF Answered
<1> QED BY <1>1, <1>2 DEF Answer

LEMMA WriteTyped ==
  ASSUME Shape, NEW c \in Conns, NEW whole \in BOOLEAN, Write(c, whole)
  PROVE  /\ cut' \in [Conns -> Nat] /\ cut'[c] >= cut[c]
         /\ \A d \in Conns : d # c => cut'[d] = cut[d]
         /\ connected[c] /\ ~whole => cut'[c] = cut[c] + 1
<1>1. cut \in [Conns -> Nat] BY DEF Shape
<1>2. CASE connected[c] /\ ~whole
  <2>1. cut' = [cut EXCEPT ![c] = @ + 1] BY <1>2 DEF Write
  <2> QED BY <1>1, <2>1
<1>3. CASE ~(connected[c] /\ ~whole)
  <2>1. cut' = cut BY <1>3 DEF Write
  <2> QED BY <1>1, <1>3, <2>1
<1> QED BY <1>2, <1>3

LEMMA ShapeArrive ==
  ASSUME Shape, NEW c \in Conns, NEW m \in Commands, Arrive(c, m) PROVE Shape'
<1>1. m.kind \in Kind /\ m.angle \in Int BY CommandsTyped
<1> DEFINE f == [kind |-> m.kind, angle |-> m.angle, n |-> Len(log[c]) + 1]
<1>2. log[c] \in Seq(Kind) BY DEF Shape
<1>3. f \in Frame
  <2>1. Len(log[c]) + 1 \in Nat BY <1>2
  <2> QED BY <1>1, <2>1 DEF Frame
<1>4. log' = [log EXCEPT ![c] = Append(@, m.kind)] /\ inbox' = [inbox EXCEPT ![c] = Append(@, f)]
      BY DEF Arrive
<1> HIDE DEF f
<1>5. UNCHANGED <<connected, pc, cur, wait, verdict, recent, cut, answers>>
      BY DEF Arrive, threadVars, outVars
<1>6. log' \in [Conns -> Seq(Kind)] BY <1>1, <1>4 DEF Shape
<1>7. inbox' \in [Conns -> Seq(Frame)] BY <1>3, <1>4 DEF Shape
<1> QED BY <1>5, <1>6, <1>7 DEF Shape

LEMMA ShapeDisconnect == ASSUME Shape, NEW c \in Conns, Disconnect(c) PROVE Shape'
<1>1. PICK k \in 0 .. Len(inbox[c]) : inbox' = [inbox EXCEPT ![c] = SubSeq(@, 1, k)]
      BY DEF Disconnect
<1>2. connected' = [connected EXCEPT ![c] = FALSE]
      /\ cut' = [cut EXCEPT ![c] = 0] /\ answers' = [answers EXCEPT ![c] = << >>]
      /\ UNCHANGED <<pc, cur, wait, verdict, recent, log>>
      BY DEF Disconnect, threadVars
<1>3. inbox[c] \in Seq(Frame) BY DEF Shape
<1>4. SubSeq(inbox[c], 1, k) \in Seq(Frame) BY ONLY <1>3, k \in 0 .. Len(inbox[c])
<1>5. inbox' \in [Conns -> Seq(Frame)] BY <1>1, <1>4 DEF Shape
<1>6. cut' \in [Conns -> Nat] /\ answers' \in [Conns -> Seq(Answered)] BY <1>2 DEF Shape
<1> QED BY <1>2, <1>5, <1>6 DEF Shape

LEMMA ShapeHeartbeat == ASSUME Shape, NEW c \in Conns, Heartbeat(c) PROVE Shape'
<1>1. /\ UNCHANGED <<connected, inbox, pc, cur, wait, verdict, recent, log, answers>>
      /\ Write(c, FALSE)
      BY DEF Heartbeat, threadVars
<1>2. cut' \in [Conns -> Nat] BY <1>1, WriteTyped
<1> QED BY <1>1, <1>2 DEF Shape

LEMMA HeadTyped ==
  ASSUME NEW s \in Seq(Frame), s # << >>
  PROVE  Head(s) \in Frame /\ Tail(s) \in Seq(Frame)
OBVIOUS

LEMMA ShapeDispatch == ASSUME Shape, NEW c \in Conns, Dispatch(c) PROVE Shape'
<1>1. /\ inbox[c] # << >> /\ inbox' = [inbox EXCEPT ![c] = Tail(@)]
      /\ UNCHANGED <<connected, verdict, log>>
      BY DEF Dispatch
<1>2. Head(inbox[c]) \in Frame /\ Tail(inbox[c]) \in Seq(Frame)
      BY <1>1, HeadTyped DEF Shape
<1>3. inbox' \in [Conns -> Seq(Frame)] BY <1>1, <1>2 DEF Shape
<1>4. CASE Len(recent[c]) >= RateLimit
  <2>1. PICK whole \in BOOLEAN :
          Answer(c, Head(inbox[c]).n, "rate_limit", whole) /\ Write(c, whole)
        BY <1>4 DEF Dispatch
  <2>2. UNCHANGED <<pc, cur, wait, recent>> BY <1>4 DEF Dispatch
  <2>3. Head(inbox[c]).n \in Nat BY <1>2 DEF Frame
  <2>4. answers' \in [Conns -> Seq(Answered)] /\ cut' \in [Conns -> Nat]
        BY <2>1, <2>3, AnswerTyped, WriteTyped
  <2> QED BY <1>1, <1>3, <2>2, <2>4 DEF Shape
<1>5. CASE ~(Len(recent[c]) >= RateLimit)
  <2>1. /\ recent' = [recent EXCEPT ![c] = Append(@, 0)]
        /\ cur' = [cur EXCEPT ![c] = Head(inbox[c])]
        /\ wait' = [wait EXCEPT ![c] = Delay]
        /\ pc' = [pc EXCEPT ![c] = "delay"]
        /\ answers' = answers /\ cut' = cut
        BY <1>5 DEF Dispatch, ResponseDelay, outVars
  <2>2. Delay \in 0 .. Delay BY ActuatorConstants
  <2>3. wait' \in [Conns -> 0 .. Delay] /\ pc' \in [Conns -> {"idle", "delay", "reply"}]
        BY <2>1, <2>2 DEF Shape
  <2>4. cur' \in [Conns -> Frame] BY <1>2, <2>1 DEF Shape
  <2>5. recent' \in [Conns -> Seq(Nat)] BY <2>1 DEF Shape
  <2> QED BY <1>1, <1>3, <2>1, <2>3, <2>4, <2>5 DEF Shape
<1> QED BY <1>4, <1>5

LEMMA ShapeExecute == ASSUME Shape, NEW c \in Conns, Execute(c) PROVE Shape'
<1>1. /\ UNCHANGED <<cur, wait, recent, connected, inbox, log, cut, answers>>
      /\ pc' = [pc EXCEPT ![c] = "reply"]
      /\ \E v \in {"ack", "nack"} : verdict' = [verdict EXCEPT ![c] = v]
      BY DEF Execute, outVars
<1> QED BY <1>1 DEF Shape

LEMMA ShapeReply == ASSUME Shape, NEW c \in Conns, Reply(c) PROVE Shape'
<1>1. /\ UNCHANGED <<wait, recent, connected, inbox, log>>
      /\ pc' = [pc EXCEPT ![c] = "idle"]
      /\ cur' = [cur EXCEPT ![c] = NoCmd]
      /\ verdict' = [verdict EXCEPT ![c] = "ack"]
      BY DEF Reply
<1>2. NoCmd \in Frame BY DEF NoCmd, Frame, Kind
<1>3. cur[c].n \in Nat /\ verdict[c] \in {"ack", "nack", "rate_limit"}
  <2>1. cur[c] \in Frame /\ verdict[c] \in {"ack", "nack"} BY DEF Shape
  <2> QED BY <2>1 DEF Frame
<1>4. answers' \in [Conns -> Seq(Answered)] /\ cut' \in [Conns -> Nat]
  <2>1. CASE UNCHANGED outVars BY <2>1 DEF outVars, Shape
  <2>2. ASSUME NEW whole \in BOOLEAN, NEW status \in BOOLEAN,
               Answer(c, cur[c].n, verdict[c], whole), Write(c, whole /\ status)
        PROVE  answers' \in [Conns -> Seq(Answered)] /\ cut' \in [Conns -> Nat]
    <3>1. answers' \in [Conns -> Seq(Answered)] BY <1>3, <2>2, AnswerTyped
    <3>2. (whole /\ status) \in BOOLEAN OBVIOUS
    <3>3. cut' \in [Conns -> Nat] BY ONLY Shape, c \in Conns, <2>2, <3>2, WriteTyped
    <3> QED BY <3>1, <3>3
  <2> QED BY <2>1, <2>2 DEF Reply
<1>5. cur' \in [Conns -> Frame] BY <1>1, <1>2 DEF Shape
<1>6. pc' \in [Conns -> {"idle", "delay", "reply"}] /\ verdict' \in [Conns -> {"ack", "nack"}]
      BY <1>1 DEF Shape
<1> QED BY <1>1, <1>4, <1>5, <1>6 DEF Shape

----------------------------------------------------------------------------
(* The delay in _dispatch keeps the timestamps of a connection apart.       *)

\* Each timestamp is older than the ones after it have been waited for, and all
\* are within the second.
AgeInv ==
  \A c \in Conns :
    LET n == Len(recent[c]) IN
      /\ n <= RateLimit
      /\ pc[c] # "delay" => wait[c] = 0
      /\ \A i \in 1 .. n : /\ recent[c][i] < RateWindow
                           /\ recent[c][i] + wait[c] >= (n - i + 1) * Delay
      /\ \A i, j \in 1 .. n : i < j => recent[c][i] >= recent[c][j]

LEMMA AgeInit == Init => AgeInv
BY ActuatorConstants DEF Init, AgeInv

\* The idle handler of a connection is below the limit.
LEMMA BelowLimit ==
  ASSUME Shape, AgeInv, NEW c \in Conns, pc[c] # "delay"
  PROVE  Len(recent[c]) < RateLimit
<1> DEFINE n == Len(recent[c])
<1>1. n \in Nat /\ recent[c] \in Seq(Nat) BY DEF Shape
<1>2. RateLimit \in Nat /\ Delay \in Nat /\ RateWindow \in Nat
      /\ RateLimit * Delay >= RateWindow /\ RateLimit > 0
      BY ActuatorConstants, RateSlack
<1>3. CASE n = 0 BY <1>2, <1>3
<1>4. CASE n # 0 /\ n >= RateLimit
  <2>1. 1 \in 1 .. n /\ n - 1 + 1 = n BY <1>1, <1>4
  <2>2. wait[c] = 0 BY DEF AgeInv
  <2>3. recent[c][1] < RateWindow /\ recent[c][1] + wait[c] >= (n - 1 + 1) * Delay
        BY <2>1 DEF AgeInv
  <2>4. recent[c][1] \in Nat BY <1>1, <2>1
  <2>5. RateLimit * Delay <= n * Delay
    <3>1. RateLimit \in Int /\ n \in Int /\ RateLimit <= n BY ONLY <1>1, <1>2, <1>4
    <3> QED BY ONLY <1>2, <3>1, TimesMono
  <2>6. RateLimit * Delay \in Nat /\ n * Delay \in Nat BY <1>1, <1>2
  <2> QED BY ONLY <1>2, <2>1, <2>2, <2>3, <2>4, <2>5, <2>6
<1> QED BY <1>1, <1>2, <1>3, <1>4

LEMMA AgeDispatch == ASSUME Shape, AgeInv, NEW c \in Conns, Dispatch(c) PROVE AgeInv'
<1>1. pc[c] = "idle" BY DEF Dispatch
<1>2. Len(recent[c]) < RateLimit BY <1>1, BelowLimit
<1>3. recent[c] \in Seq(Nat) /\ Len(recent[c]) \in Nat BY DEF Shape
<1>4. RateLimit \in Nat /\ Delay \in Nat /\ RateWindow \in Nat \ {0} BY ActuatorConstants
<1>5. /\ recent' = [recent EXCEPT ![c] = Append(@, 0)]
      /\ wait' = [wait EXCEPT ![c] = Delay]
      /\ pc' = [pc EXCEPT ![c] = "delay"]
      BY <1>2, <1>3, <1>4 DEF Dispatch, ResponseDelay
<1>6. \A d \in Conns : d # c => recent'[d] = recent[d] /\ wait'[d] = wait[d] /\ pc'[d] = pc[d]
      BY <1>5 DEF Shape
<1>7. recent'[c] = Append(recent[c], 0) /\ wait'[c] = Delay /\ pc'[c] = "delay"
      BY <1>5 DEF Shape
<1> DEFINE n == Len(recent[c])
<1>8. /\ Len(recent'[c]) = n + 1 /\ recent'[c][n + 1] = 0
      /\ \A i \in 1 .. n : recent'[c][i] = recent[c][i] /\ recent[c][i] \in Nat
      BY <1>3, <1>7
<1>9. wait[c] = 0 BY <1>1 DEF AgeInv
<1>10. \A i \in 1 .. n : recent[c][i] < RateWindow /\ recent[c][i] + wait[c] >= (n - i + 1) * Delay
      BY DEF AgeInv
<1>11. ASSUME NEW i \in 1 .. n + 1
       PROVE  recent'[c][i] < RateWindow /\ recent'[c][i] + wait'[c] >= (n + 1 - i + 1) * Delay
  <2>1. CASE i \in 1 .. n
    <3>1. ((n - i + 1) + 1) * Delay = (n - i + 1) * Delay + Delay
      <4>1. n - i + 1 \in Int BY <1>3
      <4> QED BY <1>4, <4>1, TimesStep
    <3>2. (n - i + 1) + 1 = n + 1 - i + 1 BY <1>3
    <3>3. (n - i + 1) * Delay \in Int BY <1>3, <1>4
    <3> DEFINE x == (n - i + 1) * Delay
               y == (n + 1 - i + 1) * Delay
    <3>4. y = x + Delay BY <3>1, <3>2
    <3>5. recent'[c][i] = recent[c][i] /\ recent[c][i] \in Nat
          /\ recent[c][i] < RateWindow /\ recent[c][i] + wait[c] >= x
          BY <1>8, <1>10, <2>1
    <3>6. x \in Int BY <3>3
    <3> HIDE DEF x, y
    <3>7. recent[c][i] >= x BY ONLY <1>9, <3>5
    <3>8. recent[c][i] + Delay >= y BY ONLY <1>4, <3>4, <3>5, <3>6, <3>7
    <3>9. recent'[c][i] + wait'[c] >= y BY ONLY <1>7, <3>5, <3>8
    <3> QED BY <3>5, <3>9 DEF y
  <2>2. CASE i = n + 1
    <3>1. n + 1 - i + 1 = 1 /\ 1 * Delay = Delay BY <1>3, <1>4, <2>2
    <3> QED BY <1>4, <1>7, <1>8, <2>2, <3>1
  <2> QED BY <1>3, <2>1, <2>2
<1>12. ASSUME NEW i \in 1 .. n + 1, NEW j \in 1 .. n + 1, i < j
       PROVE  recent'[c][i] >= recent'[c][j]
  <2>1. i \in 1 .. n BY <1>3, <1>12
  <2>2. CASE j \in 1 .. n BY <1>8, <1>12, <2>1, <2>2 DEF AgeInv
  <2>3. CASE j = n + 1 BY <1>8, <2>1, <2>3
  <2> QED BY <1>3, <2>2, <2>3
<1>13. n + 1 <= RateLimit BY <1>2, <1>3, <1>4
<1>14. ASSUME NEW d \in Conns
       PROVE  LET m == Len(recent'[d]) IN
                /\ m <= RateLimit
                /\ pc'[d] # "delay" => wait'[d] = 0
                /\ \A i \in 1 .. m : /\ recent'[d][i] < RateWindow
                                     /\ recent'[d][i] + wait'[d] >= (m - i + 1) * Delay
                /\ \A i, j \in 1 .. m : i < j => recent'[d][i] >= recent'[d][j]
  <2>1. CASE d = c
    <3> DEFINE m == Len(recent'[c])
    <3>1. m = n + 1 /\ n \in Nat BY <1>3, <1>8
    <3> HIDE DEF m, n
    <3>2. ASSUME NEW i \in 1 .. m
          PROVE  /\ recent'[c][i] < RateWindow
                 /\ recent'[c][i] + wait'[c] >= (m - i + 1) * Delay
      <4>1. i \in 1 .. n + 1 BY <3>1
      <4>2. n + 1 - i + 1 = m - i + 1 BY <3>1
      <4> QED BY <1>11, <4>1, <4>2
    <3>3. \A i, j \in 1 .. m : i < j => recent'[c][i] >= recent'[c][j]
          BY ONLY <1>12, <3>1
    <3>4. m <= RateLimit BY ONLY <1>13, <3>1
    <3> QED BY ONLY <1>7, <2>1, <3>2, <3>3, <3>4 DEF m
  <2>2. CASE d # c BY <1>6, <2>2 DEF AgeInv
  <2> QED BY <2>1, <2>2
<1> QED BY <1>14 DEF AgeInv

LEMMA TickAway ==
  ASSUME NEW r \in Nat, NEW w \in Nat, NEW v \in Nat, NEW x \in Int, r + w >= x, v + 1 >= w
  PROVE  (r + 1) + v >= x
OBVIOUS

LEMMA AgeTick == ASSUME Shape, AgeInv, Tick PROVE AgeInv' /\ recent' \in [Conns -> Seq(Nat)]
<1>1. /\ wait' = [c \in Conns |-> Larger(0, wait[c] - 1)]
      /\ recent' = [c \in Conns |-> Aged(recent[c])]
      /\ pc' = pc
      BY DEF Tick
<1>2. RateLimit \in Nat /\ Delay \in Nat /\ RateWindow \in Nat BY ActuatorConstants
<1>3. ASSUME NEW c \in Conns
      PROVE  /\ recent'[c] \in Seq(Nat)
             /\ Len(recent'[c]) <= RateLimit
             /\ pc'[c] # "delay" => wait'[c] = 0
             /\ \A i \in 1 .. Len(recent'[c]) :
                  /\ recent'[c][i] < RateWindow
                  /\ recent'[c][i] + wait'[c] >= (Len(recent'[c]) - i + 1) * Delay
             /\ \A i, j \in 1 .. Len(recent'[c]) : i < j => recent'[c][i] >= recent'[c][j]
  <2> DEFINE n == Len(recent[c])
  <2>1. recent[c] \in Seq(Nat) /\ n \in Nat /\ wait[c] \in 0 .. Delay
        /\ \A i \in 1 .. n : recent[c][i] \in Nat
        BY DEF Shape
  <2>2. \A i, j \in 1 .. n : i < j => recent[c][i] >= recent[c][j] BY DEF AgeInv
  <2>3. \A i \in 1 .. n : recent[c][i] + wait[c] >= (n - i + 1) * Delay BY DEF AgeInv
  <2>4. n <= RateLimit BY DEF AgeInv
  <2>5. pc[c] # "delay" => wait[c] = 0 BY DEF AgeInv
  <2>6. wait'[c] = (IF wait[c] = 0 THEN 0 ELSE wait[c] - 1) BY <1>1, <1>2, <2>1 DEF Larger
  <2>7. PICK gone \in 0 .. n :
           /\ Aged(recent[c]) \in Seq(Nat) /\ Len(Aged(recent[c])) = n - gone
           /\ \A i \in 1 .. n - gone : /\ Aged(recent[c])[i] = recent[c][gone + i] + 1
                                       /\ Aged(recent[c])[i] < RateWindow
    <3>1. recent[c] \in Seq(Nat) /\ DOMAIN recent[c] = 1 .. n BY <2>1
    <3> HIDE DEF n
    <3>2. \A i, j \in DOMAIN recent[c] : i < j => recent[c][i] >= recent[c][j]
          BY ONLY <2>2, <3>1
    <3> QED BY ONLY <3>1, <3>2, AgedIs DEF n
  <2>8. /\ recent'[c] \in Seq(Nat) /\ Len(recent'[c]) = n - gone
        /\ \A i \in 1 .. n - gone : /\ recent'[c][i] = recent[c][gone + i] + 1
                                    /\ recent'[c][i] < RateWindow
        BY <1>1, <2>7
  <2>9. ASSUME NEW i \in 1 .. n - gone
        PROVE  recent'[c][i] + wait'[c] >= (n - gone - i + 1) * Delay
    <3>1. gone + i \in 1 .. n /\ n - (gone + i) + 1 = n - gone - i + 1 BY <2>1
    <3>2. recent[c][gone + i] \in Nat BY <2>1, <3>1
    <3>3. recent[c][gone + i] + wait[c] >= (n - gone - i + 1) * Delay BY <2>3, <3>1
    <3>4. (n - gone - i + 1) * Delay \in Int BY <1>2, <2>1
    <3> DEFINE x == (n - gone - i + 1) * Delay
    <3>5. recent'[c][i] = recent[c][gone + i] + 1 BY <2>8
    <3>6. x \in Int /\ recent[c][gone + i] + wait[c] >= x BY <3>3, <3>4
    <3> HIDE DEF x
    <3>7. wait[c] \in Nat /\ wait'[c] \in Nat /\ wait'[c] + 1 >= wait[c]
          BY ONLY <1>2, <2>1, <2>6
    <3>8. (recent[c][gone + i] + 1) + wait'[c] >= x BY ONLY <3>2, <3>6, <3>7, TickAway
    <3>9. recent'[c][i] + wait'[c] >= x BY ONLY <3>5, <3>8
    <3> QED BY <3>9 DEF x
  <2>10. ASSUME NEW i \in 1 .. n - gone, NEW j \in 1 .. n - gone, i < j
         PROVE  recent'[c][i] >= recent'[c][j]
    <3>1. gone + i \in 1 .. n /\ gone + j \in 1 .. n /\ gone + i < gone + j BY <2>1, <2>10
    <3>2. recent[c][gone + i] >= recent[c][gone + j] BY <2>2, <3>1
    <3>3. recent[c][gone + i] \in Nat /\ recent[c][gone + j] \in Nat BY <2>1, <3>1
    <3>4. recent'[c][i] = recent[c][gone + i] + 1 /\ recent'[c][j] = recent[c][gone + j] + 1
          BY <2>8
    <3> QED BY ONLY <3>2, <3>3, <3>4
  <2>11. n - gone <= RateLimit BY <1>2, <2>1, <2>4
  <2>12. pc'[c] # "delay" => wait'[c] = 0 BY <1>1, <2>5, <2>6
  <2> HIDE DEF n
  <2> QED BY <2>8, <2>9, <2>10, <2>11, <2>12
<1>4. AgeInv' BY <1>3 DEF AgeInv
<1>5. recent' \in [Conns -> Seq(Nat)] BY <1>1, <1>3
<1> QED BY <1>4, <1>5

LEMMA AgeStep == ASSUME Shape, AgeInv, [Next]_vars PROVE AgeInv'
<1>1. CASE \E c \in Conns : Dispatch(c) BY <1>1, AgeDispatch
<1>2. CASE Tick BY <1>2, AgeTick
<1>3. ASSUME NEW c \in Conns, Execute(c) \/ Reply(c) PROVE AgeInv'
  <2>1. /\ UNCHANGED <<recent, wait>>
        /\ pc[c] # "delay" \/ wait[c] = 0
        /\ \A d \in Conns : d # c => pc'[d] = pc[d]
        BY <1>3 DEF Execute, Reply, Shape
  <2>2. \A d \in Conns : (pc'[d] # "delay" => wait[d] = 0) BY <2>1 DEF AgeInv
  <2> QED BY <2>1, <2>2 DEF AgeInv
<1>4. CASE \/ \E c \in Conns, m \in Commands : Arrive(c, m)
           \/ \E c \in Conns : Disconnect(c) \/ Heartbeat(c)
           \/ UNCHANGED vars
  <2>1. UNCHANGED <<recent, wait, pc>>
        BY <1>4 DEF Arrive, Disconnect, Heartbeat, threadVars, vars
  <2> QED BY <2>1 DEF AgeInv
<1> QED BY <1>1, <1>2, <1>3, <1>4 DEF Next, Handler

LEMMA ShapeStep == ASSUME Shape, AgeInv, [Next]_vars PROVE Shape'
<1>1. CASE \E c \in Conns, m \in Commands : Arrive(c, m) BY <1>1, ShapeArrive
<1>2. CASE \E c \in Conns : Disconnect(c) BY <1>2, ShapeDisconnect
<1>3. CASE \E c \in Conns : Dispatch(c) BY <1>3, ShapeDispatch
<1>4. CASE \E c \in Conns : Execute(c) BY <1>4, ShapeExecute
<1>5. CASE \E c \in Conns : Reply(c) BY <1>5, ShapeReply
<1>6. CASE Tick
  <2>1. UNCHANGED <<pc, cur, verdict, connected, inbox, log, cut, answers>>
        BY <1>6 DEF Tick, outVars
  <2>2. recent' \in [Conns -> Seq(Nat)] BY <1>6, AgeTick
  <2>3. wait' \in [Conns -> 0 .. Delay]
    <3>1. wait' = [c \in Conns |-> Larger(0, wait[c] - 1)] BY <1>6 DEF Tick
    <3>2. \A c \in Conns : Larger(0, wait[c] - 1) \in 0 .. Delay
          BY ActuatorConstants DEF Shape, Larger
    <3> QED BY <3>1, <3>2
  <2> QED BY <2>1, <2>2, <2>3 DEF Shape
<1>7. CASE UNCHANGED vars BY <1>7 DEF vars, threadVars, outVars, Shape
<1>8. CASE \E c \in Conns : Heartbeat(c) BY <1>8, ShapeHeartbeat
<1> QED BY <1>1, <1>2, <1>3, <1>4, <1>5, <1>6, <1>7, <1>8 DEF Next, Handler

----------------------------------------------------------------------------
(* Which frames have an answer.                                             *)

\* Not idle: the frame in hand comes after those that have been handled.
InHand(c)  == IF pc[c] = "idle" THEN 0 ELSE 1
Handled(c) == Len(log[c]) - Len(inbox[c]) - InHand(c)
Asked(c)   == {n \in 1 .. Handled(c) : log[c][n] # "other"}

FramesInv(c) ==
  /\ Len(inbox[c]) + InHand(c) <= Len(log[c])
  /\ \A k \in 1 .. Len(inbox[c]) :
       /\ inbox[c][k].n = Len(log[c]) - Len(inbox[c]) + k
       /\ inbox[c][k].kind = log[c][Len(log[c]) - Len(inbox[c]) + k]
  /\ pc[c] # "idle" => /\ cur[c].n = Handled(c) + 1
                       /\ cur[c].kind = log[c][Handled(c) + 1]

AnswersInv(c) ==
  /\ {answers[c][i].n : i \in DOMAIN answers[c]} \subseteq Asked(c)
  /\ cut[c] > 0 \/ Asked(c) \subseteq {answers[c][i].n : i \in DOMAIN answers[c]}
  /\ \A i, j \in DOMAIN answers[c] : i < j => answers[c][i].n < answers[c][j].n
  /\ \A i \in DOMAIN answers[c] :
       log[c][answers[c][i].n] = "stop" => answers[c][i].verdict = "ack" /\ eStop

\* While the client is there.
TalkInv == \A c \in Conns : connected[c] => FramesInv(c) /\ AnswersInv(c)

\* The stop a handler is about to answer is engaged.
StopsInv ==
  \A c \in Conns : pc[c] = "reply" /\ cur[c].kind = "stop" => verdict[c] = "ack" /\ eStop

VerdictInv == \A c \in Conns : \A i \in DOMAIN answers[c] : answers[c][i].verdict # "rate_limit"

LEMMA StopsInit == Init => StopsInv
BY DEF Init, StopsInv

LEMMA StopsStep == ASSUME Shape, StopsInv, [Next]_vars PROVE StopsInv' /\ (eStop => eStop')
<1>1. ASSUME NEW c \in Conns, Execute(c) PROVE StopsInv' /\ (eStop => eStop')
  <2>1. /\ eStop' = (eStop \/ cur[c].kind = "stop") /\ cur' = cur
        /\ cur[c].kind = "stop" => verdict' = [verdict EXCEPT ![c] = "ack"]
        /\ \A d \in Conns : d # c => pc'[d] = pc[d] /\ verdict'[d] = verdict[d]
        BY <1>1 DEF Execute, Shape
  <2>2. ASSUME NEW d \in Conns, pc'[d] = "reply", cur[d].kind = "stop"
        PROVE  verdict'[d] = "ack" /\ eStop'
    <3>1. CASE d = c BY <2>1, <2>2, <3>1 DEF Shape
    <3>2. CASE d # c BY <2>1, <2>2, <3>2 DEF StopsInv
    <3> QED BY <3>1, <3>2
  <2> QED BY <2>1, <2>2 DEF StopsInv
<1>2. ASSUME NEW c \in Conns, Dispatch(c) \/ Reply(c) PROVE StopsInv' /\ (eStop => eStop')
  <2>1. /\ eStop' = eStop /\ pc'[c] # "reply"
        /\ \A d \in Conns : d # c => pc'[d] = pc[d] /\ cur'[d] = cur[d]
                                    /\ verdict'[d] = verdict[d]
        BY <1>2 DEF Dispatch, Reply, stateVars, Shape
  <2>2. ASSUME NEW d \in Conns, pc'[d] = "reply", cur'[d].kind = "stop"
        PROVE  verdict'[d] = "ack" /\ eStop'
    <3>1. d # c BY <2>1, <2>2
    <3> QED BY <2>1, <2>2, <3>1 DEF StopsInv
  <2> QED BY <2>1, <2>2 DEF StopsInv
<1>3. CASE \/ \E c \in Conns, m \in Commands : Arrive(c, m)
           \/ \E c \in Conns : Disconnect(c) \/ Heartbeat(c)
           \/ Tick \/ UNCHANGED vars
  <2>1. UNCHANGED <<pc, cur, verdict, eStop>>
        BY <1>3 DEF Arrive, Disconnect, Heartbeat, Tick, vars, stateVars, threadVars
  <2> QED BY <2>1 DEF StopsInv
<1> QED BY <1>1, <1>2, <1>3 DEF Next, Handler

LEMMA TalkInit == Init => TalkInv /\ VerdictInv
<1> SUFFICES ASSUME Init, NEW c \in Conns
             PROVE  FramesInv(c) /\ AnswersInv(c) /\ DOMAIN answers[c] = {}
    BY DEF TalkInv, VerdictInv
<1>1. inbox[c] = << >> /\ log[c] = << >> /\ answers[c] = << >> /\ pc[c] = "idle"
      BY DEF Init
<1>2. Handled(c) = 0 /\ Len(inbox[c]) = 0 /\ Len(log[c]) = 0 /\ DOMAIN answers[c] = {}
      BY <1>1 DEF Handled, InHand
<1>3. Asked(c) = {} BY <1>2 DEF Asked
<1>4. FramesInv(c) BY <1>1, <1>2 DEF FramesInv, InHand
<1>5. AnswersInv(c) BY <1>2, <1>3 DEF AnswersInv
<1> QED BY <1>2, <1>4, <1>5

\* A step that leaves the connection's handler, frames and answers alone.
LEMMA TalkSame ==
  ASSUME NEW c \in Conns, FramesInv(c), AnswersInv(c),
         inbox'[c] = inbox[c], log'[c] = log[c], answers'[c] = answers[c],
         cur'[c] = cur[c], pc'[c] = "idle" <=> pc[c] = "idle",
         cut[c] > 0 => cut'[c] > 0, eStop => eStop'
  PROVE  FramesInv(c)' /\ AnswersInv(c)'
<1>1. InHand(c)' = InHand(c) BY DEF InHand
<1>2. Handled(c)' = Handled(c) BY <1>1 DEF Handled
<1>3. Asked(c)' = Asked(c) BY <1>2 DEF Asked
<1>4. FramesInv(c)' BY <1>1, <1>2 DEF FramesInv
<1>5. AnswersInv(c)' BY <1>3 DEF AnswersInv
<1> QED BY <1>4, <1>5

LEMMA TalkArrive ==
  ASSUME Shape, NEW c \in Conns, NEW m \in Commands, Arrive(c, m),
         FramesInv(c), AnswersInv(c)
  PROVE  FramesInv(c)' /\ AnswersInv(c)'
<1> DEFINE l == Len(log[c])
           b == Len(inbox[c])
           f == [kind |-> m.kind, angle |-> m.angle, n |-> l + 1]
<1>1. log[c] \in Seq(Kind) /\ inbox[c] \in Seq(Frame) /\ l \in Nat /\ b \in Nat
      BY DEF Shape
<1>2. /\ log'[c] = Append(log[c], m.kind) /\ inbox'[c] = Append(inbox[c], f)
      /\ UNCHANGED <<pc, cur, cut, answers, eStop>>
      BY DEF Arrive, Shape, stateVars, threadVars, outVars
<1>3. /\ Len(log'[c]) = l + 1 /\ log'[c][l + 1] = m.kind
      /\ \A i \in 1 .. l : log'[c][i] = log[c][i]
      BY <1>1, <1>2
<1> HIDE DEF f
<1>4. /\ Len(inbox'[c]) = b + 1 /\ inbox'[c][b + 1] = f
      /\ \A i \in 1 .. b : inbox'[c][i] = inbox[c][i]
      BY <1>1, <1>2
<1>5. InHand(c)' = InHand(c) /\ InHand(c) \in 0 .. 1 BY <1>2 DEF InHand
<1>6. b + InHand(c) <= l BY DEF FramesInv
<1>7. Handled(c)' = Handled(c) /\ Handled(c) \in 0 .. l /\ Handled(c) + InHand(c) \in 0 .. l
  <2>1. Handled(c)' = (l + 1) - (b + 1) - InHand(c) /\ Handled(c) = l - b - InHand(c)
        BY <1>3, <1>4, <1>5 DEF Handled
  <2>2. l \in Nat /\ b \in Nat BY <1>1
  <2> HIDE DEF l, b
  <2> QED BY ONLY <1>5, <1>6, <2>1, <2>2
<1>8. FramesInv(c)'
  <2>1. Len(inbox'[c]) + InHand(c)' <= Len(log'[c]) BY <1>1, <1>3, <1>4, <1>5, <1>6
  <2>2. ASSUME NEW k \in 1 .. b + 1
        PROVE  /\ inbox'[c][k].n = (l + 1) - (b + 1) + k
               /\ inbox'[c][k].kind = log'[c][(l + 1) - (b + 1) + k]
    <3>0. l \in Nat /\ b \in Nat BY <1>1
    <3>1. CASE k \in 1 .. b
      <4>1. (l + 1) - (b + 1) + k = l - b + k /\ l - b + k \in 1 .. l
        <5> HIDE DEF l, b
        <5> QED BY ONLY <1>5, <1>6, <3>0, <3>1
      <4>2. inbox[c][k].n = l - b + k /\ inbox[c][k].kind = log[c][l - b + k]
            BY <3>1 DEF FramesInv
      <4> QED BY <1>3, <1>4, <3>1, <4>1, <4>2
    <3>2. CASE k = b + 1
      <4>1. (l + 1) - (b + 1) + k = l + 1
        <5> HIDE DEF l, b
        <5> QED BY ONLY <3>0, <3>2
      <4>2. f.n = l + 1 /\ f.kind = m.kind BY DEF f
      <4> HIDE DEF l, b
      <4> QED BY ONLY <1>3, <1>4, <3>2, <4>1, <4>2
    <3> HIDE DEF l, b
    <3> QED BY ONLY <3>0, <3>1, <3>2, k \in 1 .. b + 1
  <2>3. pc[c] # "idle" => cur[c].n = Handled(c) + 1 /\ cur[c].kind = log'[c][Handled(c) + 1]
    <3>1. SUFFICES ASSUME pc[c] # "idle"
                   PROVE  cur[c].n = Handled(c) + 1 /\ cur[c].kind = log'[c][Handled(c) + 1]
          OBVIOUS
    <3>2. InHand(c) = 1 BY <3>1 DEF InHand
    <3>3. Handled(c) + 1 \in 1 .. l BY <1>1, <1>7, <3>2
    <3> QED BY <1>3, <3>1, <3>3 DEF FramesInv
  <2> HIDE DEF l, b
  <2> QED BY <1>2, <1>3, <1>4, <1>7, <2>1, <2>2, <2>3 DEF FramesInv
<1>9. Asked(c)' = Asked(c) BY <1>1, <1>3, <1>7 DEF Asked
<1>10. \A i \in DOMAIN answers[c] : log'[c][answers[c][i].n] = log[c][answers[c][i].n]
  <2>1. \A n \in Asked(c) : n \in 1 .. l BY <1>1, <1>7 DEF Asked
  <2>2. \A i \in DOMAIN answers[c] : answers[c][i].n \in Asked(c) BY DEF AnswersInv
  <2> QED BY <1>3, <2>1, <2>2
<1>11. AnswersInv(c)' BY <1>2, <1>9, <1>10 DEF AnswersInv
<1> QED BY <1>8, <1>11

LEMMA TalkDispatch ==
  ASSUME Shape, AgeInv, NEW c \in Conns, Dispatch(c), FramesInv(c), AnswersInv(c)
  PROVE  FramesInv(c)' /\ AnswersInv(c)'
<1> DEFINE l == Len(log[c])
           b == Len(inbox[c])
<1>1. pc[c] = "idle" /\ inbox[c] # << >> BY DEF Dispatch
<1>2. inbox[c] \in Seq(Frame) /\ l \in Nat /\ b \in Nat \ {0} BY <1>1 DEF Shape
<1>3. ~ (Len(recent[c]) >= RateLimit)
  <2>1. Len(recent[c]) < RateLimit BY <1>1, BelowLimit
  <2>2. Len(recent[c]) \in Nat /\ RateLimit \in Nat BY ActuatorConstants DEF Shape
  <2> QED BY ONLY <2>1, <2>2
<1>4. /\ inbox'[c] = Tail(inbox[c]) /\ pc'[c] = "delay" /\ cur'[c] = inbox[c][1]
      /\ UNCHANGED <<log, cut, answers, eStop>>
      BY <1>1, <1>2, <1>3 DEF Dispatch, Shape, stateVars, outVars
<1>5. Len(inbox'[c]) = b - 1 /\ \A k \in 1 .. b - 1 : inbox'[c][k] = inbox[c][k + 1]
      BY <1>1, <1>2, <1>4
<1>6. InHand(c) = 0 /\ InHand(c)' = 1 BY <1>1, <1>4 DEF InHand
<1>7. b <= l BY <1>2, <1>6 DEF FramesInv
<1>8. Handled(c) = l - b - 0 /\ Handled(c)' = l - (b - 1) - 1
      BY <1>4, <1>5, <1>6 DEF Handled
<1>9. \A k \in 1 .. b : /\ inbox[c][k].n = l - b + k
                        /\ inbox[c][k].kind = log[c][l - b + k]
      BY DEF FramesInv
<1> HIDE DEF l, b
<1>10. Handled(c)' = Handled(c) /\ Handled(c) = l - b BY ONLY <1>2, <1>8
<1>11. AnswersInv(c)'
  <2>1. Asked(c)' = Asked(c) BY <1>4, <1>10 DEF Asked
  <2> QED BY <1>4, <2>1 DEF AnswersInv
<1>12. (b - 1) + 1 <= l BY ONLY <1>2, <1>7
<1>13. ASSUME NEW k \in 1 .. b - 1
       PROVE  /\ inbox'[c][k].n = l - (b - 1) + k
              /\ inbox'[c][k].kind = log[c][l - (b - 1) + k]
  <2>1. k + 1 \in 1 .. b /\ l - b + (k + 1) = l - (b - 1) + k BY ONLY <1>2, k \in 1 .. b - 1
  <2> QED BY ONLY <1>5, <1>9, <2>1, k \in 1 .. b - 1
<1>14. /\ cur'[c].n = Handled(c)' + 1 /\ cur'[c].kind = log[c][Handled(c)' + 1]
  <2>1. 1 \in 1 .. b /\ l - b + 1 = Handled(c)' + 1 BY ONLY <1>2, <1>10
  <2> QED BY ONLY <1>4, <1>9, <2>1
<1>15. FramesInv(c)'
  <2>1. Len(log'[c]) = l BY <1>4 DEF l
  <2>2. Len(inbox'[c]) + InHand(c)' <= Len(log'[c]) BY ONLY <1>5, <1>6, <1>12, <2>1
  <2>3. \A k \in 1 .. Len(inbox'[c]) :
          /\ inbox'[c][k].n = Len(log'[c]) - Len(inbox'[c]) + k
          /\ inbox'[c][k].kind = log'[c][Len(log'[c]) - Len(inbox'[c]) + k]
        BY ONLY <1>4, <1>5, <1>13, <2>1
  <2>4. cur'[c].n = Handled(c)' + 1 /\ cur'[c].kind = log'[c][Handled(c)' + 1]
        BY ONLY <1>4, <1>14
  <2> QED BY ONLY <2>2, <2>3, <2>4 DEF FramesInv
<1> QED BY <1>11, <1>15

\* The answers with one more.
LEMMA AnswersAppend ==
  ASSUME NEW s \in Seq(Answered), NEW r \in Answered,
         \A i \in DOMAIN s : s[i].n < r.n,
         \A i, j \in DOMAIN s : i < j => s[i].n < s[j].n
  PROVE  LET t == Append(s, r) IN
           /\ {t[i].n : i \in DOMAIN t} = {s[i].n : i \in DOMAIN s} \cup {r.n}
           /\ \A i, j \in DOMAIN t : i < j => t[i].n < t[j].n
<1> DEFINE t == Append(s, r)
           k == Len(s)
<1>1. /\ k \in Nat /\ DOMAIN s = 1 .. k /\ DOMAIN t = 1 .. k + 1 /\ t[k + 1] = r
      /\ \A i \in 1 .. k : t[i] = s[i]
      OBVIOUS
<1> HIDE DEF t, k
<1>2. \A i \in 1 .. k + 1 : i \in 1 .. k \/ i = k + 1 BY ONLY <1>1
<1>3. {t[i].n : i \in DOMAIN t} = {s[i].n : i \in DOMAIN s} \cup {r.n}
  <2>1. \A i \in 1 .. k : i \in 1 .. k + 1 BY ONLY <1>1
  <2>2. k + 1 \in 1 .. k + 1 BY ONLY <1>1
  <2> QED BY ONLY <1>1, <1>2, <2>1, <2>2
<1>4. ASSUME NEW i \in DOMAIN t, NEW j \in DOMAIN t, i < j PROVE t[i].n < t[j].n
  <2>1. i \in 1 .. k BY ONLY <1>1, <1>4, i \in DOMAIN t, j \in DOMAIN t
  <2>2. CASE j \in 1 .. k BY <1>1, <1>4, <2>1, <2>2
  <2>3. CASE j = k + 1 BY <1>1, <2>1, <2>3
  <2> QED BY <1>1, <1>2, <2>2, <2>3
<1> QED BY <1>3, <1>4 DEF t

\* The answer is written whole, or something is not.
LEMMA ReplyWrites ==
  ASSUME Shape, NEW c \in Conns, connected[c], Reply(c), cur[c].kind # "other"
  PROVE  \/ /\ answers'[c] = Append(answers[c], [n |-> cur[c].n, verdict |-> verdict[c]])
            /\ cut[c] > 0 => cut'[c] > 0
         \/ answers'[c] = answers[c] /\ cut'[c] > 0
<1>1. PICK whole \in BOOLEAN, status \in BOOLEAN :
        Answer(c, cur[c].n, verdict[c], whole) /\ Write(c, whole /\ status)
      BY DEF Reply, Replies
<1>2. cur[c].n \in Nat /\ verdict[c] \in {"ack", "nack", "rate_limit"}
  <2>1. cur[c] \in Frame /\ verdict[c] \in {"ack", "nack"} BY DEF Shape
  <2> QED BY <2>1 DEF Frame
<1>3. (whole /\ status) \in BOOLEAN OBVIOUS
<1>4. /\ cut' \in [Conns -> Nat] /\ cut'[c] >= cut[c]
      /\ ~(whole /\ status) => cut'[c] = cut[c] + 1
      BY <1>1, <1>3, WriteTyped
<1>5. cut[c] \in Nat /\ cut'[c] \in Nat BY <1>4 DEF Shape
<1>6. CASE whole
  <2>1. answers'[c] = Append(answers[c], [n |-> cur[c].n, verdict |-> verdict[c]])
        BY <1>1, <1>2, <1>6, AnswerTyped
  <2>2. cut[c] > 0 => cut'[c] > 0 BY <1>4, <1>5
  <2> QED BY <2>1, <2>2
<1>7. CASE ~whole
  <2>1. answers' = answers BY <1>1, <1>2, <1>7, AnswerTyped
  <2>2. cut'[c] > 0 BY <1>4, <1>5, <1>7
  <2> QED BY <2>1, <2>2
<1> QED BY <1>6, <1>7

LEMMA TalkReply ==
  ASSUME Shape, StopsInv, NEW c \in Conns, connected[c], Reply(c), FramesInv(c), AnswersInv(c)
  PROVE  FramesInv(c)' /\ AnswersInv(c)'
<1> DEFINE l == Len(log[c])
           b == Len(inbox[c])
<1>1. pc[c] = "reply" BY DEF Reply
<1>2. l \in Nat /\ b \in Nat /\ answers[c] \in Seq(Answered) BY DEF Shape
<1>3. /\ inbox'[c] = inbox[c] /\ log'[c] = log[c] /\ pc'[c] = "idle"
      BY DEF Reply, Shape
<1>4. InHand(c) = 1 /\ InHand(c)' = 0 BY <1>1, <1>3 DEF InHand
<1>5. b + 1 <= l BY <1>4 DEF FramesInv
<1>6. Handled(c) = l - b - 1 /\ Handled(c)' = l - b - 0 BY <1>3, <1>4 DEF Handled
<1>7. cur[c].n = Handled(c) + 1 /\ cur[c].kind = log[c][Handled(c) + 1]
      BY <1>1 DEF FramesInv
<1>8. \A k \in 1 .. b : /\ inbox[c][k].n = l - b + k
                        /\ inbox[c][k].kind = log[c][l - b + k]
      BY DEF FramesInv
<1>9. FramesInv(c)'
  <2>1. b + 0 <= l BY <1>2, <1>5
  <2>2. Len(inbox'[c]) = b /\ Len(log'[c]) = l BY <1>3
  <2> HIDE DEF l, b
  <2> QED BY ONLY <1>3, <1>4, <1>8, <2>1, <2>2 DEF FramesInv
<1> HIDE DEF l, b
<1> DEFINE h == Handled(c)
<1>10. h \in Nat /\ Handled(c)' = h + 1 BY ONLY <1>2, <1>5, <1>6 DEF h
<1> HIDE DEF h
<1>11. Handled(c) = h /\ cur[c].n = h + 1 /\ cur[c].kind = log[c][h + 1] BY <1>7 DEF h
<1>12. \A n \in 1 .. h + 1 : n \in 1 .. h \/ n = h + 1 BY ONLY <1>10
<1>13. Asked(c) = {n \in 1 .. h : log[c][n] # "other"} BY <1>11 DEF Asked
<1>14. Asked(c)' = {n \in 1 .. h + 1 : log[c][n] # "other"} BY <1>3, <1>10 DEF Asked
<1>15. 1 .. h \subseteq 1 .. h + 1 /\ h + 1 \in 1 .. h + 1 BY ONLY <1>10
<1>16. CASE cur[c].kind = "other"
  <2>1. answers' = answers /\ cut' = cut /\ eStop' = eStop
        BY <1>16 DEF Reply, Replies, outVars, stateVars
  <2>2. Asked(c)' = Asked(c) BY ONLY <1>11, <1>12, <1>13, <1>14, <1>15, <1>16
  <2>3. AnswersInv(c)' BY <1>3, <2>1, <2>2 DEF AnswersInv
  <2> QED BY <1>9, <2>3
<1>17. CASE cur[c].kind # "other"
  <2> DEFINE r == [n |-> cur[c].n, verdict |-> verdict[c]]
  <2>1. \/ answers'[c] = Append(answers[c], r) /\ (cut[c] > 0 => cut'[c] > 0)
        \/ answers'[c] = answers[c] /\ cut'[c] > 0
        BY <1>17, ReplyWrites
  <2>2. r \in Answered /\ r.n = h + 1 /\ r.verdict = verdict[c]
    <3>1. cur[c] \in Frame /\ verdict[c] \in {"ack", "nack"} BY DEF Shape
    <3> QED BY <1>11, <3>1 DEF Frame, Answered
  <2>3. eStop' = eStop /\ (cur[c].kind = "stop" => r.verdict = "ack" /\ eStop)
    <3>1. eStop' = eStop BY DEF Reply, stateVars
    <3> QED BY <1>1, <3>1 DEF StopsInv
  <2> HIDE DEF r
  <2>4. Asked(c)' = Asked(c) \cup {h + 1}
        BY ONLY <1>11, <1>12, <1>13, <1>14, <1>15, <1>17
  <2> DEFINE was == {answers[c][i].n : i \in DOMAIN answers[c]}
  <2>5. /\ was \subseteq Asked(c)
        /\ cut[c] > 0 \/ Asked(c) \subseteq was
        /\ \A i, j \in DOMAIN answers[c] : i < j => answers[c][i].n < answers[c][j].n
        /\ \A i \in DOMAIN answers[c] :
             log[c][answers[c][i].n] = "stop" => answers[c][i].verdict = "ack" /\ eStop
        BY DEF AnswersInv
  <2>6. ASSUME NEW i \in DOMAIN answers[c] PROVE answers[c][i].n < r.n
    <3>1. answers[c][i].n \in 1 .. h BY <1>13, <2>5
    <3> QED BY <1>10, <2>2, <3>1
  <2>7. CASE answers'[c] = answers[c] /\ cut'[c] > 0
    <3>1. was \subseteq Asked(c)' BY <2>4, <2>5
    <3> QED BY <1>3, <1>9, <2>3, <2>5, <2>7, <3>1 DEF AnswersInv
  <2>8. CASE answers'[c] = Append(answers[c], r) /\ (cut[c] > 0 => cut'[c] > 0)
    <3> DEFINE t == Append(answers[c], r)
               k == Len(answers[c])
    <3>1. /\ {t[i].n : i \in DOMAIN t} = was \cup {r.n}
          /\ \A i, j \in DOMAIN t : i < j => t[i].n < t[j].n
          BY ONLY <1>2, <2>2, <2>5, <2>6, AnswersAppend
    <3>2. answers'[c] = t BY <2>8
    <3>3. \A i \in DOMAIN t : t[i] = r \/ (i \in DOMAIN answers[c] /\ t[i] = answers[c][i])
          BY ONLY <1>2
    <3> HIDE DEF t, was
    <3>4. \A i \in DOMAIN t : log[c][t[i].n] = "stop" => t[i].verdict = "ack" /\ eStop
          BY <1>11, <2>2, <2>3, <2>5, <3>3
    <3>5. was \cup {r.n} \subseteq Asked(c)' BY <2>2, <2>4, <2>5
    <3>6. cut'[c] > 0 \/ Asked(c)' \subseteq was \cup {r.n} BY <2>2, <2>4, <2>5, <2>8
    <3>7. AnswersInv(c)' BY <1>3, <2>3, <3>1, <3>2, <3>4, <3>5, <3>6 DEF AnswersInv
    <3> QED BY <1>9, <3>7
  <2> QED BY <2>1, <2>7, <2>8
<1> QED BY <1>16, <1>17

\* A write to one connection does not concern another.
LEMMA WritesElsewhere ==
  ASSUME Shape, NEW c \in Conns, NEW d \in Conns, d # c, Dispatch(c) \/ Reply(c)
  PROVE  answers'[d] = answers[d] /\ cut'[d] = cut[d]
<1>1. CASE UNCHANGED outVars BY <1>1 DEF outVars
<1>2. ASSUME NEW n, NEW v, NEW whole \in BOOLEAN, NEW all \in BOOLEAN,
             Answer(c, n, v, whole), Write(c, all)
      PROVE  answers'[d] = answers[d] /\ cut'[d] = cut[d]
  <2>1. answers'[d] = answers[d] BY <1>2 DEF Answer, Shape
  <2> QED BY <1>2, <2>1, WriteTyped
<1>3. \/ UNCHANGED outVars
      \/ \E n, v : \E whole, all \in BOOLEAN : Answer(c, n, v, whole) /\ Write(c, all)
  <2>1. CASE Dispatch(c) BY <2>1 DEF Dispatch
  <2>2. CASE Reply(c)
    <3>1. \A whole, status \in BOOLEAN : (whole /\ status) \in BOOLEAN OBVIOUS
    <3> QED BY <2>2, <3>1 DEF Reply
  <2> QED BY <2>1, <2>2
<1> QED BY <1>1, <1>2, <1>3

LEMMA TalkStep ==
  ASSUME Shape, AgeInv, StopsInv, TalkInv, [Next]_vars PROVE TalkInv'
<1> SUFFICES ASSUME NEW d \in Conns, connected'[d]
             PROVE  FramesInv(d)' /\ AnswersInv(d)'
    BY DEF TalkInv
<1>0. eStop => eStop' BY StopsStep
<1>1. ASSUME NEW c \in Conns, NEW m \in Commands, Arrive(c, m)
      PROVE  FramesInv(d)' /\ AnswersInv(d)'
  <2>1. connected' = connected /\ UNCHANGED <<pc, cur, cut, answers>>
        /\ (d # c => inbox'[d] = inbox[d] /\ log'[d] = log[d])
        BY <1>1 DEF Arrive, threadVars, outVars, Shape
  <2>2. FramesInv(d) /\ AnswersInv(d) BY <2>1 DEF TalkInv
  <2>3. CASE d = c BY <1>1, <2>2, <2>3, TalkArrive
  <2>4. CASE d # c BY <1>0, <2>1, <2>2, <2>4, TalkSame
  <2> QED BY <2>3, <2>4
<1>2. ASSUME NEW c \in Conns, Disconnect(c) PROVE FramesInv(d)' /\ AnswersInv(d)'
  <2>1. d # c /\ connected'[d] = connected[d] /\ inbox'[d] = inbox[d]
        /\ answers'[d] = answers[d] /\ cut'[d] = cut[d] /\ UNCHANGED <<pc, cur, log>>
        BY <1>2 DEF Disconnect, threadVars, Shape
  <2>2. FramesInv(d) /\ AnswersInv(d) BY <2>1 DEF TalkInv
  <2> QED BY <1>0, <2>1, <2>2, TalkSame
<1>3. ASSUME NEW c \in Conns, Dispatch(c) PROVE FramesInv(d)' /\ AnswersInv(d)'
  <2>1. connected' = connected /\ log' = log BY <1>3 DEF Dispatch
  <2>2. FramesInv(d) /\ AnswersInv(d) BY <2>1 DEF TalkInv
  <2>3. CASE d = c BY <1>3, <2>2, <2>3, TalkDispatch
  <2>4. CASE d # c
    <3>1. inbox'[d] = inbox[d] /\ cur'[d] = cur[d] /\ pc'[d] = pc[d]
          BY <1>3, <2>4 DEF Dispatch, Shape
    <3>2. answers'[d] = answers[d] /\ cut'[d] = cut[d] BY <1>3, <2>4, WritesElsewhere
    <3> QED BY <1>0, <2>1, <2>2, <3>1, <3>2, TalkSame
  <2> QED BY <2>3, <2>4
<1>4. ASSUME NEW c \in Conns, Execute(c) PROVE FramesInv(d)' /\ AnswersInv(d)'
  <2>1. UNCHANGED <<cur, connected, inbox, log, cut, answers>>
        /\ (pc'[d] = "idle" <=> pc[d] = "idle")
        BY <1>4 DEF Execute, outVars, Shape
  <2>2. FramesInv(d) /\ AnswersInv(d) BY <2>1 DEF TalkInv
  <2> QED BY <1>0, <2>1, <2>2, TalkSame
<1>5. ASSUME NEW c \in Conns, Reply(c) PROVE FramesInv(d)' /\ AnswersInv(d)'
  <2>1. UNCHANGED <<connected, inbox, log>> BY <1>5 DEF Reply
  <2>2. FramesInv(d) /\ AnswersInv(d) /\ connected[d] BY <2>1 DEF TalkInv
  <2>3. CASE d = c BY <1>5, <2>2, <2>3, TalkReply
  <2>4. CASE d # c
    <3>1. cur'[d] = cur[d] /\ pc'[d] = pc[d] BY <1>5, <2>4 DEF Reply, Shape
    <3>2. answers'[d] = answers[d] /\ cut'[d] = cut[d] BY <1>5, <2>4, WritesElsewhere
    <3> QED BY <1>0, <2>1, <2>2, <3>1, <3>2, TalkSame
  <2> QED BY <2>3, <2>4
<1>6. ASSUME NEW c \in Conns, Heartbeat(c) PROVE FramesInv(d)' /\ AnswersInv(d)'
  <2>1. UNCHANGED <<cur, pc, connected, inbox, log, answers>> /\ Write(c, FALSE)
        BY <1>6 DEF Heartbeat, threadVars
  <2>2. cut[d] > 0 => cut'[d] > 0
    <3>1. cut[d] \in Nat /\ cut'[d] \in Nat /\ (cut'[d] >= cut[d] \/ cut'[d] = cut[d])
      <4>1. cut' \in [Conns -> Nat] /\ cut'[c] >= cut[c]
            /\ (d # c => cut'[d] = cut[d])
            BY <2>1, WriteTyped
      <4>2. cut \in [Conns -> Nat] BY DEF Shape
      <4> QED BY ONLY <4>1, <4>2, d \in Conns, c \in Conns
    <3> QED BY ONLY <3>1
  <2>3. FramesInv(d) /\ AnswersInv(d) BY <2>1 DEF TalkInv
  <2> QED BY <1>0, <2>1, <2>2, <2>3, TalkSame
<1>7. CASE Tick \/ UNCHANGED vars
  <2>1. UNCHANGED <<cur, pc, connected, inbox, log, cut, answers>>
        BY <1>7 DEF Tick, vars, threadVars, outVars
  <2>2. FramesInv(d) /\ AnswersInv(d) BY <2>1 DEF TalkInv
  <2> QED BY <1>0, <2>1, <2>2, TalkSame
<1> QED BY <1>1, <1>2, <1>3, <1>4, <1>5, <1>6, <1>7 DEF Next, Handler

LEMMA VerdictStep == ASSUME Shape, AgeInv, VerdictInv, [Next]_vars PROVE VerdictInv'
<1>1. CASE answers' = answers BY <1>1 DEF VerdictInv
<1>2. ASSUME NEW c \in Conns, Reply(c) PROVE VerdictInv'
  <2>1. CASE answers' = answers BY <2>1, <1>1
  <2>2. CASE answers' # answers
    <3>1. verdict[c] # "rate_limit" /\ answers[c] \in Seq(Answered) BY DEF Shape
    <3> DEFINE r == [n |-> cur[c].n, verdict |-> verdict[c]]
    <3>2. answers' = [answers EXCEPT ![c] = Append(@, r)]
          BY <1>2, <2>2 DEF Reply, Answer, outVars
    <3>3. r.verdict # "rate_limit" BY <3>1
    <3> HIDE DEF r
    <3>4. answers'[c] = Append(answers[c], r) /\ \A d \in Conns : d # c => answers'[d] = answers[d]
          BY <3>2 DEF Shape
    <3>5. \A i \in DOMAIN answers'[c] : answers'[c][i] = r \/ (/\ i \in DOMAIN answers[c]
                                                              /\ answers'[c][i] = answers[c][i])
          BY ONLY <3>1, <3>4
    <3> QED BY <3>3, <3>4, <3>5 DEF VerdictInv
  <2> QED BY <2>1, <2>2
<1>3. ASSUME NEW c \in Conns, Dispatch(c) PROVE answers' = answers
  <2>1. Len(recent[c]) < RateLimit BY <1>3, BelowLimit DEF Dispatch
  <2>2. Len(recent[c]) \in Nat /\ RateLimit \in Nat BY ActuatorConstants DEF Shape
  <2>3. ~ (Len(recent[c]) >= RateLimit) BY ONLY <2>1, <2>2
  <2> QED BY <1>3, <2>3 DEF Dispatch, outVars
<1>4. ASSUME NEW c \in Conns, Disconnect(c) PROVE VerdictInv'
  <2>1. DOMAIN answers'[c] = {} /\ \A d \in Conns : d # c => answers'[d] = answers[d]
        BY <1>4 DEF Disconnect, Shape
  <2> QED BY <2>1 DEF VerdictInv
<1>5. CASE (\E c \in Conns, m \in Commands : Arrive(c, m)) \/ Tick \/ UNCHANGED vars
           \/ (\E c \in Conns : Heartbeat(c) \/ Execute(c))
  <2>1. answers' = answers BY <1>5 DEF Arrive, Tick, vars, Heartbeat, Execute, outVars
  <2> QED BY <1>1, <2>1
<1> QED BY <1>1, <1>2, <1>3, <1>4, <1>5 DEF Next, Handler

\* Shape and AgeInv hold of every reachable state.
LEMMA Timing == Spec => [](Shape /\ AgeInv)
<1>1. Init => Shape /\ AgeInv BY ShapeInit, AgeInit
<1>2. Shape /\ AgeInv /\ [Next]_vars => Shape' /\ AgeInv' BY ShapeStep, AgeStep
<1> QED BY <1>1, <1>2, PTL DEF Spec

\* No command, and so no emergency stop, is refused by the rate limit: the sleep
\* of each handler keeps its connection below it (actuator_controller.py:222-228,
\* 281-290).
THEOREM DelayKeepsRate == Spec => []NeverRateLimited
<1>1. Init => VerdictInv BY TalkInit
<1>2. Shape /\ AgeInv /\ VerdictInv /\ [Next]_vars => VerdictInv' BY VerdictStep
<1>3. VerdictInv => NeverRateLimited BY DEF VerdictInv, NeverRateLimited
<1> QED BY <1>1, <1>2, <1>3, Timing, PTL DEF Spec

\* A client that stays connected is answered at most once for each command, in
\* order, and for every one unless a frame to it was cut short; the answer to an
\* emergency stop is an ACK, and the stop is engaged by then
\* (actuator_controller.py:86-91, 180, 205-217, 249-264, 292-297).
THEOREM AnsweredOnce == Spec => []OneAnswerEach
<1>1. Init => StopsInv /\ TalkInv BY StopsInit, TalkInit
<1>2. Shape /\ AgeInv /\ StopsInv /\ TalkInv /\ [Next]_vars => StopsInv' /\ TalkInv'
      BY StopsStep, TalkStep
<1>3. TalkInv => OneAnswerEach
  <2> SUFFICES ASSUME TalkInv, NEW c \in Conns, connected[c]
               PROVE  LET answered == {answers[c][i].n : i \in DOMAIN answers[c]} IN
                        /\ answered \subseteq Asked(c)
                        /\ cut[c] > 0 \/ answered = Asked(c)
                        /\ \A i, j \in DOMAIN answers[c] :
                             i < j => answers[c][i].n < answers[c][j].n
                        /\ \A i \in DOMAIN answers[c] :
                             log[c][answers[c][i].n] = "stop"
                               => answers[c][i].verdict = "ack" /\ eStop
      BY DEF OneAnswerEach, Asked, Handled, InHand
  <2> QED BY DEF TalkInv, AnswersInv
<1> QED BY <1>1, <1>2, <1>3, Timing, PTL DEF Spec

----------------------------------------------------------------------------
(* The yaw: angles on a circle.                                             *)

LEMMA Within == ASSUME NEW c \in Nat \ {0}, NEW x \in 0 .. c - 1 PROVE x % c = x
OBVIOUS

LEMMA Above == ASSUME NEW c \in Nat \ {0}, NEW x \in c .. 2 * c - 1 PROVE x % c = x - c
OBVIOUS

LEMMA Below == ASSUME NEW c \in Nat \ {0}, NEW x \in -c .. -1 PROVE x % c = x + c
OBVIOUS

LEMMA OneTurn ==
  ASSUME NEW c \in Nat \ {0}, NEW x \in -c .. 2 * c - 1
  PROVE  /\ x % c \in 0 .. c - 1
         /\ x % c = x \/ x % c = x - c \/ x % c = x + c
<1>1. x \in -c .. -1 \/ x \in 0 .. c - 1 \/ x \in c .. 2 * c - 1 OBVIOUS
<1>2. CASE x \in -c .. -1 BY <1>2, Below
<1>3. CASE x \in 0 .. c - 1 BY <1>3, Within
<1>4. CASE x \in c .. 2 * c - 1 
  <2>1. x % c = x - c BY ONLY <1>4, c \in Nat \ {0}, Above
  <2>2. x - c \in 0 .. c - 1 BY <1>4
  <2> QED BY ONLY <2>1, <2>2
<1> QED BY <1>1, <1>2, <1>3, <1>4

LEMMA TurnedBy ==
  ASSUME NEW c \in Nat \ {0}, NEW a \in Int, NEW m \in Int, a + m \in -c .. 2 * c - 1
  PROVE  \E b \in 0 .. c - 1 : /\ (a + m) % c = b
                               /\ b = a + m \/ b = a + m - c \/ b = a + m + c
<1>1. ASSUME NEW x \in -c .. 2 * c - 1
      PROVE  \E b \in 0 .. c - 1 : x % c = b /\ (b = x \/ b = x - c \/ b = x + c)
      BY ONLY c \in Nat \ {0}, x \in -c .. 2 * c - 1, OneTurn
<1> QED BY <1>1

LEMMA HalfTurn == \E h \in Nat \ {0} : Circle \div 2 = h /\ Circle = 2 * h
<1>1. Circle \in Nat \ {0} /\ Circle % 2 = 0 BY ActuatorConstants
<1> QED BY <1>1

\* The way still to go, and what YawError makes of it: the short way round.
LEMMA ShortWay ==
  ASSUME NEW h \in Nat \ {0}, Circle \div 2 = h, Circle = 2 * h,
         NEW t \in 0 .. Circle, NEW a \in 0 .. Circle - 1
  PROVE  \E d \in 0 .. Circle - 1 :
           /\ (t - a) % Circle = d
           /\ \/ t - a = d \/ t - a = d - Circle \/ t - a = d + Circle
           /\ YawError(t, a) = IF d < h THEN d ELSE d - Circle
<1> DEFINE x == t - a
<1>0. Circle \in Nat \ {0} /\ x \in -Circle .. Circle OBVIOUS
<1>1. CASE x \in -Circle .. -1
  <2>1. x % Circle = x + Circle BY ONLY <1>0, <1>1, Below
  <2>2. x # -Circle OBVIOUS
  <2> HIDE DEF x
  <2>3. CASE x + h \in -Circle .. -1
    <3>1. (x + h) % Circle = x + h + Circle BY ONLY <1>0, <2>3, Below
    <3>2. x + Circle \in 0 .. Circle - 1 /\ x + Circle < h BY <1>0, <1>1, <2>3
    <3> QED BY <2>1, <3>1, <3>2, <1>0 DEF YawError, x
  <2>4. CASE x + h \in 0 .. Circle - 1
    <3>1. (x + h) % Circle = x + h BY ONLY <1>0, <2>4, Within
    <3>2. x + Circle \in 0 .. Circle - 1 /\ ~ (x + Circle < h) BY <1>0, <1>1, <2>4, <2>2
    <3> QED BY <2>1, <3>1, <3>2, <1>0 DEF YawError, x
  <2> QED BY <1>0, <1>1, <2>2, <2>3, <2>4
<1>2. CASE x \in 0 .. Circle - 1
  <2>1. x % Circle = x BY ONLY <1>0, <1>2, Within
  <2> HIDE DEF x
  <2>2. CASE x < h
    <3>1. x + h \in 0 .. Circle - 1 BY <1>2, <2>2
    <3>2. (x + h) % Circle = x + h BY ONLY <1>0, <3>1, Within
    <3> QED BY <1>2, <2>1, <2>2, <3>2 DEF YawError, x
  <2>3. CASE ~ (x < h)
    <3>1. x + h \in Circle .. 2 * Circle - 1 BY <1>2, <2>3
    <3>2. (x + h) % Circle = x + h - Circle BY ONLY <1>0, <3>1, Above
    <3> QED BY <1>2, <2>1, <2>3, <3>2 DEF YawError, x
  <2> QED BY <2>2, <2>3
<1>3. CASE x = Circle
  <2>1. x % Circle = 0 BY ONLY <1>0, <1>3, Above
  <2> HIDE DEF x
  <2>2. x + h \in Circle .. 2 * Circle - 1 BY <1>3
  <2>3. (x + h) % Circle = h BY ONLY <1>0, <1>3, <2>2, Above
  <2> QED BY <1>0, <1>3, <2>1, <2>3 DEF YawError, x
<1> QED BY <1>0, <1>1, <1>2, <1>3

\* A tick turns the nacelle by part of the short way, and the rest is no longer.
LEMMA TickYaw ==
  ASSUME YawInv, Tick
  PROVE  yaw' \in 0 .. Circle - 1 /\ YawDistance(yaw', yawTarget) <= YawDistance(yaw, yawTarget)
<1>1. PICK h \in Nat \ {0} : Circle \div 2 = h /\ Circle = 2 * h BY HalfTurn
<1>2. yaw \in 0 .. Circle - 1 /\ yawTarget \in 0 .. Circle BY DEF YawInv
<1>3. PICK d \in 0 .. Circle - 1 :
           /\ (yawTarget - yaw) % Circle = d
           /\ \/ yawTarget - yaw = d \/ yawTarget - yaw = d - Circle
              \/ yawTarget - yaw = d + Circle
           /\ YawError(yawTarget, yaw) = IF d < h THEN d ELSE d - Circle
      BY <1>1, <1>2, ShortWay
<1>4. YawDistance(yaw, yawTarget) = IF d < Circle - d THEN d ELSE Circle - d
      BY <1>3 DEF YawDistance, Smaller
<1>5. CASE eStop
  <2>1. yaw' = yaw BY <1>5 DEF Tick
  <2> QED BY <1>1, <1>2, <1>4, <2>1
<1>6. CASE ~eStop
  <2> DEFINE m == Clamp(-YawRate, YawError(yawTarget, yaw), YawRate)
  <2>1. yaw' = (yaw + m) % Circle BY <1>6 DEF Tick
  <2>2. /\ m \in Int
        /\ d < h => 0 <= m /\ m <= d
        /\ ~ (d < h) => d - Circle <= m /\ m <= 0
    <3>1. YawRate \in Nat BY ActuatorConstants
    <3> QED BY <1>1, <1>3, <3>1 DEF Clamp, Smaller, Larger
  <2> HIDE DEF m
  <2>3. yaw + m \in -Circle .. 2 * Circle - 1 BY <1>1, <1>2, <1>3, <2>2
  <2>4. PICK b \in 0 .. Circle - 1 :
             /\ yaw' = b
             /\ b = yaw + m \/ b = yaw + m - Circle \/ b = yaw + m + Circle
    <3>1. Circle \in Nat \ {0} /\ yaw \in Int BY <1>1, <1>2
    <3> QED BY ONLY <2>1, <2>2, <2>3, <3>1, TurnedBy
  <2>5. PICK e \in 0 .. Circle - 1 :
             /\ (yawTarget - b) % Circle = e
             /\ \/ yawTarget - b = e \/ yawTarget - b = e - Circle
                \/ yawTarget - b = e + Circle
        BY <1>1, <1>2, ShortWay
  <2>6. YawDistance(yaw', yawTarget) = IF e < Circle - e THEN e ELSE Circle - e
        BY <2>4, <2>5 DEF YawDistance, Smaller
  <2>7. e = d - m \/ (e = 0 /\ d - m = Circle)
    <3>1. d - m \in 0 .. Circle BY <1>1, <1>3, <2>2
    <3> QED BY <1>1, <1>2, <1>3, <2>2, <2>4, <2>5, <3>1
  <2>8. (IF e < Circle - e THEN e ELSE Circle - e) <= (IF d < Circle - d THEN d ELSE Circle - d)
        BY <1>1, <2>2, <2>7
  <2> QED BY <1>4, <2>4, <2>6, <2>8
<1> QED BY <1>5, <1>6

LEMMA YawStep ==
  ASSUME YawInv, [Next]_vars
  PROVE  /\ YawInv'
         /\ YawDistance(yaw', yawTarget') <= YawDistance(yaw, yawTarget) \/ yawTarget' # yawTarget
<1>1. PICK h \in Nat \ {0} : Circle \div 2 = h /\ Circle = 2 * h BY HalfTurn
<1>2. ASSUME yaw' = yaw, yawTarget' \in 0 .. Circle
      PROVE  /\ YawInv'
             /\ \/ YawDistance(yaw', yawTarget') <= YawDistance(yaw, yawTarget)
                \/ yawTarget' # yawTarget
  <2>1. PICK d \in 0 .. Circle - 1 : (yawTarget - yaw) % Circle = d
        BY <1>1, ShortWay DEF YawInv
  <2>2. YawDistance(yaw, yawTarget) \in Int BY <1>1, <2>1 DEF YawDistance, Smaller
  <2>3. YawDistance(yaw, yawTarget) <= YawDistance(yaw, yawTarget) BY ONLY <2>2
  <2> QED BY <1>2, <2>3 DEF YawInv
<1>3. CASE Tick
  <2>1. yawTarget' = yawTarget BY <1>3 DEF Tick
  <2> QED BY <1>3, <2>1, TickYaw DEF YawInv
<1>4. ASSUME NEW c \in Conns, Execute(c) PROVE yaw' = yaw /\ yawTarget' \in 0 .. Circle
  <2>1. yaw' = yaw /\ (\/ yawTarget' = yawTarget
                       \/ InRange(cur[c]) /\ cur[c].kind = "yaw" /\ yawTarget' = cur[c].angle)
        BY <1>4 DEF Execute
  <2> QED BY <2>1 DEF InRange, YawInv
<1>5. CASE \/ \E c \in Conns, m \in Commands : Arrive(c, m)
           \/ \E c \in Conns : Disconnect(c) \/ Heartbeat(c) \/ Dispatch(c) \/ Reply(c)
           \/ UNCHANGED vars
  <2>1. yaw' = yaw /\ yawTarget' = yawTarget
        BY <1>5 DEF Arrive, Disconnect, Heartbeat, Dispatch, Reply, vars, stateVars
  <2> QED BY <1>2, <2>1 DEF YawInv
<1> QED BY <1>2, <1>3, <1>4, <1>5 DEF Next, Handler

LEMMA YawInit == Init => YawInv
<1>1. PICK h \in Nat \ {0} : Circle \div 2 = h /\ Circle = 2 * h BY HalfTurn
<1>2. h \in 0 .. Circle - 1 /\ h \in 0 .. Circle BY <1>1
<1> QED BY <1>1, <1>2 DEF Init, YawInv

\* The nacelle never turns away from its target, on either side of north
\* (actuator_controller.py:101-103).
THEOREM NeverTurnsAway == Spec => YawApproaches
<1>1. YawInv /\ [Next]_vars =>
        /\ YawInv'
        /\ [\/ YawDistance(yaw', yawTarget') <= YawDistance(yaw, yawTarget)
            \/ yawTarget' # yawTarget]_vars
  BY YawStep
<1> QED BY <1>1, YawInit, PTL DEF Spec, YawApproaches

----------------------------------------------------------------------------
(* The bounds of the queues.                                                *)

\* The frames sent, each with its connection.
Frames == UNION {{c} \X DOMAIN log[c] : c \in Conns}

QueueInv ==
  /\ IsFiniteSet(Frames) /\ Cardinality(Frames) <= MaxCmds
  /\ \A c \in Conns :
       /\ Len(inbox[c]) <= Len(log[c])
       /\ \A k \in 1 .. Len(inbox[c]) : inbox[c][k].n <= Len(log[c])
       /\ cur[c].n <= Len(log[c])

\* What one connection has of a finite set is not more than the set.
LEMMA OneOfMany ==
  ASSUME NEW S, IsFiniteSet(S), NEW m \in Nat, Cardinality(S) <= m,
         NEW c, NEW l \in Nat, {c} \X (1 .. l) \subseteq S
  PROVE  l <= m
<1>1. IsFiniteSet({c}) /\ Cardinality({c}) = 1 BY FS_Singleton
<1>2. IsFiniteSet(1 .. l) /\ Cardinality(1 .. l) = l BY UpTo
<1>3. Cardinality({c} \X (1 .. l)) = Cardinality({c}) * Cardinality(1 .. l)
      BY ONLY <1>1, <1>2, FS_Product
<1>4. Cardinality({c} \X (1 .. l)) = l BY ONLY <1>1, <1>2, <1>3, l \in Nat
<1>5. Cardinality({c} \X (1 .. l)) <= Cardinality(S) BY FS_Subset
<1>6. Cardinality(S) \in Nat BY FS_CardinalityType
<1> QED BY <1>4, <1>5, <1>6

\* Every frame of one connection is a frame.
LEMMA LogBound ==
  ASSUME Shape, IsFiniteSet(Frames), Cardinality(Frames) <= MaxCmds, NEW c \in Conns
  PROVE  Len(log[c]) <= MaxCmds
<1>1. log[c] \in Seq(Kind) /\ Len(log[c]) \in Nat BY DEF Shape
<1>2. DOMAIN log[c] = 1 .. Len(log[c]) BY <1>1
<1>3. {c} \X (1 .. Len(log[c])) \subseteq Frames BY <1>2 DEF Frames
<1>4. MaxCmds \in Nat BY ActuatorConstants
<1> QED BY ONLY <1>1, <1>3, <1>4, IsFiniteSet(Frames), Cardinality(Frames) <= MaxCmds,
           OneOfMany

LEMMA QueueInit == Init => QueueInv
<1> SUFFICES ASSUME Init PROVE QueueInv
    OBVIOUS
<1>1. \A c \in Conns : log[c] = << >> /\ inbox[c] = << >> /\ cur[c].n = 0 BY DEF Init, NoCmd
<1>2. Frames = {} BY <1>1 DEF Frames
<1>3. IsFiniteSet(Frames) /\ Cardinality(Frames) = 0 BY <1>2, FS_EmptySet
<1> QED BY <1>1, <1>3, ActuatorConstants DEF QueueInv

LEMMA QueueArrive ==
  ASSUME Shape, QueueInv, NEW c \in Conns, NEW m \in Commands, Arrive(c, m)
  PROVE  QueueInv'
<1> DEFINE l == Len(log[c])
           f == [kind |-> m.kind, angle |-> m.angle, n |-> l + 1]
<1>1. log[c] \in Seq(Kind) /\ inbox[c] \in Seq(Frame) /\ l \in Nat BY DEF Shape
<1>2. /\ log'[c] = Append(log[c], m.kind) /\ inbox'[c] = Append(inbox[c], f)
      /\ \A d \in Conns : d # c => log'[d] = log[d] /\ inbox'[d] = inbox[d]
      /\ cur' = cur /\ Cardinality(Frames) < MaxCmds
      BY DEF Arrive, Shape, threadVars, Sent, Frames
<1>3. Frames' = Frames \cup {<<c, l + 1>>}
  <2>1. DOMAIN log'[c] = DOMAIN log[c] \cup {l + 1} BY <1>1, <1>2
  <2> QED BY <1>2, <2>1 DEF Frames
<1>4. IsFiniteSet(Frames) BY DEF QueueInv
<1>5. IsFiniteSet(Frames') /\ Cardinality(Frames') <= MaxCmds
  <2>1. Cardinality(Frames) \in Nat BY <1>4, FS_CardinalityType
  <2> HIDE DEF l
  <2>2. /\ IsFiniteSet(Frames \cup {<<c, l + 1>>})
        /\ Cardinality(Frames \cup {<<c, l + 1>>}) = Cardinality(Frames)
           \/ Cardinality(Frames \cup {<<c, l + 1>>}) = Cardinality(Frames) + 1
        BY <1>4, FS_AddElement
  <2>3. MaxCmds \in Nat BY ActuatorConstants
  <2> QED BY ONLY <1>2, <1>3, <2>1, <2>2, <2>3
<1>6. ASSUME NEW d \in Conns
      PROVE  /\ Len(inbox'[d]) <= Len(log'[d])
             /\ \A k \in 1 .. Len(inbox'[d]) : inbox'[d][k].n <= Len(log'[d])
             /\ cur'[d].n <= Len(log'[d])
  <2>1. CASE d # c BY <1>2, <2>1 DEF QueueInv
  <2>2. CASE d = c
    <3> DEFINE b == Len(inbox[c])
    <3>1. /\ Len(log'[c]) = l + 1 /\ Len(inbox'[c]) = b + 1 /\ b \in Nat
          /\ inbox'[c][b + 1] = f
          /\ \A k \in 1 .. b : inbox'[c][k] = inbox[c][k] /\ inbox[c][k] \in Frame
          BY <1>1, <1>2
    <3>2. /\ b <= l /\ cur[c].n <= l /\ cur[c] \in Frame
          /\ \A k \in 1 .. b : inbox[c][k].n <= l
          BY DEF QueueInv, Shape
    <3>3. f.n = l + 1 OBVIOUS
    <3> HIDE DEF l, b, f
    <3>4. l \in Nat /\ cur[c].n \in Nat /\ \A k \in 1 .. b : inbox[c][k].n \in Nat
          BY <1>1, <3>1, <3>2 DEF Frame, l
    <3>5. ASSUME NEW k \in 1 .. b + 1 PROVE inbox'[c][k].n <= l + 1
      <4>1. k \in 1 .. b \/ k = b + 1 BY ONLY <3>1, k \in 1 .. b + 1
      <4> QED BY ONLY <3>1, <3>2, <3>3, <3>4, <4>1
    <3>6. b + 1 <= l + 1 /\ cur[c].n <= l + 1 BY ONLY <3>1, <3>2, <3>4
    <3> QED BY ONLY <1>2, <2>2, <3>1, <3>5, <3>6
  <2> QED BY <2>1, <2>2
<1> QED BY <1>5, <1>6 DEF QueueInv

LEMMA QueueStep == ASSUME Shape, QueueInv, [Next]_vars PROVE QueueInv'
<1>1. CASE \E c \in Conns, m \in Commands : Arrive(c, m) BY <1>1, QueueArrive
<1>2. ASSUME log' = log,
             \A d \in Conns :
               /\ Len(inbox'[d]) <= Len(inbox[d])
               /\ \A k \in 1 .. Len(inbox'[d]) : \E j \in 1 .. Len(inbox[d]) :
                    inbox'[d][k] = inbox[d][j]
               /\ \/ cur'[d] = cur[d] \/ cur'[d] = NoCmd
                  \/ \E j \in 1 .. Len(inbox[d]) : cur'[d] = inbox[d][j],
             inbox' \in [Conns -> Seq(Frame)]
      PROVE  QueueInv'
  <2>1. Frames' = Frames BY <1>2 DEF Frames
  <2>2. ASSUME NEW d \in Conns
        PROVE  /\ Len(inbox'[d]) <= Len(log[d])
               /\ \A k \in 1 .. Len(inbox'[d]) : inbox'[d][k].n <= Len(log[d])
               /\ cur'[d].n <= Len(log[d])
    <3>1. Len(log[d]) \in Nat /\ Len(inbox[d]) \in Nat /\ Len(inbox'[d]) \in Nat
          BY <1>2 DEF Shape
    <3>2. Len(inbox[d]) <= Len(log[d]) /\ cur[d].n <= Len(log[d])
          /\ \A j \in 1 .. Len(inbox[d]) : inbox[d][j].n <= Len(log[d])
          BY DEF QueueInv
    <3>3. NoCmd.n = 0 BY DEF NoCmd
    <3>4. Len(inbox'[d]) <= Len(log[d])
      <4>1. Len(inbox'[d]) <= Len(inbox[d]) BY <1>2
      <4> QED BY ONLY <3>1, <3>2, <4>1
    <3>5. ASSUME NEW k \in 1 .. Len(inbox'[d]) PROVE inbox'[d][k].n <= Len(log[d])
      <4>1. PICK j \in 1 .. Len(inbox[d]) : inbox'[d][k] = inbox[d][j] BY <1>2
      <4> QED BY ONLY <3>2, <4>1
    <3>6. cur'[d].n <= Len(log[d])
      <4>1. \/ cur'[d] = cur[d] \/ cur'[d] = NoCmd
            \/ \E j \in 1 .. Len(inbox[d]) : cur'[d] = inbox[d][j]
            BY <1>2
      <4>2. 0 <= Len(log[d]) BY ONLY <3>1
      <4> QED BY ONLY <3>2, <3>3, <4>1, <4>2
    <3> QED BY <3>4, <3>5, <3>6
  <2> QED BY <1>2, <2>1, <2>2 DEF QueueInv
<1>3. ASSUME NEW c \in Conns, Disconnect(c) PROVE QueueInv'
  <2>1. PICK k \in 0 .. Len(inbox[c]) : inbox' = [inbox EXCEPT ![c] = SubSeq(@, 1, k)]
        BY <1>3 DEF Disconnect
  <2>2. inbox' \in [Conns -> Seq(Frame)] BY <1>3, ShapeDisconnect DEF Shape
  <2>3. log' = log /\ cur' = cur BY <1>3 DEF Disconnect, threadVars
  <2>4. inbox[c] \in Seq(Frame) BY DEF Shape
  <2>5. inbox'[c] = SubSeq(inbox[c], 1, k) /\ \A d \in Conns : d # c => inbox'[d] = inbox[d]
        BY <2>1 DEF Shape
  <2>6. /\ Len(SubSeq(inbox[c], 1, k)) = k /\ k <= Len(inbox[c])
        /\ \A i \in 1 .. k : SubSeq(inbox[c], 1, k)[i] = inbox[c][i] /\ i \in 1 .. Len(inbox[c])
        BY ONLY <2>4, k \in 0 .. Len(inbox[c])
  <2>7. \A d \in Conns : d # c => Len(inbox[d]) <= Len(inbox[d]) BY DEF Shape
  <2> QED BY <1>2, <2>2, <2>3, <2>5, <2>6, <2>7
<1>4. ASSUME NEW c \in Conns, Dispatch(c) PROVE QueueInv'
  <2>1. /\ inbox[c] # << >> /\ inbox'[c] = Tail(inbox[c]) /\ log' = log
        /\ \A d \in Conns : d # c => inbox'[d] = inbox[d] /\ cur'[d] = cur[d]
        /\ cur'[c] = cur[c] \/ cur'[c] = inbox[c][1]
        BY <1>4 DEF Dispatch, Shape
  <2>2. inbox' \in [Conns -> Seq(Frame)] BY <1>4, ShapeDispatch DEF Shape
  <2>3. inbox[c] \in Seq(Frame) BY DEF Shape
  <2>4. /\ Len(Tail(inbox[c])) = Len(inbox[c]) - 1 /\ 1 \in 1 .. Len(inbox[c])
        /\ Len(inbox[c]) \in Nat
        /\ \A k \in 1 .. Len(inbox[c]) - 1 : Tail(inbox[c])[k] = inbox[c][k + 1]
                                             /\ k + 1 \in 1 .. Len(inbox[c])
        BY ONLY <2>1, <2>3
  <2>5. ASSUME NEW d \in Conns
        PROVE  /\ Len(inbox'[d]) <= Len(inbox[d])
               /\ \A k \in 1 .. Len(inbox'[d]) : \E j \in 1 .. Len(inbox[d]) :
                    inbox'[d][k] = inbox[d][j]
               /\ \/ cur'[d] = cur[d] \/ cur'[d] = NoCmd
                  \/ \E j \in 1 .. Len(inbox[d]) : cur'[d] = inbox[d][j]
    <3>1. CASE d # c
      <4>1. Len(inbox[d]) <= Len(inbox[d]) BY DEF Shape
      <4> QED BY ONLY <2>1, <3>1, <4>1, d \in Conns
    <3>2. CASE d = c
      <4> DEFINE b == Len(inbox[c])
      <4>1. b - 1 <= b /\ Len(inbox'[c]) = b - 1 BY <2>1, <2>4
      <4>2. ASSUME NEW k \in 1 .. Len(inbox'[c])
            PROVE  \E j \in 1 .. Len(inbox[c]) : inbox'[c][k] = inbox[c][j]
        <5>1. inbox'[c][k] = inbox[c][k + 1] /\ k + 1 \in 1 .. Len(inbox[c])
              BY <2>1, <2>4, <4>1
        <5> QED BY ONLY <5>1
      <4>3. cur'[c] = cur[c] \/ \E j \in 1 .. Len(inbox[c]) : cur'[c] = inbox[c][j]
            BY ONLY <2>1, <2>4
      <4> QED BY ONLY <3>2, <4>1, <4>2, <4>3
    <3> QED BY <3>1, <3>2
  <2> QED BY <1>2, <2>1, <2>2, <2>5
<1>5. CASE (\E c \in Conns : Heartbeat(c) \/ Execute(c) \/ Reply(c)) \/ Tick \/ UNCHANGED vars
  <2>1. /\ inbox' = inbox /\ log' = log
        /\ \A d \in Conns : cur'[d] = cur[d] \/ cur'[d] = NoCmd
    <3>1. CASE \E c \in Conns : Heartbeat(c) BY <3>1 DEF Heartbeat, threadVars
    <3>2. CASE \E c \in Conns : Execute(c) BY <3>2 DEF Execute, threadVars
    <3>3. CASE \E c \in Conns : Reply(c) BY <3>3 DEF Reply, Shape
    <3>4. CASE Tick \/ UNCHANGED vars BY <3>4 DEF Tick, vars, threadVars
    <3> QED BY <1>5, <3>1, <3>2, <3>3, <3>4
  <2>2. \A d \in Conns : Len(inbox[d]) \in Nat BY DEF Shape
  <2>3. inbox \in [Conns -> Seq(Frame)] BY DEF Shape
  <2> QED BY <1>2, <2>1, <2>2, <2>3
<1> QED BY <1>1, <1>3, <1>4, <1>5 DEF Next, Handler

\* The frames cut short, each with its connection.
Cuts == UNION {{c} \X (1 .. cut[c]) : c \in Conns}

CutInv == IsFiniteSet(Cuts) /\ Cardinality(Cuts) <= MaxCuts

LEMMA CutInit == Init => CutInv
<1> SUFFICES ASSUME Init PROVE CutInv
    OBVIOUS
<1>1. \A c \in Conns : 1 .. cut[c] = {} BY DEF Init
<1>2. Cuts = {} BY <1>1 DEF Cuts
<1> QED BY <1>2, FS_EmptySet, ActuatorConstants DEF CutInv

LEMMA CutWrite ==
  ASSUME Shape, CutInv, NEW c \in Conns, NEW whole \in BOOLEAN, Write(c, whole)
  PROVE  CutInv'
<1>1. CASE ~(connected[c] /\ ~whole)
  <2>1. cut' = cut BY <1>1 DEF Write
  <2> QED BY <2>1 DEF CutInv, Cuts
<1>2. CASE connected[c] /\ ~whole
  <2>1. cut' = [cut EXCEPT ![c] = @ + 1] /\ Cardinality(Cuts) < MaxCuts
        BY <1>2 DEF Write, CutShort, Cuts
  <2>2. cut[c] \in Nat /\ cut'[c] = cut[c] + 1 /\ \A d \in Conns : d # c => cut'[d] = cut[d]
        BY <2>1 DEF Shape
  <2>3. 1 .. cut'[c] = (1 .. cut[c]) \cup {cut[c] + 1} BY <2>2
  <2>4. Cuts' = Cuts \cup {<<c, cut[c] + 1>>} BY <2>2, <2>3 DEF Cuts
  <2>5. IsFiniteSet(Cuts) /\ Cardinality(Cuts) \in Nat BY FS_CardinalityType DEF CutInv
  <2>6. /\ IsFiniteSet(Cuts \cup {<<c, cut[c] + 1>>})
        /\ \/ Cardinality(Cuts \cup {<<c, cut[c] + 1>>}) = Cardinality(Cuts)
           \/ Cardinality(Cuts \cup {<<c, cut[c] + 1>>}) = Cardinality(Cuts) + 1
        BY <2>5, FS_AddElement
  <2>7. MaxCuts \in Nat BY ActuatorConstants
  <2> QED BY <2>1, <2>4, <2>5, <2>6, <2>7 DEF CutInv
<1> QED BY <1>1, <1>2

LEMMA CutStep == ASSUME Shape, CutInv, [Next]_vars PROVE CutInv'
<1>1. CASE cut' = cut BY <1>1 DEF CutInv, Cuts
<1>2. ASSUME NEW c \in Conns, Disconnect(c) PROVE CutInv'
  <2>1. cut'[c] = 0 /\ \A d \in Conns : d # c => cut'[d] = cut[d]
        BY <1>2 DEF Disconnect, Shape
  <2>2. Cuts' \subseteq Cuts
    <3>1. \A d \in Conns : 1 .. cut'[d] \subseteq 1 .. cut[d] BY <2>1
    <3> QED BY <3>1 DEF Cuts
  <2>3. /\ IsFiniteSet(Cuts') /\ Cardinality(Cuts') <= Cardinality(Cuts)
        /\ Cardinality(Cuts) \in Nat /\ Cardinality(Cuts') \in Nat
        BY <2>2, FS_Subset, FS_CardinalityType DEF CutInv
  <2> QED BY <2>3, ActuatorConstants DEF CutInv
<1>3. ASSUME NEW c \in Conns, Dispatch(c) \/ Heartbeat(c) \/ Reply(c) PROVE CutInv'
  <2>1. cut' = cut \/ \E whole \in BOOLEAN : Write(c, whole)
        BY <1>3 DEF Dispatch, Heartbeat, Reply, outVars
  <2> QED BY <1>1, <2>1, CutWrite
<1>4. CASE \/ \E c \in Conns, m \in Commands : Arrive(c, m)
           \/ \E c \in Conns : Execute(c)
           \/ Tick \/ UNCHANGED vars
  <2>1. cut' = cut BY <1>4 DEF Arrive, Execute, Tick, vars, outVars
  <2> QED BY <1>1, <2>1
<1> QED BY <1>2, <1>3, <1>4 DEF Next, Handler

\* Every variable keeps its range: the actuators their limits, the timestamps
\* of a connection the limit of the rate (actuator_controller.py:101-108,
\* 281-290).
THEOREM TypeCorrect == Spec => []TypeOK
<1>1. Init => YawInv /\ StopInv /\ QueueInv /\ CutInv
      BY YawInit, StopInit, QueueInit, CutInit
<1>2. Shape /\ YawInv /\ StopInv /\ QueueInv /\ CutInv /\ [Next]_vars
        => YawInv' /\ StopInv' /\ QueueInv' /\ CutInv'
      BY YawStep, StopStep, QueueStep, CutStep
<1>3. Shape /\ AgeInv /\ YawInv /\ StopInv /\ QueueInv /\ CutInv => TypeOK
  <2> SUFFICES ASSUME Shape, AgeInv, YawInv, StopInv, QueueInv, CutInv PROVE TypeOK
      OBVIOUS
  <2>1. ASSUME NEW c \in Conns
        PROVE  /\ connected[c] \in BOOLEAN /\ cut[c] \in 0 .. MaxCuts
               /\ pc[c] \in {"idle", "delay", "reply"}
               /\ wait[c] \in 0 .. Delay
               /\ verdict[c] \in {"ack", "nack"}
               /\ cur[c].n \in 0 .. MaxCmds
               /\ Len(recent[c]) <= RateLimit
               /\ \A i, j \in DOMAIN recent[c] : i < j => recent[c][i] >= recent[c][j]
               /\ Len(inbox[c]) <= MaxCmds
    <3>1. Len(log[c]) <= MaxCmds BY LogBound DEF QueueInv
    <3>2. Len(log[c]) \in Nat /\ Len(inbox[c]) \in Nat /\ MaxCmds \in Nat /\ cur[c] \in Frame
          BY ActuatorConstants DEF Shape
    <3>3. Len(inbox[c]) <= Len(log[c]) /\ cur[c].n <= Len(log[c]) BY DEF QueueInv
    <3>4. cur[c].n \in 0 .. MaxCmds /\ Len(inbox[c]) <= MaxCmds
          BY <3>1, <3>2, <3>3 DEF Frame
    <3>5. recent[c] \in Seq(Nat) BY DEF Shape
    <3>6. DOMAIN recent[c] = 1 .. Len(recent[c]) BY <3>5
    <3>7. Len(recent[c]) <= RateLimit
          /\ \A i, j \in DOMAIN recent[c] : i < j => recent[c][i] >= recent[c][j]
          BY <3>6 DEF AgeInv
    <3>8. cut[c] \in 0 .. MaxCuts
      <4>1. cut[c] \in Nat /\ MaxCuts \in Nat BY ActuatorConstants DEF Shape
      <4>2. {c} \X (1 .. cut[c]) \subseteq Cuts BY DEF Cuts
      <4>3. IsFiniteSet(Cuts) /\ Cardinality(Cuts) <= MaxCuts BY DEF CutInv
      <4>4. cut[c] <= MaxCuts BY ONLY <4>1, <4>2, <4>3, OneOfMany
      <4> QED BY <4>1, <4>4
    <3> QED BY <3>4, <3>7, <3>8 DEF Shape
  <2> QED BY <2>1 DEF TypeOK, YawInv, StopInv
<1> QED BY <1>1, <1>2, <1>3, Timing, PTL DEF Spec
=============================================================================
