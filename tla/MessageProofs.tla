-------------------------- MODULE MessageProofs ---------------------------
(* About Telemetry, for any angles, any pitch limit, any batch size and any *)
(* number of readings and commands: once a reading reports an emergency     *)
(* stop, the readings after it show the turbine without power and the       *)
(* nacelle where it was; and the ground station's latest reading never      *)
(* gives way to an older one.  Then about the four kinds of message         *)
(* together: every property of MCMessages, of its own specification.        *)
EXTENDS MCMessages, TLAPS

Snap == [n : Nat, yaw : YawAngles, pitch : Int, power : BOOLEAN, eStop : BOOLEAN]

TypeInv == /\ yaw \in YawAngles /\ targetYaw \in YawAngles
           /\ pitch \in Pitches /\ targetPitch \in Pitches
           /\ power \in BOOLEAN /\ eStop \in BOOLEAN
           /\ readings \in Seq(Snap)

\* Since a reading that reported the stop: eStop is set, the nacelle has not
\* moved, the blades have not gone back, and a tick has taken away the power
\* before the next snapshot.
StopInv == \A i \in DOMAIN readings : readings[i].eStop =>
             /\ eStop
             /\ yaw = readings[i].yaw
             /\ pitch >= readings[i].pitch
             /\ pc = "snapshot" => ~power

IInv == TypeInv /\ StopInv /\ StopShows

LEMMA InitInv == ASSUME TelemetryConstants PROVE Init => IInv
<1> SUFFICES ASSUME Init PROVE IInv
    OBVIOUS
<1>1. readings = << >> /\ power = FALSE /\ eStop = FALSE
      /\ targetYaw = yaw /\ targetPitch = pitch /\ yaw \in YawAngles /\ pitch \in Pitches
      BY DEF Init
<1>2. readings \in Seq(Snap) /\ DOMAIN readings = {} BY <1>1
<1>3. power \in BOOLEAN /\ eStop \in BOOLEAN BY <1>1
<1>4. TypeInv BY <1>1, <1>2, <1>3 DEF TypeInv
<1>5. StopInv BY <1>2 DEF StopInv
<1>6. StopShows BY <1>2 DEF StopShows
<1> QED BY <1>4, <1>5, <1>6 DEF IInv

\* The step of the pitch: within the range, and with a stop only upwards.
LEMMA PitchStopped ==
  ASSUME TelemetryConstants, NEW p \in Pitches
  PROVE  /\ Smaller(PitchMax, p + PitchStep) \in Pitches
         /\ Smaller(PitchMax, p + PitchStep) >= p
BY DEF TelemetryConstants, Pitches, Smaller

LEMMA PitchMoves ==
  ASSUME TelemetryConstants, NEW p \in Pitches, NEW q \in Pitches,
         NEW r \in Smaller(p, q) .. Larger(p, q)
  PROVE  r \in Pitches
BY DEF TelemetryConstants, Pitches, Smaller, Larger

LEMMA PitchAsks ==
  ASSUME TelemetryConstants, NEW a \in PitchAsked
  PROVE  Larger(0, Smaller(PitchMax, a)) \in Pitches
<1>1. PitchMax \in Nat /\ a \in Int BY DEF TelemetryConstants
<1> QED BY <1>1 DEF Pitches, Smaller, Larger

LEMMA TickInv == ASSUME TelemetryConstants, IInv, ModelTick PROVE IInv'
<1> USE DEF IInv
<1>1. readings' = readings /\ targetYaw' = targetYaw /\ targetPitch' = targetPitch
      /\ eStop' = eStop /\ pc' = "snapshot"
      BY DEF ModelTick
<1>2. StopShows' BY <1>1 DEF StopShows
<1>3. CASE eStop
  <2>1. yaw' = yaw /\ power' = FALSE /\ pitch' = Smaller(PitchMax, pitch + PitchStep)
        BY <1>3 DEF ModelTick, StoppedYaw
  <2>2. pitch' \in Pitches /\ pitch' >= pitch
        BY <2>1, PitchStopped DEF TypeInv
  <2>3. TypeInv' BY <1>1, <2>1, <2>2 DEF TypeInv
  <2>4. StopInv'
    <3>0. readings \in Seq(Snap) BY DEF TypeInv
    <3>1. \A i \in DOMAIN readings : readings[i].pitch \in Int
      <4>1. \A i \in DOMAIN readings : readings[i] \in Snap BY <3>0
      <4> QED BY <4>1 DEF Snap
    <3>2. pitch \in Int /\ pitch' \in Int BY <2>2 DEF TypeInv, Pitches
    <3> QED BY <1>1, <1>3, <2>1, <2>2, <3>1, <3>2 DEF StopInv
  <2> QED BY <1>2, <2>3, <2>4
<1>4. CASE ~eStop
  <2>1. /\ yaw' \in {yaw, targetYaw} /\ power' \in BOOLEAN
        /\ pitch' \in Smaller(pitch, targetPitch) .. Larger(pitch, targetPitch)
        BY <1>4 DEF ModelTick
  <2>2. pitch' \in Pitches BY <2>1, PitchMoves DEF TypeInv
  <2>3. TypeInv' BY <1>1, <2>1, <2>2 DEF TypeInv
  <2>4. StopInv' BY <1>1, <1>4 DEF StopInv
  <2> QED BY <1>2, <2>3, <2>4
<1> QED BY <1>3, <1>4

LEMMA SnapshotInv == ASSUME IInv, Snapshot PROVE IInv'
<1> USE DEF IInv
<1> DEFINE r == [n |-> Len(readings) + 1, yaw |-> yaw, pitch |-> pitch,
                 power |-> power, eStop |-> eStop]
<1>1. readings' = Append(readings, r) /\ pc = "snapshot" /\ pc' = "send"
      BY DEF Snapshot
<1>2. yaw' = yaw /\ pitch' = pitch /\ power' = power /\ eStop' = eStop
      /\ targetYaw' = targetYaw /\ targetPitch' = targetPitch
      BY DEF Snapshot, turbineVars
<1>3. readings \in Seq(Snap) BY DEF TypeInv
<1>4. r \in Snap
  <2>1. Len(readings) + 1 \in Nat BY <1>3
  <2>2. pitch \in Int BY DEF TypeInv, Pitches
  <2> QED BY <2>1, <2>2 DEF Snap, TypeInv
<1>5. /\ Len(readings) \in Nat /\ DOMAIN readings = 1 .. Len(readings)
      /\ DOMAIN readings' = 1 .. Len(readings) + 1
      /\ \A i \in 1 .. Len(readings) : readings'[i] = readings[i]
      /\ readings'[Len(readings) + 1] = r
      BY <1>1, <1>3, <1>4
<1>6. TypeInv' BY <1>1, <1>2, <1>3, <1>4 DEF TypeInv
<1>7. StopInv'
  <2>1. ASSUME NEW i \in DOMAIN readings', readings'[i].eStop
        PROVE  eStop /\ yaw = readings'[i].yaw /\ pitch >= readings'[i].pitch
    <3>1. CASE i \in 1 .. Len(readings) BY <1>5, <2>1, <3>1 DEF StopInv
    <3>2. CASE i = Len(readings) + 1
      <4>1. pitch \in Int BY DEF TypeInv, Pitches
      <4> QED BY <1>5, <2>1, <3>2, <4>1
    <3> QED BY <1>5, <3>1, <3>2
  <2> QED BY <1>1, <1>2, <2>1 DEF StopInv
<1>8. StopShows'
  <2>1. SUFFICES ASSUME NEW i \in DOMAIN readings', NEW j \in DOMAIN readings',
                        i < j, readings'[i].eStop
                 PROVE  /\ readings'[j].eStop /\ ~readings'[j].power
                        /\ readings'[j].yaw = readings'[i].yaw
                        /\ readings'[j].pitch >= readings'[i].pitch
        BY DEF StopShows
  <2>2. i \in 1 .. Len(readings) BY <1>5, <2>1
  <2>3. CASE j \in 1 .. Len(readings) BY <1>5, <2>1, <2>2, <2>3 DEF StopShows
  <2>4. CASE j = Len(readings) + 1
    <3>1. readings'[j] = r BY <1>5, <2>4
    <3>2. readings'[i] = readings[i] BY <1>5, <2>2
    <3>3. eStop /\ yaw = readings[i].yaw /\ pitch >= readings[i].pitch /\ ~power
          BY <1>1, <1>5, <2>1, <2>2, <3>2 DEF StopInv
    <3> QED BY <3>1, <3>2, <3>3
  <2> QED BY <1>5, <2>3, <2>4
<1> QED BY <1>6, <1>7, <1>8

LEMMA StepInv == ASSUME TelemetryConstants PROVE IInv /\ [Next]_vars => IInv'
<1> SUFFICES ASSUME IInv, [Next]_vars PROVE IInv'
    OBVIOUS
<1>1. CASE ModelTick BY <1>1, TickInv
<1>2. CASE Snapshot BY <1>2, SnapshotInv
<1>3. CASE SendReadings \/ Lose \/ HandleReadings \/ UNCHANGED vars
  <2>1. UNCHANGED <<turbineVars, readings>> /\ (pc' = "snapshot" => pc = "snapshot")
        BY <1>3 DEF SendReadings, Lose, HandleReadings, vars
  <2> QED BY <2>1 DEF IInv, TypeInv, StopInv, StopShows, turbineVars
<1>4. CASE SetYaw \/ SetPitch \/ EmergencyStop
  <2>1. UNCHANGED <<yaw, pitch, power, pc, readings>>
        BY <1>4 DEF SetYaw, SetPitch, EmergencyStop, Handled
  <2>2. /\ targetYaw' \in YawAngles /\ targetPitch' \in Pitches
        /\ eStop' \in BOOLEAN /\ (eStop => eStop')
    <3>1. CASE SetYaw BY <3>1 DEF SetYaw, IInv, TypeInv
    <3>2. CASE SetPitch BY <3>2, PitchAsks DEF SetPitch, IInv, TypeInv
    <3>3. CASE EmergencyStop BY <3>3 DEF EmergencyStop, IInv, TypeInv
    <3> QED BY <1>4, <3>1, <3>2, <3>3
  <2> QED BY <2>1, <2>2 DEF IInv, TypeInv, StopInv, StopShows
<1> QED BY <1>1, <1>2, <1>3, <1>4 DEF Next

\* After the first reading that reports a stop no reading shows power and the
\* nacelle stays, whatever commands come between a tick and its snapshot
\* (sensor_emulator.py:95-98, 206-207).
THEOREM StopIsSeen == ASSUME TelemetryConstants PROVE Spec => []StopShows
<1>1. Init => IInv BY InitInv
<1>2. IInv /\ [Next]_vars => IInv' BY StepInv
<1>3. IInv => StopShows BY DEF IInv
<1> QED BY <1>1, <1>2, <1>3, PTL DEF Spec
----------------------------------------------------------------------------
(* The order of the readings on their way.                                  *)

Bundles == Seq(Snap) \ {<< >>}

\* The number of the reading a frame leaves with the station.
Num(frame) == frame[Len(frame)].n

\* What the station has is no newer than any frame on the path, the frames are
\* in the order of their newest readings, and the reading about to be sent is
\* the newest of all.
OrderInv == /\ readings \in Seq(Snap) /\ batch \in Seq(Snap) /\ path \in Seq(Bundles)
            /\ latest.n \in Nat
            /\ \A i \in DOMAIN path : latest.n <= Num(path[i]) /\ Num(path[i]) <= Len(readings)
            /\ \A i, j \in DOMAIN path : i < j => Num(path[i]) <= Num(path[j])
            /\ latest.n <= Len(readings)
            /\ pc = "send" => batch # << >> /\ Num(batch) = Len(readings)

LEMMA NumNat == ASSUME NEW f \in Bundles PROVE Num(f) \in Nat
<1>1. f \in Seq(Snap) /\ f # << >> BY DEF Bundles
<1>2. Len(f) \in 1 .. Len(f) /\ f[Len(f)] \in Snap BY <1>1
<1> QED BY <1>2 DEF Num, Snap

LEMMA OneFrame == ASSUME NEW r \in Snap PROVE <<r>> \in Bundles /\ Num(<<r>>) = r.n
<1>1. <<r>> \in Seq(Snap) /\ <<r>> # << >> /\ Len(<<r>>) = 1 /\ <<r>>[1] = r OBVIOUS
<1> QED BY <1>1 DEF Bundles, Num

LEMMA OrderInit == ASSUME Init PROVE OrderInv
<1>1. readings = << >> /\ batch = << >> /\ path = << >> /\ latest = NoReading /\ pc = "tick"
      BY DEF Init
<1>2. latest.n = 0 BY <1>1 DEF NoReading
<1>3. /\ readings \in Seq(Snap) /\ batch \in Seq(Snap) /\ path \in Seq(Bundles)
      /\ DOMAIN path = {} /\ Len(readings) = 0
      BY <1>1
<1> QED BY <1>1, <1>2, <1>3 DEF OrderInv

\* The frames of SendReadings come after all others and carry the newest number.
LEMMA OrderSend == ASSUME OrderInv, SendReadings PROVE OrderInv' /\ latest'.n >= latest.n
<1> USE DEF OrderInv
<1> DEFINE one  == <<batch[Len(batch)]>>
           more == IF BatchFull THEN <<one, batch>> ELSE <<one>>
<1>1. pc = "send" /\ pc' = "tick" /\ latest' = latest /\ readings' = readings
      /\ path' = path \o more
      /\ batch' = IF BatchFull THEN << >> ELSE batch
      BY DEF SendReadings
<1>2. batch \in Bundles /\ Num(batch) = Len(readings) BY <1>1 DEF Bundles
<1>3. one \in Bundles /\ Num(one) = Len(readings)
  <2>1. batch \in Seq(Snap) /\ batch # << >> BY <1>1
  <2>2. batch[Len(batch)] \in Snap BY <2>1
  <2> QED BY <2>2, <1>2, OneFrame DEF Num
<1>4. more \in Seq(Bundles) /\ \A k \in DOMAIN more : Num(more[k]) = Len(readings)
  <2> HIDE DEF one
  <2>1. CASE BatchFull
    <3>1. more = <<one, batch>> BY <2>1
    <3> QED BY <3>1, <1>2, <1>3
  <2>2. CASE ~BatchFull
    <3>1. more = <<one>> BY <2>2
    <3> QED BY <3>1, <1>3
  <2> QED BY <2>1, <2>2
<1> HIDE DEF more
<1>5. /\ path' \in Seq(Bundles)
      /\ DOMAIN path' = 1 .. Len(path) + Len(more)
      /\ Len(path) \in Nat /\ Len(more) \in Nat
      /\ DOMAIN path = 1 .. Len(path) /\ DOMAIN more = 1 .. Len(more)
      /\ \A k \in 1 .. Len(path) : path'[k] = path[k]
      /\ \A k \in Len(path) + 1 .. Len(path) + Len(more) : path'[k] = more[k - Len(path)]
      BY <1>1, <1>4
<1>6. Len(readings) \in Nat OBVIOUS
<1>7. \A k \in DOMAIN path' : k \notin DOMAIN path => Num(path'[k]) = Len(readings)
  <2>1. SUFFICES ASSUME NEW k \in DOMAIN path', k \notin DOMAIN path
                 PROVE  Num(path'[k]) = Len(readings)
        OBVIOUS
  <2>2. k \in Len(path) + 1 .. Len(path) + Len(more) BY <1>5, <2>1
  <2>3. k - Len(path) \in DOMAIN more /\ path'[k] = more[k - Len(path)] BY <1>5, <2>2
  <2> QED BY <1>4, <2>3
<1>8. \A k \in DOMAIN path' : latest.n <= Num(path'[k]) /\ Num(path'[k]) <= Len(readings)
  <2>1. TAKE k \in DOMAIN path'
  <2>2. CASE k \in DOMAIN path BY <1>5, <2>2
  <2>3. CASE k \notin DOMAIN path BY <1>6, <1>7, <2>3
  <2> QED BY <2>2, <2>3
<1>9. ASSUME NEW i \in DOMAIN path', NEW j \in DOMAIN path', i < j
      PROVE  Num(path'[i]) <= Num(path'[j])
  <2>1. CASE j \in DOMAIN path BY <1>5, <1>9, <2>1
  <2>2. CASE j \notin DOMAIN path BY <1>7, <1>8, <2>2
  <2> QED BY <2>1, <2>2
<1>10. batch' \in Seq(Snap) BY <1>1
<1> QED BY <1>1, <1>5, <1>6, <1>8, <1>9, <1>10

LEMMA SubSeqIs ==
  ASSUME NEW S, NEW s \in Seq(S), NEW m \in 1 .. Len(s) + 1, NEW n \in 0 .. Len(s),
         m <= n + 1
  PROVE  /\ SubSeq(s, m, n) \in Seq(S) /\ Len(SubSeq(s, m, n)) = n - m + 1
         /\ \A k \in 1 .. n - m + 1 : SubSeq(s, m, n)[k] = s[m + k - 1]
OBVIOUS

LEMMA ConcatIs ==
  ASSUME NEW S, NEW a \in Seq(S), NEW b \in Seq(S)
  PROVE  /\ a \o b \in Seq(S) /\ DOMAIN (a \o b) = 1 .. Len(a) + Len(b)
         /\ \A k \in 1 .. Len(a) : (a \o b)[k] = a[k]
         /\ \A k \in Len(a) + 1 .. Len(a) + Len(b) : (a \o b)[k] = b[k - Len(a)]
OBVIOUS

\* A sequence without its i-th element.
Without(s, i) == SubSeq(s, 1, i - 1) \o SubSeq(s, i + 1, Len(s))

LEMMA WithoutIs ==
  ASSUME NEW S, NEW s \in Seq(S), NEW i \in 1 .. Len(s)
  PROVE  /\ Without(s, i) \in Seq(S) /\ DOMAIN Without(s, i) = 1 .. Len(s) - 1
         /\ \A k \in 1 .. Len(s) - 1 :
              Without(s, i)[k] = s[IF k < i THEN k ELSE k + 1]
<1> DEFINE r == Without(s, i)
           a == SubSeq(s, 1, i - 1)
           b == SubSeq(s, i + 1, Len(s))
<1>1. Len(s) \in Nat /\ i \in Nat OBVIOUS
<1>2. /\ a \in Seq(S) /\ Len(a) = (i - 1) - 1 + 1
      /\ \A k \in 1 .. (i - 1) - 1 + 1 : a[k] = s[1 + k - 1]
  <2>1. 1 \in 1 .. Len(s) + 1 /\ i - 1 \in 0 .. Len(s) /\ 1 <= (i - 1) + 1 OBVIOUS
  <2> QED BY ONLY <2>1, SubSeqIs, s \in Seq(S)
<1>3. /\ b \in Seq(S) /\ Len(b) = Len(s) - (i + 1) + 1
      /\ \A k \in 1 .. Len(s) - (i + 1) + 1 : b[k] = s[(i + 1) + k - 1]
  <2>1. i + 1 \in 1 .. Len(s) + 1 /\ Len(s) \in 0 .. Len(s) /\ i + 1 <= Len(s) + 1 OBVIOUS
  <2> QED BY ONLY <2>1, SubSeqIs, s \in Seq(S)
<1>4. r = a \o b BY DEF Without
<1> HIDE DEF a, b, r
<1>5. /\ r \in Seq(S) /\ DOMAIN r = 1 .. Len(a) + Len(b)
      /\ \A k \in 1 .. Len(a) : r[k] = a[k]
      /\ \A k \in Len(a) + 1 .. Len(a) + Len(b) : r[k] = b[k - Len(a)]
  <2>1. a \in Seq(S) /\ b \in Seq(S) BY ONLY <1>2, <1>3
  <2> QED BY ONLY <2>1, <1>4, ConcatIs
<1>6. Len(a) = i - 1 /\ Len(b) = Len(s) - i BY <1>1, <1>2, <1>3
<1>7. DOMAIN r = 1 .. Len(s) - 1
  <2>1. (i - 1) + (Len(s) - i) = Len(s) - 1 BY ONLY <1>1
  <2> QED BY ONLY <2>1, <1>5, <1>6
<1>8. ASSUME NEW k \in 1 .. Len(s) - 1
      PROVE  r[k] = s[IF k < i THEN k ELSE k + 1]
  <2>1. CASE k < i
    <3>1. k \in 1 .. Len(a) /\ k \in 1 .. (i - 1) - 1 + 1 /\ 1 + k - 1 = k
          BY <1>1, <1>6, <2>1
    <3>2. r[k] = a[k] /\ a[k] = s[k] BY ONLY <1>2, <1>5, <3>1
    <3> QED BY <2>1, <3>2
  <2>2. CASE ~(k < i)
    <3> DEFINE m == k - Len(a)
    <3>1. /\ k \in Len(a) + 1 .. Len(a) + Len(b)
          /\ m \in 1 .. Len(s) - (i + 1) + 1 /\ (i + 1) + m - 1 = k + 1
          BY <1>1, <1>6, <2>2
    <3>2. r[k] = b[m] BY ONLY <1>5, <3>1
    <3> HIDE DEF m
    <3>3. b[m] = s[k + 1] BY ONLY <1>3, <3>1
    <3> QED BY <2>2, <3>2, <3>3
  <2> QED BY <2>1, <2>2
<1> QED BY <1>5, <1>7, <1>8 DEF r

\* A frame less leaves the others in their order.
LEMMA OrderLose == ASSUME OrderInv, Lose PROVE OrderInv' /\ latest'.n >= latest.n
<1>1. PICK i \in DOMAIN path : path' = Without(path, i)
      BY DEF Lose, Without
<1>2. pc' = pc /\ latest' = latest /\ readings' = readings /\ batch' = batch
      BY DEF Lose
<1>3. path \in Seq(Bundles) BY DEF OrderInv
<1>4. i \in 1 .. Len(path) /\ Len(path) \in Nat /\ DOMAIN path = 1 .. Len(path) BY <1>3
<1> DEFINE at(k) == IF k < i THEN k ELSE k + 1
<1>5. /\ path' \in Seq(Bundles) /\ DOMAIN path' = 1 .. Len(path) - 1
      /\ \A k \in 1 .. Len(path) - 1 : path'[k] = path[at(k)]
  <2>1. /\ path' \in Seq(Bundles) /\ DOMAIN path' = 1 .. Len(path) - 1
        /\ \A k \in 1 .. Len(path) - 1 : path'[k] = path[IF k < i THEN k ELSE k + 1]
        BY ONLY <1>1, <1>3, <1>4, WithoutIs
  <2> QED BY <2>1
<1>6. \A k \in DOMAIN path' : at(k) \in DOMAIN path BY <1>4, <1>5
<1>7. \A j, k \in DOMAIN path' : j < k => at(j) < at(k) BY <1>4, <1>5
<1> HIDE DEF at
<1>8. \A k \in DOMAIN path' : latest.n <= Num(path'[k]) /\ Num(path'[k]) <= Len(readings)
      BY <1>5, <1>6 DEF OrderInv
<1>9. \A j, k \in DOMAIN path' : j < k => Num(path'[j]) <= Num(path'[k])
      BY <1>5, <1>6, <1>7 DEF OrderInv
<1>10. latest.n \in Nat BY DEF OrderInv
<1> QED BY <1>2, <1>5, <1>8, <1>9, <1>10 DEF OrderInv

\* The station takes the oldest frame, whose newest reading the others are not
\* older than.
LEMMA OrderHandle == ASSUME OrderInv, HandleReadings PROVE OrderInv' /\ latest'.n >= latest.n
<1> USE DEF OrderInv
<1>1. /\ path # << >> /\ path' = Tail(path) /\ latest' = Newest(Head(path))
      /\ pc' = pc /\ readings' = readings /\ batch' = batch
      BY DEF HandleReadings
<1>2. /\ Len(path) \in Nat \ {0} /\ DOMAIN path = 1 .. Len(path)
      /\ Head(path) = path[1] /\ path[1] \in Bundles
      /\ path' \in Seq(Bundles) /\ DOMAIN path' = 1 .. Len(path) - 1
      /\ \A k \in 1 .. Len(path) - 1 : path'[k] = path[k + 1]
      BY <1>1
<1>3. latest'.n = Num(path[1]) BY <1>1, <1>2 DEF Newest, Num
<1>4. latest'.n \in Nat BY <1>2, <1>3, NumNat
<1>5. latest.n <= latest'.n /\ latest'.n <= Len(readings) BY <1>2, <1>3
<1>6. \A k \in DOMAIN path' : latest'.n <= Num(path'[k]) /\ Num(path'[k]) <= Len(readings)
  <2>1. TAKE k \in DOMAIN path'
  <2>2. k + 1 \in DOMAIN path /\ 1 \in DOMAIN path /\ 1 < k + 1 BY <1>2
  <2> QED BY <1>2, <1>3, <2>2
<1>7. ASSUME NEW j \in DOMAIN path', NEW k \in DOMAIN path', j < k
      PROVE  Num(path'[j]) <= Num(path'[k])
  <2>1. j + 1 \in DOMAIN path /\ k + 1 \in DOMAIN path /\ j + 1 < k + 1 BY <1>2, <1>7
  <2> QED BY <1>2, <2>1
<1> QED BY <1>1, <1>2, <1>4, <1>5, <1>6, <1>7

LEMMA OrderSnapshot == ASSUME TypeInv, OrderInv, Snapshot
                       PROVE  OrderInv' /\ latest'.n >= latest.n
<1> USE DEF OrderInv
<1> DEFINE r == [n |-> Len(readings) + 1, yaw |-> yaw, pitch |-> pitch,
                 power |-> power, eStop |-> eStop]
<1>1. /\ readings' = Append(readings, r) /\ batch' = Append(batch, r)
      /\ path' = path /\ latest' = latest
      BY DEF Snapshot
<1>2. r \in Snap /\ r.n = Len(readings) + 1
  <2>1. Len(readings) + 1 \in Nat OBVIOUS
  <2>2. pitch \in Int BY DEF TypeInv, Pitches
  <2> QED BY <2>1, <2>2 DEF Snap, TypeInv
<1> HIDE DEF r
<1>3. readings' \in Seq(Snap) /\ Len(readings') = Len(readings) + 1 BY <1>1, <1>2
<1>4. batch' \in Seq(Snap) /\ batch' # << >> /\ batch'[Len(batch')] = r BY <1>1, <1>2
<1>5. Num(batch') = Len(readings') BY <1>2, <1>3, <1>4 DEF Num
<1>6. \A i \in DOMAIN path : Num(path[i]) \in Nat BY NumNat
<1>7. Len(readings) \in Nat OBVIOUS
<1>8. latest.n <= Len(readings') BY <1>3, <1>7
<1>9. \A i \in DOMAIN path : Num(path[i]) <= Len(readings') BY <1>3, <1>6, <1>7
<1> QED BY <1>1, <1>3, <1>4, <1>5, <1>8, <1>9

LEMMA OrderStep == ASSUME TypeInv, OrderInv, [Next]_vars
                   PROVE  OrderInv' /\ latest'.n >= latest.n
<1>1. CASE SendReadings BY <1>1, OrderSend
<1>2. CASE Lose BY <1>2, OrderLose
<1>3. CASE HandleReadings BY <1>3, OrderHandle
<1>4. CASE Snapshot BY <1>4, OrderSnapshot
<1>5. CASE ModelTick \/ SetYaw \/ SetPitch \/ EmergencyStop \/ UNCHANGED vars
  <2>1. UNCHANGED <<batch, path, latest, readings>> /\ (pc' = "send" => pc = "send")
        BY <1>5 DEF ModelTick, SetYaw, SetPitch, EmergencyStop, Handled, vars
  <2> QED BY <2>1 DEF OrderInv
<1> QED BY <1>1, <1>2, <1>3, <1>4, <1>5 DEF Next

\* The station's latest reading is never replaced by an older one, though each
\* is sent alone and in a batch and any frame may be lost on a path that keeps
\* the order (sensor_emulator.py:209-227, control_station.py:141, 160).
THEOREM LatestIsNewest == ASSUME TelemetryConstants PROVE Spec => LatestNeverGoesBack
<1>1. Init => IInv /\ OrderInv BY InitInv, OrderInit
<1>2. IInv /\ OrderInv /\ [Next]_vars => IInv' /\ OrderInv' BY StepInv, OrderStep DEF IInv
<1>3. IInv /\ OrderInv /\ [Next]_vars => [latest'.n >= latest.n]_vars
      BY OrderStep DEF IInv
<1> QED BY <1>1, <1>2, <1>3, PTL DEF Spec, LatestNeverGoesBack

----------------------------------------------------------------------------
(* The types of the readings and of what carries them.                      *)

\* A batch is sent as soon as it is full.
BatchInv == IF pc = "send" THEN Len(batch) \in 1 .. BatchSize
                           ELSE Len(batch) \in 0 .. BatchSize - 1

ReadingInv == TypeOK /\ BatchInv

LEMMA ReadingInit == ASSUME TelemetryConstants PROVE Init => ReadingInv
<1> SUFFICES ASSUME Init PROVE ReadingInv
    OBVIOUS
<1>1. /\ readings = << >> /\ batch = << >> /\ path = << >> /\ latest = NoReading
      /\ pc = "tick" /\ commands = 0 /\ MaxOrders \in Nat /\ BatchSize \in Nat \ {0}
      BY DEF Init, TelemetryConstants
<1>2. Len(batch) = 0 BY <1>1
<1>3. Len(batch) <= BatchSize /\ Len(batch) \in 0 .. BatchSize - 1 BY ONLY <1>1, <1>2
<1>4. << >> \in Seq(Reading) /\ << >> \in Seq(Seq(Reading) \ {<< >>}) OBVIOUS
<1>5. BatchInv BY <1>1, <1>3 DEF BatchInv
<1>6. commands \in 0 .. MaxOrders BY ONLY <1>1
<1>7. /\ yaw \in YawAngles /\ targetYaw \in YawAngles
      /\ pitch \in Pitches /\ targetPitch \in Pitches
      /\ power \in BOOLEAN /\ eStop \in BOOLEAN
      BY DEF Init
<1>8. /\ batch \in Seq(Reading) /\ path \in Seq(Seq(Reading) \ {<< >>})
      /\ readings \in Seq(Reading) /\ latest \in Reading \cup {NoReading}
      BY <1>1, <1>4
<1>9. TypeOK BY <1>1, <1>3, <1>6, <1>7, <1>8 DEF TypeOK
<1> QED BY <1>5, <1>9 DEF ReadingInv

\* A step that takes no reading and sends none.
LEMMA CalmStep ==
  ASSUME ReadingInv, UNCHANGED <<batch, readings>>, pc # "send", pc' # "send",
         pc' \in {"tick", "snapshot"}, path' \in Seq(Seq(Reading) \ {<< >>}),
         latest' \in Reading \cup {NoReading}, commands' \in 0 .. MaxOrders,
         yaw' \in YawAngles /\ targetYaw' \in YawAngles,
         pitch' \in Pitches /\ targetPitch' \in Pitches,
         power' \in BOOLEAN /\ eStop' \in BOOLEAN
  PROVE  ReadingInv'
BY DEF ReadingInv, TypeOK, BatchInv

LEMMA ReadingSnapshot == ASSUME TelemetryConstants, ReadingInv, Snapshot PROVE ReadingInv'
<1> DEFINE r == [n |-> Len(readings) + 1, yaw |-> yaw, pitch |-> pitch,
                 power |-> power, eStop |-> eStop]
<1>1. /\ readings' = Append(readings, r) /\ batch' = Append(batch, r)
      /\ pc = "snapshot" /\ pc' = "send"
      /\ UNCHANGED <<turbineVars, path, latest, commands>>
      BY DEF Snapshot
<1>2. readings \in Seq(Reading) /\ batch \in Seq(Reading) BY DEF ReadingInv, TypeOK
<1>3. r \in Reading
  <2>1. Len(readings) + 1 \in Nat BY <1>2
  <2> QED BY <2>1 DEF Reading, ReadingInv, TypeOK
<1>4. Len(batch) \in 0 .. BatchSize - 1 /\ BatchSize \in Nat
      BY <1>1 DEF ReadingInv, BatchInv, TelemetryConstants
<1> HIDE DEF r
<1>5. readings' \in Seq(Reading) /\ batch' \in Seq(Reading) BY ONLY <1>1, <1>2, <1>3
<1>6. Len(batch') = Len(batch) + 1 BY ONLY <1>1, <1>2, <1>3
<1>7. Len(batch') \in 1 .. BatchSize /\ Len(batch') <= BatchSize BY ONLY <1>4, <1>6
<1> QED BY <1>1, <1>5, <1>7 DEF ReadingInv, TypeOK, BatchInv, turbineVars

LEMMA ReadingSend == ASSUME TelemetryConstants, ReadingInv, SendReadings PROVE ReadingInv'
<1> DEFINE F == Seq(Reading) \ {<< >>}
           one  == <<batch[Len(batch)]>>
           more == IF BatchFull THEN <<one, batch>> ELSE <<one>>
<1>1. /\ pc = "send" /\ pc' = "tick" /\ path' = path \o more
      /\ batch' = IF BatchFull THEN << >> ELSE batch
      /\ UNCHANGED <<turbineVars, latest, commands, readings>>
      BY DEF SendReadings
<1>2. /\ batch \in Seq(Reading) /\ path \in Seq(F)
      /\ Len(batch) \in 1 .. BatchSize /\ BatchSize \in Nat \ {0}
      BY <1>1 DEF ReadingInv, TypeOK, BatchInv, TelemetryConstants
<1>3. Len(batch) \in 1 .. Len(batch) /\ batch # << >> BY <1>2
<1>4. batch \in F /\ one \in F
  <2>1. batch[Len(batch)] \in Reading BY ONLY <1>2, <1>3
  <2>2. one \in Seq(Reading) /\ one # << >> BY <2>1
  <2> QED BY <1>2, <1>3, <2>2
<1>5. path' \in Seq(F)
  <2> HIDE DEF F, one
  <2>1. <<one, batch>> \in Seq(F) /\ <<one>> \in Seq(F) BY ONLY <1>4
  <2>2. more \in Seq(F) BY <2>1
  <2> HIDE DEF more
  <2> QED BY ONLY <1>1, <1>2, <2>2
<1>6. batch' \in Seq(Reading) /\ Len(batch') \in 0 .. BatchSize - 1
  <2>1. CASE BatchFull
    <3>1. batch' = << >> BY <1>1, <2>1
    <3>2. Len(batch') = 0 /\ batch' \in Seq(Reading) BY ONLY <3>1
    <3> QED BY ONLY <1>2, <3>2
  <2>2. CASE ~BatchFull
    <3>1. batch' = batch /\ ~(Len(batch) >= BatchSize) BY <1>1, <2>2 DEF BatchFull
    <3> QED BY ONLY <1>2, <3>1
  <2> QED BY <2>1, <2>2
<1>7. Len(batch') <= BatchSize BY ONLY <1>2, <1>6
<1> QED BY <1>1, <1>5, <1>6, <1>7 DEF ReadingInv, TypeOK, BatchInv, turbineVars

LEMMA ReadingStep ==
  ASSUME TelemetryConstants PROVE ReadingInv /\ [Next]_vars => ReadingInv'
<1> SUFFICES ASSUME ReadingInv, [Next]_vars PROVE ReadingInv'
    OBVIOUS
<1>1. CASE ModelTick
  <2>1. /\ pc = "tick" /\ pc' = "snapshot"
        /\ UNCHANGED <<targetYaw, targetPitch, eStop, batch, path, latest, commands, readings>>
        BY <1>1 DEF ModelTick
  <2>2. yaw' \in YawAngles /\ pitch' \in Pitches /\ power' \in BOOLEAN
    <3>1. /\ yaw \in YawAngles /\ targetYaw \in YawAngles
          /\ pitch \in Pitches /\ targetPitch \in Pitches
          BY DEF ReadingInv, TypeOK
    <3>2. CASE eStop
      <4>1. yaw' = yaw /\ power' = FALSE /\ pitch' = Smaller(PitchMax, pitch + PitchStep)
            BY <1>1, <3>2 DEF ModelTick, StoppedYaw
      <4> QED BY <3>1, <4>1, PitchStopped
    <3>3. CASE ~eStop
      <4>1. /\ yaw' \in {yaw, targetYaw} /\ power' \in BOOLEAN
            /\ pitch' \in Smaller(pitch, targetPitch) .. Larger(pitch, targetPitch)
            BY <1>1, <3>3 DEF ModelTick
      <4> QED BY <3>1, <4>1, PitchMoves
    <3> QED BY <3>2, <3>3
  <2> QED BY <2>1, <2>2, CalmStep DEF ReadingInv, TypeOK
<1>2. CASE Snapshot BY <1>2, ReadingSnapshot
<1>3. CASE SendReadings BY <1>3, ReadingSend
<1>4. CASE SetYaw \/ SetPitch \/ EmergencyStop
  <2>1. /\ UNCHANGED <<yaw, pitch, power, pc, batch, path, latest, readings>>
        /\ commands' = commands + 1 /\ commands < MaxOrders
        BY <1>4 DEF SetYaw, SetPitch, EmergencyStop, Handled
  <2>2. commands' \in 0 .. MaxOrders
    <3>1. commands \in 0 .. MaxOrders /\ MaxOrders \in Nat
          BY DEF ReadingInv, TypeOK, TelemetryConstants
    <3> QED BY ONLY <2>1, <3>1
  <2>3. targetYaw' \in YawAngles /\ targetPitch' \in Pitches /\ eStop' \in BOOLEAN
        BY <1>4, PitchAsks DEF SetYaw, SetPitch, EmergencyStop, ReadingInv, TypeOK
  <2> QED BY <2>1, <2>2, <2>3 DEF ReadingInv, TypeOK, BatchInv
<1>5. CASE Lose
  <2>1. PICK i \in DOMAIN path : path' = Without(path, i) BY <1>5 DEF Lose, Without
  <2>2. path \in Seq(Seq(Reading) \ {<< >>}) BY DEF ReadingInv, TypeOK
  <2>3. path' \in Seq(Seq(Reading) \ {<< >>})
    <3> DEFINE F == Seq(Reading) \ {<< >>}
    <3>1. path \in Seq(F) BY <2>2
    <3> HIDE DEF F
    <3>2. i \in 1 .. Len(path) BY ONLY <3>1, i \in DOMAIN path
    <3>3. path' \in Seq(F) BY ONLY <2>1, <3>1, <3>2, WithoutIs
    <3> QED BY <3>3 DEF F
  <2>4. UNCHANGED <<turbineVars, pc, batch, latest, commands, readings>> BY <1>5 DEF Lose
  <2> QED BY <2>3, <2>4 DEF ReadingInv, TypeOK, BatchInv, turbineVars
<1>6. CASE HandleReadings
  <2>1. /\ path # << >> /\ latest' = Newest(Head(path)) /\ path' = Tail(path)
        /\ UNCHANGED <<turbineVars, pc, batch, commands, readings>>
        BY <1>6 DEF HandleReadings
  <2>2. path \in Seq(Seq(Reading) \ {<< >>}) BY DEF ReadingInv, TypeOK
  <2>3. Tail(path) \in Seq(Seq(Reading) \ {<< >>}) /\ Head(path) \in Seq(Reading) \ {<< >>}
    <3> DEFINE F == Seq(Reading) \ {<< >>}
    <3>1. path \in Seq(F) BY <2>2
    <3> HIDE DEF F
    <3>2. Tail(path) \in Seq(F) /\ Head(path) \in F BY ONLY <2>1, <3>1
    <3> QED BY <3>2 DEF F
  <2>4. Newest(Head(path)) \in Reading
    <3>1. PICK f : f = Head(path) OBVIOUS
    <3>2. f \in Seq(Reading) /\ f # << >> BY <2>3, <3>1
    <3>3. Len(f) \in 1 .. Len(f) BY ONLY <3>2
    <3>4. f[Len(f)] \in Reading BY ONLY <3>2, <3>3
    <3> QED BY <3>1, <3>4 DEF Newest
  <2> QED BY <2>1, <2>3, <2>4 DEF ReadingInv, TypeOK, BatchInv, turbineVars
<1>7. CASE UNCHANGED vars BY <1>7 DEF vars, turbineVars, ReadingInv, TypeOK, BatchInv
<1> QED BY <1>1, <1>2, <1>3, <1>4, <1>5, <1>6, <1>7 DEF Next

\* The types, and that no batch is longer than it may be and none is sent empty
\* (sensor_emulator.py:67, 211-227).
THEOREM TelemetryTypes == ASSUME TelemetryConstants PROVE Spec => []TypeOK
<1>1. Init => ReadingInv BY ReadingInit
<1>2. ReadingInv /\ [Next]_vars => ReadingInv' BY ReadingStep
<1>3. ReadingInv => TypeOK BY DEF ReadingInv
<1> QED BY <1>1, <1>2, <1>3, PTL DEF Spec

----------------------------------------------------------------------------
(* All four together, as MCMessages lets them run: the messages of one kind *)
(* never disturb what holds of the others.  The invariants of the commands, *)
(* the gate and the video stream are those of their own proofs, CP and BP.  *)

CP == INSTANCE CommandStreamProofs
BP == INSTANCE BonusProofs

\* The instances of MCMessages are those the proofs are about.
LEMMA SameCommands ==
  /\ C!StreamConstants = CP!StreamConstants /\ C!Init = CP!Init /\ C!Next = CP!Next
  /\ C!vars = CP!vars /\ C!TypeOK = CP!TypeOK
<1> USE DEF C!Conns, CP!Conns, C!Cmds, CP!Cmds, C!Made, CP!Made, C!Cardinality, CP!Cardinality,
            C!stationVars, CP!stationVars, C!actuatorVars, CP!actuatorVars
<1>1. C!StreamConstants = CP!StreamConstants BY DEF C!StreamConstants, CP!StreamConstants
<1>2. C!Init = CP!Init BY DEF C!Init, CP!Init
<1>3. C!vars = CP!vars BY DEF C!vars, CP!vars
<1>4. C!TypeOK = CP!TypeOK BY DEF C!TypeOK, CP!TypeOK, C!Range, CP!Range
<1>5. C!Next = CP!Next
  BY DEF C!Next, CP!Next, C!Dial, CP!Dial, C!Connect, CP!Connect, C!DialFails, CP!DialFails,
         C!ReadEnds, CP!ReadEnds, C!ReadOver, CP!ReadOver, C!Send, CP!Send, C!Record, CP!Record, C!FrameOf, CP!FrameOf,
         C!StationStop, CP!StationStop, C!ActuatorStop, CP!ActuatorStop,
         C!Handler, CP!Handler, C!Accept, CP!Accept, C!Recv, CP!Recv, C!Ready, CP!Ready,
         C!TakeFrame, CP!TakeFrame, C!FrameEnd, CP!FrameEnd, C!Valid, CP!Valid, C!Rest, CP!Rest,
         C!HandlerEnds, CP!HandlerEnds, C!Break, CP!Break
<1> QED BY <1>1, <1>2, <1>3, <1>4, <1>5

LEMMA SameGate ==
  /\ G!GateConstants = BP!GateConstants /\ G!Init = BP!Init /\ G!Next = BP!Next
  /\ gateVars = BP!vars /\ G!TypeOK = BP!TypeOK
<1> USE DEF G!Sources, BP!Sources, G!Kinds, BP!Kinds, G!Order, BP!Order, G!Key, BP!Key,
            G!NoFrame, BP!NoFrame, G!NoAngle, BP!NoAngle
<1>1. G!GateConstants = BP!GateConstants BY DEF G!GateConstants, BP!GateConstants
<1>2. G!Init = BP!Init BY DEF G!Init, BP!Init
<1>3. gateVars = BP!vars BY DEF gateVars, BP!vars
<1>4. G!TypeOK = BP!TypeOK BY DEF G!TypeOK, BP!TypeOK, G!Range, BP!Range
<1>5. G!Next = BP!Next
  BY DEF G!Next, BP!Next, G!Begin, BP!Begin, G!Tick, BP!Tick, G!At, BP!At, G!End, BP!End,
         G!Judge, BP!Judge, G!CheckRate, BP!CheckRate, G!Recent, BP!Recent,
         G!CheckReplay, BP!CheckReplay, G!Pruned, BP!Pruned, G!Fresh, BP!Fresh,
         G!CheckAnomaly, BP!CheckAnomaly, G!Plausible, BP!Plausible, G!Distance, BP!Distance,
         G!Cardinality, BP!Cardinality
<1> QED BY <1>1, <1>2, <1>3, <1>4, <1>5

LEMMA SameVideo ==
  /\ V!VideoConstants = BP!V!VideoConstants /\ V!Init = BP!V!Init /\ V!Next = BP!V!Next
  /\ videoVars = BP!V!vars /\ V!TypeOK = BP!V!TypeOK
<1> USE DEF V!Videos, BP!V!Videos, V!Range, BP!V!Range
<1>1. V!VideoConstants = BP!V!VideoConstants BY DEF V!VideoConstants, BP!V!VideoConstants
<1>2. V!Init = BP!V!Init BY DEF V!Init, BP!V!Init
<1>3. videoVars = BP!V!vars BY DEF videoVars, BP!V!vars
<1>4. V!TypeOK = BP!V!TypeOK BY DEF V!TypeOK, BP!V!TypeOK
<1>5. V!Next = BP!V!Next
  BY DEF V!Next, BP!V!Next, V!SendFrame, BP!V!SendFrame, V!Receive, BP!V!Receive,
         V!Stored, BP!V!Stored, V!Complete, BP!V!Complete, V!Join, BP!V!Join,
         V!Forget, BP!V!Forget, V!Fragments, BP!V!Fragments, V!Chunk, BP!V!Chunk
<1> QED BY <1>1, <1>2, <1>3, <1>4, <1>5

TelemetryInv == ReadingInv /\ IInv /\ OrderInv

MessagesInv == TelemetryInv /\ CP!StreamInv /\ BP!GateInv /\ BP!VideoTyped

LEMMA TelemetryInit == ASSUME TelemetryConstants PROVE Init => TelemetryInv
BY ReadingInit, InitInv, OrderInit DEF TelemetryInv

LEMMA TelemetryKept ==
  ASSUME TelemetryConstants
  PROVE  TelemetryInv /\ [Next]_vars => TelemetryInv' /\ [latest'.n >= latest.n]_vars
BY ReadingStep, StepInv, OrderStep DEF TelemetryInv, IInv

LEMMA Constants == /\ TelemetryConstants /\ CP!StreamConstants
                   /\ BP!GateConstants /\ BP!V!VideoConstants
BY ConstantsHold, SameCommands, SameGate, SameVideo

LEMMA MessagesInit == MCInit => MessagesInv
<1> SUFFICES ASSUME MCInit PROVE MessagesInv
    OBVIOUS
<1>1. Init /\ CP!Init /\ BP!Init /\ BP!V!Init
      BY SameCommands, SameGate, SameVideo DEF MCInit
<1>2. TelemetryInv BY <1>1, Constants, TelemetryInit
<1>3. CP!StreamInv BY <1>1, Constants, CP!StreamInit
<1>4. BP!GateInv BY <1>1, Constants, BP!GateInit
<1>5. BP!VideoTyped BY <1>1, Constants, BP!VideoTypedInit
<1> QED BY <1>2, <1>3, <1>4, <1>5 DEF MessagesInv

\* A step is a step of one of the four and leaves the variables of the others.
LEMMA OneMoves ==
  ASSUME [CommandsStep \/ TelemetryStep \/ GateStep \/ VideoStep]_allVars
  PROVE  /\ [Next]_vars /\ [CP!Next]_(CP!vars) /\ [BP!Next]_(BP!vars)
         /\ [BP!V!Next]_(BP!V!vars)
<1>1. UNCHANGED commandVars => UNCHANGED CP!vars
      BY DEF commandVars, CP!vars, CP!stationVars, CP!actuatorVars
<1>2. UNCHANGED gateVars => UNCHANGED BP!vars BY DEF gateVars, BP!vars
<1>3. UNCHANGED videoVars => UNCHANGED BP!V!vars BY DEF videoVars, BP!V!vars
<1>4. CASE CommandsStep
  <2>1. C!Next /\ UNCHANGED vars /\ UNCHANGED gateVars /\ UNCHANGED videoVars
        BY <1>4 DEF CommandsStep, InCommands
  <2> QED BY <2>1, <1>2, <1>3, SameCommands
<1>5. CASE TelemetryStep
  <2>1. Next /\ UNCHANGED commandVars /\ UNCHANGED gateVars /\ UNCHANGED videoVars
        BY <1>5 DEF TelemetryStep
  <2> QED BY <2>1, <1>1, <1>2, <1>3
<1>6. CASE GateStep
  <2>1. G!Next /\ UNCHANGED vars /\ UNCHANGED commandVars /\ UNCHANGED videoVars
        BY <1>6 DEF GateStep
  <2> QED BY <2>1, <1>1, <1>3, SameGate
<1>7. CASE VideoStep
  <2>1. V!Next /\ UNCHANGED vars /\ UNCHANGED commandVars /\ UNCHANGED gateVars
        BY <1>7 DEF VideoStep
  <2> QED BY <2>1, <1>1, <1>2, SameVideo
<1>8. CASE UNCHANGED allVars
  <2>1. UNCHANGED vars /\ UNCHANGED commandVars /\ UNCHANGED gateVars /\ UNCHANGED videoVars
        BY <1>8 DEF allVars
  <2> QED BY <2>1, <1>1, <1>2, <1>3
<1> QED BY <1>4, <1>5, <1>6, <1>7, <1>8

LEMMA MessagesStep ==
  MessagesInv /\ [CommandsStep \/ TelemetryStep \/ GateStep \/ VideoStep]_allVars
    => MessagesInv' /\ [latest'.n >= latest.n]_vars
<1> SUFFICES ASSUME MessagesInv,
                    [CommandsStep \/ TelemetryStep \/ GateStep \/ VideoStep]_allVars
             PROVE  MessagesInv' /\ [latest'.n >= latest.n]_vars
    OBVIOUS
<1>1. /\ [Next]_vars /\ [CP!Next]_(CP!vars) /\ [BP!Next]_(BP!vars)
      /\ [BP!V!Next]_(BP!V!vars)
      BY OneMoves
<1>2. TelemetryInv' /\ [latest'.n >= latest.n]_vars
      BY <1>1, Constants, TelemetryKept DEF MessagesInv
<1>3. CP!StreamInv' BY <1>1, Constants, CP!StreamStep DEF MessagesInv
<1>4. BP!GateInv' BY <1>1, Constants, BP!GateStep DEF MessagesInv
<1>5. BP!VideoTyped' BY <1>1, Constants, BP!VideoTypedStep DEF MessagesInv
<1> QED BY <1>2, <1>3, <1>4, <1>5 DEF MessagesInv

LEMMA MessagesInvariance == MCSpec => []MessagesInv
BY MessagesInit, MessagesStep, PTL DEF MCSpec

\* The types of all four, whichever of them a session is busy with
\* (control_station.py:72, sensor_emulator.py:67, security.py:200,
\* video_stream.py:155).
THEOREM MessagesTyped == MCSpec => []TypesOK
<1>1. MessagesInv => TypesOK
  <2> SUFFICES ASSUME MessagesInv PROVE TypesOK
      OBVIOUS
  <2>1. TypeOK BY DEF MessagesInv, TelemetryInv, ReadingInv
  <2>2. CP!TypeOK
    <3>1. CP!Shape /\ CP!ConnInv /\ CP!WrittenInv /\ CP!FlagInv
          BY DEF MessagesInv, CP!StreamInv
    <3> QED BY <3>1, Constants, CP!TypesHold
  <2>3. BP!TypeOK BY BP!GateTyped DEF MessagesInv
  <2>4. BP!V!TypeOK BY Constants, BP!VideoTypesHold DEF MessagesInv
  <2> QED BY <2>1, <2>2, <2>3, <2>4, SameCommands, SameGate, SameVideo DEF TypesOK
<1> QED BY <1>1, MessagesInvariance, PTL

LEMMA SameLogs ==
  /\ CP!OnceInOrder = OnceInOrder /\ CP!FailedNeverExecuted = FailedNeverExecuted
  /\ CP!InStepUntilTorn = InStepUntilTorn
  /\ BP!AcceptedOnce = AcceptedOnce /\ BP!RateBudget = RateBudget
  /\ BP!RateRefusalMayRetry = RateRefusalMayRetry
  /\ BP!DeliveredIsSent = DeliveredIsSent /\ BP!AgainOnlyIfAllAgain = AgainOnlyIfAllAgain
<1>1. CP!OnceInOrder = OnceInOrder BY DEF CP!OnceInOrder, OnceInOrder
<1>2. CP!FailedNeverExecuted = FailedNeverExecuted
      BY DEF CP!FailedNeverExecuted, FailedNeverExecuted
<1>3. CP!InStepUntilTorn = InStepUntilTorn
      BY DEF CP!InStepUntilTorn, InStepUntilTorn, CP!Torn, Torn, CP!Waiting, Waiting,
             CP!Range, Range, CP!InOrder, InOrder, CP!Before, Before
<1>4. BP!AcceptedOnce = AcceptedOnce BY DEF BP!AcceptedOnce, AcceptedOnce
<1>5. BP!RateBudget = RateBudget
      BY DEF BP!RateBudget, RateBudget, BP!OkIn, OkIn, BP!Cardinality, Cardinality
<1>6. BP!RateRefusalMayRetry = RateRefusalMayRetry
      BY DEF BP!RateRefusalMayRetry, RateRefusalMayRetry, BP!Key, Key
<1>7. BP!DeliveredIsSent = DeliveredIsSent
      BY DEF BP!DeliveredIsSent, DeliveredIsSent, BP!Chunk, Chunk
<1>8. BP!AgainOnlyIfAllAgain = AgainOnlyIfAllAgain
      BY DEF BP!AgainOnlyIfAllAgain, AgainOnlyIfAllAgain, BP!Fragments, Fragments,
             BP!Deliveries, Deliveries, BP!Copies, Copies, BP!Cardinality, Cardinality
<1> QED BY <1>1, <1>2, <1>3, <1>4, <1>5, <1>6, <1>7, <1>8

\* What holds of the commands, the readings, the verdicts and the video frames
\* each on its own holds of a session that has all of them
\* (control_station.py:254-259, sensor_emulator.py:179-188, security.py:203-243,
\* video_stream.py:177-184).
THEOREM MessagesSafe ==
  MCSpec => [](/\ OnceInOrder /\ FailedNeverExecuted /\ InStepUntilTorn
               /\ StopShows
               /\ AcceptedOnce /\ RateBudget /\ RateRefusalMayRetry
               /\ DeliveredIsSent /\ AgainOnlyIfAllAgain)
<1>1. MessagesInv => /\ OnceInOrder /\ FailedNeverExecuted /\ InStepUntilTorn
                     /\ StopShows
                     /\ AcceptedOnce /\ RateBudget /\ RateRefusalMayRetry
                     /\ DeliveredIsSent /\ AgainOnlyIfAllAgain
  <2> SUFFICES ASSUME MessagesInv
               PROVE  /\ OnceInOrder /\ FailedNeverExecuted /\ InStepUntilTorn
                      /\ StopShows
                      /\ AcceptedOnce /\ RateBudget /\ RateRefusalMayRetry
                      /\ DeliveredIsSent /\ AgainOnlyIfAllAgain
      OBVIOUS
  <2>1. StopShows BY DEF MessagesInv, TelemetryInv, IInv
  <2>2. OnceInOrder /\ FailedNeverExecuted /\ InStepUntilTorn
        BY CP!StreamSafe, SameLogs DEF MessagesInv
  <2>3. AcceptedOnce /\ RateBudget /\ RateRefusalMayRetry
        BY BP!GateSafe, SameLogs DEF MessagesInv
  <2>4. DeliveredIsSent /\ AgainOnlyIfAllAgain
        BY BP!VideoSafe, Constants, SameLogs DEF MessagesInv
  <2> QED BY <2>1, <2>2, <2>3, <2>4
<1> QED BY <1>1, MessagesInvariance, PTL

\* Nor does anything else in a session make the station's latest reading an
\* older one (control_station.py:141, 160).
THEOREM MessagesKeepLatest == MCSpec => LatestNeverGoesBack
<1>1. MCSpec => [][latest'.n >= latest.n]_vars
      BY MessagesInit, MessagesStep, PTL DEF MCSpec
<1> QED BY <1>1 DEF LatestNeverGoesBack
=============================================================================
