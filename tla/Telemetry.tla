------------------------------ MODULE Telemetry ------------------------------
(* Readings on their way from the turbine to the ground station: the send   *)
(* and receive loops of src/turbine/sensor_emulator.py with its             *)
(* TurbineModel, and the UDP handlers of src/ground/control_station.py.     *)
(* Between them is the relay, which loses frames and keeps the others in    *)
(* order (LossyChannels, which LeoRelay implements).                        *)
(*                                                                          *)
(* Of the turbine the model keeps the yaw, the pitch and whether there is   *)
(* power; how far they get in a tick is left open.  Sequence numbers and    *)
(* heartbeats are left out: the station only logs them.                     *)
EXTENDS Integers, Sequences

CONSTANTS PitchMax, PitchStep,  \* 90 degrees; the 5 of an emergency stop's tick
          YawAngles,            \* the angles of the model
          PitchAsked,           \* bound of the model: pitch angles asked for
          BatchSize,            \* batch_size
          MaxReadings, MaxOrders  \* bounds of the model

TelemetryConstants ==
  /\ PitchMax \in Nat /\ PitchStep \in Nat \ {0} /\ PitchAsked \subseteq Int
  /\ BatchSize \in Nat \ {0} /\ MaxReadings \in Nat /\ MaxOrders \in Nat

Pitches == 0 .. PitchMax

VARIABLES
  yaw, pitch, power, targetYaw, targetPitch, eStop,  \* TurbineModel
  pc,        \* where the send loop is
  batch,     \* batch: the readings since the last SENSOR_BATCH
  path,      \* frames to the ground station, each a sequence of readings
  latest,    \* _latest of the station; number 0 before the first
  commands,  \* commands the receive loop has handled
  readings   \* history: all snapshots

turbineVars == <<yaw, pitch, power, targetYaw, targetPitch, eStop>>
vars == <<turbineVars, pc, batch, path, latest, commands, readings>>

NoReading == [n |-> 0, yaw |-> 0, pitch |-> 0, power |-> FALSE, eStop |-> FALSE]

MutantNewest(frame)   == frame[1]
MutantStoppedYaw      == targetYaw
MutantBatchFull       == Len(batch) > BatchSize

\* What _handle_batch and _handle_sensor keep.
Newest(frame) == frame[Len(frame)]

BatchFull == Len(batch) >= BatchSize

\* The yaw after a tick of an emergency stop.
StoppedYaw == yaw

Smaller(a, b) == IF a < b THEN a ELSE b
Larger(a, b)  == IF a < b THEN b ELSE a

----------------------------------------------------------------------------
Init == /\ yaw \in YawAngles /\ pitch \in Pitches /\ power = FALSE
        /\ targetYaw = yaw /\ targetPitch = pitch /\ eStop = FALSE
        /\ pc = "tick" /\ batch = << >> /\ path = << >>
        /\ latest = NoReading /\ commands = 0 /\ readings = << >>

(* The send loop.                                                           *)

\* tick, under the lock of the model.  The wind decides on the power; yaw and
\* pitch get some of the way to their targets.
ModelTick ==
  /\ pc = "tick" /\ Len(readings) < MaxReadings
  /\ IF eStop
     THEN /\ yaw' = StoppedYaw
          /\ pitch' = Smaller(PitchMax, pitch + PitchStep)
          /\ power' = FALSE
     ELSE /\ yaw' \in {yaw, targetYaw}
          /\ pitch' \in Smaller(pitch, targetPitch) .. Larger(pitch, targetPitch)
          /\ power' \in BOOLEAN
  /\ pc' = "snapshot"
  /\ UNCHANGED <<targetYaw, targetPitch, eStop, batch, path, latest, commands, readings>>

\* snapshot takes the lock anew: a command may have come since the tick.
Snapshot ==
  /\ pc = "snapshot"
  /\ LET r == [n |-> Len(readings) + 1, yaw |-> yaw, pitch |-> pitch,
               power |-> power, eStop |-> eStop]
     IN readings' = Append(readings, r) /\ batch' = Append(batch, r)
  /\ pc' = "send"
  /\ UNCHANGED <<turbineVars, path, latest, commands>>

\* SENSOR_DATA, and SENSOR_BATCH when there are enough of them.
SendReadings ==
  /\ pc = "send"
  /\ LET one == <<batch[Len(batch)]>> IN
       path' = path \o (IF BatchFull THEN <<one, batch>> ELSE <<one>>)
  /\ batch' = IF BatchFull THEN << >> ELSE batch
  /\ pc' = "tick"
  /\ UNCHANGED <<turbineVars, latest, commands, readings>>

(* The receive loop: commands that come through the relay, each answered by *)
(* an ACK, whatever the turbine makes of it.                                *)

Handled == /\ commands < MaxOrders
           /\ commands' = commands + 1
           /\ UNCHANGED <<yaw, pitch, power, pc, batch, path, latest, readings>>

SetYaw == /\ Handled
          /\ targetYaw' \in YawAngles
          /\ UNCHANGED <<targetPitch, eStop>>

SetPitch == /\ Handled
            /\ \E a \in PitchAsked : targetPitch' = Larger(0, Smaller(PitchMax, a))
            /\ UNCHANGED <<targetYaw, eStop>>

EmergencyStop == /\ Handled
                 /\ eStop' = TRUE
                 /\ UNCHANGED <<targetYaw, targetPitch>>

(* The relay and the ground station.                                        *)

Lose == /\ \E i \in DOMAIN path :
             path' = SubSeq(path, 1, i - 1) \o SubSeq(path, i + 1, Len(path))
        /\ UNCHANGED <<turbineVars, pc, batch, latest, commands, readings>>

HandleReadings == /\ path # << >>
                  /\ latest' = Newest(Head(path))
                  /\ path' = Tail(path)
                  /\ UNCHANGED <<turbineVars, pc, batch, commands, readings>>

Next == \/ ModelTick \/ Snapshot \/ SendReadings
        \/ SetYaw \/ SetPitch \/ EmergencyStop
        \/ Lose \/ HandleReadings

Spec == Init /\ [][Next]_vars

----------------------------------------------------------------------------
(* Properties                                                               *)

Reading == [n : Nat, yaw : YawAngles, pitch : Pitches, power : BOOLEAN, eStop : BOOLEAN]

TypeOK ==
  /\ yaw \in YawAngles /\ targetYaw \in YawAngles
  /\ pitch \in Pitches /\ targetPitch \in Pitches
  /\ power \in BOOLEAN /\ eStop \in BOOLEAN
  /\ pc \in {"tick", "snapshot", "send"} /\ commands \in 0 .. MaxOrders
  /\ batch \in Seq(Reading) /\ Len(batch) <= BatchSize
  /\ path \in Seq(Seq(Reading) \ {<< >>})
  /\ latest \in Reading \cup {NoReading}
  /\ readings \in Seq(Reading)

\* On a path that keeps the order the station's latest reading never gives way
\* to an older one, though each reading is sent twice and any frame may be lost
\* (sensor_emulator.py:209-227, control_station.py:141, 160).
LatestNeverGoesBack == [][latest'.n >= latest.n]_vars

\* The first reading that reports an emergency stop may have been taken between
\* the tick before it and the stop, and still show power; no later one does, and
\* the nacelle stays where that first one saw it, whatever commands the turbine
\* goes on to acknowledge (sensor_emulator.py:95-98, 206-207).
StopShows ==
  \A i, j \in DOMAIN readings : (i < j /\ readings[i].eStop) =>
    /\ readings[j].eStop /\ ~readings[j].power
    /\ readings[j].yaw = readings[i].yaw
    /\ readings[j].pitch >= readings[i].pitch
=============================================================================
