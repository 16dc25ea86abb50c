----------------------------- MODULE MCMessages -----------------------------
(* Small instances for TLC of what happens to the messages of a session:    *)
(* CommandStream, Telemetry, SecurityGate and VideoStream.  They share no   *)
(* state, so each behaviour of this module follows one of them and lets the *)
(* others rest.                                                             *)
EXTENDS Telemetry, GateLog, CommandLog, VideoLog

CONSTANTS Frames, MinSize, Bogus, MaxConns, MaxCmds,
          MaxAngle, MaxStep, MaxTime, MaxChecks,
          MaxVideos, MaxArrivals

VARIABLES part,
          gsRunning, acRunning, dialing, conn, handler, bogus,
          allowed, seen, last

commandVars == <<gsRunning, acRunning, dialing, conn, open, handler, net, buf,
                 bogus, sends, executed>>
gateVars  == <<now, allowed, seen, last, stage, hand, log>>
videoVars == <<totals, entries, delivered, arrivals>>
allVars == <<part, vars, commandVars, gateVars, videoVars>>

\* Below, within and above the range of the pitch.
MCPitchAsked == {-1, 1, PitchMax + 1}

\* Of one source two yaw commands out of each other's reach and one without an
\* angle; of another a command that cannot be read.
MCFrames == {[src |-> "a", seq |-> 1, kind |-> "yaw", angle |-> 0],
             [src |-> "a", seq |-> 2, kind |-> "yaw", angle |-> MaxAngle],
             [src |-> "a", seq |-> 3, kind |-> "stop", angle |-> 0],
             [src |-> "b", seq |-> 1, kind |-> "unreadable", angle |-> 0]}

C == INSTANCE CommandStream
G == INSTANCE SecurityGate
V == INSTANCE VideoStream

ASSUME ConstantsHold == /\ TelemetryConstants /\ C!StreamConstants
                        /\ G!GateConstants /\ V!VideoConstants

\* A reader that the first unit of a frame puts out of step takes too much and may
\* be in step again; one that the last unit misleads takes too little.
MCInit == /\ part \in {"commands", "telemetry", "gate", "video"}
          /\ Init /\ C!Init /\ G!Init /\ V!Init
          /\ part = "commands" => bogus[1] > bogus[Size]
          /\ part # "commands" => \A i \in DOMAIN bogus : bogus[i] = CHOOSE n \in Bogus : TRUE
          /\ part # "telemetry" => yaw = (CHOOSE a \in YawAngles : TRUE) /\ pitch = 0

InCommands == part = "commands" /\ UNCHANGED <<part, vars, gateVars, videoVars>>

CommandsStep  == InCommands /\ C!Next
TelemetryStep == /\ part = "telemetry" /\ Next
                 /\ UNCHANGED <<part, commandVars, gateVars, videoVars>>
GateStep      == /\ part = "gate" /\ G!Next
                 /\ UNCHANGED <<part, vars, commandVars, videoVars>>
VideoStep     == /\ part = "video" /\ V!Next
                 /\ UNCHANGED <<part, vars, commandVars, gateVars>>

MCSpec == /\ MCInit
          /\ [][CommandsStep \/ TelemetryStep \/ GateStep \/ VideoStep]_allVars
          /\ WF_allVars(InCommands /\ C!ReadEnds)
          /\ WF_allVars(InCommands /\ (C!Connect \/ C!DialFails))

\* The types of all four (control_station.py:72, sensor_emulator.py:67,
\* security.py:200, video_stream.py:155).
TypesOK == TypeOK /\ C!TypeOK /\ G!TypeOK /\ V!TypeOK

\* See CommandStream: a stopped station keeps no connection
\* (control_station.py:100-103, 177-190).
StopGivesUp == C!StopGivesUp
=============================================================================
