------------------------------ MODULE Actuator ------------------------------
(* The turbine's actuator controller, src/turbine/actuator_controller.py:   *)
(* ActuatorState under its lock, the physics thread that moves the          *)
(* actuators, and one handler thread per TCP connection, each taking its    *)
(* commands one after the other.                                            *)
(*                                                                          *)
(* Angles are on an integer grid: a turn has Circle units.  One tick is one *)
(* period of the physics thread, 0.1 s.  A command that cannot be read has  *)
(* the fate of one out of range and is not told apart from it.  Of a STATUS *)
(* frame only this is kept: like any frame it may fail to go out whole,     *)
(* which puts what the client reads after it out of step.                   *)
EXTENDS Integers, Sequences, FiniteSets

CONSTANTS Conns,        \* TCP connections, each with its own rate_table key
          Circle,       \* a full turn, and YAW_MAX_DEG
          PitchMax,     \* PITCH_MAX_DEG
          StartPitch,   \* pitch_actual and pitch_target at the start
          YawRate, PitchRate,   \* units moved in one tick at most
          Delay,        \* ACTUATOR_DELAY_S in ticks
          RateWindow,   \* the one second of _rate_ok in ticks
          RateLimit,    \* RATE_LIMIT_CMDS_PER_S
          YawAngles, PitchAngles,  \* bound of the model: the angles asked for
          MaxCmds,      \* bound of the model: frames sent in one behaviour
          MaxCuts       \* bound of the model: frames cut short to peers still there

ASSUME ActuatorConstants ==
  /\ Circle \in Nat \ {0} /\ Circle % 2 = 0
  /\ PitchMax \in Nat /\ StartPitch \in 0 .. PitchMax
  /\ YawRate \in Nat \ {0} /\ PitchRate \in Nat \ {0}
  /\ Delay \in Nat /\ RateWindow \in Nat \ {0} /\ RateLimit \in Nat
  /\ MaxCmds \in Nat /\ MaxCuts \in Nat
  /\ YawAngles \subseteq Int /\ PitchAngles \subseteq Int

\* 0.5 s of delay, 5 commands, one second: a property below needs no more.
ASSUME RateSlack == RateLimit * Delay >= RateWindow /\ RateLimit > 0

Commands == [kind : {"yaw"}, angle : YawAngles]
            \cup [kind : {"pitch"}, angle : PitchAngles]
            \cup [kind : {"stop", "other"}, angle : {0}]

VARIABLES
  yaw, pitch, yawTarget, pitchTarget, eStop,  \* ActuatorState
  connected,  \* connection -> its peer is still there
  inbox,      \* connection -> frames received or on their way, in order
  pc, cur,    \* connection -> where its handler is; the frame in _dispatch
  wait,       \* connection -> ticks left of time.sleep(ACTUATOR_DELAY_S)
  verdict,    \* connection -> the result of the command applied
  recent,     \* connection -> ages of the timestamps in _rate_table
  cut,        \* connection -> frames to the peer not written whole
  log,        \* history: connection -> kinds of the frames sent
  answers     \* history: connection -> ACKs and NACKs written whole; of a
              \* peer that has gone neither cut nor answers is kept

stateVars == <<yaw, pitch, yawTarget, pitchTarget, eStop>>
threadVars == <<pc, cur, wait, verdict, recent>>
outVars == <<cut, answers>>
vars == <<stateVars, threadVars, connected, inbox, log, outVars>>

----------------------------------------------------------------------------
(* Helpers                                                                  *)

MutantYawError(t, a)       == t - a
MutantStoppedPitch(p)      == p
MutantUncappedPitch(p)     == p + PitchRate
MutantStopped              == FALSE
MutantReplies(kind, v)     == v = "ack"
MutantResponseDelay(kind)  == IF kind = "other" THEN 0 ELSE Delay

Smaller(a, b) == IF a < b THEN a ELSE b
Larger(a, b)  == IF a < b THEN b ELSE a
Clamp(lo, x, hi) == Larger(lo, Smaller(hi, x))

\* The signed way from a to t that is the shorter way round.
YawError(t, a) == ((t - a + Circle \div 2) % Circle) - (Circle \div 2)

\* The pitch after a tick of an emergency stop.
StoppedPitch(p) == Smaller(PitchMax, p + PitchRate)

InRange(m) == \/ m.kind = "yaw" /\ m.angle \in 0 .. Circle
              \/ m.kind = "pitch" /\ m.angle \in 0 .. PitchMax

\* What apply_yaw and apply_pitch test under the lock.
Stopped == eStop

\* The messages _dispatch answers; others are only logged.
Replies(kind, v) == kind # "other"

\* time.sleep comes before the type of the frame is looked at.
ResponseDelay(kind) == Delay

\* _rate_ok: the timestamps younger than a second, as they age by one tick.  The
\* oldest come first.
Aged(ages) ==
  LET gone == Cardinality({i \in DOMAIN ages : ages[i] + 1 >= RateWindow})
  IN [i \in 1 .. Len(ages) - gone |-> ages[gone + i] + 1]

----------------------------------------------------------------------------
NoCmd == [kind |-> "other", angle |-> 0, n |-> 0]

\* South and 10 degrees at the start; every connection is made once.
Init == /\ yaw = Circle \div 2 /\ yawTarget = Circle \div 2
        /\ pitch = StartPitch /\ pitchTarget = StartPitch /\ eStop = FALSE
        /\ connected = [c \in Conns |-> TRUE]
        /\ inbox = [c \in Conns |-> << >>]
        /\ pc = [c \in Conns |-> "idle"]
        /\ cur = [c \in Conns |-> NoCmd]
        /\ wait = [c \in Conns |-> 0]
        /\ verdict = [c \in Conns |-> "ack"]
        /\ recent = [c \in Conns |-> << >>]
        /\ cut = [c \in Conns |-> 0]
        /\ log = [c \in Conns |-> << >>]
        /\ answers = [c \in Conns |-> << >>]

Sent == Cardinality(UNION {{c} \X DOMAIN log[c] : c \in Conns})

Arrive(c, m) ==
  /\ connected[c] /\ Sent < MaxCmds
  /\ log' = [log EXCEPT ![c] = Append(@, m.kind)]
  /\ inbox' = [inbox EXCEPT ![c] =
                 Append(@, [kind |-> m.kind, angle |-> m.angle, n |-> Len(log[c]) + 1])]
  /\ UNCHANGED <<stateVars, threadVars, connected, outVars>>

\* The connection breaks.  What the handler has not read yet is lost; what is
\* in its buffer is still dispatched.
Disconnect(c) ==
  /\ connected[c]
  /\ connected' = [connected EXCEPT ![c] = FALSE]
  /\ \E k \in 0 .. Len(inbox[c]) : inbox' = [inbox EXCEPT ![c] = SubSeq(@, 1, k)]
  /\ cut' = [cut EXCEPT ![c] = 0] /\ answers' = [answers EXCEPT ![c] = << >>]
  /\ UNCHANGED <<stateVars, threadVars, log>>

CutShort == Cardinality(UNION {{c} \X (1 .. cut[c]) : c \in Conns})

\* _tx.  sendall writes the frame whole, or gives up when the five seconds of
\* the socket's time-out are over and a part of it, or nothing, is written.  _tx
\* swallows that like the OSError of a peer that is gone.
Write(c, whole) ==
  IF connected[c] /\ ~whole
  THEN CutShort < MaxCuts /\ cut' = [cut EXCEPT ![c] = @ + 1]
  ELSE UNCHANGED cut

\* The answer to frame n, which a peer that is there gets if it is written whole.
Answer(c, n, v, whole) ==
  answers' = IF connected[c] /\ whole
             THEN [answers EXCEPT ![c] = Append(@, [n |-> n, verdict |-> v])]
             ELSE answers

\* _dispatch up to the sleep: too many commands are refused at once.
Dispatch(c) ==
  /\ pc[c] = "idle" /\ inbox[c] # << >>
  /\ inbox' = [inbox EXCEPT ![c] = Tail(@)]
  /\ LET m == Head(inbox[c]) IN
       IF Len(recent[c]) >= RateLimit
       THEN /\ \E whole \in BOOLEAN :
                 Answer(c, m.n, "rate_limit", whole) /\ Write(c, whole)
            /\ UNCHANGED <<pc, cur, wait, recent>>
       ELSE /\ recent' = [recent EXCEPT ![c] = Append(@, 0)]
            /\ cur' = [cur EXCEPT ![c] = m]
            /\ wait' = [wait EXCEPT ![c] = ResponseDelay(m.kind)]
            /\ pc' = [pc EXCEPT ![c] = "delay"]
            /\ UNCHANGED outVars
  /\ UNCHANGED <<stateVars, connected, verdict, log>>

\* The command takes effect under ActuatorState.lock.
Execute(c) ==
  /\ pc[c] = "delay" /\ wait[c] = 0
  /\ LET m == cur[c]
         accepted == m.kind = "stop" \/ (InRange(m) /\ ~Stopped)
     IN /\ eStop' = (eStop \/ m.kind = "stop")
        /\ yawTarget' = IF accepted /\ m.kind = "yaw" THEN m.angle ELSE yawTarget
        /\ pitchTarget' = IF ~accepted THEN pitchTarget
                          ELSE CASE m.kind = "stop"  -> PitchMax
                                 [] m.kind = "pitch" -> m.angle
                                 [] OTHER            -> pitchTarget
        /\ verdict' = [verdict EXCEPT ![c] = IF accepted THEN "ack" ELSE "nack"]
  /\ pc' = [pc EXCEPT ![c] = "reply"]
  /\ UNCHANGED <<yaw, pitch, cur, wait, recent, connected, inbox, log, outVars>>

\* _ack_or_nack, out of the lock: the answer and then a STATUS, either of which
\* may be cut.  The handler goes on.
Reply(c) ==
  /\ pc[c] = "reply"
  /\ IF Replies(cur[c].kind, verdict[c])
     THEN \E whole, status \in BOOLEAN :
            /\ Answer(c, cur[c].n, verdict[c], whole)
            /\ Write(c, whole /\ status)
     ELSE UNCHANGED outVars
  /\ pc' = [pc EXCEPT ![c] = "idle"]
  /\ cur' = [cur EXCEPT ![c] = NoCmd]
  /\ verdict' = [verdict EXCEPT ![c] = "ack"]
  /\ UNCHANGED <<stateVars, wait, recent, connected, inbox, log>>

\* Five seconds without a frame: a STATUS goes out, and is cut.
Heartbeat(c) ==
  /\ pc[c] = "idle" /\ inbox[c] = << >> /\ connected[c]
  /\ Write(c, FALSE)
  /\ UNCHANGED <<stateVars, threadVars, connected, inbox, log, answers>>

\* 0.1 s: ActuatorState.tick, and the sleeps and timestamps grow older.
Tick ==
  /\ IF eStop
     THEN pitch' = StoppedPitch(pitch) /\ UNCHANGED yaw
     ELSE /\ yaw' = (yaw + Clamp(-YawRate, YawError(yawTarget, yaw), YawRate)) % Circle
          /\ pitch' = Clamp(0, pitch + Clamp(-PitchRate, pitchTarget - pitch, PitchRate),
                            PitchMax)
  /\ wait' = [c \in Conns |-> Larger(0, wait[c] - 1)]
  /\ recent' = [c \in Conns |-> Aged(recent[c])]
  /\ UNCHANGED <<yawTarget, pitchTarget, eStop, pc, cur, verdict, connected,
                 inbox, log, outVars>>

Handler(c) == Dispatch(c) \/ Execute(c) \/ Reply(c)

Next == \/ \E c \in Conns, m \in Commands : Arrive(c, m)
        \/ \E c \in Conns : Disconnect(c) \/ Heartbeat(c) \/ Handler(c)
        \/ Tick

\* The physics thread and the handlers keep running.
Spec == /\ Init /\ [][Next]_vars
        /\ WF_vars(Tick) /\ \A c \in Conns : WF_vars(Handler(c))

----------------------------------------------------------------------------
(* Properties                                                               *)

\* Types: the actuators stay within their limits (actuator_controller.py:103-108).
TypeOK ==
  /\ yaw \in 0 .. Circle - 1 /\ yawTarget \in 0 .. Circle
  /\ pitch \in 0 .. PitchMax /\ pitchTarget \in 0 .. PitchMax
  /\ eStop \in BOOLEAN
  /\ \A c \in Conns :
       /\ connected[c] \in BOOLEAN /\ cut[c] \in 0 .. MaxCuts
       /\ pc[c] \in {"idle", "delay", "reply"}
       /\ wait[c] \in 0 .. Delay
       /\ verdict[c] \in {"ack", "nack"}
       /\ cur[c].n \in 0 .. MaxCmds
       /\ Len(recent[c]) <= RateLimit
       /\ \A i, j \in DOMAIN recent[c] : i < j => recent[c][i] >= recent[c][j]
       /\ Len(inbox[c]) <= MaxCmds

\* Once an emergency stop is engaged no later or concurrent command undoes it:
\* the yaw stays, the pitch goes nowhere but to the feathered position
\* (actuator_controller.py:71, 81, 86-90, 96-98).
StopIsFinal ==
  [][eStop => /\ eStop' /\ pitchTarget' = PitchMax
              /\ yaw' = yaw /\ yawTarget' = yawTarget /\ pitch' >= pitch]_vars

\* The nacelle never turns away from its target, on either side of north
\* (actuator_controller.py:101-103).
YawDistance(a, t) == LET d == (t - a) % Circle IN Smaller(d, Circle - d)

YawApproaches ==
  [][YawDistance(yaw', yawTarget') <= YawDistance(yaw, yawTarget)
       \/ yawTarget' # yawTarget]_vars

\* A client that stays connected is answered at most once for each command, in
\* the order it sent them, and for every one that has been handled unless a frame
\* to it was cut short; an emergency stop is never refused, and is engaged when
\* its answer goes out (actuator_controller.py:86-91, 180, 205-217, 249-264,
\* 292-297).
OneAnswerEach ==
  \A c \in Conns : connected[c] =>
    LET handled == Len(log[c]) - Len(inbox[c]) - (IF pc[c] = "idle" THEN 0 ELSE 1)
        asked == {n \in 1 .. handled : log[c][n] # "other"}
        answered == {answers[c][i].n : i \in DOMAIN answers[c]}
    IN /\ answered \subseteq asked /\ (cut[c] > 0 \/ answered = asked)
       /\ \A i, j \in DOMAIN answers[c] : i < j => answers[c][i].n < answers[c][j].n
       /\ \A i \in DOMAIN answers[c] :
            log[c][answers[c][i].n] = "stop" => answers[c][i].verdict = "ack" /\ eStop

\* No command, and so no emergency stop, is refused by the rate limit of
\* _rate_ok: the sleep in _dispatch keeps each connection below it
\* (actuator_controller.py:222-228, 281-290).
NeverRateLimited ==
  \A c \in Conns : \A i \in DOMAIN answers[c] : answers[c][i].verdict # "rate_limit"

\* An emergency stop that was sent feathers the blades, however slow the
\* commands queued before it, unless the connection breaks.
StopFeathers ==
  \A c \in Conns :
    (\E i \in DOMAIN inbox[c] : inbox[c][i].kind = "stop")
      ~> ((eStop /\ pitch = PitchMax) \/ ~connected[c])
=============================================================================
