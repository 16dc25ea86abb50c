---------------------------- MODULE CommandStream ----------------------------
(* The way of a command from the ground station to the actuator controller: *)
(* _send_tcp and the connect and receive loops of                           *)
(* src/ground/control_station.py, TCP, and the accept loop, client handlers *)
(* and framing of src/turbine/actuator_controller.py.  What a command does  *)
(* there is in Actuator; here it is executed when it gets to _dispatch.     *)
(*                                                                          *)
(* A frame is Size units on the wire, the second of which holds its length. *)
(* The commands are numbered in the order of the calls.  The answers of the *)
(* controller are only logged by the station and are left out.              *)
EXTENDS CommandLog, FiniteSets

CONSTANTS MinSize,    \* units of the shortest frame (_HEADER_BYTES + _CRC_BYTES)
          Bogus,      \* frame ends that other units may spell, read as a length
          MaxConns,   \* bound of the model: connections
          MaxCmds     \* bound of the model: commands

StreamConstants ==
  /\ Size \in Nat /\ MinSize \in 2 .. Size
  /\ Bogus \subseteq {n \in Nat : n >= MinSize}
  /\ MaxConns \in Nat /\ MaxCmds \in Nat

Conns == 1 .. MaxConns
Cmds  == 1 .. MaxCmds

VARIABLES
  gsRunning, acRunning,  \* _running of the two programs
  dialing,   \* _tcp_connect is between its look at _running and connect
  conn,      \* _tcp_conn: a connection, 0 for None
  handler,   \* connection -> its place at the actuator
  bogus      \* place in a frame -> the frame end its unit spells

stationVars  == <<gsRunning, dialing, conn, sends>>
actuatorVars == <<acRunning, handler, buf, executed>>
vars == <<stationVars, actuatorVars, open, net, bogus>>

FrameOf(m) == [i \in 1 .. Size |-> <<m, i>>]

MutantFrameEnd(b) == IF b[2][2] = 2 THEN Size - 1 ELSE bogus[b[2][2]]
MutantValid(raw)  == raw[1][2] = 1 /\ raw[2] = <<raw[1][1], 2>>
MutantRest(b)     == b
MutantReadOver    == conn \notin open

\* The end of the frame at the head of the buffer, read where its length should
\* be, which another unit has taken if the reader is out of step.
FrameEnd(b) == IF b[2][2] = 2 THEN Size ELSE bogus[b[2][2]]

Ready(c) == Len(buf[c]) >= MinSize /\ Len(buf[c]) >= FrameEnd(buf[c])

\* parse_frame: mark, length and CRC agree only for a whole frame.
Valid(raw) == raw = FrameOf(raw[1][1])

Rest(b) == SubSeq(b, FrameEnd(b) + 1, Len(b))

\* EOF or an OSError ends _tcp_recv_loop, and so does stop().
ReadOver == conn \notin open \/ ~gsRunning

Made == Cardinality({c \in Conns : handler[c] # "none"})

----------------------------------------------------------------------------
Init == /\ gsRunning = TRUE /\ acRunning = TRUE
        /\ dialing = FALSE /\ conn = 0 /\ open = {}
        /\ handler = [c \in Conns |-> "none"]
        /\ net = [c \in Conns |-> << >>] /\ buf = [c \in Conns |-> << >>]
        /\ bogus \in [(1 .. Size) \ {2} -> Bogus]
        /\ sends = << >> /\ executed = << >>

(* The ground station.                                                      *)

\* _tcp_connect, in three steps: stop() may come between them.
Dial == /\ gsRunning /\ conn = 0 /\ ~dialing
        /\ dialing' = TRUE
        /\ UNCHANGED <<gsRunning, conn, sends, actuatorVars, open, net, bogus>>

\* The connection is in the controller's backlog and becomes _tcp_conn.
Connect ==
  /\ dialing /\ acRunning /\ Made < MaxConns
  /\ dialing' = FALSE
  /\ conn' = Made + 1
  /\ open' = open \cup {Made + 1}
  /\ handler' = [handler EXCEPT ![Made + 1] = "backlog"]
  /\ UNCHANGED <<gsRunning, acRunning, net, buf, bogus, sends, executed>>

\* Refused, or timed out: again in 3 s.
DialFails == /\ dialing
             /\ dialing' = FALSE
             /\ UNCHANGED <<gsRunning, conn, sends, actuatorVars, open, net, bogus>>

\* The receive loop ends, and with it the connection.
ReadEnds ==
  /\ conn # 0 /\ ReadOver
  /\ conn' = 0
  /\ open' = open \ {conn}
  /\ UNCHANGED <<gsRunning, dialing, sends, actuatorVars, net, bogus>>

\* k units of the frame are written on connection c.
Record(c, k, ok) == sends' = Append(sends, [conn |-> c, units |-> k, ok |-> ok])

\* _send_tcp.  sendall writes the whole frame, or part of it before the time-out
\* or an error; the connection is kept.  What is written to one that has broken
\* goes nowhere.
Send ==
  /\ Len(sends) < MaxCmds
  /\ \/ conn \notin open /\ Record(conn, 0, FALSE) /\ UNCHANGED net
     \/ /\ conn # 0 /\ conn \notin open /\ gsRunning
        /\ Record(conn, Size, TRUE) /\ UNCHANGED net
     \/ /\ conn \in open
        /\ \E k \in 0 .. Size :
             /\ Record(conn, k, k = Size)
             /\ net' = [net EXCEPT ![conn] = @ \o SubSeq(FrameOf(Len(sends) + 1), 1, k)]
  /\ UNCHANGED <<gsRunning, dialing, conn, actuatorVars, open, bogus>>

\* The socket is closed, what was written still arrives.
StationStop == /\ gsRunning
               /\ gsRunning' = FALSE /\ open' = open \ {conn}
               /\ UNCHANGED <<dialing, conn, sends, actuatorVars, net, bogus>>

(* The actuator controller.                                                 *)

Accept(c) == /\ acRunning /\ handler[c] = "backlog"
             /\ handler' = [handler EXCEPT ![c] = "running"]
             /\ UNCHANGED <<stationVars, acRunning, buf, executed, open, net, bogus>>

\* recv returns some of the units that have arrived; one under way when stop()
\* comes still does.
Recv(c) ==
  /\ handler[c] = "running" /\ ~Ready(c)
  /\ \E k \in 1 .. Len(net[c]) :
       /\ buf' = [buf EXCEPT ![c] = @ \o SubSeq(net[c], 1, k)]
       /\ net' = [net EXCEPT ![c] = SubSeq(@, k + 1, Len(@))]
  /\ UNCHANGED <<stationVars, acRunning, handler, executed, open, bogus>>

\* One turn of the loop in _process_buffer.
TakeFrame(c) ==
  /\ handler[c] = "running" /\ Ready(c)
  /\ LET raw == SubSeq(buf[c], 1, FrameEnd(buf[c])) IN
       executed' = IF Valid(raw)
                   THEN Append(executed, [conn |-> c, cmd |-> raw[1][1]])
                   ELSE executed
  /\ buf' = [buf EXCEPT ![c] = Rest(@)]
  /\ UNCHANGED <<stationVars, acRunning, handler, open, net, bogus>>

\* EOF, an error or stop() ends a handler, which closes its connection.
HandlerEnds(c) ==
  /\ handler[c] = "running" /\ ~Ready(c)
  /\ ~acRunning \/ (c \notin open /\ net[c] = << >>)
  /\ handler' = [handler EXCEPT ![c] = "ended"]
  /\ open' = open \ {c}
  /\ net' = [net EXCEPT ![c] = << >>]
  /\ buf' = [buf EXCEPT ![c] = << >>]
  /\ UNCHANGED <<stationVars, acRunning, executed, bogus>>

\* The listening socket goes, with the connections nobody has accepted.
ActuatorStop ==
  /\ acRunning
  /\ acRunning' = FALSE
  /\ open' = open \ {c \in Conns : handler[c] = "backlog"}
  /\ UNCHANGED <<stationVars, handler, buf, executed, net, bogus>>

\* The connection breaks, and with it what has not arrived.
Break(c) ==
  /\ c \in open
  /\ open' = open \ {c}
  /\ \E k \in 0 .. Len(net[c]) : net' = [net EXCEPT ![c] = SubSeq(@, 1, k)]
  /\ UNCHANGED <<stationVars, actuatorVars, bogus>>

Handler(c) == Accept(c) \/ Recv(c) \/ TakeFrame(c) \/ HandlerEnds(c)

Next == \/ Dial \/ Connect \/ DialFails \/ ReadEnds \/ Send \/ StationStop \/ ActuatorStop
        \/ \E c \in Conns : Handler(c) \/ Break(c)

\* The receive loop looks at _running at least every 2 s, and connect gives up
\* after 5 s.  Nothing else needs to go on.
Spec == /\ Init /\ [][Next]_vars
        /\ WF_vars(ReadEnds) /\ WF_vars(Connect \/ DialFails)

----------------------------------------------------------------------------
(* Properties                                                               *)

TypeOK ==
  /\ gsRunning \in BOOLEAN /\ acRunning \in BOOLEAN /\ dialing \in BOOLEAN
  /\ conn \in 0 .. Made /\ open \subseteq Conns
  /\ handler \in [Conns -> {"none", "backlog", "running", "ended"}]
  /\ \A c \in Conns : Range(net[c]) \cup Range(buf[c]) \subseteq Cmds \X (1 .. Size)
  /\ Range(sends) \subseteq [conn : 0 .. MaxConns, units : 0 .. Size, ok : BOOLEAN]
  /\ Range(executed) \subseteq [conn : Conns, cmd : Cmds]

\* Once the station is stopped, it gives up its connection for good, also one
\* that _tcp_connect makes when stop() has already looked for one to close
\* (control_station.py:100-103, 177-190).
StopGivesUp == ~gsRunning ~> (conn = 0 /\ open = {} /\ ~dialing)
=============================================================================
