----------------------------- MODULE CommandLog -----------------------------
(* What becomes of the commands the ground station sends, as the frames on  *)
(* each connection, the log of the calls and that of the commands executed  *)
(* show it.  CommandStream says how the two programs make them.             *)
EXTENDS Integers, Sequences, Functions

CONSTANT Size    \* units of a frame

VARIABLES
  open,      \* connections neither end has closed and nothing has broken
  net, buf,  \* connection -> units under way; the handler's buf
  sends,     \* history: command -> its connection, units written, result
  executed   \* history: the commands dispatched, with their connections

\* A unit is a command and its place in the frame.
Before(u, v) == u[1] < v[1] \/ (u[1] = v[1] /\ u[2] < v[2])
InOrder(s)   == \A i, j \in DOMAIN s : i < j => Before(s[i], s[j])

\* No command is executed twice, and those of one connection only in the order
\* of the calls, whatever was cut short before them and however the bytes came
\* apart (actuator_controller.py:205-217).
OnceInOrder ==
  \A i, j \in DOMAIN executed : i < j =>
    /\ executed[i].cmd # executed[j].cmd
    /\ executed[i].conn = executed[j].conn => executed[i].cmd < executed[j].cmd

\* A command whose send returned False is never executed, though part of it may
\* have been written and the frames after it may make up the length
\* (control_station.py:254-259).
FailedNeverExecuted ==
  \A i \in DOMAIN executed : sends[executed[i].cmd].ok

Torn(c) == \E i \in DOMAIN sends :
             sends[i].conn = c /\ ~sends[i].ok /\ sends[i].units > 0

\* What was written whole on a connection and is still to be executed.
Waiting(c) == {m \in DOMAIN sends : /\ sends[m].conn = c /\ sends[m].ok
                                    /\ [conn |-> c, cmd |-> m] \notin Range(executed)}

\* Until a write is cut short on a connection, the stream on it is the frames of
\* the commands that wait, one after the other and each of them whole: none is
\* lost or read across a boundary (control_station.py:255,
\* actuator_controller.py:207-217).
InStepUntilTorn ==
  \A c \in open : ~Torn(c) => LET stream == buf[c] \o net[c] IN
    /\ Range(stream) = Waiting(c) \X (1 .. Size)
    /\ InOrder(stream)
=============================================================================
