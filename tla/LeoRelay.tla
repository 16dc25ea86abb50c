------------------------------ MODULE LeoRelay ------------------------------
(* The satellite relay of src/satellite/leo_relay.py (class LEORelay) with  *)
(* the channel of src/protocol/channel_model.py behind it: the receive loop *)
(* queues each frame by direction, and one drain thread per direction takes *)
(* the frames out, drops those too old, waits while the satellite is below  *)
(* the horizon and passes the others through LEOChannel.transmit.           *)
(*                                                                          *)
(* Time goes by in ticks, coarse against a thread's step: a tick passes     *)
(* only when no drain thread has something to do at once.  One exception    *)
(* is kept, because the code looks at the orbit twice: the satellite may    *)
(* set between the look of the drain thread and the look of transmit.       *)
EXTENDS Integers, Sequences, Functions

CONSTANTS Period,    \* ticks of an orbit (LEO_ORBITAL_PERIOD_S)
          Vis,       \* ticks of a pass over the station (LEO_VISIBILITY_WINDOW_S)
          MaxAge,    \* BLACKOUT_MAX_AGE_S in ticks
          MaxFrames  \* bound of the model: frames that arrive in one behaviour

ASSUME RelayConstants == /\ Period \in Nat /\ Vis \in Nat
                         /\ 0 < Vis /\ Vis < Period
                         /\ MaxAge \in Nat /\ MaxFrames \in Nat

\* A tick is shorter than a pass and no longer than the age limit (600 s and
\* 120 s, config.py:33, leo_relay.py:43): else one setting satellite could make
\* several frames too old.
ASSUME ShortTicks == 1 < Vis /\ 0 < MaxAge

Directions == {"up", "down"}
Sources    == {"turbine", "other"}

VARIABLES
  running,   \* _running
  phase,     \* OrbitalClock._phase, in ticks
  queue,     \* direction -> _up_queue or _down_queue, with the frames' ages
  pc, hand,  \* direction -> where the drain thread is; the frame it took
  txCount, lostCount,  \* LEOChannel._tx_count, _lost_count
  log,       \* history: the sources of the frames queued, in order
  out,       \* history: direction -> numbers of the frames forwarded
  sendErrors,  \* history: how many sendto calls failed
  handed     \* history: direction -> frames given to the channel in this pass

statVars == <<txCount, lostCount>>
histVars == <<log, out, sendErrors, handed>>
vars == <<running, phase, queue, pc, hand, statVars, histVars>>

Blackout == Period - Vis

\* A frame is known by its place in log.  The bound on the ages says that none
\* outlives the age limit by more than a blackout.
Item == [n : 1 .. MaxFrames, age : 0 .. MaxAge + Blackout]

\* An empty hand: the drain thread looks at no earlier frame again.
NoItem == [n |-> 0, age |-> 0]

----------------------------------------------------------------------------
(* Helpers                                                                  *)

MutantRest(q)            == q
MutantLossesOf(blackout) == IF blackout THEN 0 ELSE 1
MutantExpired(item)      == item.age > MaxAge + Period
MutantNextPhase(p)       == IF p + 1 < Period THEN p + 1 ELSE p

Visible == phase < Vis

NextPhase(p) == (p + 1) % Period

Route(src) == IF src = "turbine" THEN "up" ELSE "down"

Expired(item) == item.age > MaxAge

\* Bound of the model: older than any frame gets (TypeOK), and all the same
\* to the code from MaxAge on.
AgeCap == MaxAge + Period + 2

Older(item) == [item EXCEPT !.age = IF @ < AgeCap THEN @ + 1 ELSE @]

Rest(q) == Tail(q)

\* transmit counts a frame as lost whether the blackout or the link took it.
LossesOf(blackout) == 1

Goto(d, place) == pc' = [pc EXCEPT ![d] = place]

\* The drain thread is through with its frame, whatever became of it.
Finish(d) == Goto(d, "get") /\ hand' = [hand EXCEPT ![d] = NoItem]

----------------------------------------------------------------------------
Init == /\ running = TRUE /\ phase = 0
        /\ queue = [d \in Directions |-> << >>]
        /\ pc = [d \in Directions |-> "get"]
        /\ hand = [d \in Directions |-> NoItem]
        /\ txCount = 0 /\ lostCount = 0
        /\ log = << >> /\ sendErrors = 0
        /\ out = [d \in Directions |-> << >>]
        /\ handed = [d \in Directions |-> 0]

\* _recv_loop: a well-formed datagram is queued by the port it came from; a
\* malformed one changes nothing.
Arrive(src) ==
  /\ running /\ Len(log) < MaxFrames
  /\ log' = Append(log, src)
  /\ queue' = [queue EXCEPT ![Route(src)] =
                 Append(@, [n |-> Len(log) + 1, age |-> 0])]
  /\ UNCHANGED <<running, phase, pc, hand, statVars, out, sendErrors, handed>>

\* _queue_drain takes the oldest frame and drops it if it is too old.
Get(d) ==
  /\ pc[d] = "get" /\ running /\ queue[d] # << >>
  /\ queue' = [queue EXCEPT ![d] = Rest(@)]
  /\ LET item == Head(queue[d]) IN
       IF Expired(item) THEN UNCHANGED <<pc, hand>>
       ELSE Goto(d, "wait") /\ hand' = [hand EXCEPT ![d] = item]
  /\ UNCHANGED <<running, phase, statVars, histVars>>

\* The end of the blackout wait.
SeeVisible(d) ==
  /\ pc[d] = "wait" /\ running /\ Visible
  /\ Goto(d, "count")
  /\ handed' = [handed EXCEPT ![d] = @ + 1]
  /\ UNCHANGED <<running, phase, queue, hand, statVars, log, out, sendErrors>>

\* transmit counts the frame before it looks at the orbit itself.
CountTx(d) ==
  /\ pc[d] = "count"
  /\ txCount' = txCount + 1
  /\ Goto(d, "check")
  /\ UNCHANGED <<running, phase, queue, hand, lostCount, histVars>>

CheckVisible(d) ==
  /\ pc[d] = "check"
  /\ IF Visible
     THEN Goto(d, "air") /\ UNCHANGED <<lostCount, hand>>
     ELSE Finish(d) /\ lostCount' = lostCount + LossesOf(TRUE)
  /\ UNCHANGED <<running, phase, queue, txCount, histVars>>

LinkLoses(d) ==
  /\ pc[d] = "air"
  /\ Finish(d) /\ lostCount' = lostCount + LossesOf(FALSE)
  /\ UNCHANGED <<running, phase, queue, txCount, histVars>>

\* The frame, perhaps with a bit flipped, goes to its destination, or sendto
\* raises OSError, as it does once stop() has closed the socket.
Forward(d) ==
  /\ pc[d] = "air"
  /\ \/ out' = [out EXCEPT ![d] = Append(@, hand[d].n)] /\ UNCHANGED sendErrors
     \/ sendErrors' = sendErrors + 1 /\ UNCHANGED out
  /\ Finish(d)
  /\ UNCHANGED <<running, phase, queue, statVars, log, handed>>

\* After stop() the drain thread leaves its loop at the next test of _running.
Exit(d) ==
  /\ pc[d] \in {"get", "wait"} /\ ~running
  /\ Goto(d, "done")
  /\ hand' = [hand EXCEPT ![d] = NoItem]
  /\ UNCHANGED <<running, phase, queue, statVars, histVars>>

Stop == /\ running
        /\ running' = FALSE
        /\ UNCHANGED <<phase, queue, pc, hand, statVars, histVars>>

\* The drain thread has nothing to do before the next tick.
Idle(d) == \/ pc[d] = "get" /\ queue[d] = << >>
           \/ pc[d] = "wait" /\ ~Visible
           \/ pc[d] = "done"

\* The look of transmit still to come, as the satellite sets.
Surprised(d) == pc[d] \in {"count", "check"} /\ phase = Vis - 1

\* The orbit goes on, and what is queued or in hand grows older.  After stop()
\* time matters only to a look still to come.
Tick ==
  /\ running \/ \E d \in Directions : Surprised(d)
  /\ \A d \in Directions : Idle(d) \/ Surprised(d)
  /\ phase' = NextPhase(phase)
  /\ queue' = [d \in Directions |-> [i \in DOMAIN queue[d] |-> Older(queue[d][i])]]
  /\ hand' = [d \in Directions |->
                IF hand[d] = NoItem THEN NoItem ELSE Older(hand[d])]
  /\ handed' = IF phase' = 0 THEN [d \in Directions |-> 0] ELSE handed
  /\ UNCHANGED <<running, pc, statVars, log, out, sendErrors>>

Drain(d) == \/ Get(d) \/ SeeVisible(d) \/ CountTx(d) \/ CheckVisible(d)
            \/ LinkLoses(d) \/ Forward(d) \/ Exit(d)

Next == \/ \E src \in Sources : Arrive(src)
        \/ \E d \in Directions : Drain(d)
        \/ Stop \/ Tick

\* Threads that can run do run, and the satellite keeps moving.
Spec == /\ Init /\ [][Next]_vars
        /\ WF_vars(Tick) /\ \A d \in Directions : WF_vars(Drain(d))

----------------------------------------------------------------------------
(* Properties                                                               *)

InFlight(d) == pc[d] \in {"count", "check", "air"}

\* Types, the ages included, and the drain thread's program counter against its
\* local variables (leo_relay.py:129-163).
TypeOK ==
  /\ running \in BOOLEAN
  /\ phase \in 0 .. Period - 1
  /\ \A d \in Directions :
       /\ queue[d] \in Seq(Item)
       /\ hand[d] \in Item \cup {NoItem}
       /\ (hand[d] = NoItem) = (pc[d] \in {"get", "done"})
       /\ pc[d] \in {"get", "wait", "count", "check", "air", "done"}
       /\ out[d] \in Seq(1 .. MaxFrames)
       /\ handed[d] \in 0 .. MaxFrames
  /\ txCount \in 0 .. MaxFrames /\ lostCount \in 0 .. MaxFrames
  /\ log \in Seq(Sources) /\ sendErrors \in 0 .. MaxFrames

\* Each direction delivers frames of its own, in the order they came in, and
\* none of them twice (leo_relay.py:114-122, 137, 154-160).
InOrderOnce ==
  \A d \in Directions :
    /\ \A i \in DOMAIN out[d] : (d = "up") = (log[out[d][i]] = "turbine")
    /\ \A i, j \in DOMAIN out[d] : i < j => out[d][i] < out[d][j]

\* What has entered a direction, and what of it is in hand and in the queue.
Entered  == [d \in Directions |-> {n \in DOMAIN log : Route(log[n]) = d}]
InHand(d) == IF hand[d] = NoItem THEN << >> ELSE <<hand[d].n>>
Underway == [d \in Directions |->
               InHand(d) \o [i \in DOMAIN queue[d] |-> queue[d][i].n]]

\* Each direction is a channel that may lose a frame; whatever the drain thread,
\* the orbit and stop() do to it, a frame is neither repeated nor overtaken
\* (leo_relay.py:114-163).
Channels == INSTANCE LossyChannels
              WITH Direction <- Directions, Message <- 1 .. MaxFrames,
                   entered <- Entered, underway <- Underway, delivered <- out

ChannelSafety == Channels!Spec

\* The counters the two threads share add up: what was transmitted was lost,
\* forwarded, failed in sendto or is still on its way (channel_model.py:203-228).
StatsAddUp ==
  txCount = lostCount + sendErrors + Len(out["up"]) + Len(out["down"])
            + (IF pc["up"] \in {"check", "air"} THEN 1 ELSE 0)
            + (IF pc["down"] \in {"check", "air"} THEN 1 ELSE 0)

\* The age is tested before the wait (leo_relay.py:141-148), so a frame can be
\* transmitted past its age; but only the one frame a drain thread had in its
\* hand during the blackout, and it is at most a blackout older than allowed.
StaleAtMostOne ==
  \A d \in Directions :
    (InFlight(d) /\ hand[d].age > MaxAge)
      => handed[d] = 1 /\ hand[d].age <= MaxAge + Blackout

\* Every frame leaves the relay, one way or another, unless it is stopped
\* (leo_relay.py:129-163).
Pending(n) == \E d \in Directions :
                \/ \E i \in DOMAIN queue[d] : queue[d][i].n = n
                \/ hand[d].n = n

EveryFrameLeaves ==
  \A n \in 1 .. MaxFrames : Pending(n) ~> (~Pending(n) \/ ~running)
=============================================================================
