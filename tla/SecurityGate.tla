---------------------------- MODULE SecurityGate ----------------------------
(* The security gate of src/bonus/security.py (class SecurityGate): the     *)
(* rate limiter, the replay detector and the anomaly detector, one after    *)
(* the other, each under a lock of its own.  Several threads check frames   *)
(* at once, and a frame may come again and again.  A tick of the clock is   *)
(* long compared to a call: time passes between calls, not within one.      *)
EXTENDS GateLog, Functions

CONSTANTS Frames,       \* the frames there are, each of a source
          MaxAngle, MaxStep,    \* the limits of an angle and of its change per tick
          MaxTime, MaxChecks    \* bounds of the model

GateConstants ==
  /\ RateMax \in Nat /\ RateWindow \in Nat /\ ReplayWindow \in Nat
  /\ MaxAngle \in Nat /\ MaxStep \in Nat /\ MaxTime \in Nat /\ MaxChecks \in Nat

Sources == {f.src : f \in Frames}
Kinds   == {"yaw", "pitch"}

VARIABLES
  allowed,  \* source -> times in RateLimiter._hist
  seen,     \* ReplayDetector._seen: keys with the time they were first seen
  last      \* kind -> source -> _last_yaw and _last_pitch

vars == <<now, allowed, seen, last, stage, hand, log>>

NoFrame == [src |-> "none", seq |-> 0, kind |-> "none", angle |-> 0]
NoAngle == [angle |-> 0, at |-> -1]

MutantOrder          == <<"replay", "rate", "anomaly">>
MutantRecent(times)  == << >>
MutantFresh(f)       == \A e \in seen : e.key # Key(f) \/ now - e.at >= ReplayWindow

Order == <<"rate", "replay", "anomaly">>

\* The timestamps of the last second; the oldest come first.
Recent(times) ==
  LET gone == Cardinality({i \in DOMAIN times : now - times[i] >= RateWindow})
  IN [i \in 1 .. Len(times) - gone |-> times[gone + i]]

Pruned == {e \in seen : now - e.at <= ReplayWindow}

Fresh(f) == \A e \in Pruned : e.key # Key(f)

Distance(a, b) == IF a < b THEN b - a ELSE a - b

Plausible(f) ==
  LET prev == last[f.kind][f.src]
      dt   == now - prev.at
  IN /\ f.angle \in 0 .. MaxAngle
     /\ (prev # NoAngle /\ dt > 0) => Distance(f.angle, prev.angle) <= MaxStep * dt

----------------------------------------------------------------------------
Init == /\ now = 0
        /\ allowed = [s \in Sources |-> << >>]
        /\ seen = {}
        /\ last = [k \in Kinds |-> [s \in Sources |-> NoAngle]]
        /\ stage = [t \in Threads |-> 0]
        /\ hand = [t \in Threads |-> NoFrame]
        /\ log = << >>

Begin(t, f) ==
  /\ stage[t] = 0 /\ Len(log) < MaxChecks
  /\ stage' = [stage EXCEPT ![t] = 1]
  /\ hand' = [hand EXCEPT ![t] = f]
  /\ UNCHANGED <<now, allowed, seen, last, log>>

At(t, part) == stage[t] > 0 /\ Order[stage[t]] = part

End(t, verdict) ==
  /\ stage' = [stage EXCEPT ![t] = 0]
  /\ hand' = [hand EXCEPT ![t] = NoFrame]
  /\ log' = Append(log, [key |-> Key(hand[t]), kind |-> hand[t].kind,
                         angle |-> hand[t].angle, verdict |-> verdict, at |-> now])

\* On to the next part if this one has no objection, or out.
Judge(t, ok, part) ==
  IF ~ok THEN End(t, part)
  ELSE IF stage[t] = Len(Order) THEN End(t, "ok")
  ELSE stage' = [stage EXCEPT ![t] = @ + 1] /\ UNCHANGED <<hand, log>>

\* RateLimiter.allow
CheckRate(t) ==
  /\ At(t, "rate")
  /\ LET src == hand[t].src
         ts  == Recent(allowed[src])
         ok  == Len(ts) < RateMax
     IN /\ allowed' = [allowed EXCEPT ![src] = IF ok THEN Append(ts, now) ELSE ts]
        /\ Judge(t, ok, "rate")
  /\ UNCHANGED <<now, seen, last>>

\* ReplayDetector.check
CheckReplay(t) ==
  /\ At(t, "replay")
  /\ seen' = Pruned \cup (IF Fresh(hand[t]) THEN {[key |-> Key(hand[t]), at |-> now]}
                          ELSE {})
  /\ Judge(t, Fresh(hand[t]), "replay")
  /\ UNCHANGED <<now, allowed, last>>

\* AnomalyDetector._check_angle: what it refuses it remembers all the same.  A
\* command that cannot be read is refused; one without an angle passes.
CheckAnomaly(t) ==
  /\ At(t, "anomaly")
  /\ LET f == hand[t] IN
       IF f.kind \in Kinds
       THEN /\ last' = [last EXCEPT ![f.kind][f.src] = [angle |-> f.angle, at |-> now]]
            /\ Judge(t, Plausible(f), "anomaly")
       ELSE Judge(t, f.kind # "unreadable", "anomaly") /\ UNCHANGED last
  /\ UNCHANGED <<now, allowed, seen>>

Tick == /\ now < MaxTime /\ \A t \in Threads : stage[t] = 0
        /\ now' = now + 1
        /\ UNCHANGED <<allowed, seen, last, stage, hand, log>>

Next == \/ \E t \in Threads : \/ \E f \in Frames : Begin(t, f)
                              \/ CheckRate(t) \/ CheckReplay(t) \/ CheckAnomaly(t)
        \/ Tick

Spec == Init /\ [][Next]_vars

----------------------------------------------------------------------------
(* Properties                                                               *)

TypeOK ==
  /\ now \in 0 .. MaxTime
  /\ \A s \in Sources : /\ Len(allowed[s]) <= RateMax
                        /\ Range(allowed[s]) \subseteq 0 .. now
  /\ \A e \in seen : e.key \in {Key(f) : f \in Frames} /\ e.at \in 0 .. now
  /\ \A k \in Kinds, s \in Sources : last[k][s].at \in -1 .. now
  /\ \A t \in Threads : stage[t] \in 0 .. Len(Order) /\ hand[t] \in Frames \cup {NoFrame}
=============================================================================
