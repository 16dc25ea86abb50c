--------------------------- MODULE LeoRelayProofs ---------------------------
(* Theorems about LeoRelay, for any orbit, any age limit and any number of  *)
(* frames: the shared counters add up, each direction forwards its own      *)
(* frames once and in order, at most one frame in a pass is too old, and    *)
(* each direction implements a channel that loses messages.                 *)
EXTENDS LeoRelay, TLAPS

Rec == [n : Nat, age : Nat]

\* The shapes the arguments need; the ages are left to TLC.
Shape == /\ pc \in [Directions -> {"get", "wait", "count", "check", "air", "done"}]
         /\ txCount \in Nat /\ lostCount \in Nat /\ sendErrors \in Nat
         /\ out \in [Directions -> Seq(Nat)]
         /\ queue \in [Directions -> Seq(Rec)]
         /\ hand \in [Directions -> Rec]
         /\ log \in Seq(Sources)

LEMMA OlderRec == ASSUME NEW item \in Rec
                  PROVE  Older(item) \in Rec /\ Older(item).n = item.n
<1>1. AgeCap \in Int BY RelayConstants DEF AgeCap
<1> QED BY <1>1 DEF Rec, Older

LEMMA NoItemRec == NoItem \in Rec
BY DEF NoItem, Rec

LEMMA ShapeInit == Init => Shape
BY NoItemRec DEF Init, Shape

LEMMA ShapeStep == Shape /\ [Next]_vars => Shape'
<1> SUFFICES ASSUME Shape, [Next]_vars PROVE Shape'
    OBVIOUS
<1> USE NoItemRec
<1>1. ASSUME NEW src \in Sources, Arrive(src) PROVE Shape'
  <2>1. Route(src) \in Directions BY DEF Route, Directions
  <2>2. [n |-> Len(log) + 1, age |-> 0] \in Rec BY DEF Shape, Rec
  <2>3. queue' \in [Directions -> Seq(Rec)] BY <1>1, <2>1, <2>2 DEF Arrive, Shape
  <2> QED BY <1>1, <2>3 DEF Arrive, Shape, statVars
<1>2. ASSUME NEW d \in Directions, Get(d) PROVE Shape'
  <2>1. Head(queue[d]) \in Rec /\ Tail(queue[d]) \in Seq(Rec)
        BY <1>2 DEF Get, Shape
  <2>2. queue' \in [Directions -> Seq(Rec)] BY <1>2, <2>1 DEF Get, Rest, Shape
  <2>3. hand' \in [Directions -> Rec] BY <1>2, <2>1 DEF Get, Shape
  <2>4. pc' \in [Directions -> {"get", "wait", "count", "check", "air", "done"}]
        BY <1>2 DEF Get, Goto, Shape
  <2> QED BY <1>2, <2>2, <2>3, <2>4 DEF Get, Shape, statVars, histVars
<1>3. ASSUME NEW d \in Directions, SeeVisible(d) PROVE Shape'
      BY <1>3 DEF SeeVisible, Goto, Shape, statVars
<1>4. ASSUME NEW d \in Directions, CountTx(d) PROVE Shape'
      BY <1>4 DEF CountTx, Goto, Shape, histVars
<1>5. ASSUME NEW d \in Directions, CheckVisible(d) PROVE Shape'
  <2>1. CASE Visible BY <1>5, <2>1 DEF CheckVisible, Goto, Shape, histVars
  <2>2. CASE ~Visible
    <3>1. lostCount' = lostCount + 1 /\ lostCount \in Nat
          BY <1>5, <2>2 DEF CheckVisible, LossesOf, Shape
    <3>2. lostCount' \in Nat BY <3>1
    <3>3. /\ pc' \in [Directions -> {"get", "wait", "count", "check", "air", "done"}]
          /\ hand' \in [Directions -> Rec]
          BY <1>5, <2>2 DEF CheckVisible, Finish, Goto, Shape
    <3> QED BY <1>5, <3>2, <3>3 DEF CheckVisible, Shape, histVars
  <2> QED BY <2>1, <2>2
<1>6. ASSUME NEW d \in Directions, LinkLoses(d) PROVE Shape'
      BY <1>6 DEF LinkLoses, Finish, Goto, LossesOf, Shape, histVars
<1>7. ASSUME NEW d \in Directions, Forward(d) PROVE Shape'
  <2>1. hand[d].n \in Nat BY DEF Shape, Rec
  <2>2. Append(out[d], hand[d].n) \in Seq(Nat) BY <2>1 DEF Shape
  <2>3. out' \in [Directions -> Seq(Nat)] BY <1>7, <2>2 DEF Forward, Shape
  <2>4. sendErrors' \in Nat BY <1>7 DEF Forward, Shape
  <2>5. /\ pc' \in [Directions -> {"get", "wait", "count", "check", "air", "done"}]
        /\ hand' \in [Directions -> Rec]
        BY <1>7 DEF Forward, Finish, Goto, Shape
  <2> QED BY <1>7, <2>3, <2>4, <2>5 DEF Forward, Shape, statVars
<1>8. ASSUME NEW d \in Directions, Exit(d) PROVE Shape'
      BY <1>8 DEF Exit, Goto, Shape, statVars, histVars
<1>9. CASE Stop BY <1>9 DEF Stop, Shape, statVars, histVars
<1>10. CASE Tick
  <2>1. queue' \in [Directions -> Seq(Rec)]
    <3>1. ASSUME NEW d \in Directions PROVE queue'[d] \in Seq(Rec)
      <4>1. queue[d] \in Seq(Rec) BY DEF Shape
      <4>2. queue'[d] = [i \in 1 .. Len(queue[d]) |-> Older(queue[d][i])]
            BY <1>10, <4>1 DEF Tick
      <4>3. ASSUME NEW i \in 1 .. Len(queue[d]) PROVE Older(queue[d][i]) \in Rec
            BY <4>1, OlderRec
      <4> QED BY <4>1, <4>2, <4>3
    <3> QED BY <1>10, <3>1 DEF Tick
  <2>2. hand' \in [Directions -> Rec]
        BY <1>10, OlderRec DEF Tick, Shape
  <2> QED BY <1>10, <2>1, <2>2 DEF Tick, Shape, statVars
<1>11. CASE UNCHANGED vars BY <1>11 DEF Shape, vars, statVars, histVars
<1> QED BY <1>1, <1>2, <1>3, <1>4, <1>5, <1>6, <1>7, <1>8, <1>9, <1>10, <1>11
        DEF Next, Drain

----------------------------------------------------------------------------
(* The counters                                                             *)

\* What thread d has counted as transmitted and not yet settled.
OnAir == [d \in Directions |-> IF pc[d] \in {"check", "air"} THEN 1 ELSE 0]

\* How many frames have been forwarded, and what is settled: those, the lost
\* ones and the failed ones.
Forwarded == Len(out["up"]) + Len(out["down"])

Settled == lostCount + sendErrors + Forwarded

LEMMA Counts ==
  ASSUME Shape
  PROVE  /\ lostCount \in Nat /\ sendErrors \in Nat /\ txCount \in Nat
         /\ Forwarded \in Nat /\ Settled \in Nat
         /\ OnAir["up"] \in Nat /\ OnAir["down"] \in Nat
<1>1. lostCount \in Nat /\ sendErrors \in Nat /\ txCount \in Nat BY DEF Shape
<1>2. Forwarded \in Nat BY DEF Shape, Directions, Forwarded
<1>3. Settled \in Nat BY <1>1, <1>2 DEF Settled
<1>4. OnAir["up"] \in Nat /\ OnAir["down"] \in Nat BY DEF OnAir, Directions
<1> QED BY <1>1, <1>2, <1>3, <1>4

LEMMA CountsNext == ASSUME Shape' PROVE Settled' \in Nat /\ txCount' \in Nat
<1>1. lostCount' \in Nat /\ sendErrors' \in Nat /\ txCount' \in Nat BY DEF Shape
<1>2. Forwarded' \in Nat BY DEF Shape, Directions, Forwarded
<1>3. PICK l, e, f \in Nat : l = lostCount' /\ e = sendErrors' /\ f = Forwarded'
      BY <1>1, <1>2
<1>4. Settled' = l + e + f BY <1>3 DEF Settled
<1> QED BY <1>1, <1>4

LEMMA StatsAreSums ==
  ASSUME Shape
  PROVE  StatsAddUp = (txCount = Settled + OnAir["up"] + OnAir["down"])
<1>1. Len(out["up"]) \in Nat /\ Len(out["down"]) \in Nat BY DEF Shape, Directions
<1>2. PICK u, v \in Nat : u = Len(out["up"]) /\ v = Len(out["down"]) BY <1>1
<1>3. Settled = lostCount + sendErrors + u + v
  <2>1. Forwarded = u + v BY <1>2 DEF Forwarded
  <2>2. Settled = lostCount + sendErrors + (u + v) BY <2>1 DEF Settled
  <2> QED BY <2>2, Counts
<1>4. PICK x, y \in Nat : x = OnAir["up"] /\ y = OnAir["down"] BY Counts
<1>5. /\ x = IF pc["up"] \in {"check", "air"} THEN 1 ELSE 0
      /\ y = IF pc["down"] \in {"check", "air"} THEN 1 ELSE 0
      BY <1>4 DEF OnAir, Directions
<1>6. StatsAddUp = (txCount = lostCount + sendErrors + u + v + x + y)
      BY <1>2, <1>5 DEF StatsAddUp
<1> QED BY <1>3, <1>4, <1>6

LEMMA StatsAreSumsNext ==
  ASSUME Shape', txCount' = Settled' + OnAir'["up"] + OnAir'["down"]
  PROVE  StatsAddUp'
<1>1. Len(out'["up"]) \in Nat /\ Len(out'["down"]) \in Nat BY DEF Shape, Directions
<1>2. PICK u, v \in Nat : u = Len(out'["up"]) /\ v = Len(out'["down"]) BY <1>1
<1>3. lostCount' \in Nat /\ sendErrors' \in Nat BY DEF Shape
<1>4. Settled' = lostCount' + sendErrors' + u + v
  <2>1. Forwarded' = u + v BY <1>2 DEF Forwarded
  <2>2. Settled' = lostCount' + sendErrors' + (u + v) BY <2>1 DEF Settled
  <2> QED BY <2>2, <1>3
<1>5. OnAir'["up"] \in Nat /\ OnAir'["down"] \in Nat BY DEF OnAir, Directions
<1>6. PICK x, y \in Nat : x = OnAir'["up"] /\ y = OnAir'["down"] BY <1>5
<1>7. /\ x = IF pc'["up"] \in {"check", "air"} THEN 1 ELSE 0
      /\ y = IF pc'["down"] \in {"check", "air"} THEN 1 ELSE 0
      BY <1>6 DEF OnAir, Directions
<1>8. txCount' = lostCount' + sendErrors' + u + v + x + y BY <1>4, <1>6
<1> QED BY <1>2, <1>7, <1>8 DEF StatsAddUp

LEMMA TwoDirections ==
  ASSUME NEW d \in Directions
  PROVE  \E e \in Directions : (d = "up" /\ e = "down") \/ (d = "down" /\ e = "up")
<1> USE DEF Directions
<1>1. CASE d = "up"
  <2> WITNESS "down" \in Directions
  <2> QED BY <1>1
<1>2. CASE d = "down"
  <2> WITNESS "up" \in Directions
  <2> QED BY <1>2
<1> QED BY <1>1, <1>2

LEMMA OneThread ==
  ASSUME Shape, Shape', StatsAddUp, NEW d \in Directions,
         \A e \in Directions : e # d => pc'[e] = pc[e],
         txCount' + OnAir[d] + Settled = txCount + OnAir'[d] + Settled'
  PROVE  StatsAddUp'
<1>2. PICK e \in Directions : (d = "up" /\ e = "down") \/ (d = "down" /\ e = "up")
      BY TwoDirections
<1>3. PICK t, t1, s, s1 \in Int :
        t = txCount /\ t1 = txCount' /\ s = Settled /\ s1 = Settled'
      BY Counts, CountsNext DEF Settled
<1>4. PICK a, a1, b \in Int : a = OnAir[d] /\ a1 = OnAir'[d] /\ b = OnAir[e]
      BY DEF OnAir
<1>5. b = OnAir'[e]
  <2>1. e # d BY <1>2
  <2>2. pc'[e] = pc[e] BY <2>1
  <2> QED BY <2>2, <1>4 DEF OnAir
<1>6. t = s + a + b
  <2>1. txCount = Settled + OnAir["up"] + OnAir["down"] BY StatsAreSums
  <2>2. t = s + a + b \/ t = s + b + a BY <2>1, <1>2, <1>3, <1>4
  <2> QED BY <2>2
<1>7. t1 + a + s = t + a1 + s1 BY <1>3, <1>4
<1>8. t1 = s1 + a1 + b /\ t1 = s1 + b + a1 BY <1>6, <1>7
<1>9. txCount' = Settled' + OnAir'["up"] + OnAir'["down"]
      BY <1>2, <1>3, <1>4, <1>5, <1>8
<1> QED BY <1>9, StatsAreSumsNext

LEMMA StatsStep == Shape /\ StatsAddUp /\ [Next]_vars => StatsAddUp'
<1> SUFFICES ASSUME Shape, StatsAddUp, [Next]_vars PROVE StatsAddUp'
    OBVIOUS
<1>a. Shape' BY ShapeStep
<1>b. Settled \in Int /\ txCount \in Int BY Counts DEF Settled
<1>1. ASSUME NEW src \in Sources, Arrive(src) PROVE StatsAddUp'
      BY <1>1 DEF Arrive, StatsAddUp, statVars
<1>2. ASSUME NEW d \in Directions, Get(d) PROVE StatsAddUp'
  <2>1. /\ \A e \in Directions : e # d => pc'[e] = pc[e]
        /\ OnAir'[d] = OnAir[d] /\ OnAir[d] = 0
        BY <1>2 DEF Get, Goto, Shape, OnAir
  <2>2. txCount' = txCount /\ Settled' = Settled
        BY <1>2 DEF Get, statVars, histVars, Settled, Forwarded
  <2> QED BY <1>a, <1>b, <2>1, <2>2, OneThread
<1>3. ASSUME NEW d \in Directions, SeeVisible(d) PROVE StatsAddUp'
  <2>1. /\ \A e \in Directions : e # d => pc'[e] = pc[e]
        /\ OnAir'[d] = OnAir[d] /\ OnAir[d] = 0
        BY <1>3 DEF SeeVisible, Goto, Shape, OnAir
  <2>2. txCount' = txCount /\ Settled' = Settled
        BY <1>3 DEF SeeVisible, statVars, Settled, Forwarded
  <2> QED BY <1>a, <1>b, <2>1, <2>2, OneThread
<1>4. ASSUME NEW d \in Directions, CountTx(d) PROVE StatsAddUp'
  <2>1. /\ \A e \in Directions : e # d => pc'[e] = pc[e]
        /\ OnAir'[d] = 1 /\ OnAir[d] = 0
        BY <1>4 DEF CountTx, Goto, Shape, OnAir
  <2>2. txCount' = txCount + 1 /\ Settled' = Settled
        BY <1>4 DEF CountTx, histVars, Settled, Forwarded
  <2> QED BY <1>a, <1>b, <2>1, <2>2, OneThread
<1>5. ASSUME NEW d \in Directions, CheckVisible(d) PROVE StatsAddUp'
  <2>1. OnAir[d] = 1 /\ \A e \in Directions : e # d => pc'[e] = pc[e]
        BY <1>5 DEF CheckVisible, Finish, Goto, Shape, OnAir
  <2>2. txCount' = txCount /\ out' = out /\ sendErrors' = sendErrors
        BY <1>5 DEF CheckVisible, histVars
  <2>3. CASE Visible
    <3>1. OnAir'[d] = 1 /\ Settled' = Settled
          BY <1>5, <2>2, <2>3 DEF CheckVisible, Goto, Shape, OnAir, Settled, Forwarded
    <3> QED BY <1>a, <1>b, <2>1, <2>2, <3>1, OneThread
  <2>4. CASE ~Visible
    <3>1. OnAir'[d] = 0
          BY <1>5, <2>4 DEF CheckVisible, Finish, Goto, Shape, OnAir
    <3>2. lostCount' = lostCount + 1
          BY <1>5, <2>4 DEF CheckVisible, LossesOf
    <3>3. Forwarded' = Forwarded BY <2>2 DEF Forwarded
    <3>4. Settled' = Settled + 1 BY <2>2, <3>2, <3>3, Counts DEF Settled
    <3> QED BY <1>a, <1>b, <2>1, <2>2, <3>1, <3>4, OneThread
  <2> QED BY <2>3, <2>4
<1>6. ASSUME NEW d \in Directions, LinkLoses(d) PROVE StatsAddUp'
  <2>1. /\ OnAir[d] = 1 /\ OnAir'[d] = 0
        /\ \A e \in Directions : e # d => pc'[e] = pc[e]
        BY <1>6 DEF LinkLoses, Finish, Goto, Shape, OnAir
  <2>2. /\ txCount' = txCount /\ out' = out /\ sendErrors' = sendErrors
        /\ lostCount' = lostCount + 1
        BY <1>6 DEF LinkLoses, LossesOf, histVars
  <2>3. Forwarded' = Forwarded BY <2>2 DEF Forwarded
  <2>4. Settled' = Settled + 1 BY <2>2, <2>3, Counts DEF Settled
  <2> QED BY <1>a, <1>b, <2>1, <2>2, <2>4, OneThread
<1>7. ASSUME NEW d \in Directions, Forward(d) PROVE StatsAddUp'
  <2>1. /\ OnAir[d] = 1 /\ OnAir'[d] = 0
        /\ \A e \in Directions : e # d => pc'[e] = pc[e]
        BY <1>7 DEF Forward, Finish, Goto, Shape, OnAir
  <2>2. txCount' = txCount /\ lostCount' = lostCount
        BY <1>7 DEF Forward, statVars
  <2>3. CASE out' = [out EXCEPT ![d] = Append(@, hand[d].n)] /\ UNCHANGED sendErrors
    <3>1. hand[d].n \in Nat BY DEF Shape, Rec
    <3>2. Len(Append(out[d], hand[d].n)) = Len(out[d]) + 1 BY <3>1 DEF Shape
    <3>3. /\ Len(out'[d]) = Len(out[d]) + 1
          /\ \A e \in Directions : e # d => Len(out'[e]) = Len(out[e])
          BY <2>3, <3>2 DEF Shape
    <3>4. \A e \in Directions : Len(out[e]) \in Nat BY DEF Shape
    <3>5. Forwarded' = Forwarded + 1
      <4>1. PICK u, v \in Nat : u = Len(out["up"]) /\ v = Len(out["down"])
            BY <3>4 DEF Directions
      <4>2. Forwarded = u + v BY <4>1 DEF Forwarded
      <4>3. \/ Len(out'["up"]) = u + 1 /\ Len(out'["down"]) = v
            \/ Len(out'["up"]) = u /\ Len(out'["down"]) = v + 1
        <5>1. CASE d = "up" BY <3>3, <4>1, <5>1 DEF Directions
        <5>2. CASE d = "down" BY <3>3, <4>1, <5>2 DEF Directions
        <5> QED BY <5>1, <5>2 DEF Directions
      <4>4. Forwarded' = (u + 1) + v \/ Forwarded' = u + (v + 1)
            BY <4>3 DEF Forwarded
      <4> QED BY <4>2, <4>4
    <3>6. Settled' = Settled + 1 BY <2>2, <2>3, <3>5, Counts DEF Settled
    <3> QED BY <1>a, <1>b, <2>1, <2>2, <3>6, OneThread
  <2>4. CASE sendErrors' = sendErrors + 1 /\ UNCHANGED out
    <3>1. Forwarded' = Forwarded BY <2>4 DEF Forwarded
    <3>2. Settled' = Settled + 1 BY <2>2, <2>4, <3>1, Counts DEF Settled
    <3> QED BY <1>a, <1>b, <2>1, <2>2, <3>2, OneThread
  <2> QED BY <1>7, <2>3, <2>4 DEF Forward
<1>8. ASSUME NEW d \in Directions, Exit(d) PROVE StatsAddUp'
  <2>1. /\ \A e \in Directions : e # d => pc'[e] = pc[e]
        /\ OnAir'[d] = OnAir[d] /\ OnAir[d] = 0
        BY <1>8 DEF Exit, Goto, Shape, OnAir
  <2>2. txCount' = txCount /\ Settled' = Settled
        BY <1>8 DEF Exit, statVars, histVars, Settled, Forwarded
  <2> QED BY <1>a, <1>b, <2>1, <2>2, OneThread
<1>9. CASE Stop BY <1>9 DEF Stop, StatsAddUp, statVars, histVars
<1>10. CASE Tick BY <1>10 DEF Tick, StatsAddUp, statVars
<1>11. CASE UNCHANGED vars BY <1>11 DEF StatsAddUp, vars, statVars, histVars
<1> QED BY <1>1, <1>2, <1>3, <1>4, <1>5, <1>6, <1>7, <1>8, <1>9, <1>10, <1>11
        DEF Next, Drain

\* The counters that both drain threads update agree with what became of the
\* frames (channel_model.py:203-228), whatever the threads' interleaving.
THEOREM CountersAddUp == Spec => []StatsAddUp
<1>1. Init => StatsAddUp BY DEF Init, StatsAddUp, Directions
<1> QED BY <1>1, ShapeInit, ShapeStep, StatsStep, PTL DEF Spec

----------------------------------------------------------------------------
(* The order of the frames                                                  *)

\* Number n is in log l, and of direction d.
Mine(l, d, n) == n \in 1 .. Len(l) /\ (d = "up") = (l[n] = "turbine")

Held(d) == pc[d] \in {"wait", "count", "check", "air"}

\* What is out, in hand and in the queue, one after another, are numbers of the
\* direction's own frames, each greater than those before it.
OutInv(d) == /\ \A i \in DOMAIN out[d] : Mine(log, d, out[d][i])
             /\ \A i, j \in DOMAIN out[d] : i < j => out[d][i] < out[d][j]

QueueInv(d) ==
  /\ \A k \in DOMAIN queue[d] : Mine(log, d, queue[d][k].n)
  /\ \A k, l \in DOMAIN queue[d] : k < l => queue[d][k].n < queue[d][l].n
  /\ \A i \in DOMAIN out[d], k \in DOMAIN queue[d] : out[d][i] < queue[d][k].n

HandInv(d) ==
  Held(d) => /\ Mine(log, d, hand[d].n)
             /\ \A i \in DOMAIN out[d] : out[d][i] < hand[d].n
             /\ \A k \in DOMAIN queue[d] : hand[d].n < queue[d][k].n

OrderInv == \A d \in Directions : OutInv(d) /\ QueueInv(d) /\ HandInv(d)

LEMMA OrderInit == Init => OrderInv
BY DEF Init, OrderInv, OutInv, QueueInv, HandInv, Held

\* A step that leaves these parts of a direction alone keeps its invariant.
LEMMA SameDirection ==
  ASSUME NEW e \in Directions, OutInv(e), QueueInv(e), HandInv(e),
         log' = log, out'[e] = out[e], queue'[e] = queue[e],
         Held(e)' => Held(e) /\ hand'[e] = hand[e]
  PROVE  (OutInv(e) /\ QueueInv(e) /\ HandInv(e))'
BY DEF OutInv, QueueInv, HandInv, Mine

LEMMA ArriveOrder ==
  ASSUME Shape, OrderInv, NEW src \in Sources, Arrive(src), NEW e \in Directions
  PROVE  (OutInv(e) /\ QueueInv(e) /\ HandInv(e))'
<1>1. log \in Seq(Sources) /\ queue[e] \in Seq(Rec) BY DEF Shape
<1>2. /\ Len(log') = Len(log) + 1 /\ log'[Len(log) + 1] = src
      /\ \A n \in 1 .. Len(log) : log'[n] = log[n]
      BY <1>1 DEF Arrive
<1>3. \A n : Mine(log, e, n) => Mine(log', e, n) BY <1>1, <1>2 DEF Mine
<1>4. OutInv(e) /\ QueueInv(e) /\ HandInv(e) BY DEF OrderInv
<1>5. out' = out /\ hand' = hand /\ pc' = pc BY DEF Arrive
<1>6. CASE e # Route(src)
  <2>1. queue'[e] = queue[e] BY <1>6 DEF Arrive, Shape
  <2> QED BY <1>3, <1>4, <1>5, <2>1 DEF OutInv, QueueInv, HandInv, Held
<1>7. CASE e = Route(src)
  <2> DEFINE item == [n |-> Len(log) + 1, age |-> 0]
  <2>1. queue'[e] = Append(queue[e], item) BY <1>7 DEF Arrive, Shape
  <2>2. item \in Rec BY <1>1 DEF Rec
  <2>3. /\ DOMAIN queue'[e] = 1 .. Len(queue[e]) + 1
        /\ DOMAIN queue[e] = 1 .. Len(queue[e]) /\ Len(queue[e]) \in Nat
        /\ \A k \in 1 .. Len(queue[e]) : queue'[e][k] = queue[e][k]
        /\ queue'[e][Len(queue[e]) + 1].n = Len(log) + 1
        BY <1>1, <2>1, <2>2
  <2>4. Mine(log', e, Len(log) + 1)
        BY <1>1, <1>2, <1>7 DEF Mine, Route, Sources
  <2>5. \A n : Mine(log, e, n) => n < Len(log) + 1 /\ n \in Int BY <1>1 DEF Mine
  <2>6. OutInv(e)' BY <1>3, <1>4, <1>5 DEF OutInv
  <2>7. QueueInv(e)'
    <3>1. ASSUME NEW k \in DOMAIN queue'[e] PROVE Mine(log', e, queue'[e][k].n)
          BY <1>3, <1>4, <2>3, <2>4 DEF QueueInv
    <3>2. ASSUME NEW k \in DOMAIN queue'[e], NEW l \in DOMAIN queue'[e], k < l
          PROVE  queue'[e][k].n < queue'[e][l].n
      <4>1. k \in 1 .. Len(queue[e]) BY <2>3, <3>2
      <4>2. CASE l \in 1 .. Len(queue[e])
            BY <1>4, <2>3, <3>2, <4>1, <4>2 DEF QueueInv
      <4>3. CASE l = Len(queue[e]) + 1
            BY <1>4, <2>3, <2>5, <4>1, <4>3 DEF QueueInv
      <4> QED BY <2>3, <4>2, <4>3
    <3>3. ASSUME NEW i \in DOMAIN out'[e], NEW k \in DOMAIN queue'[e]
          PROVE  out'[e][i] < queue'[e][k].n
      <4>1. CASE k \in 1 .. Len(queue[e])
            BY <1>4, <1>5, <2>3, <4>1 DEF QueueInv
      <4>2. CASE k = Len(queue[e]) + 1
            BY <1>4, <1>5, <2>3, <2>5, <4>2 DEF OutInv
      <4> QED BY <2>3, <4>1, <4>2
    <3> QED BY <3>1, <3>2, <3>3 DEF QueueInv
  <2>8. HandInv(e)'
    <3>1. ASSUME Held(e) PROVE Mine(log', e, hand[e].n) BY <1>3, <1>4, <3>1 DEF HandInv
    <3>2. ASSUME Held(e), NEW k \in DOMAIN queue'[e]
          PROVE  hand[e].n < queue'[e][k].n
      <4>1. CASE k \in 1 .. Len(queue[e])
            BY <1>4, <2>3, <3>2, <4>1 DEF HandInv
      <4>2. CASE k = Len(queue[e]) + 1
            BY <1>4, <2>3, <2>5, <3>2, <4>2 DEF HandInv
      <4> QED BY <2>3, <4>1, <4>2
    <3> QED BY <1>4, <1>5, <3>1, <3>2 DEF HandInv, Held
  <2> QED BY <2>6, <2>7, <2>8
<1> QED BY <1>6, <1>7

LEMMA GetOrder ==
  ASSUME Shape, OrderInv, NEW d \in Directions, Get(d), NEW e \in Directions
  PROVE  (OutInv(e) /\ QueueInv(e) /\ HandInv(e))'
<1>1. OutInv(e) /\ QueueInv(e) /\ HandInv(e) BY DEF OrderInv
<1>2. log' = log /\ out' = out BY DEF Get, histVars
<1>3. CASE e # d
  <2>1. queue'[e] = queue[e] /\ pc'[e] = pc[e] /\ hand'[e] = hand[e]
        BY <1>3 DEF Get, Goto, Shape
  <2> QED BY <1>1, <1>2, <2>1, SameDirection DEF Held
<1>4. CASE e = d
  <2>1. queue[d] \in Seq(Rec) /\ queue[d] # << >> BY DEF Get, Shape
  <2>2. queue'[d] = Tail(queue[d]) BY DEF Get, Rest, Shape
  <2>3. /\ Len(queue[d]) \in Nat /\ DOMAIN queue[d] = 1 .. Len(queue[d])
        /\ 1 \in DOMAIN queue[d] /\ Head(queue[d]) = queue[d][1]
        BY <2>1
  <2>4. /\ DOMAIN queue'[d] = 1 .. Len(queue[d]) - 1
        /\ \A k \in DOMAIN queue'[d] :
             /\ k + 1 \in DOMAIN queue[d] /\ 1 < k + 1
             /\ queue'[d][k] = queue[d][k + 1]
        BY <2>1, <2>2, <2>3
  <2>5. pc[d] = "get" /\ (Held(d)' => hand'[d] = queue[d][1])
    <3>1. pc[d] = "get" BY DEF Get
    <3>2. CASE Expired(Head(queue[d])) BY <3>1, <3>2 DEF Get, Held
    <3>3. CASE ~Expired(Head(queue[d])) BY <2>3, <3>3 DEF Get, Shape
    <3> QED BY <3>1, <3>2, <3>3
  <2>6. OutInv(d)' BY <1>1, <1>2, <1>4 DEF OutInv, Mine
  <2>7. QueueInv(d)'
    <3>1. \A k \in DOMAIN queue'[d] : Mine(log', d, queue'[d][k].n)
          BY <1>1, <1>2, <1>4, <2>4 DEF QueueInv, Mine
    <3>2. ASSUME NEW k \in DOMAIN queue'[d], NEW l \in DOMAIN queue'[d], k < l
          PROVE  queue'[d][k].n < queue'[d][l].n
      <4>1. k + 1 < l + 1 BY <2>3, <2>4, <3>2
      <4> QED BY <1>1, <1>4, <2>4, <4>1 DEF QueueInv
    <3>3. \A i \in DOMAIN out'[d], k \in DOMAIN queue'[d] :
            out'[d][i] < queue'[d][k].n
          BY <1>1, <1>2, <1>4, <2>4 DEF QueueInv
    <3> QED BY <3>1, <3>2, <3>3 DEF QueueInv
  <2>8. HandInv(d)'
    <3>1. SUFFICES ASSUME Held(d)'
                   PROVE  /\ Mine(log', d, queue[d][1].n)
                          /\ \A i \in DOMAIN out'[d] : out'[d][i] < queue[d][1].n
                          /\ \A k \in DOMAIN queue'[d] :
                               queue[d][1].n < queue'[d][k].n
          BY <2>5 DEF HandInv
    <3>2. Mine(log', d, queue[d][1].n) BY <1>1, <1>2, <1>4, <2>3 DEF QueueInv, Mine
    <3> QED BY <1>1, <1>2, <1>4, <2>3, <2>4, <3>2 DEF QueueInv
  <2> QED BY <1>4, <2>6, <2>7, <2>8
<1> QED BY <1>3, <1>4

LEMMA ForwardOrder ==
  ASSUME Shape, OrderInv, NEW d \in Directions, Forward(d), NEW e \in Directions
  PROVE  (OutInv(e) /\ QueueInv(e) /\ HandInv(e))'
<1>1. OutInv(e) /\ QueueInv(e) /\ HandInv(e) BY DEF OrderInv
<1>2. log' = log /\ queue' = queue BY DEF Forward
<1>3. /\ pc[d] = "air" /\ pc'[d] = "get"
      /\ e # d => pc'[e] = pc[e] /\ hand'[e] = hand[e]
      BY DEF Forward, Finish, Goto, Shape
<1>4. CASE out'[e] = out[e]
  <2>1. Held(e)' => Held(e) /\ hand'[e] = hand[e] BY <1>3 DEF Held
  <2> QED BY <1>1, <1>2, <1>4, <2>1, SameDirection
<1>5. CASE out'[e] # out[e]
  <2>1. e = d /\ out'[d] = Append(out[d], hand[d].n)
        BY <1>5 DEF Forward, Shape
  <2>2. out[d] \in Seq(Nat) /\ hand[d].n \in Nat BY DEF Shape, Rec
  <2>3. /\ Len(out[d]) \in Nat /\ DOMAIN out[d] = 1 .. Len(out[d])
        /\ DOMAIN out'[d] = 1 .. Len(out[d]) + 1
        /\ \A i \in 1 .. Len(out[d]) : out'[d][i] = out[d][i]
        /\ out'[d][Len(out[d]) + 1] = hand[d].n
        BY <2>1, <2>2
  <2>4. /\ Mine(log, d, hand[d].n)
        /\ \A i \in DOMAIN out[d] : out[d][i] < hand[d].n
        /\ \A k \in DOMAIN queue[d] : hand[d].n < queue[d][k].n
        BY <1>1, <1>3, <2>1 DEF HandInv, Held
  <2>5. OutInv(d)'
    <3>1. ASSUME NEW i \in DOMAIN out'[d] PROVE Mine(log', d, out'[d][i])
      <4>1. CASE i \in 1 .. Len(out[d])
            BY <1>1, <1>2, <2>1, <2>3, <4>1 DEF OutInv, Mine
      <4>2. CASE i = Len(out[d]) + 1 BY <1>2, <2>3, <2>4, <4>2 DEF Mine
      <4> QED BY <2>3, <4>1, <4>2
    <3>2. ASSUME NEW i \in DOMAIN out'[d], NEW j \in DOMAIN out'[d], i < j
          PROVE  out'[d][i] < out'[d][j]
      <4>1. i \in 1 .. Len(out[d]) BY <2>3, <3>2
      <4>2. CASE j \in 1 .. Len(out[d])
            BY <1>1, <2>1, <2>3, <3>2, <4>1, <4>2 DEF OutInv
      <4>3. CASE j = Len(out[d]) + 1 BY <2>3, <2>4, <4>1, <4>3
      <4> QED BY <2>3, <4>2, <4>3
    <3> QED BY <3>1, <3>2 DEF OutInv
  <2>6. QueueInv(d)'
    <3>1. ASSUME NEW i \in DOMAIN out'[d], NEW k \in DOMAIN queue[d]
          PROVE  out'[d][i] < queue[d][k].n
      <4>1. CASE i \in 1 .. Len(out[d])
            BY <1>1, <2>1, <2>3, <4>1 DEF QueueInv
      <4>2. CASE i = Len(out[d]) + 1 BY <2>3, <2>4, <4>2
      <4> QED BY <2>3, <4>1, <4>2
    <3> QED BY <1>1, <1>2, <2>1, <3>1 DEF QueueInv, Mine
  <2>7. HandInv(d)' BY <1>3 DEF HandInv, Held
  <2> QED BY <2>1, <2>5, <2>6, <2>7
<1> QED BY <1>4, <1>5

LEMMA TickOrder ==
  ASSUME Shape, OrderInv, Tick, NEW e \in Directions
  PROVE  (OutInv(e) /\ QueueInv(e) /\ HandInv(e))'
<1>1. OutInv(e) /\ QueueInv(e) /\ HandInv(e) BY DEF OrderInv
<1>2. log' = log /\ out' = out /\ pc' = pc BY DEF Tick
<1>3. queue[e] \in Seq(Rec) /\ hand[e] \in Rec BY DEF Shape
<1>4. /\ DOMAIN queue'[e] = DOMAIN queue[e]
      /\ \A k \in DOMAIN queue[e] : queue'[e][k] = Older(queue[e][k])
      BY <1>3 DEF Tick
<1>5. \A k \in DOMAIN queue[e] : queue'[e][k].n = queue[e][k].n
      BY <1>3, <1>4, OlderRec
<1>6. hand'[e].n = hand[e].n BY <1>3, OlderRec DEF Tick
<1> QED BY <1>1, <1>2, <1>4, <1>5, <1>6 DEF OutInv, QueueInv, HandInv, Held, Mine

LEMMA OrderStep == Shape /\ OrderInv /\ [Next]_vars => OrderInv'
<1> SUFFICES ASSUME Shape, OrderInv, [Next]_vars, NEW e \in Directions
             PROVE  (OutInv(e) /\ QueueInv(e) /\ HandInv(e))'
    BY DEF OrderInv
<1>0. OutInv(e) /\ QueueInv(e) /\ HandInv(e) BY DEF OrderInv
<1>1. ASSUME NEW src \in Sources, Arrive(src)
      PROVE  (OutInv(e) /\ QueueInv(e) /\ HandInv(e))'
      BY <1>1, ArriveOrder
<1>2. ASSUME NEW d \in Directions, Get(d)
      PROVE  (OutInv(e) /\ QueueInv(e) /\ HandInv(e))'
      BY <1>2, GetOrder
<1>3. ASSUME NEW d \in Directions, Forward(d)
      PROVE  (OutInv(e) /\ QueueInv(e) /\ HandInv(e))'
      BY <1>3, ForwardOrder
<1>4. CASE Tick BY <1>4, TickOrder
<1>5. ASSUME NEW d \in Directions,
             \/ SeeVisible(d) \/ CountTx(d) \/ CheckVisible(d)
             \/ LinkLoses(d) \/ Exit(d)
      PROVE  (OutInv(e) /\ QueueInv(e) /\ HandInv(e))'
  <2>1. log' = log /\ out' = out /\ queue' = queue
        BY <1>5 DEF SeeVisible, CountTx, CheckVisible, LinkLoses, Exit, histVars
  <2>2. Held(e)' => Held(e) /\ hand'[e] = hand[e]
    <3>1. CASE SeeVisible(d) BY <3>1 DEF SeeVisible, Goto, Held, Shape
    <3>2. CASE CountTx(d) BY <3>2 DEF CountTx, Goto, Held, Shape
    <3>3. CASE CheckVisible(d) BY <3>3 DEF CheckVisible, Finish, Goto, Held, Shape
    <3>4. CASE LinkLoses(d) BY <3>4 DEF LinkLoses, Finish, Goto, Held, Shape
    <3>5. CASE Exit(d) BY <3>5 DEF Exit, Goto, Held, Shape
    <3> QED BY <1>5, <3>1, <3>2, <3>3, <3>4, <3>5
  <2> QED BY <1>0, <2>1, <2>2, SameDirection
<1>6. CASE Stop \/ UNCHANGED vars
  <2>1. log' = log /\ out' = out /\ queue' = queue /\ hand' = hand /\ pc' = pc
        BY <1>6 DEF Stop, vars, histVars
  <2> QED BY <1>0, <2>1, SameDirection DEF Held
<1> QED BY <1>1, <1>2, <1>3, <1>4, <1>5, <1>6 DEF Next, Drain

LEMMA OrderSuffices == OrderInv => InOrderOnce
BY DEF OrderInv, OutInv, Mine, InOrderOnce

\* Each direction forwards its own frames, in the order they arrived, and none
\* twice (leo_relay.py:114-122, 137, 154-160), for any number of frames.
THEOREM FramesInOrder == Spec => []InOrderOnce
BY ShapeInit, ShapeStep, OrderInit, OrderStep, OrderSuffices, PTL DEF Spec

----------------------------------------------------------------------------
(* Time: how old a frame can be, by the phase of the orbit and its place    *)

\* The oldest frame a queue can hold.  Nothing waits in a queue while the
\* satellite is up, but the frames of the blackout are all there when it rises,
\* and time passes over those that come as it sets.
QueueAge == IF phase = 0 THEN Blackout + 1
            ELSE IF phase < Vis THEN 0 ELSE phase - Vis + 1

\* The oldest frame a drain thread can have in its hand: it was not too old
\* when it was taken, and has waited out the blackout at most.
HandAge(d) == IF phase = 0 THEN MaxAge + Blackout
              ELSE IF phase < Vis THEN 0
              ELSE IF pc[d] = "wait" THEN MaxAge + (phase - Vis) ELSE 1

\* A frame in hand that is too old was taken before the satellite rose, and so
\* before any other was given to the channel in this pass.
AgeInv(d) ==
  /\ \A k \in DOMAIN queue[d] : queue[d][k].age <= QueueAge
  /\ Held(d) => hand[d].age <= HandAge(d)
  /\ (pc[d] = "wait" /\ phase = 0 /\ hand[d].age > MaxAge) => handed[d] = 0
  /\ (InFlight(d) /\ phase = 0 /\ hand[d].age > MaxAge) => handed[d] = 1

\* Where a drain thread can be, by the orbit: a look of transmit still to come
\* outlasts the pass by no more than the tick that ends it.
PlaceInv(d) == /\ (hand[d] = NoItem) = (pc[d] \in {"get", "done"})
               /\ pc[d] = "done" => ~running
               /\ pc[d] = "air" => phase < Vis
               /\ pc[d] \in {"count", "check"} => phase <= Vis

TimeInv == /\ phase \in 0 .. Period - 1
           /\ running \in BOOLEAN
           /\ handed \in [Directions -> Nat]
           /\ \A d \in Directions : AgeInv(d) /\ PlaceInv(d)

LEMMA TimeInit == Init => TimeInv
<1> SUFFICES ASSUME Init PROVE TimeInv
    OBVIOUS
<1>1. phase \in 0 .. Period - 1 /\ running \in BOOLEAN /\ handed \in [Directions -> Nat]
      BY RelayConstants DEF Init
<1>2. ASSUME NEW d \in Directions PROVE AgeInv(d) /\ PlaceInv(d)
  <2>1. queue[d] = << >> /\ pc[d] = "get" /\ hand[d] = NoItem BY DEF Init
  <2> QED BY <2>1 DEF AgeInv, PlaceInv, Held, InFlight
<1> QED BY <1>1, <1>2 DEF TimeInv

\* A step that leaves these parts of a direction and the orbit alone.
LEMMA SameAge ==
  ASSUME NEW e \in Directions, AgeInv(e), PlaceInv(e),
         phase' = phase, running' => running, queue'[e] = queue[e],
         hand'[e] = hand[e], pc'[e] = pc[e], handed'[e] = handed[e]
  PROVE  (AgeInv(e) /\ PlaceInv(e))'
BY DEF AgeInv, PlaceInv, QueueAge, HandAge, Held, InFlight

\* A drain thread that is through with its frame.
LEMMA ThroughAge ==
  ASSUME NEW e \in Directions, AgeInv(e), phase' = phase, queue'[e] = queue[e],
         hand'[e] = NoItem, pc'[e] = "get"
  PROVE  (AgeInv(e) /\ PlaceInv(e))'
BY DEF AgeInv, PlaceInv, QueueAge, Held, InFlight

LEMMA OlderAge ==
  ASSUME NEW item \in Rec
  PROVE  /\ Older(item).age \in Nat /\ Older(item).age <= item.age + 1
         /\ Older(item) # NoItem
<1>1. item = [n |-> item.n, age |-> item.age] /\ item.n \in Nat /\ item.age \in Nat
      BY DEF Rec
<1>2. AgeCap \in Nat /\ 0 < AgeCap BY RelayConstants DEF AgeCap
<1>3. CASE item.age < AgeCap
  <2>1. Older(item).age = item.age + 1 BY <1>1, <1>3 DEF Older
  <2> QED BY <1>1, <2>1 DEF NoItem
<1>4. CASE ~(item.age < AgeCap)
  <2>1. Older(item) = item BY <1>1, <1>4 DEF Older
  <2> QED BY <1>1, <1>2, <1>4, <2>1 DEF NoItem
<1> QED BY <1>3, <1>4

LEMMA ArriveAge ==
  ASSUME Shape, TimeInv, NEW src \in Sources, Arrive(src), NEW e \in Directions
  PROVE  (AgeInv(e) /\ PlaceInv(e))'
<1>1. AgeInv(e) /\ PlaceInv(e) /\ phase \in 0 .. Period - 1 BY DEF TimeInv
<1>2. /\ phase' = phase /\ running' = running /\ hand' = hand /\ pc' = pc
      /\ handed' = handed
      BY DEF Arrive
<1>3. CASE e # Route(src)
  <2>1. queue'[e] = queue[e] BY <1>3 DEF Arrive, Shape
  <2> QED BY <1>1, <1>2, <2>1, SameAge
<1>4. CASE e = Route(src)
  <2> DEFINE item == [n |-> Len(log) + 1, age |-> 0]
  <2>1. queue'[e] = Append(queue[e], item) BY <1>4 DEF Arrive, Shape
  <2>2. item \in Rec /\ queue[e] \in Seq(Rec) BY DEF Shape, Rec
  <2>3. /\ DOMAIN queue'[e] = 1 .. Len(queue[e]) + 1
        /\ DOMAIN queue[e] = 1 .. Len(queue[e]) /\ Len(queue[e]) \in Nat
        /\ \A k \in 1 .. Len(queue[e]) : queue'[e][k] = queue[e][k]
        /\ queue'[e][Len(queue[e]) + 1].age = 0
        BY <2>1, <2>2
  <2>4. 0 <= QueueAge BY <1>1, RelayConstants DEF QueueAge, Blackout
  <2>5. QueueAge' = QueueAge /\ HandAge(e)' = HandAge(e)
        BY <1>2 DEF QueueAge, HandAge
  <2>6. ASSUME NEW k \in DOMAIN queue'[e] PROVE queue'[e][k].age <= QueueAge
    <3>1. CASE k \in 1 .. Len(queue[e]) BY <1>1, <2>3, <3>1 DEF AgeInv
    <3>2. CASE k = Len(queue[e]) + 1 BY <2>3, <2>4, <3>2
    <3> QED BY <2>3, <3>1, <3>2
  <2> QED BY <1>1, <1>2, <2>5, <2>6 DEF AgeInv, PlaceInv, Held, InFlight
<1> QED BY <1>3, <1>4

LEMMA GetAge ==
  ASSUME Shape, OrderInv, TimeInv, NEW d \in Directions, Get(d),
         NEW e \in Directions
  PROVE  (AgeInv(e) /\ PlaceInv(e))'
<1>1. AgeInv(e) /\ PlaceInv(e) /\ phase \in 0 .. Period - 1 BY DEF TimeInv
<1>2. phase' = phase /\ running' = running /\ handed' = handed
      BY DEF Get, histVars
<1>3. CASE e # d
  <2>1. queue'[e] = queue[e] /\ pc'[e] = pc[e] /\ hand'[e] = hand[e]
        BY <1>3 DEF Get, Goto, Shape
  <2> QED BY <1>1, <1>2, <2>1, SameAge
<1>4. CASE e = d
  <2>1. queue[d] \in Seq(Rec) /\ queue[d] # << >> BY DEF Get, Shape
  <2>2. queue'[d] = Tail(queue[d]) BY DEF Get, Rest, Shape
  <2>3. 1 \in DOMAIN queue[d] /\ Head(queue[d]) = queue[d][1] /\ queue[d][1] \in Rec
        BY <2>1
  <2>4. \A k \in DOMAIN queue'[d] :
           k + 1 \in DOMAIN queue[d] /\ queue'[d][k] = queue[d][k + 1]
        BY <2>1, <2>2
  <2>5. QueueAge' = QueueAge BY <1>2 DEF QueueAge
  <2>6. \A k \in DOMAIN queue'[d] : queue'[d][k].age <= QueueAge'
        BY <1>1, <1>4, <2>4, <2>5 DEF AgeInv
  <2>7. pc[d] = "get" /\ hand[d] = NoItem BY <1>1, <1>4 DEF Get, PlaceInv
  <2>8. CASE Expired(Head(queue[d]))
    <3>1. pc'[d] = "get" /\ hand'[d] = NoItem BY <2>7, <2>8 DEF Get
    <3> QED BY <1>4, <2>6, <3>1 DEF AgeInv, PlaceInv, Held, InFlight
  <2>9. CASE ~Expired(Head(queue[d]))
    <3>1. pc'[d] = "wait" /\ hand'[d] = queue[d][1]
          BY <2>3, <2>9 DEF Get, Goto, Shape
    <3>2. queue[d][1].age <= MaxAge /\ queue[d][1].age \in Nat
          BY <2>3, <2>9, RelayConstants DEF Expired, Rec
    <3>3. queue[d][1].age <= QueueAge BY <1>1, <1>4, <2>3 DEF AgeInv
    <3>4. hand'[d].age <= HandAge(d)'
          BY <1>1, <1>2, <3>1, <3>2, <3>3, RelayConstants
          DEF HandAge, QueueAge, Blackout
    <3>5. queue[d][1] # NoItem
      <4>1. queue[d][1].n \in 1 .. Len(log)
            BY <1>4, <2>3 DEF OrderInv, QueueInv, Mine
      <4>2. Len(log) \in Nat BY DEF Shape
      <4>3. queue[d][1].n # 0 BY <4>1, <4>2
      <4> QED BY <4>3 DEF NoItem
    <3>6. ~(hand'[d].age > MaxAge) BY <3>1, <3>2, RelayConstants
    <3> QED BY <1>4, <2>6, <3>1, <3>4, <3>5, <3>6
            DEF AgeInv, PlaceInv, Held, InFlight
  <2> QED BY <2>8, <2>9
<1> QED BY <1>3, <1>4

LEMMA SeeVisibleAge ==
  ASSUME Shape, TimeInv, NEW d \in Directions, SeeVisible(d), NEW e \in Directions
  PROVE  (AgeInv(e) /\ PlaceInv(e))'
<1>1. /\ AgeInv(e) /\ PlaceInv(e) /\ phase \in 0 .. Period - 1
      /\ handed \in [Directions -> Nat]
      BY DEF TimeInv
<1>2. phase' = phase /\ running' = running /\ queue' = queue /\ hand' = hand
      BY DEF SeeVisible
<1>3. CASE e # d
  <2>1. pc'[e] = pc[e] /\ handed'[e] = handed[e]
        BY <1>1, <1>3 DEF SeeVisible, Goto, Shape
  <2> QED BY <1>1, <1>2, <2>1, SameAge
<1>4. CASE e = d
  <2>1. /\ pc[d] = "wait" /\ pc'[d] = "count" /\ phase < Vis
        /\ handed'[d] = handed[d] + 1
        BY <1>1 DEF SeeVisible, Goto, Shape, Visible
  <2>2. QueueAge' = QueueAge BY <1>2 DEF QueueAge
  <2>3. HandAge(d)' = HandAge(d) BY <1>2, <2>1 DEF HandAge
  <2>4. hand[d].age <= HandAge(d) BY <1>1, <1>4, <2>1 DEF AgeInv, Held
  <2>5. (phase = 0 /\ hand[d].age > MaxAge) => handed'[d] = 1
        BY <1>1, <1>4, <2>1 DEF AgeInv
  <2>6. AgeInv(d)'
        BY <1>1, <1>2, <1>4, <2>1, <2>2, <2>3, <2>4, <2>5
        DEF AgeInv, Held, InFlight
  <2>7. hand[d] # NoItem BY <1>1, <1>4, <2>1 DEF PlaceInv
  <2>8. PlaceInv(d)' BY <1>1, <1>2, <2>1, <2>7, RelayConstants DEF PlaceInv
  <2> QED BY <1>4, <2>6, <2>8
<1> QED BY <1>3, <1>4

LEMMA TransmitAge ==
  ASSUME Shape, TimeInv, NEW d \in Directions,
         \/ CountTx(d) \/ CheckVisible(d) \/ LinkLoses(d) \/ Forward(d),
         NEW e \in Directions
  PROVE  (AgeInv(e) /\ PlaceInv(e))'
<1>1. AgeInv(e) /\ PlaceInv(e) /\ phase \in 0 .. Period - 1 BY DEF TimeInv
<1>2. phase' = phase /\ running' = running /\ queue' = queue /\ handed' = handed
      BY DEF CountTx, CheckVisible, LinkLoses, Forward, histVars
<1>3. CASE e # d
  <2>1. pc'[e] = pc[e] /\ hand'[e] = hand[e]
        BY <1>3 DEF CountTx, CheckVisible, LinkLoses, Forward, Finish, Goto, Shape
  <2> QED BY <1>1, <1>2, <2>1, SameAge
<1>4. ASSUME e = d, pc'[d] = "get", hand'[d] = NoItem
      PROVE  (AgeInv(e) /\ PlaceInv(e))'
      BY <1>1, <1>2, <1>4, ThroughAge
<1>5. ASSUME e = d, InFlight(d), pc[d] # "air", hand'[d] = hand[d],
             pc'[d] = "check" \/ (pc'[d] = "air" /\ phase < Vis)
      PROVE  (AgeInv(e) /\ PlaceInv(e))'
  <2>1. QueueAge' = QueueAge BY <1>2 DEF QueueAge
  <2>2. pc[d] # "wait" /\ pc'[d] # "wait" BY <1>5 DEF InFlight
  <2>3. HandAge(d)' = HandAge(d) BY <1>2, <2>2 DEF HandAge
  <2>4. AgeInv(d)'
        BY <1>1, <1>2, <1>5, <2>1, <2>2, <2>3 DEF AgeInv, Held, InFlight
  <2>5. hand[d] # NoItem /\ phase <= Vis BY <1>1, <1>5 DEF PlaceInv, InFlight
  <2>6. PlaceInv(d)' BY <1>2, <1>5, <2>5 DEF PlaceInv
  <2> QED BY <1>5, <2>4, <2>6
<1>6. CASE e = d /\ CountTx(d)
  <2>1. pc[d] = "count" /\ pc'[d] = "check" /\ hand'[d] = hand[d]
        BY <1>6 DEF CountTx, Goto, Shape
  <2>2. InFlight(d) /\ pc[d] # "air" BY <2>1 DEF InFlight
  <2> QED BY <1>5, <1>6, <2>1, <2>2
<1>7. CASE e = d /\ CheckVisible(d)
  <2>1. CASE Visible
    <3>1. pc[d] = "check" /\ pc'[d] = "air" /\ hand'[d] = hand[d] /\ phase < Vis
          BY <1>7, <2>1 DEF CheckVisible, Goto, Shape, Visible
    <3> QED BY <1>5, <1>7, <3>1 DEF InFlight
  <2>2. CASE ~Visible
    <3>1. pc'[d] = "get" /\ hand'[d] = NoItem
          BY <1>7, <2>2 DEF CheckVisible, Finish, Goto, Shape
    <3> QED BY <1>4, <1>7, <3>1
  <2> QED BY <2>1, <2>2
<1>8. CASE e = d /\ (LinkLoses(d) \/ Forward(d))
  <2>1. pc'[d] = "get" /\ hand'[d] = NoItem
        BY <1>8 DEF LinkLoses, Forward, Finish, Goto, Shape
  <2> QED BY <1>4, <1>8, <2>1
<1> QED BY <1>3, <1>6, <1>7, <1>8

LEMMA ExitAge ==
  ASSUME Shape, TimeInv, NEW d \in Directions, Exit(d), NEW e \in Directions
  PROVE  (AgeInv(e) /\ PlaceInv(e))'
<1>1. AgeInv(e) /\ PlaceInv(e) BY DEF TimeInv
<1>2. /\ phase' = phase /\ running' = running /\ queue' = queue
      /\ handed' = handed /\ ~running
      BY DEF Exit, histVars
<1>3. CASE e # d
  <2>1. pc'[e] = pc[e] /\ hand'[e] = hand[e] BY <1>3 DEF Exit, Goto, Shape
  <2> QED BY <1>1, <1>2, <2>1, SameAge
<1>4. CASE e = d
  <2>1. pc'[d] = "done" /\ hand'[d] = NoItem BY DEF Exit, Goto, Shape
  <2>2. QueueAge' = QueueAge BY <1>2 DEF QueueAge
  <2> QED BY <1>1, <1>2, <1>4, <2>1, <2>2 DEF AgeInv, PlaceInv, Held, InFlight
<1> QED BY <1>3, <1>4

LEMMA NextPhaseIs ==
  ASSUME NEW p \in 0 .. Period - 1
  PROVE  /\ p + 1 < Period => NextPhase(p) = p + 1
         /\ p + 1 = Period => NextPhase(p) = 0
<1>1. \A x \in 0 .. Period - 1 : x % Period = x
  <2>1. Period \in Nat \ {0} BY RelayConstants
  <2> QED BY ONLY <2>1
<1>2. Period % Period = 0
  <2>1. Period \in Nat \ {0} BY RelayConstants
  <2> QED BY ONLY <2>1
<1> QED BY <1>1, <1>2, RelayConstants DEF NextPhase

\* The orbit goes on: while the satellite is up, only when both threads have
\* nothing at all to do; as it sets, over what is on its way to transmit; and
\* while it is down, over what waits.
LEMMA TickAge ==
  ASSUME Shape, TimeInv, Tick, NEW e \in Directions
  PROVE  (AgeInv(e) /\ PlaceInv(e))'
<1>1. AgeInv(e) /\ PlaceInv(e) /\ phase \in 0 .. Period - 1 BY DEF TimeInv
<1>2. running' = running /\ pc' = pc BY DEF Tick
<1>3. queue[e] \in Seq(Rec) /\ hand[e] \in Rec BY DEF Shape
<1>4. /\ DOMAIN queue'[e] = DOMAIN queue[e]
      /\ \A k \in DOMAIN queue[e] :
           /\ queue'[e][k] = Older(queue[e][k])
           /\ queue[e][k].age \in Nat /\ queue'[e][k].age \in Nat
           /\ queue'[e][k].age <= queue[e][k].age + 1
  <2>1. DOMAIN queue'[e] = DOMAIN queue[e] BY <1>3 DEF Tick
  <2>2. ASSUME NEW k \in DOMAIN queue[e]
        PROVE  /\ queue'[e][k] = Older(queue[e][k])
               /\ queue[e][k].age \in Nat /\ queue'[e][k].age \in Nat
               /\ queue'[e][k].age <= queue[e][k].age + 1
    <3>1. queue'[e][k] = Older(queue[e][k]) BY DEF Tick
    <3>2. queue[e][k] \in Rec BY <1>3
    <3>3. queue[e][k].age \in Nat BY <3>2 DEF Rec
    <3> QED BY <3>1, <3>2, <3>3, OlderAge
  <2> QED BY <2>1, <2>2
<1>5. (hand'[e] = NoItem) = (hand[e] = NoItem) BY <1>3, OlderAge DEF Tick
<1>6. /\ hand[e].age \in Nat /\ hand'[e].age \in Nat
      /\ hand'[e].age <= hand[e].age + 1
  <2>1. hand[e].age \in Nat BY <1>3 DEF Rec
  <2>2. CASE hand[e] = NoItem
    <3>1. hand'[e] = hand[e] BY <2>2 DEF Tick
    <3> QED BY <2>1, <3>1
  <2>3. CASE hand[e] # NoItem
    <3>1. hand'[e] = Older(hand[e]) BY <2>3 DEF Tick
    <3> QED BY <1>3, <2>1, <3>1, OlderAge
  <2> QED BY <2>2, <2>3
<1>7. CASE phase < Vis - 1
  <2>1. running BY <1>1, <1>7, RelayConstants DEF Tick, Surprised
  <2>2. pc[e] = "get" /\ queue[e] = << >>
        BY <1>1, <1>7, <2>1, RelayConstants
        DEF Tick, Surprised, Idle, Visible, PlaceInv
  <2>3. hand'[e] = NoItem BY <1>1, <1>5, <2>2 DEF PlaceInv
  <2>4. DOMAIN queue'[e] = {} BY <1>4, <2>2
  <2> QED BY <1>2, <2>2, <2>3, <2>4 DEF AgeInv, PlaceInv, Held, InFlight
<1>8. CASE phase = Vis - 1
  <2>1. phase' = Vis BY <1>1, <1>8, NextPhaseIs, RelayConstants DEF Tick
  <2>2. phase \in Nat /\ 0 < phase /\ phase < Vis /\ Vis \in Nat /\ 0 < Vis
        BY <1>8, RelayConstants, ShortTicks
  <2>3. QueueAge = 0 /\ QueueAge' = 1 BY <2>1, <2>2 DEF QueueAge
  <2>4. pc[e] # "wait" /\ pc[e] # "air"
        BY <2>2 DEF Tick, Idle, Surprised, Visible
  <2>5. HandAge(e) = 0 /\ HandAge(e)' = 1 BY <1>2, <2>1, <2>2, <2>4 DEF HandAge
  <2>6. \A k \in DOMAIN queue'[e] : queue'[e][k].age <= QueueAge'
        BY <1>1, <1>4, <2>3 DEF AgeInv
  <2>7. Held(e)' => hand'[e].age <= HandAge(e)'
        BY <1>1, <1>2, <1>6, <2>5 DEF AgeInv, Held
  <2>8. AgeInv(e)' BY <2>1, <2>2, <2>6, <2>7 DEF AgeInv
  <2>9. PlaceInv(e)' BY <1>1, <1>2, <1>5, <2>1, <2>2, <2>4 DEF PlaceInv
  <2> QED BY <2>8, <2>9
<1>9. CASE phase >= Vis
  <2>1. running /\ Idle(e) BY <1>1, <1>9, RelayConstants DEF Tick, Surprised
  <2>2. pc[e] = "wait" \/ (pc[e] = "get" /\ queue[e] = << >>)
        BY <1>1, <2>1 DEF Idle, PlaceInv
  <2>3. phase \in Nat /\ 0 < phase /\ ~(phase < Vis) /\ phase < Period
        BY <1>1, <1>9, RelayConstants
  <2>4. QueueAge = phase - Vis + 1 BY <2>3 DEF QueueAge
  <2>5. pc[e] = "wait" => HandAge(e) = MaxAge + (phase - Vis) BY <2>3 DEF HandAge
  <2>6. ASSUME QueueAge' >= phase - Vis + 2,
               pc[e] = "wait" => HandAge(e)' >= MaxAge + (phase - Vis) + 1,
               QueueAge' \in Int, HandAge(e)' \in Int,
               phase' = 0 => handed'[e] = 0
        PROVE  (AgeInv(e) /\ PlaceInv(e))'
    <3>1. ASSUME NEW k \in DOMAIN queue'[e] PROVE queue'[e][k].age <= QueueAge'
      <4>1. queue[e][k].age <= phase - Vis + 1 BY <1>1, <1>4, <2>4 DEF AgeInv
      <4> QED BY <1>4, <2>3, <2>6, <4>1, RelayConstants
    <3>2. ASSUME Held(e)' PROVE hand'[e].age <= HandAge(e)'
      <4>1. pc[e] = "wait" BY <1>2, <2>2, <3>2 DEF Held
      <4>2. hand[e].age <= MaxAge + (phase - Vis)
            BY <1>1, <2>5, <4>1 DEF AgeInv, Held
      <4> QED BY <1>6, <2>3, <2>6, <4>1, <4>2, RelayConstants
    <3>3. AgeInv(e)' BY <1>2, <2>2, <2>6, <3>1, <3>2 DEF AgeInv, InFlight
    <3>4. PlaceInv(e)' BY <1>1, <1>2, <1>5, <2>2 DEF PlaceInv
    <3> QED BY <3>3, <3>4
  <2>7. CASE phase + 1 < Period
    <3>1. phase' = phase + 1 BY <1>1, <2>7, NextPhaseIs DEF Tick
    <3>2. QueueAge' = phase + 1 - Vis + 1
          BY <2>3, <3>1, RelayConstants DEF QueueAge
    <3>3. HandAge(e)' = IF pc[e] = "wait" THEN MaxAge + (phase + 1 - Vis) ELSE 1
          BY <1>2, <2>3, <3>1, RelayConstants DEF HandAge
    <3> QED BY <2>3, <2>6, <3>1, <3>2, <3>3, RelayConstants
  <2>8. CASE phase + 1 = Period
    <3>1. phase' = 0 BY <1>1, <2>8, NextPhaseIs DEF Tick
    <3>2. QueueAge' = Blackout + 1 /\ HandAge(e)' = MaxAge + Blackout
          BY <3>1 DEF QueueAge, HandAge
    <3>3. handed'[e] = 0 BY <3>1 DEF Tick
    <3> QED BY <2>3, <2>6, <2>8, <3>2, <3>3, RelayConstants DEF Blackout
  <2> QED BY <2>3, <2>7, <2>8, RelayConstants
<1> QED BY <1>1, <1>7, <1>8, <1>9, RelayConstants

LEMMA TimeStep == Shape /\ OrderInv /\ TimeInv /\ [Next]_vars => TimeInv'
<1> SUFFICES ASSUME Shape, OrderInv, TimeInv, [Next]_vars PROVE TimeInv'
    OBVIOUS
<1>1. /\ phase \in 0 .. Period - 1 /\ running \in BOOLEAN
      /\ handed \in [Directions -> Nat]
      BY DEF TimeInv
<1>2. ASSUME NEW src \in Sources, Arrive(src) PROVE TimeInv'
  <2>1. phase' = phase /\ running' = running /\ handed' = handed
        BY <1>2 DEF Arrive
  <2> QED BY <1>1, <1>2, <2>1, ArriveAge DEF TimeInv
<1>3. ASSUME NEW d \in Directions, Get(d) PROVE TimeInv'
  <2>1. phase' = phase /\ running' = running /\ handed' = handed
        BY <1>3 DEF Get, histVars
  <2> QED BY <1>1, <1>3, <2>1, GetAge DEF TimeInv
<1>4. ASSUME NEW d \in Directions, SeeVisible(d) PROVE TimeInv'
  <2>1. phase' = phase /\ running' = running BY <1>4 DEF SeeVisible
  <2>2. handed' \in [Directions -> Nat] BY <1>1, <1>4 DEF SeeVisible
  <2> QED BY <1>1, <1>4, <2>1, <2>2, SeeVisibleAge DEF TimeInv
<1>5. ASSUME NEW d \in Directions,
             \/ CountTx(d) \/ CheckVisible(d) \/ LinkLoses(d) \/ Forward(d)
      PROVE  TimeInv'
  <2>1. phase' = phase /\ running' = running /\ handed' = handed
        BY <1>5 DEF CountTx, CheckVisible, LinkLoses, Forward, histVars
  <2> QED BY <1>1, <1>5, <2>1, TransmitAge DEF TimeInv
<1>6. ASSUME NEW d \in Directions, Exit(d) PROVE TimeInv'
  <2>1. phase' = phase /\ running' = running /\ handed' = handed
        BY <1>6 DEF Exit, histVars
  <2> QED BY <1>1, <1>6, <2>1, ExitAge DEF TimeInv
<1>7. CASE Stop \/ UNCHANGED vars
  <2>1. /\ phase' = phase /\ queue' = queue /\ hand' = hand /\ pc' = pc
        /\ handed' = handed
        BY <1>7 DEF Stop, vars, histVars
  <2>2. running' = FALSE \/ running' = running BY <1>7 DEF Stop, vars
  <2>3. \A e \in Directions : AgeInv(e)' /\ PlaceInv(e)'
        BY <2>1, <2>2, SameAge DEF TimeInv
  <2> QED BY <1>1, <2>1, <2>2, <2>3 DEF TimeInv
<1>8. CASE Tick
  <2>1. running' = running BY <1>8 DEF Tick
  <2>2. phase' \in 0 .. Period - 1
    <3>1. (phase + 1 < Period /\ phase' = phase + 1) \/ phase' = 0
          BY <1>1, <1>8, NextPhaseIs, RelayConstants DEF Tick
    <3> QED BY <1>1, <3>1, RelayConstants
  <2>3. handed' \in [Directions -> Nat] BY <1>1, <1>8 DEF Tick
  <2> QED BY <1>1, <1>8, <2>1, <2>2, <2>3, TickAge DEF TimeInv
<1> QED BY <1>2, <1>3, <1>4, <1>5, <1>6, <1>7, <1>8 DEF Next, Drain

LEMMA TimeSuffices == Shape /\ TimeInv => StaleAtMostOne
<1> SUFFICES ASSUME Shape, TimeInv, NEW d \in Directions, InFlight(d), hand[d].age > MaxAge
             PROVE  handed[d] = 1 /\ hand[d].age <= MaxAge + Blackout
    BY DEF StaleAtMostOne
<1>1. AgeInv(d) /\ PlaceInv(d) /\ phase \in 0 .. Period - 1 BY DEF TimeInv
<1>2. hand[d].age <= HandAge(d) BY <1>1 DEF AgeInv, Held, InFlight
<1>3. phase = 0
  <2>0. hand[d].age \in Nat BY DEF Shape, Rec
  <2>1. SUFFICES ASSUME phase # 0 PROVE HandAge(d) <= MaxAge /\ HandAge(d) \in Int
        BY <1>2, <2>0, RelayConstants
  <2>2. pc[d] # "wait" BY DEF InFlight
  <2>3. HandAge(d) = 0 \/ HandAge(d) = 1 BY <2>1, <2>2 DEF HandAge
  <2> QED BY <2>3, RelayConstants, ShortTicks
<1> QED BY <1>1, <1>2, <1>3 DEF AgeInv, HandAge

\* A frame that is transmitted past its age was in a drain thread's hand through
\* the blackout, the first of its direction to go in this pass, and at most a
\* blackout too old (leo_relay.py:141-148).
THEOREM OneStaleFrame == Spec => []StaleAtMostOne
BY ShapeInit, ShapeStep, OrderInit, OrderStep, TimeInit, TimeStep, TimeSuffices,
   PTL DEF Spec

----------------------------------------------------------------------------
(* The counters' bounds                                                     *)

\* Frames of a direction that transmit has still to count, and those that have
\* still to be given to it.
Coming == [d \in Directions |->
             Len(queue[d]) + (IF pc[d] \in {"wait", "count"} THEN 1 ELSE 0)]

Awaited == [d \in Directions |->
              Len(queue[d]) + (IF pc[d] = "wait" THEN 1 ELSE 0)]

\* No frame is counted twice, nor given to the channel twice.
CountInv == /\ Len(log) <= MaxFrames
            /\ txCount + Coming["up"] + Coming["down"] <= Len(log)
            /\ \A d \in Directions : handed[d] + Awaited[d] <= Len(log)

LEMMA CountInit == Init => CountInv
BY RelayConstants DEF Init, CountInv, Coming, Awaited, Directions

LEMMA ComingIs ==
  ASSUME NEW d \in Directions, NEW l \in Nat, l = Len(queue[d])
  PROVE  /\ Coming[d] = IF pc[d] \in {"wait", "count"} THEN l + 1 ELSE l
         /\ Awaited[d] = IF pc[d] = "wait" THEN l + 1 ELSE l
<1>1. /\ Coming[d] = l + (IF pc[d] \in {"wait", "count"} THEN 1 ELSE 0)
      /\ Awaited[d] = l + (IF pc[d] = "wait" THEN 1 ELSE 0)
      BY DEF Coming, Awaited
<1>2. l + 0 = l OBVIOUS
<1>3. Coming[d] = IF pc[d] \in {"wait", "count"} THEN l + 1 ELSE l
      BY ONLY <1>1, <1>2
<1>4. Awaited[d] = IF pc[d] = "wait" THEN l + 1 ELSE l BY ONLY <1>1, <1>2
<1> QED BY <1>3, <1>4

LEMMA ComingNext ==
  ASSUME NEW d \in Directions, NEW l \in Nat, l = Len(queue'[d])
  PROVE  /\ Coming'[d] = IF pc'[d] \in {"wait", "count"} THEN l + 1 ELSE l
         /\ Awaited'[d] = IF pc'[d] = "wait" THEN l + 1 ELSE l
<1>1. /\ Coming'[d] = l + (IF pc'[d] \in {"wait", "count"} THEN 1 ELSE 0)
      /\ Awaited'[d] = l + (IF pc'[d] = "wait" THEN 1 ELSE 0)
      BY DEF Coming, Awaited
<1>2. l + 0 = l OBVIOUS
<1>3. Coming'[d] = IF pc'[d] \in {"wait", "count"} THEN l + 1 ELSE l
      BY ONLY <1>1, <1>2
<1>4. Awaited'[d] = IF pc'[d] = "wait" THEN l + 1 ELSE l BY ONLY <1>1, <1>2
<1> QED BY <1>3, <1>4

LEMMA Sums ==
  ASSUME Shape, NEW d \in Directions
  PROVE  /\ Coming[d] \in Nat /\ Awaited[d] \in Nat /\ Len(queue[d]) \in Nat
         /\ Len(log) \in Nat /\ txCount \in Nat
<1>1. PICK l \in Nat : l = Len(queue[d]) BY DEF Shape
<1>2. Coming[d] \in Nat /\ Awaited[d] \in Nat BY <1>1, ComingIs
<1> QED BY <1>1, <1>2 DEF Shape

LEMMA SumsNext ==
  ASSUME Shape', NEW d \in Directions
  PROVE  /\ Coming'[d] \in Nat /\ Awaited'[d] \in Nat /\ Len(queue'[d]) \in Nat
         /\ Len(log') \in Nat /\ txCount' \in Nat
<1>1. PICK l \in Nat : l = Len(queue'[d]) BY DEF Shape
<1>2. Coming'[d] \in Nat /\ Awaited'[d] \in Nat BY <1>1, ComingNext
<1> QED BY <1>1, <1>2 DEF Shape

\* A step that concerns one direction alone and takes from what is to come what
\* it counts or hands over.
LEMMA OneDirection ==
  ASSUME Shape, Shape', TimeInv, TimeInv', CountInv, NEW d \in Directions,
         \A e \in Directions : e # d => /\ queue'[e] = queue[e] /\ pc'[e] = pc[e]
                                        /\ handed'[e] = handed[e],
         txCount' + Coming'[d] + Len(log) <= txCount + Coming[d] + Len(log'),
         handed'[d] + Awaited'[d] + Len(log) <= handed[d] + Awaited[d] + Len(log'),
         Len(log) <= Len(log'), Len(log') <= MaxFrames
  PROVE  CountInv'
<1>1. \A e \in Directions :
        /\ Coming[e] \in Nat /\ Coming'[e] \in Nat
        /\ Awaited[e] \in Nat /\ Awaited'[e] \in Nat
        /\ handed[e] \in Nat /\ handed'[e] \in Nat
      BY Sums, SumsNext DEF TimeInv
<1>2. PICK l, l1, t, t1 \in Nat :
        l = Len(log) /\ l1 = Len(log') /\ t = txCount /\ t1 = txCount'
      BY Sums, SumsNext
<1>3. l <= l1 BY <1>2
<1>4. \A e \in Directions : e # d => Coming'[e] = Coming[e] /\ Awaited'[e] = Awaited[e]
      BY DEF Coming, Awaited
<1>5. ASSUME NEW e \in Directions PROVE handed'[e] + Awaited'[e] <= Len(log')
  <2>1. PICK h, h1, a, a1 \in Nat :
          /\ h = handed[e] /\ h1 = handed'[e]
          /\ a = Awaited[e] /\ a1 = Awaited'[e]
        BY <1>1
  <2>2. h + a <= l BY <1>2, <2>1 DEF CountInv
  <2>3. h1 + a1 + l <= h + a + l1
    <3>1. CASE e = d BY <1>2, <2>1, <3>1
    <3>2. CASE e # d
      <4>1. h1 = h /\ a1 = a BY <1>4, <2>1, <3>2
      <4> QED BY <1>3, <4>1
    <3> QED BY <3>1, <3>2
  <2>4. h1 + a1 <= l1 BY ONLY <2>2, <2>3, h \in Nat, h1 \in Nat, a \in Nat,
                           a1 \in Nat, l \in Nat, l1 \in Nat
  <2> QED BY <1>2, <2>1, <2>4
<1>6. txCount' + Coming'["up"] + Coming'["down"] <= Len(log')
  <2>1. PICK e \in Directions : (d = "up" /\ e = "down") \/ (d = "down" /\ e = "up")
        BY TwoDirections
  <2>2. PICK a, a1, b \in Nat : a = Coming[d] /\ a1 = Coming'[d] /\ b = Coming[e]
        BY <1>1
  <2>3. b = Coming'[e] BY <1>4, <2>1, <2>2
  <2>4. t + a + b <= l
    <3>1. txCount + Coming["up"] + Coming["down"] <= Len(log) BY DEF CountInv
    <3>2. t + a + b <= l \/ t + b + a <= l BY <1>2, <2>1, <2>2, <3>1
    <3> QED BY <3>2
  <2>5. t1 + a1 + l <= t + a + l1 BY <1>2, <2>2
  <2>6. t1 + a1 + b <= l1 /\ t1 + b + a1 <= l1
        BY ONLY <2>4, <2>5, a \in Nat, a1 \in Nat, b \in Nat, t \in Nat,
                t1 \in Nat, l \in Nat, l1 \in Nat
  <2> QED BY <1>2, <2>1, <2>2, <2>3, <2>6
<1> QED BY <1>2, <1>5, <1>6 DEF CountInv

\* A step of a drain thread.
LEMMA OneDrain ==
  ASSUME Shape, Shape', TimeInv, TimeInv', CountInv, NEW d \in Directions,
         log' = log,
         \A e \in Directions : e # d => /\ queue'[e] = queue[e] /\ pc'[e] = pc[e]
                                        /\ handed'[e] = handed[e],
         txCount' + Coming'[d] <= txCount + Coming[d],
         handed'[d] + Awaited'[d] <= handed[d] + Awaited[d]
  PROVE  CountInv'
<1>1. PICK l \in Nat : l = Len(log) /\ l = Len(log') BY Sums
<1>2. PICK t, t1, c, c1 \in Nat :
        t = txCount /\ t1 = txCount' /\ c = Coming[d] /\ c1 = Coming'[d]
      BY Sums, SumsNext
<1>3. PICK h, h1, a, a1 \in Nat :
        h = handed[d] /\ h1 = handed'[d] /\ a = Awaited[d] /\ a1 = Awaited'[d]
      BY Sums, SumsNext DEF TimeInv
<1>4. t1 + c1 + l <= t + c + l /\ h1 + a1 + l <= h + a + l BY <1>2, <1>3
<1>5. l <= MaxFrames BY <1>1 DEF CountInv
<1> QED BY <1>1, <1>2, <1>3, <1>4, <1>5, OneDirection

LEMMA CountStep ==
  ASSUME Shape, Shape', TimeInv, TimeInv', CountInv, [Next]_vars
  PROVE  CountInv'
<1>0. \A e \in Directions : Len(queue[e]) \in Nat BY DEF Shape
<1>a. txCount \in Nat /\ \A e \in Directions : handed[e] \in Nat
      BY DEF Shape, TimeInv
<1>1. ASSUME NEW src \in Sources, Arrive(src) PROVE CountInv'
  <2> DEFINE d == Route(src)
  <2>1. d \in Directions BY DEF Route, Directions
  <2>2. /\ pc' = pc /\ handed' = handed /\ txCount' = txCount
        /\ \A e \in Directions : e # d => queue'[e] = queue[e]
        BY <1>1 DEF Arrive, Shape, statVars
  <2>3. Len(queue'[d]) = Len(queue[d]) + 1
    <3>1. queue'[d] = Append(queue[d], [n |-> Len(log) + 1, age |-> 0])
          BY <1>1, <2>1 DEF Arrive, Shape
    <3>2. queue[d] \in Seq(Rec) BY <2>1 DEF Shape
    <3>3. [n |-> Len(log) + 1, age |-> 0] \in Rec BY DEF Shape, Rec
    <3> QED BY <3>1, <3>2, <3>3
  <2>4. Len(log') = Len(log) + 1 /\ Len(log) \in Nat /\ Len(log) < MaxFrames
        BY <1>1 DEF Arrive, Shape
  <2> HIDE DEF d
  <2>5. Coming'[d] = Coming[d] + 1 /\ Awaited'[d] = Awaited[d] + 1
    <3>1. PICK k \in Nat : k = Len(queue[d]) /\ k + 1 = Len(queue'[d])
          BY <1>0, <2>1, <2>3
    <3> QED BY <2>1, <2>2, <3>1, ComingIs, ComingNext
  <2>6. PICK c, a, h, t, l \in Nat :
          /\ c = Coming[d] /\ a = Awaited[d] /\ h = handed[d] /\ t = txCount
          /\ l = Len(log)
        BY <1>a, <2>1, Sums
  <2>7. /\ t + (c + 1) + l <= t + c + (l + 1) /\ h + (a + 1) + l <= h + a + (l + 1)
        /\ l <= l + 1 /\ l + 1 <= MaxFrames
    <3>1. l < MaxFrames BY <2>4, <2>6
    <3> QED BY <3>1, RelayConstants
  <2> QED BY <2>1, <2>2, <2>4, <2>5, <2>6, <2>7, OneDirection
<1>2. ASSUME NEW d \in Directions, Get(d) PROVE CountInv'
  <2>1. /\ log' = log /\ txCount' = txCount /\ handed' = handed
        /\ \A e \in Directions : e # d => queue'[e] = queue[e] /\ pc'[e] = pc[e]
        BY <1>2 DEF Get, Goto, Shape, statVars, histVars
  <2>2. Len(queue'[d]) + 1 = Len(queue[d])
    <3>1. queue[d] \in Seq(Rec) /\ queue[d] # << >> BY <1>2 DEF Get, Shape
    <3>2. queue'[d] = Tail(queue[d]) BY <1>2 DEF Get, Rest, Shape
    <3> QED BY <3>1, <3>2
  <2>3. pc[d] = "get" /\ pc'[d] \in {"get", "wait"} BY <1>2 DEF Get, Goto, Shape
  <2>5. Coming'[d] <= Coming[d] /\ Awaited'[d] <= Awaited[d]
    <3>1. PICK k \in Nat : k = Len(queue'[d]) /\ k + 1 = Len(queue[d])
          BY <2>2, SumsNext
    <3> QED BY <2>3, <3>1, ComingIs, ComingNext
  <2>6. PICK c, c1, a, a1, h, t \in Nat :
          /\ c = Coming[d] /\ c1 = Coming'[d] /\ a = Awaited[d] /\ a1 = Awaited'[d]
          /\ h = handed[d] /\ t = txCount
        BY <1>a, Sums, SumsNext
  <2>7. t + c1 <= t + c /\ h + a1 <= h + a BY <2>5, <2>6
  <2> QED BY <2>1, <2>6, <2>7, OneDrain
<1>3. ASSUME NEW d \in Directions, SeeVisible(d) PROVE CountInv'
  <2>1. /\ log' = log /\ txCount' = txCount /\ queue' = queue
        /\ \A e \in Directions : e # d => pc'[e] = pc[e] /\ handed'[e] = handed[e]
        BY <1>3 DEF SeeVisible, Goto, Shape, TimeInv, statVars
  <2>2. handed'[d] = handed[d] + 1 BY <1>3 DEF SeeVisible, TimeInv
  <2>3. pc[d] = "wait" /\ pc'[d] = "count" BY <1>3 DEF SeeVisible, Goto, Shape
  <2>4. Coming'[d] = Coming[d] /\ Awaited[d] = Awaited'[d] + 1
    <3>1. PICK k \in Nat : k = Len(queue'[d]) /\ k = Len(queue[d]) BY <1>0, <2>1
    <3>2. Coming[d] = k + 1 /\ Awaited[d] = k + 1 BY <2>3, <3>1, ComingIs
    <3>3. Coming'[d] = k + 1 /\ Awaited'[d] = k BY <2>3, <3>1, ComingNext
    <3> QED BY <3>2, <3>3
  <2>5. PICK c, a1, h, t \in Nat :
          c = Coming[d] /\ a1 = Awaited'[d] /\ h = handed[d] /\ t = txCount
        BY <1>a, Sums, SumsNext
  <2>6. t + c <= t + c /\ (h + 1) + a1 <= h + (a1 + 1) OBVIOUS
  <2> QED BY <2>1, <2>2, <2>4, <2>5, <2>6, OneDrain
<1>4. ASSUME NEW d \in Directions, CountTx(d) PROVE CountInv'
  <2>1. /\ log' = log /\ handed' = handed /\ queue' = queue
        /\ \A e \in Directions : e # d => pc'[e] = pc[e]
        /\ txCount' = txCount + 1
        BY <1>4 DEF CountTx, Goto, Shape, histVars
  <2>2. pc[d] = "count" /\ pc'[d] = "check" BY <1>4 DEF CountTx, Goto, Shape
  <2>3. Coming[d] = Coming'[d] + 1 /\ Awaited'[d] = Awaited[d]
    <3>1. PICK k \in Nat : k = Len(queue'[d]) /\ k = Len(queue[d]) BY <1>0, <2>1
    <3>2. Coming[d] = k + 1 /\ Awaited[d] = k BY <2>2, <3>1, ComingIs
    <3>3. Coming'[d] = k /\ Awaited'[d] = k BY <2>2, <3>1, ComingNext
    <3> QED BY <3>2, <3>3
  <2>4. PICK c1, a, h, t \in Nat :
          c1 = Coming'[d] /\ a = Awaited[d] /\ h = handed[d] /\ t = txCount
        BY <1>a, Sums, SumsNext
  <2>5. (t + 1) + c1 <= t + (c1 + 1) /\ h + a <= h + a OBVIOUS
  <2> QED BY <2>1, <2>3, <2>4, <2>5, OneDrain
<1>5. ASSUME NEW d \in Directions,
             CheckVisible(d) \/ LinkLoses(d) \/ Forward(d) \/ Exit(d)
      PROVE  CountInv'
  <2>1. log' = log /\ handed' = handed /\ queue' = queue /\ txCount' = txCount
        BY <1>5 DEF CheckVisible, LinkLoses, Forward, Exit, statVars, histVars
  <2>2. \A e \in Directions : e # d => pc'[e] = pc[e]
        BY <1>5 DEF CheckVisible, LinkLoses, Forward, Exit, Finish, Goto, Shape
  <2>3. pc'[d] \in {"air", "get", "done"}
        BY <1>5 DEF CheckVisible, LinkLoses, Forward, Exit, Finish, Goto, Shape
  <2>4. Coming'[d] <= Coming[d] /\ Awaited'[d] <= Awaited[d]
    <3>1. PICK k \in Nat : k = Len(queue'[d]) /\ k = Len(queue[d]) BY <1>0, <2>1
    <3>2. pc'[d] \notin {"wait", "count"} /\ pc'[d] # "wait" BY <2>3
    <3>3. Coming'[d] = k /\ Awaited'[d] = k BY <3>1, <3>2, ComingNext
    <3>4. Coming[d] \in {k, k + 1} /\ Awaited[d] \in {k, k + 1} BY <3>1, ComingIs
    <3> QED BY <3>3, <3>4
  <2>5. PICK c, c1, a, a1, h, t \in Nat :
          /\ c = Coming[d] /\ c1 = Coming'[d] /\ a = Awaited[d] /\ a1 = Awaited'[d]
          /\ h = handed[d] /\ t = txCount
        BY <1>a, Sums, SumsNext
  <2>6. t + c1 <= t + c /\ h + a1 <= h + a BY <2>4, <2>5
  <2> QED BY <2>1, <2>2, <2>5, <2>6, OneDrain
<1>6. CASE Stop \/ Tick \/ UNCHANGED vars
  <2>1. log' = log /\ pc' = pc /\ txCount' = txCount
        BY <1>6 DEF Stop, Tick, vars, statVars, histVars
  <2>2. \A e \in Directions : Len(queue'[e]) = Len(queue[e])
    <3>1. CASE Tick
      <4>1. ASSUME NEW e \in Directions PROVE Len(queue'[e]) = Len(queue[e])
        <5>1. queue'[e] = [i \in 1 .. Len(queue[e]) |-> Older(queue[e][i])]
              BY <3>1 DEF Tick, Shape
        <5> QED BY <1>0, <5>1
      <4> QED BY <4>1
    <3>2. CASE Stop \/ UNCHANGED vars BY <3>2 DEF Stop, vars
    <3> QED BY <1>6, <3>1, <3>2
  <2>3. \A e \in Directions : handed'[e] <= handed[e] /\ handed'[e] \in Nat
    <3>1. \A e \in Directions : handed'[e] = handed[e] \/ handed'[e] = 0
          BY <1>6 DEF Stop, Tick, vars, histVars
    <3> QED BY <1>a, <3>1
  <2>4. Coming' = Coming /\ Awaited' = Awaited BY <2>1, <2>2 DEF Coming, Awaited
  <2>5. \A e \in Directions : Awaited[e] \in Nat /\ Len(log) \in Nat BY Sums
  <2>6. \A e \in Directions : handed'[e] + Awaited[e] <= Len(log)
        BY <1>a, <2>3, <2>5 DEF CountInv
  <2> QED BY <2>1, <2>4, <2>6 DEF CountInv
<1> QED BY <1>1, <1>2, <1>3, <1>4, <1>5, <1>6 DEF Next, Drain

----------------------------------------------------------------------------
(* Types                                                                    *)

RelayInv == Shape /\ OrderInv /\ TimeInv /\ CountInv /\ StatsAddUp

LEMMA RelayInit == Init => RelayInv
<1>1. Init => StatsAddUp BY DEF Init, StatsAddUp, Directions
<1> QED BY <1>1, ShapeInit, OrderInit, TimeInit, CountInit DEF RelayInv

LEMMA RelayStep == RelayInv /\ [Next]_vars => RelayInv'
BY ShapeStep, OrderStep, TimeStep, CountStep, StatsStep DEF RelayInv

\* What has been settled was transmitted before.
LEMMA SettledOnce ==
  ASSUME Shape, StatsAddUp
  PROVE  lostCount <= txCount /\ sendErrors <= txCount
<1>1. PICK t, l, e, f, u, v \in Nat :
        /\ t = txCount /\ l = lostCount /\ e = sendErrors /\ f = Forwarded
        /\ u = OnAir["up"] /\ v = OnAir["down"]
      BY Counts
<1>2. t = l + e + f + u + v
  <2>1. txCount = Settled + OnAir["up"] + OnAir["down"] BY StatsAreSums
  <2>2. Settled = l + e + f BY <1>1 DEF Settled
  <2> QED BY <1>1, <2>1, <2>2
<1>3. l <= t /\ e <= t
      BY ONLY <1>2, t \in Nat, l \in Nat, e \in Nat, f \in Nat, u \in Nat, v \in Nat
<1> QED BY <1>1, <1>3

LEMMA CountedBound ==
  ASSUME Shape, CountInv
  PROVE  /\ txCount <= MaxFrames
         /\ \A d \in Directions : handed[d] \in Nat => handed[d] <= MaxFrames
<1>1. PICK l, t, u, v \in Nat :
        /\ l = Len(log) /\ t = txCount /\ u = Coming["up"] /\ v = Coming["down"]
      BY Sums DEF Directions
<1>2. l <= MaxFrames /\ t + u + v <= l BY <1>1 DEF CountInv
<1>3. t <= MaxFrames
      BY ONLY <1>2, RelayConstants, l \in Nat, t \in Nat, u \in Nat, v \in Nat
<1>4. ASSUME NEW d \in Directions, handed[d] \in Nat PROVE handed[d] <= MaxFrames
  <2>1. PICK h, a \in Nat : h = handed[d] /\ a = Awaited[d] BY <1>4, Sums
  <2>2. h + a <= l BY <1>1, <2>1 DEF CountInv
  <2>3. h <= MaxFrames
        BY ONLY <1>2, <2>2, RelayConstants, l \in Nat, h \in Nat, a \in Nat
  <2> QED BY <2>1, <2>3
<1> QED BY <1>1, <1>3, <1>4

LEMMA ItemIs ==
  ASSUME NEW n \in 1 .. Len(log), NEW a \in Nat, log \in Seq(Sources),
         Len(log) <= MaxFrames, a <= MaxAge + Blackout
  PROVE  n \in 1 .. MaxFrames /\ [n |-> n, age |-> a] \in Item
<1>1. Len(log) \in Nat OBVIOUS
<1>2. n \in 1 .. MaxFrames BY <1>1, RelayConstants
<1>3. a \in 0 .. MaxAge + Blackout BY RelayConstants DEF Blackout
<1> QED BY <1>2, <1>3 DEF Item

LEMMA RecIs == ASSUME NEW r \in Rec
               PROVE  r = [n |-> r.n, age |-> r.age] /\ r.age \in Nat
BY DEF Rec

LEMMA SeqOf ==
  ASSUME NEW S, NEW T, NEW s \in Seq(S), \A i \in 1 .. Len(s) : s[i] \in T
  PROVE  s \in Seq(T)
OBVIOUS

LEMMA RelayTypes == RelayInv => TypeOK
<1> SUFFICES ASSUME RelayInv PROVE TypeOK
    OBVIOUS
<1>1. Shape /\ OrderInv /\ TimeInv /\ CountInv /\ StatsAddUp BY DEF RelayInv
<1>2. log \in Seq(Sources) /\ Len(log) <= MaxFrames BY <1>1 DEF Shape, CountInv
<1>3. ASSUME NEW d \in Directions
      PROVE  /\ queue[d] \in Seq(Item)
             /\ hand[d] \in Item \cup {NoItem}
             /\ (hand[d] = NoItem) = (pc[d] \in {"get", "done"})
             /\ pc[d] \in {"get", "wait", "count", "check", "air", "done"}
             /\ out[d] \in Seq(1 .. MaxFrames)
             /\ handed[d] \in 0 .. MaxFrames
  <2>1. /\ AgeInv(d) /\ PlaceInv(d) /\ phase \in 0 .. Period - 1
        /\ OutInv(d) /\ QueueInv(d) /\ HandInv(d)
        BY <1>1 DEF TimeInv, OrderInv
  <2>2. queue[d] \in Seq(Item)
    <3>1. queue[d] \in Seq(Rec) BY <1>1 DEF Shape
    <3>2. QueueAge <= MaxAge + Blackout /\ QueueAge \in Nat
          BY <2>1, RelayConstants, ShortTicks DEF QueueAge, Blackout
    <3>3. ASSUME NEW k \in 1 .. Len(queue[d]) PROVE queue[d][k] \in Item
      <4>1. queue[d][k] \in Rec /\ k \in DOMAIN queue[d] BY <3>1
      <4>2. queue[d][k].n \in 1 .. Len(log) /\ queue[d][k].age <= QueueAge
            BY <2>1, <4>1 DEF QueueInv, Mine, AgeInv
      <4>3. PICK a \in Nat : a = queue[d][k].age BY <4>1, RecIs
      <4>4. a <= MaxAge + Blackout
            BY <3>2, <4>2, <4>3, RelayConstants DEF Blackout
      <4> QED BY <1>2, <4>1, <4>2, <4>3, <4>4, RecIs, ItemIs
    <3> QED BY <3>1, <3>3
  <2>3. hand[d] \in Item \cup {NoItem}
    <3>1. SUFFICES ASSUME hand[d] # NoItem PROVE hand[d] \in Item
          OBVIOUS
    <3>2. Held(d) BY <1>1, <2>1, <3>1 DEF PlaceInv, Held, Shape
    <3>3. hand[d] \in Rec BY <1>1 DEF Shape
    <3>4. hand[d].n \in 1 .. Len(log) /\ hand[d].age <= HandAge(d)
          BY <2>1, <3>2 DEF HandInv, Mine, AgeInv
    <3>5. HandAge(d) <= MaxAge + Blackout /\ HandAge(d) \in Nat
          BY <2>1, RelayConstants, ShortTicks DEF HandAge, Blackout
    <3>6. PICK a \in Nat : a = hand[d].age BY <3>3, RecIs
    <3>7. a <= MaxAge + Blackout BY <3>4, <3>5, <3>6, RelayConstants DEF Blackout
    <3> QED BY <1>2, <3>3, <3>4, <3>6, <3>7, RecIs, ItemIs
  <2>4. out[d] \in Seq(1 .. MaxFrames)
    <3>1. out[d] \in Seq(Nat) BY <1>1 DEF Shape
    <3>2. \A i \in 1 .. Len(out[d]) : out[d][i] \in 1 .. Len(log)
          BY <2>1, <3>1 DEF OutInv, Mine
    <3>3. Len(log) \in Nat BY <1>2
    <3>4. \A i \in 1 .. Len(out[d]) : out[d][i] \in 1 .. MaxFrames
          BY <1>2, <3>2, <3>3, RelayConstants
    <3> QED BY ONLY <3>1, <3>4, SeqOf
  <2>5. handed[d] \in 0 .. MaxFrames
    <3>1. handed[d] \in Nat BY <1>1 DEF TimeInv
    <3>2. handed[d] <= MaxFrames BY <1>1, <3>1, CountedBound
    <3> QED BY <3>1, <3>2, RelayConstants
  <2> QED BY <1>1, <2>1, <2>2, <2>3, <2>4, <2>5 DEF PlaceInv, Shape
<1>4. /\ txCount \in 0 .. MaxFrames /\ lostCount \in 0 .. MaxFrames
      /\ sendErrors \in 0 .. MaxFrames
  <2>1. txCount \in Nat /\ lostCount \in Nat /\ sendErrors \in Nat
        BY <1>1 DEF Shape
  <2>2. txCount <= MaxFrames BY <1>1, CountedBound
  <2>3. lostCount <= txCount /\ sendErrors <= txCount BY <1>1, SettledOnce
  <2> QED BY ONLY <2>1, <2>2, <2>3, RelayConstants
<1>5. running \in BOOLEAN /\ phase \in 0 .. Period - 1 BY <1>1 DEF TimeInv
<1> QED BY <1>2, <1>3, <1>4, <1>5 DEF TypeOK

\* Types, and with them that no frame grows older than the age limit and a
\* blackout, that none is counted twice, and that a drain thread's place agrees
\* with its local variables (leo_relay.py:129-163).
THEOREM TypeCorrect == Spec => []TypeOK
BY RelayInit, RelayStep, RelayTypes, PTL DEF Spec

----------------------------------------------------------------------------
(* Each direction implements a channel that loses messages.                 *)

\* The thread has a frame in hand at just the places where it has to.
HandsInv == \A d \in Directions : (hand[d] = NoItem) = ~Held(d)

LEMMA HandsInit == Init => HandsInv
BY DEF Init, HandsInv, Held

LEMMA HandsStep ==
  ASSUME Shape, OrderInv, HandsInv, [Next]_vars
  PROVE  HandsInv'
<1> SUFFICES ASSUME NEW e \in Directions PROVE (hand'[e] = NoItem) = ~Held(e)'
    BY DEF HandsInv
<1>0. /\ pc \in [Directions -> {"get", "wait", "count", "check", "air", "done"}]
      /\ hand \in [Directions -> Rec] /\ queue \in [Directions -> Seq(Rec)]
      /\ (hand[e] = NoItem) = ~Held(e)
      BY DEF Shape, HandsInv
<1>1. ASSUME NEW d \in Directions, Get(d) PROVE (hand'[e] = NoItem) = ~Held(e)'
  <2>1. pc[d] = "get" /\ queue[d] # << >> BY <1>1 DEF Get
  <2>2. Head(queue[d]) # NoItem
    <3>1. 1 \in DOMAIN queue[d] /\ Head(queue[d]) = queue[d][1] BY <1>0, <2>1
    <3>2. queue[d][1].n \in 1 .. Len(log) BY <3>1 DEF OrderInv, QueueInv, Mine
    <3> QED BY <3>1, <3>2 DEF NoItem
  <2>3. CASE Expired(Head(queue[d]))
        BY <1>0, <1>1, <2>3 DEF Get, Held
  <2>4. CASE ~Expired(Head(queue[d]))
    <3>1. pc' = [pc EXCEPT ![d] = "wait"] /\ hand' = [hand EXCEPT ![d] = Head(queue[d])]
          BY <1>1, <2>4 DEF Get, Goto
    <3> QED BY <1>0, <2>2, <3>1 DEF Held
  <2> QED BY <2>3, <2>4
<1>2. ASSUME NEW d \in Directions, SeeVisible(d) \/ CountTx(d)
      PROVE  (hand'[e] = NoItem) = ~Held(e)'
      BY <1>0, <1>2 DEF SeeVisible, CountTx, Goto, Held, histVars
<1>3. ASSUME NEW d \in Directions, CheckVisible(d) \/ LinkLoses(d) \/ Forward(d) \/ Exit(d)
      PROVE  (hand'[e] = NoItem) = ~Held(e)'
      BY <1>0, <1>3 DEF CheckVisible, LinkLoses, Forward, Exit, Finish, Goto, Held
<1>4. CASE Tick
  <2>1. pc' = pc /\ hand'[e] = IF hand[e] = NoItem THEN NoItem ELSE Older(hand[e])
        BY <1>4 DEF Tick
  <2>2. hand[e] # NoItem => Older(hand[e]) # NoItem
    <3> SUFFICES ASSUME hand[e] # NoItem PROVE Older(hand[e]).n # 0
        BY DEF NoItem
    <3>1. hand[e].n \in 1 .. Len(log) BY <1>0 DEF OrderInv, HandInv, Mine
    <3>2. Older(hand[e]).n = hand[e].n BY <1>0, OlderRec
    <3> QED BY <3>1, <3>2
  <2> QED BY <1>0, <2>1, <2>2 DEF Held
<1>5. CASE Stop \/ (\E src \in Sources : Arrive(src)) \/ UNCHANGED vars
  <2>1. pc' = pc /\ hand' = hand BY <1>5 DEF Stop, Arrive, vars
  <2> QED BY <1>0, <2>1 DEF Held
<1> QED BY <1>1, <1>2, <1>3, <1>4, <1>5 DEF Next, Drain

Numbers(q) == [i \in DOMAIN q |-> q[i].n]

LEMMA NumbersOf ==
  ASSUME NEW q \in Seq(Rec)
  PROVE  Numbers(q) \in Seq(Nat) /\ DOMAIN Numbers(q) = DOMAIN q /\ Len(Numbers(q)) = Len(q)
<1>1. Len(q) \in Nat /\ DOMAIN q = 1 .. Len(q) OBVIOUS
<1>2. \A i \in 1 .. Len(q) : q[i].n \in Nat
  <2>1. \A i \in 1 .. Len(q) : q[i] \in Rec BY <1>1
  <2> QED BY <2>1 DEF Rec
<1> QED BY <1>1, <1>2 DEF Numbers

LEMMA NumbersAppend ==
  ASSUME NEW q \in Seq(Rec), NEW r \in Rec
  PROVE  Numbers(Append(q, r)) = Append(Numbers(q), r.n)
<1>1. Numbers(q) \in Seq(Nat) /\ Len(Numbers(q)) = Len(q) BY NumbersOf
<1>2. Append(q, r) \in Seq(Rec) /\ r.n \in Nat BY DEF Rec
<1>3. PICK s : s = Append(q, r) OBVIOUS
<1>4. /\ Numbers(s) \in Seq(Nat) /\ Len(Numbers(s)) = Len(q) + 1
      /\ \A i \in 1 .. Len(q) + 1 : Numbers(s)[i] = s[i].n
  <2>1. s \in Seq(Rec) /\ Len(s) = Len(q) + 1 /\ DOMAIN s = 1 .. Len(q) + 1
        BY <1>2, <1>3
  <2>2. Numbers(s) \in Seq(Nat) /\ Len(Numbers(s)) = Len(q) + 1 BY <2>1, NumbersOf
  <2>3. \A i \in 1 .. Len(q) + 1 : Numbers(s)[i] = s[i].n BY <2>1 DEF Numbers
  <2> QED BY <2>2, <2>3
<1>5. \A i \in 1 .. Len(q) : s[i] = q[i] /\ Numbers(q)[i] = q[i].n
      BY <1>3 DEF Numbers
<1>6. s[Len(q) + 1] = r BY <1>3
<1>7. PICK t : t = Numbers(q) OBVIOUS
<1>8. PICK u : u = Numbers(s) OBVIOUS
<1>9. \A i \in 1 .. Len(q) : u[i] = t[i] BY <1>4, <1>5, <1>7, <1>8
<1>10. u[Len(q) + 1] = r.n BY <1>4, <1>6, <1>8
<1>11. u = Append(t, r.n)
       BY ONLY q \in Seq(Rec), <1>1, <1>2, <1>4, <1>7, <1>8, <1>9, <1>10
<1> QED BY <1>3, <1>7, <1>8, <1>11

LEMMA SameList ==
  ASSUME NEW s \in Seq(Nat), NEW t \in Seq(Nat), Len(s) = Len(t),
         \A i \in 1 .. Len(t) : s[i] = t[i]
  PROVE  s = t
OBVIOUS

LEMMA TailIs ==
  ASSUME NEW s \in Seq(Nat), NEW t \in Seq(Nat), Len(s) = Len(t) + 1,
         \A i \in 1 .. Len(t) : t[i] = s[i + 1]
  PROVE  s # << >> /\ Head(s) = s[1] /\ Tail(s) = t
<1>1. Len(t) \in Nat /\ s # << >> /\ Head(s) = s[1] OBVIOUS
<1>2. /\ Tail(s) \in Seq(Nat) /\ Len(Tail(s)) = Len(t)
      /\ \A i \in 1 .. Len(t) : Tail(s)[i] = s[i + 1]
      BY <1>1
<1>3. PICK u : u = Tail(s) OBVIOUS
<1>4. u \in Seq(Nat) /\ Len(u) = Len(t) /\ \A i \in 1 .. Len(t) : u[i] = t[i]
      BY <1>2, <1>3
<1>5. u = t BY <1>4, SameList
<1> QED BY <1>1, <1>3, <1>5

LEMMA NumbersTail ==
  ASSUME NEW q \in Seq(Rec), q # << >>
  PROVE  /\ Head(Numbers(q)) = Head(q).n /\ Tail(Numbers(q)) = Numbers(Tail(q))
         /\ Numbers(q) # << >> /\ Head(q) \in Rec
         /\ Numbers(q) = <<Head(q).n>> \o Numbers(Tail(q))
<1>1. Numbers(q) \in Seq(Nat) /\ Len(Numbers(q)) = Len(q) /\ DOMAIN Numbers(q) = DOMAIN q
      BY NumbersOf
<1>2. /\ Len(q) \in Nat /\ Len(q) > 0 /\ DOMAIN q = 1 .. Len(q)
      /\ Head(q) = q[1] /\ Head(q) \in Rec
      /\ Tail(q) \in Seq(Rec) /\ Len(Tail(q)) = Len(q) - 1
      /\ \A i \in 1 .. Len(q) - 1 : Tail(q)[i] = q[i + 1]
      OBVIOUS
<1>3. PICK t : t = Numbers(q) OBVIOUS
<1>4. PICK u : u = Numbers(Tail(q)) OBVIOUS
<1>5. u \in Seq(Nat) /\ Len(u) = Len(q) - 1 BY <1>2, <1>4, NumbersOf
<1>6. \A i \in 1 .. Len(q) : t[i] = q[i].n BY <1>2, <1>3 DEF Numbers
<1>7. \A i \in 1 .. Len(q) - 1 : u[i] = q[i + 1].n BY <1>2, <1>4 DEF Numbers
<1>8. \A i \in 1 .. Len(q) - 1 : u[i] = t[i + 1] BY ONLY <1>2, <1>6, <1>7
<1>9. t[1] = Head(q).n BY ONLY <1>2, <1>6
<1>10. t \in Seq(Nat) /\ Len(t) = Len(q) BY <1>1, <1>3
<1>11. Head(t) = Head(q).n /\ Tail(t) = u /\ t # << >>
  <2>1. Len(q) \in Nat /\ Len(q) > 0 BY <1>2
  <2>2. Len(t) = Len(u) + 1 BY ONLY <2>1, <1>5, <1>10
  <2>3. \A i \in 1 .. Len(u) : u[i] = t[i + 1] BY <1>5, <1>8
  <2> QED BY <2>2, <2>3, <1>5, <1>9, <1>10, TailIs
<1>12. t = <<Head(t)>> \o Tail(t) BY ONLY <1>10, <1>11
<1> QED BY <1>2, <1>3, <1>4, <1>11, <1>12

\* What a channel may do with its first message.
LEMMA FirstOut ==
  ASSUME NEW a \in Nat, NEW t \in Seq(Nat), NEW s, s = <<a>> \o t
  PROVE  /\ s # << >> /\ Head(s) = a /\ Tail(s) = t /\ 1 \in DOMAIN s
         /\ Channels!Without(s, 1) = t
<1>1. s \in Seq(Nat) /\ Len(s) = Len(t) + 1 /\ Len(t) \in Nat OBVIOUS
<1>2. s[1] = a /\ \A i \in 1 .. Len(t) : t[i] = s[i + 1] BY <1>1
<1>3. Tail(s) = t /\ Head(s) = a /\ s # << >> BY <1>1, <1>2, TailIs
<1>4. SubSeq(s, 1, 1 - 1) = << >> BY <1>1
<1>5. SubSeq(s, 1 + 1, Len(s)) = t
  <2>1. /\ Len(SubSeq(s, 2, Len(s))) = Len(t)
        /\ \A i \in 1 .. Len(t) : SubSeq(s, 2, Len(s))[i] = s[i + 1]
        BY <1>1
  <2> QED BY <1>1, <1>2, <2>1
<1>6. << >> \o t = t OBVIOUS
<1> QED BY <1>1, <1>3, <1>4, <1>5, <1>6 DEF Channels!Without

LEMMA UnderwayIs ==
  ASSUME Shape, NEW d \in Directions
  PROVE  /\ Underway[d] = InHand(d) \o Numbers(queue[d])
         /\ Numbers(queue[d]) \in Seq(Nat)
         /\ hand[d] = NoItem => Underway[d] = Numbers(queue[d])
         /\ hand[d] # NoItem => Underway[d] = <<hand[d].n>> \o Numbers(queue[d])
         /\ hand[d].n \in Nat
<1>1. queue[d] \in Seq(Rec) /\ hand[d] \in Rec BY DEF Shape
<1>2. Numbers(queue[d]) \in Seq(Nat) /\ hand[d].n \in Nat BY <1>1, NumbersOf DEF Rec
<1>3. Underway[d] = InHand(d) \o Numbers(queue[d]) BY DEF Underway, Numbers
<1>4. << >> \o Numbers(queue[d]) = Numbers(queue[d]) BY <1>2
<1> QED BY <1>2, <1>3, <1>4 DEF InHand

\* The same of the next state.
LEMMA UnderwayNext ==
  ASSUME Shape', NEW d \in Directions
  PROVE  /\ Underway'[d] = InHand(d)' \o Numbers(queue'[d])
         /\ hand'[d] = NoItem => Underway'[d] = Numbers(queue'[d])
         /\ hand'[d] # NoItem => Underway'[d] = <<hand'[d].n>> \o Numbers(queue'[d])
<1>1. queue'[d] \in Seq(Rec) BY DEF Shape
<1>2. Numbers(queue'[d]) \in Seq(Nat) BY <1>1, NumbersOf
<1>3. Underway'[d] = InHand(d)' \o Numbers(queue'[d]) BY DEF Underway, Numbers
<1>4. << >> \o Numbers(queue'[d]) = Numbers(queue'[d]) BY <1>2
<1> QED BY <1>3, <1>4 DEF InHand

\* A direction whose frames stay where they are.
LEMMA StaysUnderway ==
  ASSUME NEW e \in Directions, hand'[e] = hand[e], queue'[e] = queue[e]
  PROVE  Underway'[e] = Underway[e]
BY DEF Underway, InHand

LEMMA UnderwayElse ==
  ASSUME NEW d \in Directions, NEW s, Underway'[d] = s,
         \A e \in Directions : e # d => Underway'[e] = Underway[e]
  PROVE  Underway' = [Underway EXCEPT ![d] = s]
<1>1. /\ Underway = [e \in Directions |-> Underway[e]]
      /\ Underway' = [e \in Directions |-> Underway'[e]]
      BY DEF Underway
<1>2. PICK u : u = Underway OBVIOUS
<1>3. PICK v : v = Underway' OBVIOUS
<1> QED BY ONLY <1>1, <1>2, <1>3, d \in Directions, Underway'[d] = s,
                \A e \in Directions : e # d => Underway'[e] = Underway[e]

\* The three things a channel does, and doing nothing.
LEMMA Enters ==
  ASSUME NEW d \in Directions, NEW m \in 1 .. MaxFrames, \A e \in Entered[d] : e < m,
         Entered' = [Entered EXCEPT ![d] = @ \cup {m}], out' = out,
         Underway'[d] = Append(Underway[d], m),
         \A e \in Directions : e # d => Underway'[e] = Underway[e]
  PROVE  Channels!Next
<1>1. Underway' = [Underway EXCEPT ![d] = Append(Underway[d], m)] BY UnderwayElse
<1>2. Underway' = [Underway EXCEPT ![d] = Append(@, m)] BY <1>1
<1>3. Channels!Enter(d) BY <1>2 DEF Channels!Enter
<1> QED BY <1>3 DEF Channels!Next

LEMMA Loses ==
  ASSUME NEW d \in Directions, NEW a \in Nat, NEW t \in Seq(Nat),
         Underway[d] = <<a>> \o t, Underway'[d] = t, Entered' = Entered, out' = out,
         \A e \in Directions : e # d => Underway'[e] = Underway[e]
  PROVE  Channels!Next
<1>1. PICK s : s = Underway[d] OBVIOUS
<1>2. 1 \in DOMAIN s /\ Channels!Without(s, 1) = t
  <2>1. s = <<a>> \o t BY <1>1
  <2>2. 1 \in DOMAIN s BY <2>1, FirstOut
  <2>3. Channels!Without(s, 1) = t BY ONLY <2>1, a \in Nat, t \in Seq(Nat), FirstOut
  <2> QED BY <2>2, <2>3
<1>3. Underway' = [Underway EXCEPT ![d] = Channels!Without(Underway[d], 1)]
      BY <1>1, <1>2, UnderwayElse
<1>4. Underway' = [Underway EXCEPT ![d] = Channels!Without(@, 1)] BY <1>3
<1>5. Channels!Lose(d) BY <1>1, <1>2, <1>4 DEF Channels!Lose
<1> QED BY <1>5 DEF Channels!Next

LEMMA Delivers ==
  ASSUME NEW d \in Directions, NEW a \in Nat, NEW t \in Seq(Nat),
         Underway[d] = <<a>> \o t, Underway'[d] = t, Entered' = Entered,
         out' = [out EXCEPT ![d] = Append(@, a)],
         \A e \in Directions : e # d => Underway'[e] = Underway[e]
  PROVE  Channels!Next
<1>1. PICK s : s = Underway[d] OBVIOUS
<1>2. s # << >> /\ Head(s) = a /\ Tail(s) = t BY <1>1, FirstOut
<1>3. Underway' = [Underway EXCEPT ![d] = Tail(Underway[d])] BY <1>1, <1>2, UnderwayElse
<1>4. Underway' = [Underway EXCEPT ![d] = Tail(@)] BY <1>3
<1>5. out' = [out EXCEPT ![d] = Append(@, Head(Underway[d]))] BY <1>1, <1>2
<1>6. Channels!Deliver(d) BY <1>1, <1>2, <1>4, <1>5 DEF Channels!Deliver
<1> QED BY <1>6 DEF Channels!Next

LEMMA Rests ==
  ASSUME Entered' = Entered, out' = out,
         \A e \in Directions : Underway'[e] = Underway[e]
  PROVE  UNCHANGED Channels!vars
<1>1. /\ Underway = [e \in Directions |-> Underway[e]]
      /\ Underway' = [e \in Directions |-> Underway'[e]]
      BY DEF Underway
<1>2. Underway' = Underway BY <1>1
<1> QED BY <1>2 DEF Channels!vars

LEMMA ArriveEnters ==
  ASSUME Shape, Shape', HandsInv, NEW src \in Sources, Arrive(src)
  PROVE  Channels!Next
<1> DEFINE d == Route(src)
           m == Len(log) + 1
<1>1. d \in Directions BY DEF Route, Directions
<1>2. log \in Seq(Sources) /\ MaxFrames \in Nat BY RelayConstants DEF Shape
<1>3. /\ log' = Append(log, src) /\ Len(log) < MaxFrames
      /\ queue' = [queue EXCEPT ![d] = Append(@, [n |-> m, age |-> 0])]
      /\ out' = out /\ hand' = hand
      BY DEF Arrive
<1>4. Len(log) \in Nat /\ m \in 1 .. MaxFrames /\ m \in Nat BY <1>2, <1>3
<1>5. /\ DOMAIN log = 1 .. Len(log) /\ DOMAIN log' = 1 .. m
      /\ \A n \in 1 .. Len(log) : log'[n] = log[n]
      /\ log'[m] = src
      BY <1>2, <1>3
<1>6. \A e \in Entered[d] : e < m BY <1>1, <1>4, <1>5 DEF Entered
<1>7. Entered' = [Entered EXCEPT ![d] = @ \cup {m}]
  <2>1. ASSUME NEW e \in Directions
        PROVE  Entered'[e] = IF e = d THEN Entered[e] \cup {m} ELSE Entered[e]
    <3>1. Entered'[e] = {n \in 1 .. m : Route(log'[n]) = e} BY <1>5 DEF Entered
    <3>2. Entered[e] = {n \in 1 .. Len(log) : Route(log[n]) = e} BY <1>5 DEF Entered
    <3>3. 1 .. m = (1 .. Len(log)) \cup {m} /\ m \notin 1 .. Len(log) BY <1>4
    <3>4. \A n \in 1 .. Len(log) : Route(log'[n]) = Route(log[n]) BY <1>5
    <3>5. Route(log'[m]) = d BY <1>5
    <3> HIDE DEF d, m
    <3> QED BY <3>1, <3>2, <3>3, <3>4, <3>5
  <2>2. /\ Entered = [e \in Directions |-> Entered[e]]
        /\ Entered' = [e \in Directions |-> Entered'[e]]
        BY DEF Entered
  <2>3. PICK u : u = Entered OBVIOUS
  <2>4. PICK v : v = Entered' OBVIOUS
  <2> HIDE DEF d, m
  <2>5. v = [u EXCEPT ![d] = @ \cup {m}] BY ONLY <1>1, <2>1, <2>2, <2>3, <2>4
  <2> QED BY <2>3, <2>4, <2>5
<1>8. ASSUME NEW e \in Directions, e # d PROVE Underway'[e] = Underway[e]
  <2>1. queue'[e] = queue[e] BY <1>3, <1>8 DEF Shape
  <2> QED BY <1>3, <2>1, StaysUnderway
<1>9. Underway'[d] = Append(Underway[d], m)
  <2>1. queue[d] \in Seq(Rec) /\ [n |-> m, age |-> 0] \in Rec BY <1>1, <1>4 DEF Shape, Rec
  <2>2. Numbers(queue'[d]) = Append(Numbers(queue[d]), m)
    <3>1. queue'[d] = Append(queue[d], [n |-> m, age |-> 0]) BY <1>1, <1>3 DEF Shape
    <3> QED BY <2>1, <3>1, NumbersAppend
  <2>3. PICK t : t = Numbers(queue[d]) OBVIOUS
  <2>4. t \in Seq(Nat) BY <2>1, <2>3, NumbersOf
  <2>5. InHand(d)' = InHand(d) BY <1>3 DEF InHand
  <2>6. Underway[d] = InHand(d) \o t BY <1>1, <2>3, UnderwayIs
  <2>7. Underway'[d] = InHand(d) \o Append(t, m)
        BY <1>1, <2>2, <2>3, <2>5, UnderwayNext
  <2>8. PICK h : h = InHand(d) OBVIOUS
  <2>9. h \in Seq(Nat)
    <3>1. hand[d].n \in Nat BY <1>1, UnderwayIs
    <3> QED BY <2>8, <3>1 DEF InHand
  <2> HIDE DEF d, m
  <2>10. h \o Append(t, m) = Append(h \o t, m) BY ONLY <1>4, <2>4, <2>9
  <2> QED BY <2>6, <2>7, <2>8, <2>10
<1> HIDE DEF d, m
<1> QED BY <1>1, <1>3, <1>4, <1>6, <1>7, <1>8, <1>9, Enters

LEMMA GetKeepsOrLoses ==
  ASSUME Shape, Shape', HandsInv, HandsInv', NEW d \in Directions, Get(d)
  PROVE  [Channels!Next]_(Channels!vars)
<1>1. /\ pc[d] = "get" /\ queue[d] # << >> /\ queue' = [queue EXCEPT ![d] = Tail(@)]
      /\ log' = log /\ out' = out
      BY DEF Get, Rest, histVars
<1>2. Entered' = Entered BY <1>1 DEF Entered
<1>3. hand[d] = NoItem BY <1>1 DEF HandsInv, Held
<1>4. queue[d] \in Seq(Rec) /\ queue'[d] = Tail(queue[d]) BY <1>1 DEF Shape
<1>5. PICK a : a = Head(queue[d]).n OBVIOUS
<1>6. PICK t : t = Numbers(Tail(queue[d])) OBVIOUS
<1>7. Tail(queue[d]) \in Seq(Rec) /\ Head(queue[d]) \in Rec BY <1>1, <1>4, NumbersTail
<1>8. a \in Nat /\ t \in Seq(Nat) BY <1>5, <1>6, <1>7, NumbersOf DEF Rec
<1>9. Underway[d] = <<a>> \o t
  <2>1. Numbers(queue[d]) = <<a>> \o t BY <1>1, <1>4, <1>5, <1>6, NumbersTail
  <2> QED BY <1>3, <2>1, UnderwayIs
<1>10. ASSUME NEW e \in Directions, e # d PROVE Underway'[e] = Underway[e]
  <2>1. queue'[e] = queue[e] BY <1>1, <1>10 DEF Shape
  <2>2. hand'[e] = hand[e] BY <1>10 DEF Get, Shape
  <2> QED BY <2>1, <2>2, StaysUnderway
<1>11. CASE Expired(Head(queue[d]))
  <2>1. hand'[d] = NoItem BY <1>3, <1>11 DEF Get
  <2>2. Underway'[d] = t BY <1>4, <1>6, <2>1, UnderwayNext
  <2> QED BY <1>1, <1>2, <1>8, <1>9, <1>10, <2>2, Loses
<1>12. CASE ~Expired(Head(queue[d]))
  <2>1. hand'[d] = Head(queue[d]) /\ pc'[d] = "wait" BY <1>12 DEF Get, Goto, Shape
  <2>2. hand'[d] # NoItem BY <2>1 DEF HandsInv, Held
  <2>3. Underway'[d] = <<a>> \o t BY <1>4, <1>5, <1>6, <2>1, <2>2, UnderwayNext
  <2>4. \A e \in Directions : Underway'[e] = Underway[e] BY <1>9, <1>10, <2>3
  <2> QED BY <1>1, <1>2, <2>4, Rests
<1> QED BY <1>11, <1>12

\* The end of a frame in hand, wherever it goes.
LEMMA HandEmptied ==
  ASSUME Shape, Shape', NEW d \in Directions, hand[d] # NoItem,
         hand' = [hand EXCEPT ![d] = NoItem], queue' = queue
  PROVE  /\ hand[d].n \in Nat /\ Numbers(queue[d]) \in Seq(Nat)
         /\ Underway[d] = <<hand[d].n>> \o Numbers(queue[d])
         /\ Underway'[d] = Numbers(queue[d])
         /\ \A e \in Directions : e # d => Underway'[e] = Underway[e]
<1>1. hand'[d] = NoItem BY DEF Shape
<1>2. Underway'[d] = Numbers(queue[d]) BY <1>1, UnderwayNext
<1>3. ASSUME NEW e \in Directions, e # d PROVE Underway'[e] = Underway[e]
  <2>1. hand'[e] = hand[e] BY <1>3 DEF Shape
  <2> QED BY <2>1, StaysUnderway
<1> QED BY <1>2, <1>3, UnderwayIs

LEMMA FinishLoses ==
  ASSUME Shape, Shape', HandsInv, NEW d \in Directions, Held(d),
         hand' = [hand EXCEPT ![d] = NoItem], queue' = queue, log' = log, out' = out
  PROVE  Channels!Next
<1>1. hand[d] # NoItem BY DEF HandsInv
<1>2. Entered' = Entered BY DEF Entered
<1> QED BY <1>1, <1>2, HandEmptied, Loses

LEMMA ForwardDeliversOrLoses ==
  ASSUME Shape, Shape', HandsInv, NEW d \in Directions, Forward(d)
  PROVE  Channels!Next
<1>1. /\ Held(d) /\ hand' = [hand EXCEPT ![d] = NoItem] /\ queue' = queue /\ log' = log
      BY DEF Forward, Finish, Held
<1>2. CASE out' = out BY <1>1, <1>2, FinishLoses
<1>3. CASE out' = [out EXCEPT ![d] = Append(@, hand[d].n)]
  <2>1. hand[d] # NoItem BY <1>1 DEF HandsInv
  <2>2. Entered' = Entered BY <1>1 DEF Entered
  <2> QED BY <1>1, <1>3, <2>1, <2>2, HandEmptied, Delivers
<1> QED BY <1>2, <1>3 DEF Forward

LEMMA TickRests ==
  ASSUME Shape, Shape', HandsInv, OrderInv, Tick
  PROVE  UNCHANGED Channels!vars
<1>1. log' = log /\ out' = out BY DEF Tick
<1>2. Entered' = Entered BY <1>1 DEF Entered
<1>3. ASSUME NEW e \in Directions PROVE Underway'[e] = Underway[e]
  <2>1. queue[e] \in Seq(Rec) /\ hand[e] \in Rec BY DEF Shape
  <2>2. /\ DOMAIN queue'[e] = DOMAIN queue[e]
        /\ \A k \in DOMAIN queue[e] : queue'[e][k].n = queue[e][k].n
    <3>1. queue'[e] = [k \in DOMAIN queue[e] |-> Older(queue[e][k])] BY DEF Tick
    <3>2. \A k \in DOMAIN queue[e] : queue[e][k] \in Rec BY <2>1
    <3> QED BY <3>1, <3>2, OlderRec
  <2>3. Numbers(queue'[e]) = Numbers(queue[e]) BY <2>2 DEF Numbers
  <2>4. hand'[e] = IF hand[e] = NoItem THEN NoItem ELSE Older(hand[e]) BY DEF Tick
  <2>5. Older(hand[e]).n = hand[e].n BY <2>1, OlderRec
  <2>6. CASE hand[e] = NoItem
    <3>1. Underway'[e] = Numbers(queue'[e]) BY <2>4, <2>6, UnderwayNext
    <3>2. Underway[e] = Numbers(queue[e]) BY <2>6, UnderwayIs
    <3> QED BY <2>3, <3>1, <3>2
  <2>7. CASE hand[e] # NoItem
    <3>1. hand'[e].n = hand[e].n BY <2>4, <2>5, <2>7
    <3>2. hand[e].n # 0
      <4>1. hand[e].n \in 1 .. Len(log)
            BY <2>7 DEF HandsInv, OrderInv, HandInv, Mine
      <4> QED BY <4>1
    <3>3. hand'[e] # NoItem BY <3>1, <3>2 DEF NoItem
    <3>4. Underway'[e] = <<hand[e].n>> \o Numbers(queue'[e]) BY <3>1, <3>3, UnderwayNext
    <3>5. Underway[e] = <<hand[e].n>> \o Numbers(queue[e]) BY <2>7, UnderwayIs
    <3> QED BY <2>3, <3>4, <3>5
  <2> QED BY <2>6, <2>7
<1> QED BY <1>1, <1>2, <1>3, Rests

LEMMA ChannelInit == Init => Channels!Init
<1> SUFFICES ASSUME Init PROVE Channels!Init
    OBVIOUS
<1>1. Shape BY ShapeInit
<1>2. ASSUME NEW d \in Directions PROVE Entered[d] = {} /\ Underway[d] = << >>
  <2>1. log = << >> /\ queue[d] = << >> /\ hand[d] = NoItem BY DEF Init
  <2>2. Underway[d] = Numbers(queue[d]) BY <1>1, <2>1, UnderwayIs
  <2>3. Numbers(<< >>) = << >> BY DEF Numbers
  <2>4. Entered[d] = {} BY <2>1 DEF Entered
  <2> QED BY <2>1, <2>2, <2>3, <2>4
<1>3. Entered = [d \in Directions |-> {}] BY <1>2 DEF Entered
<1>4. Underway = [d \in Directions |-> << >>]
  <2>1. Underway = [d \in Directions |-> Underway[d]] BY DEF Underway
  <2> QED BY <1>2, <2>1
<1> QED BY <1>3, <1>4 DEF Init, Channels!Init

LEMMA ChannelStep ==
  ASSUME Shape, OrderInv, HandsInv, [Next]_vars
  PROVE  [Channels!Next]_(Channels!vars)
<1>0. Shape' /\ HandsInv' BY ShapeStep, HandsStep
<1>1. ASSUME NEW src \in Sources, Arrive(src) PROVE Channels!Next
      BY <1>0, <1>1, ArriveEnters
<1>2. ASSUME NEW d \in Directions, Get(d) PROVE [Channels!Next]_(Channels!vars)
      BY <1>0, <1>2, GetKeepsOrLoses
<1>3. ASSUME NEW d \in Directions, LinkLoses(d) PROVE Channels!Next
  <2>1. /\ Held(d) /\ hand' = [hand EXCEPT ![d] = NoItem] /\ queue' = queue
        /\ log' = log /\ out' = out
        BY <1>3 DEF LinkLoses, Finish, Held, histVars
  <2> QED BY <1>0, <2>1, FinishLoses
<1>4. ASSUME NEW d \in Directions, Forward(d) PROVE Channels!Next
      BY <1>0, <1>4, ForwardDeliversOrLoses
<1>5. ASSUME hand' = hand, queue' = queue, log' = log, out' = out
      PROVE  UNCHANGED Channels!vars
  <2>1. \A e \in Directions : Underway'[e] = Underway[e] BY <1>5, StaysUnderway
  <2>2. Entered' = Entered BY <1>5 DEF Entered
  <2> QED BY <1>5, <2>1, <2>2, Rests
<1>6. ASSUME NEW d \in Directions, CheckVisible(d) PROVE [Channels!Next]_(Channels!vars)
  <2>1. queue' = queue /\ log' = log /\ out' = out BY <1>6 DEF CheckVisible, histVars
  <2>2. CASE Visible
    <3>1. hand' = hand BY <1>6, <2>2 DEF CheckVisible
    <3> QED BY <1>5, <2>1, <3>1
  <2>3. CASE ~Visible
    <3>1. Held(d) /\ hand' = [hand EXCEPT ![d] = NoItem]
          BY <1>6, <2>3 DEF CheckVisible, Finish, Held
    <3> QED BY <1>0, <2>1, <3>1, FinishLoses
  <2> QED BY <2>2, <2>3
<1>7. ASSUME NEW d \in Directions, Exit(d) PROVE [Channels!Next]_(Channels!vars)
  <2>1. /\ hand' = [hand EXCEPT ![d] = NoItem] /\ queue' = queue /\ log' = log /\ out' = out
        BY <1>7 DEF Exit, histVars
  <2>2. CASE Held(d) BY <1>0, <2>1, <2>2, FinishLoses
  <2>3. CASE ~Held(d)
    <3>1. hand[d] = NoItem BY <2>3 DEF HandsInv
    <3>2. hand' = hand BY <2>1, <3>1 DEF Shape
    <3> QED BY <1>5, <2>1, <3>2
  <2> QED BY <2>2, <2>3
<1>8. CASE Tick BY <1>0, <1>8, TickRests
<1>9. CASE \/ \E d \in Directions : SeeVisible(d) \/ CountTx(d)
           \/ Stop \/ UNCHANGED vars
  <2>1. hand' = hand /\ queue' = queue /\ log' = log /\ out' = out
        BY <1>9 DEF SeeVisible, CountTx, Stop, vars, histVars
  <2> QED BY <1>5, <2>1
<1> QED BY <1>1, <1>2, <1>3, <1>4, <1>6, <1>7, <1>8, <1>9 DEF Next, Drain

\* Each direction is a channel that may lose a frame and does nothing else to it,
\* for any orbit, any age limit and any number of frames (leo_relay.py:114-163):
\* what Telemetry takes its path to be.
THEOREM ImplementsChannels == Spec => ChannelSafety
<1>1. Init => Shape /\ OrderInv /\ HandsInv BY ShapeInit, OrderInit, HandsInit
<1>2. Shape /\ OrderInv /\ HandsInv /\ [Next]_vars => (Shape /\ OrderInv /\ HandsInv)'
      BY ShapeStep, OrderStep, HandsStep
<1>3. Shape /\ OrderInv /\ HandsInv /\ [Next]_vars => [Channels!Next]_(Channels!vars)
      BY ChannelStep
<1>4. Init => Channels!Init BY ChannelInit
<1> QED BY <1>1, <1>2, <1>3, <1>4, PTL DEF Spec, ChannelSafety, Channels!Spec
=============================================================================
