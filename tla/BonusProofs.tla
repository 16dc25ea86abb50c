----------------------------- MODULE BonusProofs -----------------------------
(* Theorems about SecurityGate, for any threads, frames, limits and number  *)
(* of checks: of the copies of a frame one is accepted per window, a source *)
(* keeps to its rate, and a frame refused for the rate alone is not taken   *)
(* for a replay.  And about VideoStream, for any number of fragments: what  *)
(* is delivered is what was sent.                                           *)
EXTENDS SecurityGate, VideoLog, FiniteSetTheorems, TLAPS

CONSTANTS MaxVideos, MaxArrivals

V == INSTANCE VideoStream

Handed  == Frames \cup {NoFrame}
Entries == [key : {Key(f) : f \in Handed}, kind : {f.kind : f \in Handed},
            angle : {f.angle : f \in Handed},
            verdict : {"ok", "rate", "replay", "anomaly"}, at : Nat]

TypeInv == /\ now \in Nat
           /\ stage \in [Threads -> 0 .. 3]
           /\ hand \in [Threads -> Handed]
           /\ log \in Seq(Entries)
           /\ \A i \in DOMAIN log : log[i].at <= now
           /\ \A e \in seen : e.at \in Nat /\ e.at <= now

Remembered(key, at) == \E e \in seen : e.key = key /\ e.at = at

\* Thread t has got past the replay detector.
Passed(t) == stage[t] = 3

Ok(i) == log[i].verdict = "ok"

\* What has passed is remembered since now, no other copy has, and the last
\* accepted one is older than the window.
PassedInv ==
  \A t \in Threads : Passed(t) =>
    /\ Remembered(Key(hand[t]), now)
    /\ \A u \in Threads : u # t /\ Passed(u) => Key(hand[u]) # Key(hand[t])
    /\ \A i \in DOMAIN log :
         Ok(i) /\ log[i].key = Key(hand[t]) => now - log[i].at > ReplayWindow

\* What was accepted is remembered for the window.
LogInv == \A i \in DOMAIN log :
            Ok(i) => \/ now - log[i].at > ReplayWindow
                     \/ Remembered(log[i].key, log[i].at)

IInv == TypeInv /\ PassedInv /\ LogInv /\ AcceptedOnce

LEMMA InitInv == Init => IInv
<1> SUFFICES ASSUME Init PROVE IInv
    OBVIOUS
<1>1. /\ now = 0 /\ log = << >> /\ seen = {}
      /\ stage = [t \in Threads |-> 0] /\ hand = [t \in Threads |-> NoFrame]
      BY DEF Init
<1>2. log \in Seq(Entries) /\ DOMAIN log = {} BY <1>1
<1>3. TypeInv BY <1>1, <1>2 DEF TypeInv, Handed
<1>4. PassedInv BY <1>1 DEF PassedInv, Passed
<1>5. LogInv BY <1>2 DEF LogInv
<1>6. AcceptedOnce BY <1>2 DEF AcceptedOnce
<1> QED BY <1>3, <1>4, <1>5, <1>6 DEF IInv

\* The parts in their order.
LEMMA Parts ==
  ASSUME TypeInv, NEW t \in Threads
  PROVE  /\ At(t, "rate") <=> stage[t] = 1
         /\ At(t, "replay") <=> stage[t] = 2
         /\ At(t, "anomaly") <=> stage[t] = 3
         /\ Len(Order) = 3
<1>1. stage[t] \in 0 .. 3 BY DEF TypeInv
<1>2. /\ Order[1] = "rate" /\ Order[2] = "replay" /\ Order[3] = "anomaly"
      /\ Len(Order) = 3
      BY DEF Order
<1>3. stage[t] = 0 \/ stage[t] = 1 \/ stage[t] = 2 \/ stage[t] = 3 BY <1>1
<1> QED BY <1>2, <1>3 DEF At

Entry(t, verdict) == [key |-> Key(hand[t]), kind |-> hand[t].kind,
                      angle |-> hand[t].angle, verdict |-> verdict, at |-> now]

LEMMA EntryType ==
  ASSUME TypeInv, NEW t \in Threads,
         NEW verdict \in {"ok", "rate", "replay", "anomaly"}
  PROVE  Entry(t, verdict) \in Entries
BY DEF TypeInv, Entry, Entries

\* What Judge does to the log and to the threads' places.
LEMMA Judged ==
  ASSUME TypeInv, NEW t \in Threads, NEW ok \in BOOLEAN, NEW part, Judge(t, ok, part)
  PROVE  \/ /\ ok /\ stage[t] # 3 /\ log' = log /\ hand' = hand
            /\ stage' = [stage EXCEPT ![t] = stage[t] + 1]
         \/ /\ stage' = [stage EXCEPT ![t] = 0]
            /\ hand' = [hand EXCEPT ![t] = NoFrame]
            /\ \/ ~ok /\ log' = Append(log, Entry(t, part))
               \/ ok /\ stage[t] = 3 /\ log' = Append(log, Entry(t, "ok"))
<1>1. Len(Order) = 3 BY Parts
<1>2. CASE ~ok BY <1>2 DEF Judge, End, Entry
<1>3. CASE ok /\ stage[t] = 3 BY <1>1, <1>3 DEF Judge, End, Entry
<1>4. CASE ok /\ stage[t] # 3 BY <1>1, <1>4 DEF Judge
<1> QED BY <1>2, <1>3, <1>4

\* The types of the threads and the log after Judge.
LEMMA JudgedType ==
  ASSUME TypeInv, NEW t \in Threads, stage[t] \in 1 .. 3, NEW ok \in BOOLEAN,
         NEW part \in {"rate", "replay", "anomaly"}, Judge(t, ok, part),
         now' = now, \A e \in seen' : e.at \in Nat /\ e.at <= now
  PROVE  TypeInv'
<1>1. /\ now \in Nat /\ stage \in [Threads -> 0 .. 3] /\ hand \in [Threads -> Handed]
      /\ log \in Seq(Entries) /\ \A i \in DOMAIN log : log[i].at <= now
      BY DEF TypeInv
<1>2. stage' \in [Threads -> 0 .. 3] /\ hand' \in [Threads -> Handed]
  <2>1. NoFrame \in Handed BY DEF Handed
  <2>2. CASE /\ stage' = [stage EXCEPT ![t] = 0]
             /\ hand' = [hand EXCEPT ![t] = NoFrame]
        BY <1>1, <2>1, <2>2
  <2>3. CASE /\ stage[t] # 3 /\ hand' = hand
             /\ stage' = [stage EXCEPT ![t] = stage[t] + 1]
    <3>1. stage[t] + 1 \in 0 .. 3 BY <2>3
    <3> QED BY <1>1, <2>3, <3>1
  <2> QED BY <2>2, <2>3, Judged
<1>3. log' = log \/ \E x \in Entries : log' = Append(log, x) /\ x.at = now
  <2>1. \A v \in {"ok", "rate", "replay", "anomaly"} :
          Entry(t, v) \in Entries /\ Entry(t, v).at = now
        BY EntryType DEF Entry
  <2> QED BY <2>1, Judged
<1>4. log' \in Seq(Entries) /\ \A i \in DOMAIN log' : log'[i].at <= now
  <2>1. CASE log' = log BY <1>1, <2>1
  <2>2. ASSUME NEW x \in Entries, log' = Append(log, x), x.at = now
        PROVE  log' \in Seq(Entries) /\ \A i \in DOMAIN log' : log'[i].at <= now
    <3>1. log' \in Seq(Entries) BY <1>1, <2>2
    <3>2. ASSUME NEW i \in DOMAIN log' PROVE log'[i].at <= now
      <4>1. CASE i \in DOMAIN log BY <1>1, <2>2, <4>1
      <4>2. CASE i = Len(log) + 1 BY <1>1, <2>2, <4>2
      <4> QED BY <1>1, <2>2, <4>1, <4>2
    <3> QED BY <3>1, <3>2
  <2> QED BY <1>3, <2>1, <2>2
<1> QED BY <1>1, <1>2, <1>4 DEF TypeInv

\* A step in which no thread passes the replay detector, nothing of the window
\* is forgotten, and what is accepted has passed.
LEMMA Keeps ==
  ASSUME IInv, TypeInv', ReplayWindow \in Nat, now' = now,
         \A e \in seen : now - e.at <= ReplayWindow => e \in seen',
         \A u \in Threads : Passed(u)' => Passed(u) /\ hand'[u] = hand[u],
         \/ log' = log
         \/ \E x \in Entries :
              /\ log' = Append(log, x) /\ x.at = now
              /\ x.verdict = "ok" => \E t \in Threads :
                   Passed(t) /\ ~Passed(t)' /\ x.key = Key(hand[t])
  PROVE  IInv'
<1>1. /\ now \in Nat /\ log \in Seq(Entries)
      /\ \A i \in DOMAIN log : log[i].at \in Nat /\ log[i].at <= now
  <2>1. now \in Nat /\ log \in Seq(Entries) /\ \A i \in DOMAIN log : log[i].at <= now
        BY DEF IInv, TypeInv
  <2>2. \A i \in DOMAIN log : log[i] \in Entries BY <2>1
  <2> QED BY <2>1, <2>2 DEF Entries
<1>2. PassedInv /\ LogInv /\ AcceptedOnce BY DEF IInv
<1>3. \A key, at : (Remembered(key, at) /\ now - at <= ReplayWindow)
                      => \E e \in seen' : e.key = key /\ e.at = at
      BY DEF Remembered
<1>4. now - now <= ReplayWindow BY <1>1
<1>5. CASE log' = log
  <2>1. PassedInv' BY <1>2, <1>3, <1>4, <1>5 DEF PassedInv, Remembered, Ok
  <2>2. LogInv'
    <3>1. ASSUME NEW i \in DOMAIN log, Ok(i), ~(now - log[i].at > ReplayWindow)
          PROVE  \E e \in seen' : e.key = log[i].key /\ e.at = log[i].at
      <4>1. now - log[i].at <= ReplayWindow BY <1>1, <3>1
      <4> QED BY <1>2, <1>3, <3>1, <4>1 DEF LogInv
    <3> QED BY <1>5, <3>1 DEF LogInv, Ok, Remembered
  <2>3. AcceptedOnce' BY <1>2, <1>5 DEF AcceptedOnce
  <2> QED BY <2>1, <2>2, <2>3 DEF IInv
<1>6. ASSUME NEW x \in Entries, log' = Append(log, x), x.at = now,
             x.verdict = "ok" => \E t \in Threads :
               Passed(t) /\ ~Passed(t)' /\ x.key = Key(hand[t])
      PROVE  IInv'
  <2>1. /\ Len(log) \in Nat /\ DOMAIN log = 1 .. Len(log)
        /\ DOMAIN log' = 1 .. Len(log) + 1
        /\ \A i \in 1 .. Len(log) : log'[i] = log[i]
        /\ log'[Len(log) + 1] = x
        BY <1>1, <1>6
  <2>2. PassedInv'
    <3>1. ASSUME NEW u \in Threads, Passed(u)'
          PROVE  /\ \E e \in seen' : e.key = Key(hand'[u]) /\ e.at = now
                 /\ \A v \in Threads : v # u /\ Passed(v)' => Key(hand'[v]) # Key(hand'[u])
          BY <1>2, <1>3, <1>4, <3>1 DEF PassedInv
    <3>2. ASSUME NEW u \in Threads, Passed(u)', NEW i \in DOMAIN log',
                 log'[i].verdict = "ok", log'[i].key = Key(hand'[u])
          PROVE  now - log'[i].at > ReplayWindow
      <4>1. Passed(u) /\ hand'[u] = hand[u] BY <3>2
      <4>2. CASE i \in 1 .. Len(log) BY <1>2, <2>1, <3>2, <4>1, <4>2 DEF PassedInv, Ok
      <4>3. CASE i = Len(log) + 1
        <5>1. PICK t \in Threads : Passed(t) /\ ~Passed(t)' /\ x.key = Key(hand[t])
              BY <1>6, <2>1, <3>2, <4>3
        <5>2. t # u BY <3>2, <5>1
        <5> QED BY <1>2, <2>1, <3>2, <4>1, <4>3, <5>1, <5>2 DEF PassedInv
      <4> QED BY <2>1, <4>2, <4>3
    <3> QED BY <3>1, <3>2 DEF PassedInv, Remembered, Ok
  <2>3. LogInv'
    <3>1. ASSUME NEW i \in DOMAIN log', log'[i].verdict = "ok",
                 ~(now - log'[i].at > ReplayWindow)
          PROVE  \E e \in seen' : e.key = log'[i].key /\ e.at = log'[i].at
      <4>1. CASE i \in 1 .. Len(log)
        <5>1. now - log[i].at <= ReplayWindow BY <1>1, <2>1, <3>1, <4>1
        <5> QED BY <1>2, <1>3, <2>1, <3>1, <4>1, <5>1 DEF LogInv, Ok
      <4>2. CASE i = Len(log) + 1
        <5>1. PICK t \in Threads : Passed(t) /\ ~Passed(t)' /\ x.key = Key(hand[t])
              BY <1>6, <2>1, <3>1, <4>2
        <5>2. Remembered(Key(hand[t]), now) BY <1>2, <5>1 DEF PassedInv
        <5>3. \E e \in seen' : e.key = Key(hand[t]) /\ e.at = now
              BY <1>3, <1>4, <5>2
        <5> QED BY <1>6, <2>1, <4>2, <5>1, <5>3
      <4> QED BY <2>1, <4>1, <4>2
    <3> QED BY <3>1 DEF LogInv, Ok, Remembered
  <2>4. AcceptedOnce'
    <3>1. ASSUME NEW i \in DOMAIN log', NEW j \in DOMAIN log', i < j,
                 log'[i].key = log'[j].key,
                 log'[i].verdict = "ok", log'[j].verdict = "ok"
          PROVE  log'[j].at - log'[i].at > ReplayWindow
      <4>1. i \in 1 .. Len(log) BY <2>1, <3>1
      <4>2. CASE j \in 1 .. Len(log) BY <1>2, <2>1, <3>1, <4>1, <4>2 DEF AcceptedOnce
      <4>3. CASE j = Len(log) + 1
        <5>1. PICK t \in Threads : Passed(t) /\ x.key = Key(hand[t])
              BY <1>6, <2>1, <3>1, <4>3
        <5>2. now - log[i].at > ReplayWindow
              BY <1>2, <2>1, <3>1, <4>1, <4>3, <5>1 DEF PassedInv, Ok
        <5> QED BY <1>6, <2>1, <4>1, <4>3, <5>2
      <4> QED BY <2>1, <4>2, <4>3
    <3> QED BY <3>1 DEF AcceptedOnce
  <2> QED BY <2>2, <2>3, <2>4 DEF IInv
<1> QED BY <1>5, <1>6

LEMMA BeginInv ==
  ASSUME IInv, ReplayWindow \in Nat,
         NEW t \in Threads, NEW f \in Frames, Begin(t, f)
  PROVE  IInv'
<1>1. /\ stage[t] = 0 /\ stage' = [stage EXCEPT ![t] = 1]
      /\ hand' = [hand EXCEPT ![t] = f]
      /\ UNCHANGED <<now, seen, log>>
      BY DEF Begin
<1>2. f \in Handed BY DEF Handed
<1>3. TypeInv' BY <1>1, <1>2 DEF IInv, TypeInv
<1>4. \A u \in Threads : Passed(u)' => Passed(u) /\ hand'[u] = hand[u]
      BY <1>1 DEF Passed, IInv, TypeInv
<1> QED BY <1>1, <1>3, <1>4, Keeps

LEMMA CheckRateInv ==
  ASSUME IInv, ReplayWindow \in Nat, NEW t \in Threads, CheckRate(t)
  PROVE  IInv'
<1>0. TypeInv BY DEF IInv
<1>1. stage[t] = 1 BY <1>0, Parts DEF CheckRate
<1>2. PICK ok \in BOOLEAN : Judge(t, ok, "rate")
  <2> DEFINE isOk == Len(Recent(allowed[hand[t].src])) < RateMax
  <2>1. isOk \in BOOLEAN OBVIOUS
  <2>2. Judge(t, isOk, "rate") BY DEF CheckRate
  <2> HIDE DEF isOk
  <2> QED BY <2>1, <2>2
<1>3. UNCHANGED <<now, seen>> BY DEF CheckRate
<1>4. TypeInv' BY <1>0, <1>1, <1>2, <1>3, JudgedType DEF TypeInv
<1>5. \/ log' = log /\ hand' = hand /\ stage' = [stage EXCEPT ![t] = 2]
      \/ /\ log' = Append(log, Entry(t, "rate"))
         /\ stage' = [stage EXCEPT ![t] = 0] /\ hand' = [hand EXCEPT ![t] = NoFrame]
      BY <1>0, <1>1, <1>2, Judged
<1>6. \A u \in Threads : Passed(u)' => Passed(u) /\ hand'[u] = hand[u]
      BY <1>0, <1>1, <1>5 DEF Passed, TypeInv
<1>7. /\ Entry(t, "rate") \in Entries
      /\ Entry(t, "rate").at = now /\ Entry(t, "rate").verdict # "ok"
      BY <1>0, EntryType DEF Entry
<1> QED BY <1>3, <1>4, <1>5, <1>6, <1>7, Keeps

LEMMA CheckAnomalyInv ==
  ASSUME IInv, ReplayWindow \in Nat, NEW t \in Threads, CheckAnomaly(t)
  PROVE  IInv'
<1>0. TypeInv BY DEF IInv
<1>1. stage[t] = 3 BY <1>0, Parts DEF CheckAnomaly
<1>2. PICK ok \in BOOLEAN : Judge(t, ok, "anomaly")
  <2>1. CASE hand[t].kind \in Kinds
    <3>1. Plausible(hand[t]) \in BOOLEAN BY DEF Plausible
    <3> QED BY <2>1, <3>1 DEF CheckAnomaly
  <2>2. CASE hand[t].kind \notin Kinds BY <2>2 DEF CheckAnomaly
  <2> QED BY <2>1, <2>2
<1>3. UNCHANGED <<now, seen>> BY DEF CheckAnomaly
<1>4. TypeInv' BY <1>0, <1>1, <1>2, <1>3, JudgedType DEF TypeInv
<1>5. /\ log' = Append(log, Entry(t, "anomaly")) \/ log' = Append(log, Entry(t, "ok"))
      /\ stage' = [stage EXCEPT ![t] = 0] /\ hand' = [hand EXCEPT ![t] = NoFrame]
      BY <1>0, <1>1, <1>2, Judged
<1>6. /\ \A u \in Threads : Passed(u)' => Passed(u) /\ hand'[u] = hand[u]
      /\ Passed(t) /\ ~Passed(t)'
      BY <1>0, <1>1, <1>5 DEF Passed, TypeInv
<1>7. \A v \in {"anomaly", "ok"} :
        /\ Entry(t, v) \in Entries
        /\ Entry(t, v).at = now /\ Entry(t, v).key = Key(hand[t])
      BY <1>0, EntryType DEF Entry
<1> QED BY <1>3, <1>4, <1>5, <1>6, <1>7, Keeps

LEMMA CheckReplayInv ==
  ASSUME IInv, ReplayWindow \in Nat, NEW t \in Threads, CheckReplay(t)
  PROVE  IInv'
<1>0. TypeInv /\ now \in Nat BY DEF IInv, TypeInv
<1>1. stage[t] = 2 BY <1>0, Parts DEF CheckReplay
<1>2. now' = now BY DEF CheckReplay
<1>3. Judge(t, Fresh(hand[t]), "replay") /\ Fresh(hand[t]) \in BOOLEAN
      BY DEF CheckReplay, Fresh
<1>4. \A e \in seen : now - e.at <= ReplayWindow => e \in seen'
      BY DEF CheckReplay, Pruned
<1>5. \A e \in seen' : e.at \in Nat /\ e.at <= now
      BY <1>0 DEF CheckReplay, Pruned, TypeInv
<1>6. TypeInv' BY <1>0, <1>1, <1>2, <1>3, <1>5, JudgedType
<1>7. CASE ~Fresh(hand[t])
  <2>1. /\ log' = Append(log, Entry(t, "replay"))
        /\ stage' = [stage EXCEPT ![t] = 0] /\ hand' = [hand EXCEPT ![t] = NoFrame]
        BY <1>0, <1>1, <1>3, <1>7, Judged
  <2>2. \A u \in Threads : Passed(u)' => Passed(u) /\ hand'[u] = hand[u]
        BY <1>0, <1>1, <2>1 DEF Passed, TypeInv
  <2>3. /\ Entry(t, "replay") \in Entries
        /\ Entry(t, "replay").at = now /\ Entry(t, "replay").verdict # "ok"
        BY <1>0, EntryType DEF Entry
  <2> QED BY <1>2, <1>4, <1>6, <2>1, <2>2, <2>3, Keeps
<1>8. CASE Fresh(hand[t])
  <2>1. /\ log' = log /\ hand' = hand /\ stage' = [stage EXCEPT ![t] = 3]
    <3>0. Fresh(hand[t]) = TRUE BY <1>3, <1>8
    <3>a. Judge(t, TRUE, "replay") BY <1>3, <3>0
    <3>b. stage[t] # 3 BY <1>1
    <3>1. /\ log' = log /\ hand' = hand
          /\ stage' = [stage EXCEPT ![t] = stage[t] + 1]
          BY <1>0, <3>a, <3>b, Judged
    <3>2. stage[t] + 1 = 3 BY <1>1
    <3> QED BY <3>1, <3>2
  <2>2. \A u \in Threads : Passed(u)' => u = t \/ Passed(u)
        BY <1>0, <2>1 DEF Passed, TypeInv
  <2>3. \A key, at : (Remembered(key, at) /\ now - at <= ReplayWindow)
                       => \E e \in seen' : e.key = key /\ e.at = at
        BY <1>4 DEF Remembered
  <2>4. \E e \in seen' : e.key = Key(hand[t]) /\ e.at = now
    <3>1. [key |-> Key(hand[t]), at |-> now] \in seen' BY <1>8 DEF CheckReplay
    <3> QED BY <3>1
  <2>5. \A at \in Int : now - at <= ReplayWindow => ~Remembered(Key(hand[t]), at)
        BY <1>8 DEF Fresh, Pruned, Remembered
  <2>6. now - now <= ReplayWindow BY <1>0
  <2>7. PassedInv /\ LogInv /\ AcceptedOnce BY DEF IInv
  <2>8. \A i \in DOMAIN log : log[i].at \in Int
    <3>1. \A i \in DOMAIN log : log[i] \in Entries BY <1>0 DEF TypeInv
    <3> QED BY <3>1 DEF Entries
  <2>9. PassedInv'
    <3>1. ASSUME NEW u \in Threads, Passed(u)'
          PROVE  \E e \in seen' : e.key = Key(hand[u]) /\ e.at = now
          BY <2>2, <2>3, <2>4, <2>6, <2>7, <3>1 DEF PassedInv
    <3>2. \A u \in Threads : Passed(u) => Key(hand[u]) # Key(hand[t])
          BY <1>0, <2>5, <2>6, <2>7 DEF PassedInv
    <3>3. ASSUME NEW u \in Threads, Passed(u)', NEW v \in Threads, v # u, Passed(v)'
          PROVE  Key(hand[v]) # Key(hand[u])
          BY <2>2, <2>7, <3>2, <3>3 DEF PassedInv
    <3>4. ASSUME NEW i \in DOMAIN log, Ok(i), log[i].key = Key(hand[t])
          PROVE  now - log[i].at > ReplayWindow
      <4>1. CASE Remembered(log[i].key, log[i].at)
        <5>1. ~(now - log[i].at <= ReplayWindow) BY <2>5, <2>8, <3>4, <4>1
        <5> QED BY <1>0, <2>8, <5>1
      <4> QED BY <2>7, <3>4, <4>1 DEF LogInv
    <3>5. ASSUME NEW u \in Threads, Passed(u)', NEW i \in DOMAIN log, Ok(i),
                 log[i].key = Key(hand[u])
          PROVE  now - log[i].at > ReplayWindow
          BY <2>2, <2>7, <3>4, <3>5 DEF PassedInv
    <3> QED BY <1>2, <2>1, <3>1, <3>3, <3>5 DEF PassedInv, Remembered, Ok
  <2>10. LogInv'
    <3>1. ASSUME NEW i \in DOMAIN log, Ok(i), ~(now - log[i].at > ReplayWindow)
          PROVE  \E e \in seen' : e.key = log[i].key /\ e.at = log[i].at
      <4>1. now - log[i].at <= ReplayWindow BY <1>0, <2>8, <3>1
      <4> QED BY <2>3, <2>7, <3>1, <4>1 DEF LogInv
    <3> QED BY <1>2, <2>1, <3>1 DEF LogInv, Ok, Remembered
  <2>11. AcceptedOnce' BY <2>1, <2>7 DEF AcceptedOnce
  <2> QED BY <1>6, <2>9, <2>10, <2>11 DEF IInv
<1> QED BY <1>7, <1>8

LEMMA TickInv == ASSUME IInv, ReplayWindow \in Nat, Tick PROVE IInv'
<1>1. now' = now + 1 /\ UNCHANGED <<seen, stage, hand, log>> BY DEF Tick
<1>2. now \in Nat /\ log \in Seq(Entries) BY DEF IInv, TypeInv
<1>3. \A i \in DOMAIN log : log[i].at \in Nat
  <2>1. \A i \in DOMAIN log : log[i] \in Entries BY <1>2
  <2> QED BY <2>1 DEF Entries
<1>4. TypeInv'
  <2>1. now' \in Nat BY <1>1, <1>2
  <2>2. \A i \in DOMAIN log : log[i].at <= now + 1
        BY <1>2, <1>3 DEF IInv, TypeInv
  <2>3. \A e \in seen : e.at \in Nat /\ e.at <= now + 1
        BY <1>2 DEF IInv, TypeInv
  <2> QED BY <1>1, <2>1, <2>2, <2>3 DEF IInv, TypeInv
<1>5. PassedInv' BY <1>1 DEF PassedInv, Passed, Tick
<1>6. LogInv'
  <2>1. ASSUME NEW i \in DOMAIN log, Ok(i), ~Remembered(log[i].key, log[i].at)
        PROVE  (now + 1) - log[i].at > ReplayWindow
    <3>1. now - log[i].at > ReplayWindow BY <2>1 DEF IInv, LogInv
    <3> QED BY <1>2, <1>3, <3>1
  <2> QED BY <1>1, <2>1 DEF LogInv, Ok, Remembered
<1>7. AcceptedOnce' BY <1>1 DEF IInv, AcceptedOnce
<1> QED BY <1>4, <1>5, <1>6, <1>7 DEF IInv

LEMMA StepInv == ASSUME GateConstants PROVE IInv /\ [Next]_vars => IInv'
<1> SUFFICES ASSUME IInv, [Next]_vars PROVE IInv'
    OBVIOUS
<1>0. ReplayWindow \in Nat BY DEF GateConstants
<1>1. ASSUME NEW t \in Threads, NEW f \in Frames, Begin(t, f) PROVE IInv'
      BY <1>0, <1>1, BeginInv
<1>2. ASSUME NEW t \in Threads, CheckRate(t) PROVE IInv' BY <1>0, <1>2, CheckRateInv
<1>3. ASSUME NEW t \in Threads, CheckReplay(t) PROVE IInv' BY <1>0, <1>3, CheckReplayInv
<1>4. ASSUME NEW t \in Threads, CheckAnomaly(t) PROVE IInv' BY <1>0, <1>4, CheckAnomalyInv
<1>5. CASE Tick BY <1>0, <1>5, TickInv
<1>6. CASE UNCHANGED vars
  <2>1. UNCHANGED <<now, seen, stage, hand, log>> BY <1>6 DEF vars
  <2> QED BY <2>1 DEF IInv, TypeInv, PassedInv, Passed, LogInv, Ok, Remembered,
                      AcceptedOnce
<1> QED BY <1>1, <1>2, <1>3, <1>4, <1>5, <1>6 DEF Next

\* Whatever threads check the copies of a frame, at once or one after another,
\* one is accepted per window: the look at _seen and the note in it are one
\* critical section, and nothing of the window is pruned (security.py:86-106).
THEOREM OneAcceptedPerWindow == ASSUME GateConstants PROVE Spec => []AcceptedOnce
<1>1. Init => IInv BY InitInv
<1>2. IInv /\ [Next]_vars => IInv' BY StepInv
<1>3. IInv => AcceptedOnce BY DEF IInv
<1> QED BY <1>1, <1>2, <1>3, PTL DEF Spec

----------------------------------------------------------------------------
(* A frame refused for the rate alone may be sent again.                    *)

\* A copy came to the end, accepted or not, at a time from lo to hi.
Answered(key, lo, hi) ==
  \E i \in DOMAIN log : /\ log[i].key = key /\ log[i].verdict \in {"ok", "anomaly"}
                        /\ log[i].at \in lo .. hi

\* A copy is past the replay detector.
OnWay(key) == \E t \in Threads : Passed(t) /\ Key(hand[t]) = key

\* Whatever is remembered came to the end when it was noted, or is on its way.
SeenInv == \A e \in seen : Answered(e.key, e.at, e.at) \/ (e.at = now /\ OnWay(e.key))

\* So it is with what was refused for it.
RefusedInv == \A j \in DOMAIN log : log[j].verdict = "replay" =>
                \/ Answered(log[j].key, log[j].at - ReplayWindow, log[j].at)
                \/ log[j].at = now /\ OnWay(log[j].key)

RetryInv == TypeInv /\ SeenInv /\ RefusedInv

\* Between ticks what was on its way stays on it or comes to its end.
LEMMA WayKept ==
  ASSUME TypeInv, now' = now,
         log' = log \/ \E x \in Entries : log' = Append(log, x),
         \A u \in Threads : Passed(u) =>
           \/ Passed(u)' /\ hand'[u] = hand[u]
           \/ \E x \in Entries : /\ log' = Append(log, x) /\ x.at = now
                                 /\ x.verdict \in {"ok", "anomaly"}
                                 /\ x.key = Key(hand[u])
  PROVE  /\ \A key, lo, hi : Answered(key, lo, hi) => Answered(key, lo, hi)'
         /\ \A key : OnWay(key) => OnWay(key)' \/ Answered(key, now, now)'
<1>1. now \in Nat /\ log \in Seq(Entries) BY DEF TypeInv
<1>2. ASSUME NEW key, NEW lo, NEW hi, Answered(key, lo, hi)
      PROVE  Answered(key, lo, hi)'
  <2>1. PICK i \in DOMAIN log : /\ log[i].key = key
                                /\ log[i].verdict \in {"ok", "anomaly"}
                                /\ log[i].at \in lo .. hi
        BY <1>2 DEF Answered
  <2>2. i \in DOMAIN log' /\ log'[i] = log[i] BY <1>1
  <2> QED BY <2>1, <2>2 DEF Answered
<1>3. ASSUME NEW key, OnWay(key) PROVE OnWay(key)' \/ Answered(key, now, now)'
  <2>1. PICK u \in Threads : Passed(u) /\ Key(hand[u]) = key BY <1>3 DEF OnWay
  <2>2. CASE Passed(u)' /\ hand'[u] = hand[u] BY <2>1, <2>2 DEF OnWay
  <2>3. ASSUME NEW x \in Entries, log' = Append(log, x), x.at = now,
               x.verdict \in {"ok", "anomaly"}, x.key = Key(hand[u])
        PROVE  Answered(key, now, now)'
    <3>1. Len(log) + 1 \in DOMAIN log' /\ log'[Len(log) + 1] = x BY <1>1, <2>3
    <3>2. now \in now .. now BY <1>1
    <3> QED BY <2>1, <2>3, <3>1, <3>2 DEF Answered
  <2> QED BY <2>1, <2>2, <2>3
<1> QED BY <1>2, <1>3

\* What a step between ticks has to do to keep the invariant: what it notes is
\* on its way, and what it refuses as a replay has a copy that is answered.
LEMMA RetryKeeps ==
  ASSUME RetryInv, TypeInv', now' = now,
         log' = log \/ \E x \in Entries :
           /\ log' = Append(log, x) /\ x.at = now
           /\ x.verdict = "replay" =>
                Answered(x.key, now - ReplayWindow, now) \/ OnWay(x.key)',
         \A u \in Threads : Passed(u) =>
           \/ Passed(u)' /\ hand'[u] = hand[u]
           \/ \E x \in Entries : /\ log' = Append(log, x) /\ x.at = now
                                 /\ x.verdict \in {"ok", "anomaly"}
                                 /\ x.key = Key(hand[u]),
         \A e \in seen' : e \in seen \/ (e.at = now /\ OnWay(e.key)'),
         ReplayWindow \in Nat
  PROVE  RetryInv'
<1>1. now \in Nat /\ log \in Seq(Entries) BY DEF RetryInv, TypeInv
<1>2. /\ \A key, lo, hi : Answered(key, lo, hi) => Answered(key, lo, hi)'
      /\ \A key : OnWay(key) => OnWay(key)' \/ Answered(key, now, now)'
      BY WayKept DEF RetryInv
<1>3. SeenInv'
  <2>1. ASSUME NEW e \in seen'
        PROVE  Answered(e.key, e.at, e.at)' \/ (e.at = now /\ OnWay(e.key)')
    <3>1. CASE e \in seen BY <1>2, <3>1 DEF RetryInv, SeenInv
    <3> QED BY <3>1
  <2> QED BY <2>1 DEF SeenInv
<1>4. \A key : Answered(key, now, now)' => Answered(key, now - ReplayWindow, now)'
  <2>1. now .. now \subseteq now - ReplayWindow .. now BY <1>1
  <2> QED BY <2>1 DEF Answered
<1>5. ASSUME NEW j \in DOMAIN log', NEW e, e = log'[j], e.verdict = "replay"
      PROVE  Answered(e.key, e.at - ReplayWindow, e.at)' \/ (e.at = now /\ OnWay(e.key)')
  <2>1. CASE j \in DOMAIN log
    <3>1. e = log[j] BY <1>1, <1>5, <2>1
    <3>2. Answered(e.key, e.at - ReplayWindow, e.at) \/ (e.at = now /\ OnWay(e.key))
          BY <1>5, <2>1, <3>1 DEF RetryInv, RefusedInv
    <3>3. OnWay(e.key) => OnWay(e.key)' \/ Answered(e.key, now, now)' BY <1>2
    <3>4. Answered(e.key, now, now)' => Answered(e.key, now - ReplayWindow, now)'
          BY <1>4
    <3> QED BY <1>2, <3>2, <3>3, <3>4
  <2>2. CASE j \notin DOMAIN log
    <3>1. PICK x \in Entries : /\ log' = Append(log, x) /\ x.at = now
                               /\ x.verdict = "replay" =>
                                    \/ Answered(x.key, now - ReplayWindow, now)
                                    \/ OnWay(x.key)'
          BY <2>2
    <3>2. e = x BY <1>1, <1>5, <2>2, <3>1
    <3> QED BY <1>2, <1>5, <3>1, <3>2
  <2> QED BY <2>1, <2>2
<1>6. RefusedInv'
  <2>1. \A j \in DOMAIN log' : \A e : e = log'[j] /\ e.verdict = "replay" =>
          Answered(e.key, e.at - ReplayWindow, e.at)' \/ (e.at = now' /\ OnWay(e.key)')
        BY <1>5
  <2> QED BY <2>1 DEF RefusedInv
<1> QED BY <1>3, <1>6 DEF RetryInv

LEMMA InitRetry == Init => RetryInv
<1> SUFFICES ASSUME Init PROVE RetryInv
    OBVIOUS
<1>1. TypeInv BY InitInv DEF IInv
<1>2. log = << >> /\ seen = {} BY DEF Init
<1> QED BY <1>1, <1>2 DEF RetryInv, SeenInv, RefusedInv

\* What the judge of the first or of the last part does keeps it.
LEMMA JudgedRetry ==
  ASSUME RetryInv, TypeInv', ReplayWindow \in Nat, NEW t \in Threads,
         NEW part \in {"rate", "anomaly"},
         stage[t] = IF part = "rate" THEN 1 ELSE 3,
         NEW ok \in BOOLEAN, Judge(t, ok, part), now' = now, seen' = seen
  PROVE  RetryInv'
<1>0. TypeInv /\ now \in Nat BY DEF RetryInv, TypeInv
<1>1. \A v \in {"ok", "rate", "anomaly"} :
        /\ Entry(t, v) \in Entries /\ Entry(t, v).at = now
        /\ Entry(t, v).key = Key(hand[t]) /\ Entry(t, v).verdict = v
      BY <1>0, EntryType DEF Entry
<1>2. \/ stage[t] # 3 /\ log' = log /\ hand' = hand
         /\ stage' = [stage EXCEPT ![t] = stage[t] + 1]
      \/ /\ stage' = [stage EXCEPT ![t] = 0]
         /\ hand' = [hand EXCEPT ![t] = NoFrame]
         /\ \/ log' = Append(log, Entry(t, part))
            \/ stage[t] = 3 /\ log' = Append(log, Entry(t, "ok"))
      BY <1>0, Judged
<1>3. log' = log \/ \E x \in Entries : log' = Append(log, x) /\ x.at = now /\ x.verdict # "replay"
      BY <1>1, <1>2
<1>4. ASSUME NEW u \in Threads, Passed(u)
      PROVE  \/ Passed(u)' /\ hand'[u] = hand[u]
             \/ \E x \in Entries : /\ log' = Append(log, x) /\ x.at = now
                                   /\ x.verdict \in {"ok", "anomaly"}
                                   /\ x.key = Key(hand[u])
  <2>1. CASE u # t BY <1>0, <1>2, <1>4, <2>1 DEF Passed, TypeInv
  <2>2. CASE u = t
    <3>1. stage[t] = 3 /\ part = "anomaly" BY <1>4, <2>2 DEF Passed
    <3>2. log' = Append(log, Entry(t, "anomaly")) \/ log' = Append(log, Entry(t, "ok"))
          BY <1>2, <3>1
    <3> QED BY <1>1, <2>2, <3>2
  <2> QED BY <2>1, <2>2
<1> QED BY <1>3, <1>4, RetryKeeps

LEMMA CheckReplayRetry ==
  ASSUME RetryInv, TypeInv', ReplayWindow \in Nat, NEW t \in Threads, CheckReplay(t)
  PROVE  RetryInv'
<1>0. TypeInv /\ now \in Nat BY DEF RetryInv, TypeInv
<1>1. stage[t] = 2 BY <1>0, Parts DEF CheckReplay
<1>2. now' = now BY DEF CheckReplay
<1>3. Judge(t, Fresh(hand[t]), "replay") /\ Fresh(hand[t]) \in BOOLEAN
      BY DEF CheckReplay, Fresh
<1>k. PICK k : k = Key(hand[t]) OBVIOUS
<1>4. CASE ~Fresh(hand[t])
  <2>1. /\ log' = Append(log, Entry(t, "replay"))
        /\ stage' = [stage EXCEPT ![t] = 0] /\ hand' = [hand EXCEPT ![t] = NoFrame]
        BY <1>0, <1>1, <1>3, <1>4, Judged
  <2>2. \A u \in Threads : Passed(u) => Passed(u)' /\ hand'[u] = hand[u]
        BY <1>0, <1>1, <2>1 DEF Passed, TypeInv
  <2>3. Entry(t, "replay") \in Entries /\ Entry(t, "replay").at = now
        /\ Entry(t, "replay").key = k
        BY <1>0, <1>k, EntryType DEF Entry
  <2>4. \A e \in seen' : e \in seen BY <1>4 DEF CheckReplay, Pruned
  <2>5. Answered(k, now - ReplayWindow, now) \/ OnWay(k)'
    <3>1. PICK e \in seen : now - e.at <= ReplayWindow /\ e.key = k
          BY <1>4, <1>k DEF Fresh, Pruned
    <3>2. CASE e.at = now /\ OnWay(e.key) BY <2>2, <3>1, <3>2 DEF OnWay
    <3>3. CASE Answered(e.key, e.at, e.at)
      <4>1. e.at \in Nat /\ e.at <= now BY <1>0 DEF TypeInv
      <4>2. e.at .. e.at \subseteq now - ReplayWindow .. now BY <1>0, <3>1, <4>1
      <4> QED BY <3>1, <3>3, <4>2 DEF Answered
    <3> QED BY <3>2, <3>3 DEF RetryInv, SeenInv
  <2>6. \E x \in Entries :
          /\ log' = Append(log, x) /\ x.at = now
          /\ Answered(x.key, now - ReplayWindow, now) \/ OnWay(x.key)'
        BY <2>1, <2>3, <2>5
  <2> QED BY <1>2, <2>2, <2>4, <2>6, RetryKeeps
<1>5. CASE Fresh(hand[t])
  <2>1. /\ log' = log /\ hand' = hand /\ stage' = [stage EXCEPT ![t] = 3]
    <3>0. Fresh(hand[t]) = TRUE BY <1>3, <1>5
    <3>1. Judge(t, TRUE, "replay") BY <1>3, <3>0
    <3>2. stage[t] # 3 BY <1>1
    <3>3. /\ log' = log /\ hand' = hand
          /\ stage' = [stage EXCEPT ![t] = stage[t] + 1]
          BY <1>0, <3>1, <3>2, Judged
    <3>4. stage[t] + 1 = 3 BY <1>1
    <3> QED BY <3>3, <3>4
  <2>2. \A u \in Threads : Passed(u) => Passed(u)' /\ hand'[u] = hand[u]
        BY <1>0, <2>1 DEF Passed, TypeInv
  <2>3. OnWay(k)' BY <1>0, <1>k, <2>1 DEF OnWay, Passed, TypeInv
  <2>4. \A e \in seen' : e \in seen \/ (e.at = now /\ OnWay(e.key)')
    <3>1. \A e \in seen' : e \in seen \/ e = [key |-> k, at |-> now]
          BY <1>5, <1>k DEF CheckReplay, Pruned
    <3> QED BY <2>3, <3>1
  <2> QED BY <1>2, <2>1, <2>2, <2>4, RetryKeeps
<1> QED BY <1>3, <1>4, <1>5

LEMMA StepRetry ==
  ASSUME GateConstants, IInv, IInv', RetryInv, [Next]_vars
  PROVE  RetryInv'
<1>0. ReplayWindow \in Nat /\ TypeInv /\ TypeInv' BY DEF GateConstants, IInv
<1>1. ASSUME NEW t \in Threads, NEW f \in Frames, Begin(t, f) PROVE RetryInv'
  <2>1. /\ stage[t] = 0 /\ stage' = [stage EXCEPT ![t] = 1]
        /\ hand' = [hand EXCEPT ![t] = f]
        /\ UNCHANGED <<now, seen, log>>
        BY <1>1 DEF Begin
  <2>2. \A u \in Threads : Passed(u) => Passed(u)' /\ hand'[u] = hand[u]
        BY <1>0, <2>1 DEF Passed, TypeInv
  <2> QED BY <1>0, <2>1, <2>2, RetryKeeps
<1>2. ASSUME NEW t \in Threads, CheckRate(t) PROVE RetryInv'
  <2>1. stage[t] = 1 BY <1>0, <1>2, Parts DEF CheckRate
  <2>2. PICK ok \in BOOLEAN : Judge(t, ok, "rate")
    <3> DEFINE isOk == Len(Recent(allowed[hand[t].src])) < RateMax
    <3>1. isOk \in BOOLEAN OBVIOUS
    <3>2. Judge(t, isOk, "rate") BY <1>2 DEF CheckRate
    <3> HIDE DEF isOk
    <3> QED BY <3>1, <3>2
  <2>3. UNCHANGED <<now, seen>> BY <1>2 DEF CheckRate
  <2> QED BY <1>0, <2>1, <2>2, <2>3, JudgedRetry
<1>3. ASSUME NEW t \in Threads, CheckReplay(t) PROVE RetryInv'
      BY <1>0, <1>3, CheckReplayRetry
<1>4. ASSUME NEW t \in Threads, CheckAnomaly(t) PROVE RetryInv'
  <2>1. stage[t] = 3 BY <1>0, <1>4, Parts DEF CheckAnomaly
  <2>2. PICK ok \in BOOLEAN : Judge(t, ok, "anomaly")
    <3>1. CASE hand[t].kind \in Kinds
      <4>1. Plausible(hand[t]) \in BOOLEAN BY DEF Plausible
      <4> QED BY <1>4, <3>1, <4>1 DEF CheckAnomaly
    <3>2. CASE hand[t].kind \notin Kinds BY <1>4, <3>2 DEF CheckAnomaly
    <3> QED BY <3>1, <3>2
  <2>3. UNCHANGED <<now, seen>> BY <1>4 DEF CheckAnomaly
  <2> QED BY <1>0, <2>1, <2>2, <2>3, JudgedRetry
<1>5. CASE Tick
  <2>1. UNCHANGED <<seen, stage, hand, log>> /\ \A t \in Threads : stage[t] = 0
        BY <1>5 DEF Tick
  <2>2. ~ \E key : OnWay(key) BY <2>1 DEF OnWay, Passed
  <2>3. \A key, lo, hi : Answered(key, lo, hi)' <=> Answered(key, lo, hi)
        BY <2>1 DEF Answered
  <2>4. SeenInv'
    <3>1. \A e \in seen : Answered(e.key, e.at, e.at) BY <2>2 DEF RetryInv, SeenInv
    <3> QED BY <2>1, <2>3, <3>1 DEF SeenInv
  <2>5. RefusedInv'
    <3>1. \A j \in DOMAIN log : log[j].verdict = "replay" =>
            Answered(log[j].key, log[j].at - ReplayWindow, log[j].at)
          BY <2>2 DEF RetryInv, RefusedInv
    <3> QED BY <2>1, <3>1 DEF RefusedInv, Answered
  <2> QED BY <1>0, <2>4, <2>5 DEF RetryInv
<1>6. CASE UNCHANGED vars
  <2>1. UNCHANGED <<now, seen, stage, hand, log>> BY <1>6 DEF vars
  <2> QED BY <1>0, <2>1 DEF RetryInv, SeenInv, RefusedInv, Answered, OnWay, Passed
<1> QED BY <1>1, <1>2, <1>3, <1>4, <1>5, <1>6 DEF Next

LEMMA RetryHolds == RetryInv => RateRefusalMayRetry
<1> SUFFICES ASSUME RetryInv, NEW j \in DOMAIN log, log[j].verdict = "replay"
             PROVE  \/ Answered(log[j].key, log[j].at - ReplayWindow, log[j].at)
                    \/ \E t \in Threads : stage[t] > 0 /\ Key(hand[t]) = log[j].key
    BY DEF RateRefusalMayRetry, Answered
<1>1. CASE OnWay(log[j].key)
  <2>1. \A t \in Threads : Passed(t) => stage[t] > 0 BY DEF Passed
  <2> QED BY <1>1, <2>1 DEF OnWay
<1> QED BY <1>1 DEF RetryInv, RefusedInv

\* A frame is refused as a replay only if a copy has got past the rate limiter
\* and, within the window, has come to its end or is about to: the rate limiter
\* is asked first, and a frame it refuses leaves no trace (security.py:237-246).
THEOREM RefusedForRateMayRetry ==
  ASSUME GateConstants PROVE Spec => []RateRefusalMayRetry
<1>1. Init => IInv /\ RetryInv BY InitInv, InitRetry
<1>2. IInv /\ RetryInv /\ [Next]_vars => (IInv /\ RetryInv)' BY StepInv, StepRetry
<1>3. RetryInv => RateRefusalMayRetry BY RetryHolds
<1> QED BY <1>1, <1>2, <1>3, PTL DEF Spec

----------------------------------------------------------------------------
(* The rate limiter's list of times.                                        *)

LEMMA UpTo == ASSUME NEW n \in Nat PROVE IsFiniteSet(1 .. n) /\ Cardinality(1 .. n) = n
<1>1. 1 \in Int /\ n \in Int OBVIOUS
<1>2. /\ IsFiniteSet(1 .. n)
      /\ Cardinality(1 .. n) = IF 1 > n THEN 0 ELSE n - 1 + 1
      BY ONLY <1>1, FS_Interval
<1> QED BY <1>2

\* A set of positions that holds all those before any it holds is a prefix.
LEMMA FirstOnes ==
  ASSUME NEW n \in Nat, NEW P \in SUBSET (1 .. n), \A i \in P : 1 .. i \subseteq P
  PROVE  Cardinality(P) \in 0 .. n /\ P = 1 .. Cardinality(P)
<1>1. IsFiniteSet(P) /\ Cardinality(P) <= n
  <2>1. IsFiniteSet(1 .. n) /\ Cardinality(1 .. n) = n BY UpTo
  <2>2. IsFiniteSet(P) /\ Cardinality(P) <= Cardinality(1 .. n)
        BY ONLY <2>1, P \in SUBSET (1 .. n), FS_Subset
  <2> QED BY <2>1, <2>2
<1>2. PICK k : k = Cardinality(P) OBVIOUS
<1>3. k \in Nat BY <1>1, <1>2, FS_CardinalityType
<1>4. ASSUME NEW i \in P PROVE i \in 1 .. k
  <2>1. i \in Nat /\ i >= 1 BY i \in 1 .. n
  <2>2. Cardinality(1 .. i) = i BY <2>1, UpTo
  <2>3. Cardinality(1 .. i) <= Cardinality(P) BY <1>1, FS_Subset
  <2> QED BY <1>2, <1>3, <2>1, <2>2, <2>3
<1>5. ASSUME NEW i \in 1 .. k, i \notin P PROVE FALSE
  <2>1. i - 1 \in Nat BY <1>3
  <2>2. P \subseteq 1 .. i - 1
    <3>1. ASSUME NEW j \in P PROVE j \in 1 .. i - 1
      <4>1. i \notin 1 .. j BY <1>5
      <4>2. j \in 1 .. n OBVIOUS
      <4> QED BY ONLY <1>3, <4>1, <4>2, i \in 1 .. k, n \in Nat
    <3> QED BY <3>1
  <2>3. IsFiniteSet(1 .. i - 1) /\ Cardinality(1 .. i - 1) = i - 1 BY ONLY <2>1, UpTo
  <2>4. Cardinality(P) <= Cardinality(1 .. i - 1) BY ONLY <2>2, <2>3, FS_Subset
  <2> QED BY ONLY <1>2, <1>3, <2>1, <2>3, <2>4, i \in 1 .. k
<1>6. P = 1 .. k BY <1>4, <1>5
<1> QED BY <1>1, <1>2, <1>3, <1>6

\* A list of times in their order, none of them to come.
Times(ts) == /\ ts \in Seq(Nat)
             /\ \A i \in DOMAIN ts : ts[i] <= now
             /\ \A i, j \in DOMAIN ts : i < j => ts[i] <= ts[j]

Since(ts, from) == {i \in DOMAIN ts : ts[i] >= from}

\* What is recent is the rest of the list without those that are too old.
LEMMA RecentIs ==
  ASSUME now \in Nat, RateWindow \in Nat, NEW ts, Times(ts)
  PROVE  \E gone \in 0 .. Len(ts) :
           /\ \A i \in 1 .. gone : now - ts[i] >= RateWindow
           /\ Recent(ts) \in Seq(Nat) /\ Len(Recent(ts)) = Len(ts) - gone
           /\ \A i \in 1 .. Len(ts) - gone : Recent(ts)[i] = ts[gone + i]
<1> DEFINE old == {i \in DOMAIN ts : now - ts[i] >= RateWindow}
<1>1. /\ Len(ts) \in Nat /\ DOMAIN ts = 1 .. Len(ts)
      /\ \A i \in 1 .. Len(ts) : ts[i] \in Nat
      BY DEF Times
<1>2. old \in SUBSET (1 .. Len(ts)) BY <1>1
<1>3. \A i \in old : 1 .. i \subseteq old
  <2>1. ASSUME NEW i \in old, NEW j \in 1 .. i PROVE j \in old
    <3>1. i \in 1 .. Len(ts) /\ now - ts[i] >= RateWindow BY <1>1
    <3>2. j \in 1 .. Len(ts) /\ (j = i \/ j < i) BY <1>1, <3>1
    <3>3. ts[j] \in Nat /\ ts[i] \in Nat /\ (j = i \/ ts[j] <= ts[i])
          BY <1>1, <3>1, <3>2 DEF Times
    <3>4. now - ts[j] >= RateWindow BY <3>1, <3>3
    <3> QED BY <1>1, <3>2, <3>4
  <2> QED BY <2>1
<1>4. PICK gone : gone = Cardinality(old) OBVIOUS
<1>5. gone \in 0 .. Len(ts) /\ old = 1 .. gone
  <2> HIDE DEF old
  <2> QED BY <1>1, <1>2, <1>3, <1>4, FirstOnes
<1>6. Recent(ts) = [i \in 1 .. Len(ts) - gone |-> ts[gone + i]] BY <1>4 DEF Recent
<1>7. \A i \in 1 .. gone : now - ts[i] >= RateWindow BY <1>5
<1> HIDE DEF old
<1>8. Len(ts) - gone \in Nat BY <1>1, <1>5
<1>9. ASSUME NEW i \in 1 .. Len(ts) - gone PROVE ts[gone + i] \in Nat
  <2>1. gone + i \in 1 .. Len(ts) BY <1>1, <1>5, <1>9
  <2> QED BY <1>1, <2>1
<1>10. Recent(ts) \in [1 .. Len(ts) - gone -> Nat] BY <1>6, <1>9
<1>11. Recent(ts) \in Seq(Nat) /\ Len(Recent(ts)) = Len(ts) - gone
  <2> HIDE DEF Recent
  <2> QED BY <1>8, <1>10
<1>12. \A i \in 1 .. Len(ts) - gone : Recent(ts)[i] = ts[gone + i] BY <1>6
<1> QED BY <1>5, <1>7, <1>11, <1>12

LEMMA SinceFinite ==
  ASSUME NEW ts \in Seq(Nat), NEW from
  PROVE  /\ IsFiniteSet(Since(ts, from))
         /\ Cardinality(Since(ts, from)) \in 0 .. Len(ts)
<1>1. Len(ts) \in Nat /\ Since(ts, from) \in SUBSET (1 .. Len(ts)) BY DEF Since
<1>2. IsFiniteSet(1 .. Len(ts)) /\ Cardinality(1 .. Len(ts)) = Len(ts) BY <1>1, UpTo
<1>3. /\ IsFiniteSet(Since(ts, from))
      /\ Cardinality(Since(ts, from)) <= Cardinality(1 .. Len(ts))
      BY ONLY <1>1, <1>2, FS_Subset
<1>4. Cardinality(Since(ts, from)) \in Nat BY ONLY <1>3, FS_CardinalityType
<1> QED BY ONLY <1>1, <1>2, <1>3, <1>4

\* Whatever is as late as the last window stays in the list.
LEMMA SinceRecent ==
  ASSUME now \in Nat, RateWindow \in Nat, NEW ts, Times(ts),
         NEW from \in Int, from > now - RateWindow
  PROVE  /\ Times(Recent(ts))
         /\ Cardinality(Since(Recent(ts), from)) = Cardinality(Since(ts, from))
<1>1. PICK gone \in 0 .. Len(ts) :
           /\ \A i \in 1 .. gone : now - ts[i] >= RateWindow
           /\ Recent(ts) \in Seq(Nat) /\ Len(Recent(ts)) = Len(ts) - gone
           /\ \A i \in 1 .. Len(ts) - gone : Recent(ts)[i] = ts[gone + i]
      BY RecentIs
<1>2. /\ ts \in Seq(Nat) /\ Len(ts) \in Nat /\ DOMAIN ts = 1 .. Len(ts)
      /\ \A i \in 1 .. Len(ts) : ts[i] \in Nat /\ ts[i] <= now
      /\ \A i, j \in 1 .. Len(ts) : i < j => ts[i] <= ts[j]
      BY DEF Times
<1>3. PICK rest : rest = Recent(ts) OBVIOUS
<1>4. /\ rest \in Seq(Nat) /\ DOMAIN rest = 1 .. Len(ts) - gone
      /\ \A i \in 1 .. Len(ts) - gone :
           rest[i] = ts[gone + i] /\ gone + i \in 1 .. Len(ts)
  <2>1. rest \in Seq(Nat) /\ Len(rest) = Len(ts) - gone BY ONLY <1>1, <1>3
  <2>2. DOMAIN rest = 1 .. Len(rest) BY ONLY <2>1
  <2> QED BY ONLY <1>1, <1>2, <1>3, <2>1, <2>2
<1>5. Times(rest)
  <2>1. \A i \in DOMAIN rest : rest[i] <= now BY <1>2, <1>4
  <2>2. ASSUME NEW i \in DOMAIN rest, NEW j \in DOMAIN rest, i < j
        PROVE  rest[i] <= rest[j]
    <3>1. gone + i < gone + j BY ONLY <1>2, <1>4, <2>2, gone \in 0 .. Len(ts)
    <3> QED BY <1>2, <1>4, <3>1
  <2> QED BY <1>4, <2>1, <2>2 DEF Times
<1>6. PICK R : R = Since(rest, from) OBVIOUS
<1>7. PICK T : T = Since(ts, from) OBVIOUS
<1>8. \A i : i \in R <=> i \in 1 .. Len(ts) - gone /\ ts[gone + i] >= from
      BY <1>4, <1>6 DEF Since
<1>9. \A i : i \in T <=> i \in 1 .. Len(ts) /\ ts[i] >= from BY <1>2, <1>7 DEF Since
<1>10. ExistsBijection(R, T)
  <2> DEFINE f == [i \in R |-> gone + i]
  <2>0. gone \in Nat OBVIOUS
  <2>1. \A i \in R : f[i] \in T /\ i \in Nat BY <1>4, <1>8, <1>9
  <2>2. \A i, j \in R : f[i] = f[j] => i = j BY <2>0, <2>1
  <2>3. ASSUME NEW k \in T PROVE \E i \in R : f[i] = k
    <3>1. k \in 1 .. Len(ts) /\ ts[k] >= from BY <1>9
    <3>2. k \notin 1 .. gone
      <4>1. ASSUME k \in 1 .. gone PROVE FALSE
        <5>1. now - ts[k] >= RateWindow BY <1>1, <4>1
        <5>2. ts[k] \in Nat BY <1>2, <3>1
        <5> QED BY <3>1, <5>1, <5>2
      <4> QED BY <4>1
    <3>3. k - gone \in 1 .. Len(ts) - gone /\ gone + (k - gone) = k
          BY ONLY <1>2, <2>0, <3>1, <3>2
    <3>4. k - gone \in R BY <1>8, <3>1, <3>3
    <3> QED BY <3>3, <3>4
  <2>4. f \in Bijection(R, T)
    <3>1. f \in [R -> T] BY <2>1
    <3> HIDE DEF f
    <3>2. f \in Injection(R, T) BY <2>2, <3>1 DEF Injection, IsInjective
    <3>3. f \in Surjection(R, T) BY <2>3, <3>1 DEF Surjection
    <3> QED BY <3>2, <3>3 DEF Bijection
  <2> QED BY <2>4 DEF ExistsBijection
<1>11. IsFiniteSet(R) BY <1>4, <1>6, SinceFinite
<1>12. Cardinality(T) = Cardinality(R) BY ONLY <1>10, <1>11, FS_Bijection
<1> QED BY ONLY <1>3, <1>5, <1>6, <1>7, <1>12

\* One more, now.
LEMMA SinceAppend ==
  ASSUME now \in Nat, NEW ts, Times(ts), NEW from \in Int, from <= now
  PROVE  /\ Times(Append(ts, now))
         /\ Cardinality(Since(Append(ts, now), from)) = Cardinality(Since(ts, from)) + 1
<1>1. /\ ts \in Seq(Nat) /\ Len(ts) \in Nat /\ DOMAIN ts = 1 .. Len(ts)
      /\ \A i \in 1 .. Len(ts) : ts[i] \in Nat /\ ts[i] <= now
      /\ \A i, j \in 1 .. Len(ts) : i < j => ts[i] <= ts[j]
      BY DEF Times
<1>2. PICK more : more = Append(ts, now) OBVIOUS
<1>3. /\ more \in Seq(Nat) /\ DOMAIN more = 1 .. Len(ts) + 1
      /\ \A i \in 1 .. Len(ts) : more[i] = ts[i]
      /\ more[Len(ts) + 1] = now
      BY <1>1, <1>2
<1>4. \A i \in 1 .. Len(ts) + 1 : i \in 1 .. Len(ts) \/ i = Len(ts) + 1 BY ONLY <1>1
<1>5. Times(more)
  <2>1. \A i \in DOMAIN more : more[i] <= now BY <1>1, <1>3, <1>4
  <2>2. ASSUME NEW i \in DOMAIN more, NEW j \in DOMAIN more, i < j
        PROVE  more[i] <= more[j]
    <3>1. i \in 1 .. Len(ts) BY ONLY <1>1, <1>3, <2>2
    <3>2. CASE j \in 1 .. Len(ts) BY <1>1, <1>3, <2>2, <3>1, <3>2
    <3>3. CASE j = Len(ts) + 1 BY <1>1, <1>3, <3>1, <3>3
    <3> QED BY <1>3, <1>4, <3>2, <3>3
  <2> QED BY <1>3, <2>1, <2>2 DEF Times
<1>6. Since(more, from) = Since(ts, from) \cup {Len(ts) + 1}
      BY <1>1, <1>3, <1>4 DEF Since
<1>7. Len(ts) + 1 \notin Since(ts, from) BY <1>1 DEF Since
<1>8. IsFiniteSet(Since(ts, from)) BY <1>1, SinceFinite
<1>9. Cardinality(Since(more, from)) = Cardinality(Since(ts, from)) + 1
      BY ONLY <1>6, <1>7, <1>8, FS_AddElement
<1> QED BY <1>2, <1>5, <1>9

----------------------------------------------------------------------------
(* A source keeps to its rate.                                              *)

\* The frames of a source that the rate limiter has let in and that are not
\* decided yet: the threads that have them.
InFlight(s) == {t \in Threads : stage[t] \in {2, 3} /\ hand[t].src = s}

AllowedInv == /\ allowed \in [Sources -> Seq(Nat)]
              /\ \A s \in Sources : Times(allowed[s]) /\ Len(allowed[s]) <= RateMax

FramesInv == /\ \A t \in Threads : stage[t] > 0 => hand[t] \in Frames
             /\ \A i \in DOMAIN log : log[i].key.src \in Sources

\* Each frame accepted lately or in flight has a time of its own in the list.
BalanceInv ==
  \A s \in Sources :
    /\ IsFiniteSet(InFlight(s))
    /\ \A from \in Int : (now - RateWindow < from /\ from <= now) =>
         Cardinality(OkIn(s, from, now)) + Cardinality(InFlight(s))
           <= Cardinality(Since(allowed[s], from))

RateInv == TypeInv /\ AllowedInv /\ FramesInv /\ BalanceInv /\ RateBudget

LEMMA NoneIsFinite == IsFiniteSet({}) /\ Cardinality({}) = 0
<1>1. 0 \in Nat /\ 1 .. 0 = {} OBVIOUS
<1> QED BY <1>1, UpTo

LEMMA InitRate == ASSUME GateConstants PROVE Init => RateInv
<1> SUFFICES ASSUME Init PROVE RateInv
    OBVIOUS
<1>1. TypeInv BY InitInv DEF IInv
<1>2. /\ now = 0 /\ log = << >> /\ allowed = [s \in Sources |-> << >>]
      /\ stage = [t \in Threads |-> 0]
      BY DEF Init
<1>3. RateMax \in Nat BY DEF GateConstants
<1>4. Times(<< >>) /\ Len(<< >>) = 0 /\ << >> \in Seq(Nat) BY DEF Times
<1>5. AllowedInv BY <1>2, <1>3, <1>4 DEF AllowedInv
<1>6. FramesInv BY <1>2 DEF FramesInv
<1>7. \A s, from, to : OkIn(s, from, to) = {} BY <1>2 DEF OkIn
<1>8. \A s : InFlight(s) = {} BY <1>2 DEF InFlight
<1>9. BalanceInv
  <2>1. ASSUME NEW s \in Sources, NEW from \in Int
        PROVE  Cardinality(OkIn(s, from, now)) + Cardinality(InFlight(s))
                 <= Cardinality(Since(allowed[s], from))
    <3>1. Since(allowed[s], from) = {} BY <1>2 DEF Since
    <3>2. Cardinality({}) + Cardinality({}) <= Cardinality({}) BY NoneIsFinite
    <3> QED BY <1>7, <1>8, <3>1, <3>2
  <2> QED BY <1>8, <2>1, NoneIsFinite DEF BalanceInv
<1>10. RateBudget BY <1>2 DEF RateBudget
<1> QED BY <1>1, <1>5, <1>6, <1>9, <1>10 DEF RateInv

LEMMA PartFinite ==
  ASSUME NEW n \in Nat, NEW P \in SUBSET (1 .. n)
  PROVE  IsFiniteSet(P) /\ Cardinality(P) \in Nat
<1>1. IsFiniteSet(1 .. n) BY UpTo
<1>2. IsFiniteSet(P) BY ONLY <1>1, P \in SUBSET (1 .. n), FS_Subset
<1> QED BY <1>2, FS_CardinalityType

\* The frames of a source accepted in a span of time.
LEMMA OkFinite ==
  ASSUME TypeInv, NEW s, NEW from, NEW to
  PROVE  IsFiniteSet(OkIn(s, from, to)) /\ Cardinality(OkIn(s, from, to)) \in Nat
<1>1. Len(log) \in Nat /\ OkIn(s, from, to) \in SUBSET (1 .. Len(log))
      BY DEF TypeInv, OkIn
<1> QED BY <1>1, PartFinite

LEMMA OkKept ==
  ASSUME TypeInv, log' = log \/ \E x \in Entries : log' = Append(log, x) /\ x.verdict # "ok",
         NEW s, NEW from, NEW to
  PROVE  OkIn(s, from, to)' = OkIn(s, from, to)
<1>1. log \in Seq(Entries) BY DEF TypeInv
<1>2. CASE log' = log BY <1>2 DEF OkIn
<1>3. ASSUME NEW x \in Entries, log' = Append(log, x), x.verdict # "ok"
      PROVE  OkIn(s, from, to)' = OkIn(s, from, to)
  <2>1. /\ Len(log) \in Nat /\ DOMAIN log = 1 .. Len(log)
        /\ DOMAIN log' = 1 .. Len(log) + 1
        /\ \A i \in 1 .. Len(log) : log'[i] = log[i]
        /\ log'[Len(log) + 1] = x
        BY <1>1, <1>3
  <2>2. \A i \in 1 .. Len(log) + 1 : i \in 1 .. Len(log) \/ i = Len(log) + 1
        BY ONLY <2>1
  <2>3. log'[Len(log) + 1].verdict # "ok" BY <1>3, <2>1
  <2>4. \A i \in DOMAIN log' : log'[i].verdict = "ok" => i \in DOMAIN log
        BY <2>1, <2>2, <2>3
  <2> QED BY <2>1, <2>4 DEF OkIn
<1> QED BY <1>2, <1>3

LEMMA OkMore ==
  ASSUME TypeInv, NEW x \in Entries, log' = Append(log, x), x.at = now, now' = now,
         NEW s, NEW from, NEW to
  PROVE  /\ s # x.key.src => OkIn(s, from, to)' = OkIn(s, from, to)
         /\ OkIn(s, from, to)' \subseteq OkIn(s, from, to) \cup {Len(log) + 1}
<1>1. log \in Seq(Entries) BY DEF TypeInv
<1>2. /\ Len(log) \in Nat /\ DOMAIN log = 1 .. Len(log)
      /\ DOMAIN log' = 1 .. Len(log) + 1
      /\ \A i \in 1 .. Len(log) : log'[i] = log[i]
      /\ log'[Len(log) + 1] = x
      BY <1>1
<1>3. \A i \in 1 .. Len(log) + 1 : i \in 1 .. Len(log) \/ i = Len(log) + 1
      BY ONLY <1>2
<1>4. ASSUME s # x.key.src PROVE OkIn(s, from, to)' = OkIn(s, from, to)
      BY <1>2, <1>3, <1>4 DEF OkIn
<1>5. OkIn(s, from, to)' \subseteq OkIn(s, from, to) \cup {Len(log) + 1}
      BY <1>2, <1>3 DEF OkIn
<1> QED BY <1>4, <1>5

\* A time that is over gains nothing.
LEMMA OkPast ==
  ASSUME TypeInv, now' \in Nat,
         log' = log \/ \E x \in Entries : log' = Append(log, x) /\ x.at = now',
         NEW s, NEW from \in Int, NEW to \in Int, to < now'
  PROVE  OkIn(s, from, to)' = OkIn(s, from, to)
<1>1. log \in Seq(Entries) BY DEF TypeInv
<1>2. CASE log' = log BY <1>2 DEF OkIn
<1>3. ASSUME NEW x \in Entries, log' = Append(log, x), x.at = now'
      PROVE  OkIn(s, from, to)' = OkIn(s, from, to)
  <2>1. /\ Len(log) \in Nat /\ DOMAIN log = 1 .. Len(log)
        /\ DOMAIN log' = 1 .. Len(log) + 1
        /\ \A i \in 1 .. Len(log) : log'[i] = log[i]
        /\ log'[Len(log) + 1] = x
        BY <1>1, <1>3
  <2>2. \A i \in 1 .. Len(log) + 1 : i \in 1 .. Len(log) \/ i = Len(log) + 1
        BY ONLY <2>1
  <2>3. x.at \notin from .. to BY <1>3
  <2> QED BY <2>1, <2>2, <2>3 DEF OkIn
<1> QED BY <1>2, <1>3

\* The budget follows from the balance for the windows that are not over, and
\* from the budget before for those that are.
LEMMA BudgetKept ==
  ASSUME RateInv, RateWindow \in Nat, RateMax \in Nat,
         TypeInv', AllowedInv', FramesInv', BalanceInv',
         now' = now \/ now' = now + 1,
         log' = log \/ \E x \in Entries : log' = Append(log, x) /\ x.at = now'
  PROVE  RateBudget'
<1>1. TypeInv /\ RateBudget BY DEF RateInv
<1>2. now \in Nat /\ now' \in Nat BY <1>1 DEF TypeInv
<1>3. ASSUME NEW s \in Sources, NEW from \in 0 .. now', NEW to, to = from + RateWindow - 1
      PROVE  Cardinality(OkIn(s, from, to)') <= RateMax
  <2>1. to = from + RateWindow - 1 BY <1>3
  <2>2. to \in Int /\ from \in Nat /\ from <= now' BY <1>2, <1>3
  <2>3. CASE to < now'
    <3>1. OkIn(s, from, to)' = OkIn(s, from, to) BY <1>1, <1>2, <2>2, <2>3, OkPast
    <3>2. CASE OkIn(s, from, to) = {}
      <4>1. OkIn(s, from, to)' = {} BY <3>1, <3>2
      <4> QED BY <4>1, NoneIsFinite
    <3>3. CASE OkIn(s, from, to) # {}
      <4>1. PICK i \in DOMAIN log : log[i].key.src = s /\ log[i].at \in from .. to
            BY <3>3 DEF OkIn
      <4>2. s \in {log[k].key.src : k \in DOMAIN log} BY <4>1
      <4>3. from <= now
        <5>1. log[i].at <= now BY <1>1 DEF TypeInv
        <5>2. log[i].at \in Int /\ from <= log[i].at BY <2>2, <4>1
        <5> QED BY <1>2, <5>1, <5>2
      <4>4. from \in 0 .. now BY <1>2, <4>3
      <4> QED BY <1>1, <2>1, <3>1, <4>2, <4>4 DEF RateBudget
    <3> QED BY <3>2, <3>3
  <2>4. CASE to >= now'
    <3>0. from + RateWindow - 1 >= now' BY <2>1, <2>4
    <3>1. now' - RateWindow < from /\ from <= now'
      <4>1. \A n, w, f \in Nat : f + w - 1 >= n => n - w < f OBVIOUS
      <4>2. from \in Nat /\ now' \in Nat /\ from <= now' BY ONLY <1>2, <2>2
      <4> QED BY ONLY <3>0, <4>1, <4>2, RateWindow \in Nat
    <3>2. OkIn(s, from, to)' \subseteq OkIn(s, from, now)'
      <4>1. ASSUME NEW i \in DOMAIN log', log'[i].at \in from .. to
            PROVE  log'[i].at \in from .. now'
        <5>1. log'[i].at <= now' BY DEF TypeInv
        <5> QED BY <1>2, <2>2, <4>1, <5>1
      <4> QED BY <4>1 DEF OkIn
    <3>3. Cardinality(OkIn(s, from, now)') + Cardinality(InFlight(s)')
            <= Cardinality(Since(allowed[s], from)')
          BY <3>1 DEF BalanceInv
    <3>4. Cardinality(Since(allowed[s], from)') <= RateMax
      <4>1. allowed'[s] \in Seq(Nat) /\ Len(allowed'[s]) <= RateMax BY DEF AllowedInv
      <4>2. PICK ts : ts = allowed'[s] OBVIOUS
      <4>3. Cardinality(Since(ts, from)) \in 0 .. Len(ts) BY <4>1, <4>2, SinceFinite
      <4>4. Since(allowed[s], from)' = Since(ts, from) BY <4>2 DEF Since
      <4> QED BY <4>1, <4>2, <4>3, <4>4
    <3>5. Cardinality(InFlight(s)') \in Nat BY FS_CardinalityType DEF BalanceInv
    <3>a. /\ Len(log') \in Nat
          /\ OkIn(s, from, now)' \in SUBSET (1 .. Len(log'))
          /\ OkIn(s, from, to)' \in SUBSET (1 .. Len(log'))
          BY DEF TypeInv, OkIn
    <3>6. IsFiniteSet(OkIn(s, from, now)') /\ Cardinality(OkIn(s, from, now)') \in Nat
          BY <3>a, PartFinite
    <3>7. IsFiniteSet(OkIn(s, from, to)') /\ Cardinality(OkIn(s, from, to)') \in Nat
          BY <3>a, PartFinite
    <3>8. Cardinality(OkIn(s, from, to)') <= Cardinality(OkIn(s, from, now)')
          BY ONLY <3>2, <3>6, FS_Subset
    <3>9. Cardinality(Since(allowed[s], from)') \in Int
      <4>1. PICK ts : ts = allowed'[s] OBVIOUS
      <4>2. ts \in Seq(Nat) BY <4>1 DEF AllowedInv
      <4>3. Cardinality(Since(ts, from)) \in Int BY <4>2, SinceFinite
      <4>4. Since(allowed[s], from)' = Since(ts, from) BY <4>1 DEF Since
      <4> QED BY <4>3, <4>4
    <3>10. Cardinality(OkIn(s, from, to)') <= RateMax
           BY ONLY <3>3, <3>4, <3>5, <3>6, <3>7, <3>8, <3>9, RateMax \in Nat
    <3> QED BY <3>10
  <2> QED BY <1>2, <2>2, <2>3, <2>4
<1>4. {log'[i].key.src : i \in DOMAIN log'} \subseteq Sources BY DEF FramesInv
<1>5. ASSUME NEW s \in {log'[i].key.src : i \in DOMAIN log'}, NEW from \in 0 .. now'
      PROVE  Cardinality(OkIn(s, from, from + RateWindow - 1)') <= RateMax
  <2>1. PICK to : to = from + RateWindow - 1 OBVIOUS
  <2>2. s \in Sources BY <1>4
  <2>3. Cardinality(OkIn(s, from, to)') <= RateMax BY <1>3, <2>1, <2>2
  <2>4. OkIn(s, from, from + RateWindow - 1)' = OkIn(s, from, to)' BY <2>1 DEF OkIn
  <2> QED BY <2>3, <2>4
<1> QED BY <1>5 DEF RateBudget

LEMMA JudgedFrames ==
  ASSUME TypeInv, FramesInv, NEW t \in Threads, stage[t] \in 1 .. 3, NEW ok \in BOOLEAN,
         NEW part \in {"rate", "replay", "anomaly"}, Judge(t, ok, part)
  PROVE  FramesInv'
<1>1. stage \in [Threads -> 0 .. 3] /\ hand \in [Threads -> Handed] /\ log \in Seq(Entries)
      BY DEF TypeInv
<1>2. hand[t] \in Frames BY DEF FramesInv
<1>3. CASE log' = log /\ hand' = hand /\ stage' = [stage EXCEPT ![t] = stage[t] + 1]
      BY <1>1, <1>2, <1>3 DEF FramesInv
<1>4. ASSUME NEW v \in {"ok", "rate", "replay", "anomaly"}, log' = Append(log, Entry(t, v)),
             stage' = [stage EXCEPT ![t] = 0], hand' = [hand EXCEPT ![t] = NoFrame]
      PROVE  FramesInv'
  <2>1. \A u \in Threads : stage'[u] > 0 => hand'[u] \in Frames BY <1>1, <1>4 DEF FramesInv
  <2>2. Entry(t, v).key.src \in Sources BY <1>2 DEF Entry, Key, Sources
  <2>3. PICK x : x = Entry(t, v) OBVIOUS
  <2>4. ASSUME NEW i \in DOMAIN log' PROVE log'[i].key.src \in Sources
    <3>1. CASE i \in DOMAIN log
      <4>1. log'[i] = log[i] BY <1>1, <1>4, <2>3, <3>1
      <4> QED BY <3>1, <4>1 DEF FramesInv
    <3>2. CASE i \notin DOMAIN log
      <4>1. log'[i] = x BY <1>1, <1>4, <2>3, <3>2
      <4> QED BY <2>2, <2>3, <4>1
    <3> QED BY <3>1, <3>2
  <2> QED BY <2>1, <2>4 DEF FramesInv
<1> QED BY <1>3, <1>4, Judged

\* A thread that leaves is out of flight, and what it accepts was in flight.
LEMMA LeavesBalanced ==
  ASSUME RateInv, NEW t \in Threads, stage[t] \in 1 .. 3, now' = now, allowed' = allowed,
         stage' = [stage EXCEPT ![t] = 0], hand' = [hand EXCEPT ![t] = NoFrame],
         NEW x \in Entries, log' = Append(log, x), x.at = now, x.key = Key(hand[t]),
         x.verdict = "ok" => stage[t] = 3
  PROVE  BalanceInv'
<1>1. TypeInv /\ BalanceInv BY DEF RateInv
<1>2. stage \in [Threads -> 0 .. 3] /\ hand \in [Threads -> Handed] BY <1>1 DEF TypeInv
<1>3. ASSUME NEW s \in Sources
      PROVE  /\ IsFiniteSet(InFlight(s)')
             /\ \A from \in Int : (now - RateWindow < from /\ from <= now) =>
                  Cardinality(OkIn(s, from, now)') + Cardinality(InFlight(s)')
                    <= Cardinality(Since(allowed[s], from))
  <2>1. InFlight(s)' = InFlight(s) \ {t} BY <1>2 DEF InFlight
  <2>2. IsFiniteSet(InFlight(s)) BY <1>1 DEF BalanceInv
  <2>3. /\ IsFiniteSet(InFlight(s)')
        /\ Cardinality(InFlight(s)') =
             IF t \in InFlight(s) THEN Cardinality(InFlight(s)) - 1 ELSE Cardinality(InFlight(s))
        BY ONLY <2>1, <2>2, FS_RemoveElement
  <2>4. ASSUME NEW from \in Int, now - RateWindow < from, from <= now
        PROVE  Cardinality(OkIn(s, from, now)') + Cardinality(InFlight(s)')
                 <= Cardinality(Since(allowed[s], from))
    <3>1. Cardinality(OkIn(s, from, now)) + Cardinality(InFlight(s))
            <= Cardinality(Since(allowed[s], from))
          BY <1>1, <2>4 DEF BalanceInv
    <3>2. IsFiniteSet(OkIn(s, from, now)) /\ Cardinality(OkIn(s, from, now)) \in Nat
          BY <1>1, OkFinite
    <3>3. Cardinality(InFlight(s)) \in Nat BY <2>2, FS_CardinalityType
    <3>4. Cardinality(Since(allowed[s], from)) \in Int
      <4>1. allowed[s] \in Seq(Nat) BY DEF RateInv, AllowedInv
      <4> QED BY <4>1, SinceFinite
    <3>5. CASE OkIn(s, from, now)' = OkIn(s, from, now) BY <2>3, <3>1, <3>2, <3>3, <3>4, <3>5
    <3>6. CASE OkIn(s, from, now)' # OkIn(s, from, now)
      <4>n. PICK n : n = now OBVIOUS
      <4>o. OkIn(s, from, now)' = OkIn(s, from, n)' /\ OkIn(s, from, now) = OkIn(s, from, n)
            BY <4>n DEF OkIn
      <4>1. x.verdict = "ok"
        <5>1. ASSUME x.verdict # "ok" PROVE OkIn(s, from, n)' = OkIn(s, from, n)
              BY <1>1, <5>1, OkKept
        <5> QED BY <3>6, <4>o, <5>1
      <4>2. s = x.key.src /\ OkIn(s, from, n)' \subseteq OkIn(s, from, n) \cup {Len(log) + 1}
        <5>1. /\ s # x.key.src => OkIn(s, from, n)' = OkIn(s, from, n)
              /\ OkIn(s, from, n)' \subseteq OkIn(s, from, n) \cup {Len(log) + 1}
              BY <1>1, OkMore
        <5> QED BY <3>6, <4>o, <5>1
      <4>3. t \in InFlight(s) BY <4>1, <4>2 DEF InFlight, Key
      <4>4. PICK A : A = OkIn(s, from, n) OBVIOUS
      <4>5. PICK B : B = OkIn(s, from, n)' OBVIOUS
      <4>6. PICK k : k = Len(log) + 1 OBVIOUS
      <4>7. IsFiniteSet(A) /\ Cardinality(A) \in Nat BY <3>2, <4>n, <4>4
      <4>8. /\ IsFiniteSet(A \cup {k})
            /\ Cardinality(A \cup {k}) = IF k \in A THEN Cardinality(A) ELSE Cardinality(A) + 1
            BY ONLY <4>7, FS_AddElement
      <4>9. B \subseteq A \cup {k} BY <4>2, <4>4, <4>5, <4>6
      <4>10. IsFiniteSet(B) /\ Cardinality(B) <= Cardinality(A \cup {k})
             BY ONLY <4>8, <4>9, FS_Subset
      <4>11. Cardinality(B) \in Nat BY ONLY <4>10, FS_CardinalityType
      <4>12. Cardinality(B) <= Cardinality(A) + 1 BY ONLY <4>7, <4>8, <4>10, <4>11
      <4>13. Cardinality(A) + Cardinality(InFlight(s)) <= Cardinality(Since(allowed[s], from))
             BY <3>1, <4>n, <4>4
      <4>14. Cardinality(B) + Cardinality(InFlight(s)') <= Cardinality(Since(allowed[s], from))
             BY ONLY <2>3, <3>3, <3>4, <4>3, <4>7, <4>11, <4>12, <4>13
      <4> QED BY <4>o, <4>5, <4>14
    <3> QED BY <3>5, <3>6
  <2> QED BY <2>3, <2>4
<1> QED BY <1>3 DEF BalanceInv, OkIn

\* Nothing that counts has changed.
LEMMA SameBalanced ==
  ASSUME RateInv, now' = now, allowed' = allowed, log' = log,
         \A u \in Threads : /\ stage'[u] \in {2, 3} <=> stage[u] \in {2, 3}
                            /\ stage[u] \in {2, 3} => hand'[u] = hand[u]
  PROVE  BalanceInv'
<1>1. \A s : InFlight(s)' = InFlight(s) BY DEF InFlight
<1>2. \A s, from, to : OkIn(s, from, to)' = OkIn(s, from, to) BY DEF OkIn
<1> QED BY <1>1, <1>2 DEF RateInv, BalanceInv, OkIn

\* The list of the source of the frame is cut to the last second, and takes the
\* frame's time if there is room.
LEMMA RateAllowed ==
  ASSUME GateConstants, TypeInv, RateInv, NEW t \in Threads, CheckRate(t), stage[t] = 1
  PROVE  \E r \in Sources, ok \in BOOLEAN, ts \in Seq(Nat) :
           /\ r = hand[t].src /\ Judge(t, ok, "rate")
           /\ Times(ts) /\ Len(ts) <= RateMax
           /\ ok => Len(ts) < RateMax
           /\ \A from \in Int : now - RateWindow < from =>
                Cardinality(Since(ts, from)) = Cardinality(Since(allowed[r], from))
           /\ allowed' = [allowed EXCEPT ![r] = IF ok THEN Append(ts, now) ELSE ts]
<1>1. hand[t] \in Frames BY DEF RateInv, FramesInv
<1>2. PICK r \in Sources : r = hand[t].src BY <1>1 DEF Sources
<1>3. PICK ts : ts = Recent(allowed[r]) OBVIOUS
<1>4. PICK ok \in BOOLEAN : ok <=> Len(ts) < RateMax
  <2> DEFINE room == Len(ts) < RateMax
  <2>1. room \in BOOLEAN OBVIOUS
  <2> QED BY <2>1
<1>5. /\ Judge(t, ok, "rate")
      /\ allowed' = [allowed EXCEPT ![r] = IF ok THEN Append(ts, now) ELSE ts]
      BY <1>2, <1>3, <1>4 DEF CheckRate, Judge
<1>6. /\ Times(allowed[r]) /\ Len(allowed[r]) <= RateMax /\ Len(allowed[r]) \in Nat
      /\ now \in Nat /\ RateWindow \in Nat /\ RateMax \in Nat
      BY DEF RateInv, AllowedInv, TypeInv, GateConstants
<1>7. PICK gone \in 0 .. Len(allowed[r]) :
        Recent(allowed[r]) \in Seq(Nat) /\ Len(Recent(allowed[r])) = Len(allowed[r]) - gone
      BY <1>6, RecentIs
<1>8. ts \in Seq(Nat) /\ Len(ts) <= RateMax BY <1>3, <1>6, <1>7
<1>9. \A from \in Int : now - RateWindow < from =>
        Cardinality(Since(ts, from)) = Cardinality(Since(allowed[r], from))
  <2>1. ASSUME NEW from \in Int, now - RateWindow < from
        PROVE  Cardinality(Since(ts, from)) = Cardinality(Since(allowed[r], from))
    <3>1. from > now - RateWindow BY <1>6, <2>1
    <3> QED BY <1>3, <1>6, <3>1, SinceRecent
  <2> QED BY <2>1
<1>10. Times(ts)
  <2>1. now + 1 \in Int /\ now + 1 > now - RateWindow BY <1>6
  <2> QED BY <1>3, <1>6, <2>1, SinceRecent
<1>11. ok => Len(ts) < RateMax BY <1>4
<1> QED BY <1>2, <1>5, <1>8, <1>9, <1>10, <1>11

LEMMA CheckRateBalanced ==
  ASSUME GateConstants, TypeInv, RateInv, NEW t \in Threads, CheckRate(t), stage[t] = 1
  PROVE  AllowedInv' /\ BalanceInv'
<1>1. PICK r \in Sources, ok \in BOOLEAN, ts \in Seq(Nat) :
           /\ r = hand[t].src /\ Judge(t, ok, "rate")
           /\ Times(ts) /\ Len(ts) <= RateMax
           /\ ok => Len(ts) < RateMax
           /\ \A from \in Int : now - RateWindow < from =>
                Cardinality(Since(ts, from)) = Cardinality(Since(allowed[r], from))
           /\ allowed' = [allowed EXCEPT ![r] = IF ok THEN Append(ts, now) ELSE ts]
      BY RateAllowed
<1>2. now' = now BY DEF CheckRate
<1>3. /\ allowed \in [Sources -> Seq(Nat)] /\ now \in Nat /\ RateMax \in Nat
      /\ stage \in [Threads -> 0 .. 3] /\ hand \in [Threads -> Handed]
      BY DEF RateInv, AllowedInv, TypeInv, GateConstants
<1>4. PICK more : more = IF ok THEN Append(ts, now) ELSE ts OBVIOUS
<1>5. /\ more \in Seq(Nat) /\ Len(more) <= RateMax /\ Times(more)
      /\ \A from \in Int : (now - RateWindow < from /\ from <= now) =>
           Cardinality(Since(more, from))
             = Cardinality(Since(allowed[r], from)) + (IF ok THEN 1 ELSE 0)
  <2>1. CASE ok
    <3>1. more = Append(ts, now) /\ Len(ts) \in Nat /\ Len(ts) < RateMax
          BY <1>1, <1>4, <2>1
    <3>2. more \in Seq(Nat) /\ Len(more) <= RateMax BY <1>3, <3>1
    <3>3. Times(more)
      <4>1. now \in Int /\ now <= now BY <1>3
      <4> QED BY <1>1, <1>3, <3>1, <4>1, SinceAppend
    <3>4. ASSUME NEW from \in Int, now - RateWindow < from, from <= now
          PROVE  Cardinality(Since(more, from)) = Cardinality(Since(allowed[r], from)) + 1
      <4>1. Cardinality(Since(Append(ts, now), from)) = Cardinality(Since(ts, from)) + 1
            BY <1>1, <1>3, <3>4, SinceAppend
      <4> QED BY <1>1, <3>1, <3>4, <4>1
    <3> QED BY <2>1, <3>2, <3>3, <3>4
  <2>2. CASE ~ok
    <3>1. more = ts BY <1>4, <2>2
    <3>2. ASSUME NEW from \in Int, now - RateWindow < from, from <= now
          PROVE  Cardinality(Since(more, from)) = Cardinality(Since(allowed[r], from)) + 0
      <4>1. Cardinality(Since(allowed[r], from)) \in Int
        <5>1. allowed[r] \in Seq(Nat) BY <1>3
        <5> QED BY <5>1, SinceFinite
      <4> QED BY <1>1, <3>1, <3>2, <4>1
    <3> QED BY <1>1, <2>2, <3>1, <3>2
  <2> QED BY <2>1, <2>2
<1>6. allowed' = [allowed EXCEPT ![r] = more] BY <1>1, <1>4
<1>7. AllowedInv'
  <2>1. \A s \in Sources : allowed'[s] = IF s = r THEN more ELSE allowed[s] BY <1>3, <1>6
  <2>2. allowed' \in [Sources -> Seq(Nat)] BY <1>3, <1>5, <1>6
  <2>3. ASSUME NEW s \in Sources PROVE Times(allowed'[s]) /\ Len(allowed'[s]) <= RateMax
        BY <1>5, <2>1 DEF RateInv, AllowedInv
  <2>4. \A s \in Sources : Times(allowed[s])' BY <1>2, <2>3 DEF Times
  <2> QED BY <2>2, <2>3, <2>4 DEF AllowedInv
<1>8. \A s, from, to : OkIn(s, from, to)' = OkIn(s, from, to)
  <2>1. Entry(t, "rate") \in Entries /\ Entry(t, "rate").verdict # "ok"
        BY EntryType DEF Entry
  <2>2. log' = log \/ log' = Append(log, Entry(t, "rate"))
    <3>1. stage[t] # 3 OBVIOUS
    <3>2. Judge(t, ok, "rate") BY <1>1
    <3> QED BY <3>1, <3>2, Judged
  <2> QED BY <2>1, <2>2, OkKept
<1>9. ASSUME NEW s \in Sources
      PROVE  /\ IsFiniteSet(InFlight(s)')
             /\ Cardinality(InFlight(s)') =
                  Cardinality(InFlight(s)) + (IF ok /\ s = r THEN 1 ELSE 0)
  <2>1. IsFiniteSet(InFlight(s)) /\ Cardinality(InFlight(s)) \in Nat
        BY FS_CardinalityType DEF RateInv, BalanceInv
  <2>2. t \notin InFlight(s) BY DEF InFlight
  <2>3. CASE ok
    <3>1. hand' = hand /\ stage' = [stage EXCEPT ![t] = 2]
      <4>0. ok = TRUE BY <2>3
      <4>1. Judge(t, TRUE, "rate") BY <1>1, <4>0
      <4>2. stage[t] # 3 OBVIOUS
      <4>3. hand' = hand /\ stage' = [stage EXCEPT ![t] = stage[t] + 1]
            BY <4>1, <4>2, Judged
      <4>4. stage[t] + 1 = 2 OBVIOUS
      <4> QED BY <4>3, <4>4
    <3>2. CASE s = r
      <4>1. InFlight(s)' = InFlight(s) \cup {t} BY <1>1, <1>3, <3>1, <3>2 DEF InFlight
      <4>2. /\ IsFiniteSet(InFlight(s)')
            /\ Cardinality(InFlight(s)') = Cardinality(InFlight(s)) + 1
            BY ONLY <2>1, <2>2, <4>1, FS_AddElement
      <4> QED BY <2>3, <3>2, <4>2
    <3>3. CASE s # r
      <4>1. InFlight(s)' = InFlight(s) BY <1>1, <1>3, <3>1, <3>3 DEF InFlight
      <4> QED BY <2>1, <3>3, <4>1
    <3> QED BY <3>2, <3>3
  <2>4. CASE ~ok
    <3>1. stage' = [stage EXCEPT ![t] = 0] /\ hand' = [hand EXCEPT ![t] = NoFrame]
      <4>0. ok = FALSE BY <2>4
      <4>1. Judge(t, FALSE, "rate") BY <1>1, <4>0
      <4> QED BY <4>1, Judged
    <3>2. InFlight(s)' = InFlight(s) BY <1>3, <3>1 DEF InFlight
    <3> QED BY <2>1, <2>4, <3>2
  <2> QED BY <2>3, <2>4
<1>10. ASSUME NEW s \in Sources, NEW from \in Int, now - RateWindow < from, from <= now
       PROVE  Cardinality(OkIn(s, from, now)) + Cardinality(InFlight(s)')
                <= Cardinality(Since(allowed'[s], from))
  <2>1. Cardinality(OkIn(s, from, now)) + Cardinality(InFlight(s))
          <= Cardinality(Since(allowed[s], from))
        BY <1>10 DEF RateInv, BalanceInv
  <2>2. Cardinality(OkIn(s, from, now)) \in Nat BY OkFinite
  <2>3. Cardinality(InFlight(s)) \in Nat BY FS_CardinalityType DEF RateInv, BalanceInv
  <2>4. Cardinality(Since(allowed[s], from)) \in Int
    <3>1. allowed[s] \in Seq(Nat) BY <1>3
    <3> QED BY <3>1, SinceFinite
  <2>5. CASE s = r
    <3>1. allowed'[s] = more BY <1>3, <1>6, <2>5
    <3>2. Cardinality(InFlight(s)') = Cardinality(InFlight(s)) + (IF ok THEN 1 ELSE 0)
          BY <1>9, <2>5
    <3>3. Cardinality(Since(more, from))
            = Cardinality(Since(allowed[s], from)) + (IF ok THEN 1 ELSE 0)
          BY <1>5, <1>10, <2>5
    <3> QED BY <2>1, <2>2, <2>3, <2>4, <3>1, <3>2, <3>3
  <2>6. CASE s # r
    <3>1. allowed'[s] = allowed[s] BY <1>3, <1>6, <2>6
    <3>2. Cardinality(InFlight(s)') = Cardinality(InFlight(s)) + 0 BY <1>9, <2>6
    <3> QED BY <2>1, <2>2, <2>3, <2>4, <3>1, <3>2
  <2> QED BY <2>5, <2>6
<1>11. BalanceInv'
  <2>1. \A s, from : Since(allowed[s], from)' = Since(allowed'[s], from) BY DEF Since
  <2>2. ASSUME NEW s, NEW from PROVE OkIn(s, from, now)' = OkIn(s, from, now)
    <3>1. PICK n : n = now OBVIOUS
    <3>2. OkIn(s, from, n)' = OkIn(s, from, n) BY <1>8
    <3> QED BY <1>2, <3>1, <3>2 DEF OkIn
  <2> QED BY <1>2, <1>9, <1>10, <2>1, <2>2 DEF BalanceInv
<1> QED BY <1>7, <1>11

\* The parts that leave the lists alone: a thread goes on from the second part
\* to the third, or is out.
LEMMA JudgedBalanced ==
  ASSUME RateInv, NEW t \in Threads, stage[t] \in {2, 3}, now' = now, allowed' = allowed,
         NEW ok \in BOOLEAN, NEW part \in {"replay", "anomaly"}, Judge(t, ok, part)
  PROVE  BalanceInv'
<1>1. TypeInv BY DEF RateInv
<1>2. stage \in [Threads -> 0 .. 3] /\ hand \in [Threads -> Handed] BY <1>1 DEF TypeInv
<1>3. CASE /\ log' = log /\ hand' = hand /\ stage[t] # 3
           /\ stage' = [stage EXCEPT ![t] = stage[t] + 1]
  <2>1. stage[t] + 1 = 3 /\ stage[t] = 2 BY <1>3
  <2>2. ASSUME NEW u \in Threads
        PROVE  /\ stage'[u] \in {2, 3} <=> stage[u] \in {2, 3}
               /\ hand'[u] = hand[u]
    <3>1. CASE u = t BY <1>2, <1>3, <2>1, <3>1
    <3>2. CASE u # t BY <1>2, <1>3, <3>2
    <3> QED BY <3>1, <3>2
  <2> QED BY <1>3, <2>2, SameBalanced
<1>4. ASSUME NEW v \in {"ok", "replay", "anomaly"}, log' = Append(log, Entry(t, v)),
             v = "ok" => stage[t] = 3,
             stage' = [stage EXCEPT ![t] = 0], hand' = [hand EXCEPT ![t] = NoFrame]
      PROVE  BalanceInv'
  <2>1. /\ Entry(t, v) \in Entries /\ Entry(t, v).at = now
        /\ Entry(t, v).key = Key(hand[t]) /\ Entry(t, v).verdict = v
        BY <1>1, EntryType DEF Entry
  <2>2. stage[t] \in 1 .. 3 OBVIOUS
  <2>3. Entry(t, v).verdict = "ok" => stage[t] = 3 BY <1>4, <2>1
  <2> QED BY <1>4, <2>1, <2>2, <2>3, LeavesBalanced
<1> QED BY <1>1, <1>3, <1>4, Judged

LEMMA TickBalanced ==
  ASSUME RateInv, RateWindow \in Nat, Tick
  PROVE  BalanceInv'
<1>1. /\ now' = now + 1 /\ UNCHANGED <<allowed, stage, hand, log>>
      /\ \A t \in Threads : stage[t] = 0
      BY DEF Tick
<1>2. TypeInv /\ BalanceInv /\ now \in Nat BY DEF RateInv, TypeInv
<1>3. \A s : InFlight(s)' = InFlight(s) /\ InFlight(s) = {} BY <1>1 DEF InFlight
<1>4. ASSUME NEW s \in Sources, NEW from \in Int, now + 1 - RateWindow < from, from <= now + 1,
             NEW n, n = now + 1
      PROVE  Cardinality(OkIn(s, from, n)) + Cardinality({})
               <= Cardinality(Since(allowed[s], from))
  <2>1. /\ Cardinality(Since(allowed[s], from)) \in Nat
    <3>1. allowed[s] \in Seq(Nat) BY DEF RateInv, AllowedInv
    <3> QED BY <3>1, SinceFinite
  <2>2. \A i \in DOMAIN log : log[i].at \in Nat /\ log[i].at <= now
    <3>1. \A i \in DOMAIN log : log[i] \in Entries BY <1>2 DEF TypeInv
    <3> QED BY <1>2, <3>1 DEF TypeInv, Entries
  <2>3. CASE from <= now
    <3>1. OkIn(s, from, n) = OkIn(s, from, now)
      <4>1. \A i \in DOMAIN log : log[i].at \in from .. n <=> log[i].at \in from .. now
            BY <1>2, <1>4, <2>2
      <4> QED BY <4>1 DEF OkIn
    <3>2. Cardinality(OkIn(s, from, now)) + Cardinality(InFlight(s))
            <= Cardinality(Since(allowed[s], from))
      <4>1. now - RateWindow < from BY <1>2, <1>4
      <4> QED BY <1>2, <2>3, <4>1 DEF BalanceInv
    <3> QED BY <1>3, <3>1, <3>2
  <2>4. CASE from > now
    <3>1. OkIn(s, from, n) = {}
      <4>1. \A i \in DOMAIN log : log[i].at \notin from .. n BY <1>2, <1>4, <2>2, <2>4
      <4> QED BY <4>1 DEF OkIn
    <3> QED BY <2>1, <3>1, NoneIsFinite
  <2> QED BY <1>2, <1>4, <2>3, <2>4
<1>5. \A s, from : Since(allowed[s], from)' = Since(allowed[s], from) BY <1>1 DEF Since
<1>6. ASSUME NEW s \in Sources, NEW from \in Int, now' - RateWindow < from, from <= now'
      PROVE  Cardinality(OkIn(s, from, now)') + Cardinality(InFlight(s)')
               <= Cardinality(Since(allowed[s], from)')
  <2>1. PICK n : n = now + 1 OBVIOUS
  <2>2. now + 1 - RateWindow < from /\ from <= now + 1 BY <1>1, <1>2, <1>6
  <2>3. Cardinality(OkIn(s, from, n)) + Cardinality({})
          <= Cardinality(Since(allowed[s], from))
        BY <1>4, <2>1, <2>2
  <2>4. OkIn(s, from, now)' = OkIn(s, from, n) BY <1>1, <2>1 DEF OkIn
  <2>5. InFlight(s)' = {} BY <1>3
  <2>6. Since(allowed[s], from)' = Since(allowed[s], from) BY <1>5
  <2> QED BY <2>3, <2>4, <2>5, <2>6
<1>7. \A s : IsFiniteSet(InFlight(s)')
  <2>1. \A s : InFlight(s)' = {} BY <1>3
  <2> QED BY <2>1, NoneIsFinite
<1> QED BY <1>6, <1>7 DEF BalanceInv

LEMMA NextRate ==
  ASSUME GateConstants, TypeInv', RateInv, Next
  PROVE  AllowedInv' /\ FramesInv' /\ BalanceInv'
<1>0. /\ TypeInv /\ AllowedInv /\ FramesInv /\ RateWindow \in Nat /\ now \in Nat
      /\ stage \in [Threads -> 0 .. 3] /\ hand \in [Threads -> Handed]
      BY DEF GateConstants, RateInv, TypeInv
<1>a. (allowed' = allowed /\ now' = now) => AllowedInv'
  <2>1. (allowed' = allowed /\ now' = now) => \A s : Times(allowed[s])' = Times(allowed[s])
        BY DEF Times
  <2> QED BY <1>0, <2>1 DEF AllowedInv
<1>1. ASSUME NEW t \in Threads, NEW f \in Frames, Begin(t, f)
      PROVE  AllowedInv' /\ FramesInv' /\ BalanceInv'
  <2>1. /\ stage[t] = 0 /\ stage' = [stage EXCEPT ![t] = 1]
        /\ hand' = [hand EXCEPT ![t] = f]
        /\ UNCHANGED <<now, allowed, log>>
        BY <1>1 DEF Begin
  <2>2. FramesInv' BY <1>0, <2>1 DEF FramesInv
  <2>3. \A u \in Threads : /\ stage'[u] \in {2, 3} <=> stage[u] \in {2, 3}
                           /\ stage[u] \in {2, 3} => hand'[u] = hand[u]
        BY <1>0, <2>1
  <2> QED BY <1>a, <2>1, <2>2, <2>3, SameBalanced
<1>2. ASSUME NEW t \in Threads, CheckRate(t)
      PROVE  AllowedInv' /\ FramesInv' /\ BalanceInv'
  <2>1. stage[t] = 1 BY <1>0, <1>2, Parts DEF CheckRate
  <2>2. PICK r \in Sources, ok \in BOOLEAN, ts \in Seq(Nat) : Judge(t, ok, "rate")
        BY <1>0, <1>2, <2>1, RateAllowed
  <2>3. FramesInv'
    <3>1. stage[t] \in 1 .. 3 BY <2>1
    <3> QED BY <1>0, <2>2, <3>1, JudgedFrames
  <2> QED BY <1>0, <1>2, <2>1, <2>3, CheckRateBalanced
<1>3. ASSUME NEW t \in Threads, CheckReplay(t)
      PROVE  AllowedInv' /\ FramesInv' /\ BalanceInv'
  <2>1. stage[t] = 2 /\ now' = now /\ allowed' = allowed
        BY <1>0, <1>3, Parts DEF CheckReplay
  <2>2. Judge(t, Fresh(hand[t]), "replay") /\ Fresh(hand[t]) \in BOOLEAN
        BY <1>3 DEF CheckReplay, Fresh
  <2>3. stage[t] \in 1 .. 3 /\ stage[t] \in {2, 3} BY <2>1
  <2>4. FramesInv' BY <1>0, <2>2, <2>3, JudgedFrames
  <2>5. BalanceInv' BY <2>1, <2>2, <2>3, JudgedBalanced
  <2> QED BY <1>a, <2>1, <2>4, <2>5
<1>4. ASSUME NEW t \in Threads, CheckAnomaly(t)
      PROVE  AllowedInv' /\ FramesInv' /\ BalanceInv'
  <2>1. stage[t] = 3 /\ now' = now /\ allowed' = allowed
        BY <1>0, <1>4, Parts DEF CheckAnomaly
  <2>2. PICK ok \in BOOLEAN : Judge(t, ok, "anomaly")
    <3>1. CASE hand[t].kind \in Kinds
      <4>1. Plausible(hand[t]) \in BOOLEAN BY DEF Plausible
      <4> QED BY <1>4, <3>1, <4>1 DEF CheckAnomaly
    <3>2. CASE hand[t].kind \notin Kinds BY <1>4, <3>2 DEF CheckAnomaly
    <3> QED BY <3>1, <3>2
  <2>3. stage[t] \in 1 .. 3 /\ stage[t] \in {2, 3} BY <2>1
  <2>4. FramesInv' BY <1>0, <2>2, <2>3, JudgedFrames
  <2>5. BalanceInv' BY <2>1, <2>2, <2>3, JudgedBalanced
  <2> QED BY <1>a, <2>1, <2>4, <2>5
<1>5. CASE Tick
  <2>1. now' = now + 1 /\ UNCHANGED <<allowed, stage, hand, log>> BY <1>5 DEF Tick
  <2>2. FramesInv' BY <1>0, <2>1 DEF FramesInv
  <2>3. AllowedInv'
    <3>1. \A s \in Sources : Times(allowed[s])'
      <4>1. ASSUME NEW s \in Sources, NEW i \in DOMAIN allowed[s] PROVE allowed[s][i] <= now + 1
        <5>1. allowed[s][i] \in Nat /\ allowed[s][i] <= now BY <1>0 DEF AllowedInv, Times
        <5> QED BY <1>0, <5>1
      <4> QED BY <1>0, <2>1, <4>1 DEF AllowedInv, Times
    <3> QED BY <1>0, <2>1, <3>1 DEF AllowedInv
  <2> QED BY <1>0, <1>5, <2>2, <2>3, TickBalanced
<1> QED BY <1>1, <1>2, <1>3, <1>4, <1>5 DEF Next

\* Only a step that ends writes the log, and it writes the time.
LEMMA LogGrows ==
  ASSUME TypeInv, Next
  PROVE  /\ now' = now \/ now' = now + 1
         /\ log' = log \/ \E x \in Entries : log' = Append(log, x) /\ x.at = now'
<1>1. \A t \in Threads, v \in {"ok", "rate", "replay", "anomaly"} :
        Entry(t, v) \in Entries /\ Entry(t, v).at = now
      BY EntryType DEF Entry
<1>2. ASSUME NEW t \in Threads, NEW ok, NEW part \in {"rate", "replay", "anomaly"},
             Judge(t, ok, part), now' = now
      PROVE  log' = log \/ \E x \in Entries : log' = Append(log, x) /\ x.at = now'
  <2>1. \/ log' = log \/ log' = Append(log, Entry(t, part)) \/ log' = Append(log, Entry(t, "ok"))
        BY <1>2 DEF Judge, End, Entry
  <2> QED BY <1>1, <1>2, <2>1
<1>3. ASSUME NEW t \in Threads, CheckRate(t) \/ CheckReplay(t) \/ CheckAnomaly(t)
      PROVE  now' = now /\ \E ok, part : part \in {"rate", "replay", "anomaly"} /\ Judge(t, ok, part)
  <2>1. CASE CheckRate(t) BY <2>1 DEF CheckRate
  <2>2. CASE CheckReplay(t) BY <2>2 DEF CheckReplay
  <2>3. CASE CheckAnomaly(t)
    <3>1. now' = now BY <2>3 DEF CheckAnomaly
    <3>2. CASE hand[t].kind \in Kinds BY <2>3, <3>1, <3>2 DEF CheckAnomaly
    <3>3. CASE hand[t].kind \notin Kinds BY <2>3, <3>1, <3>3 DEF CheckAnomaly
    <3> QED BY <3>2, <3>3
  <2> QED BY <1>3, <2>1, <2>2, <2>3
<1>4. ASSUME NEW t \in Threads, NEW f \in Frames, Begin(t, f) PROVE now' = now /\ log' = log
      BY <1>4 DEF Begin
<1>5. CASE Tick BY <1>5 DEF Tick
<1> QED BY <1>2, <1>3, <1>4, <1>5 DEF Next

LEMMA StepRate == ASSUME GateConstants, IInv', RateInv, [Next]_vars PROVE RateInv'
<1>0. RateWindow \in Nat /\ RateMax \in Nat /\ TypeInv' /\ TypeInv
      BY DEF GateConstants, IInv, RateInv
<1>1. CASE Next
  <2>1. AllowedInv' /\ FramesInv' /\ BalanceInv' BY <1>0, <1>1, NextRate
  <2>2. /\ now' = now \/ now' = now + 1
        /\ log' = log \/ \E x \in Entries : log' = Append(log, x) /\ x.at = now'
        BY <1>0, <1>1, LogGrows
  <2>3. RateBudget' BY <1>0, <2>1, <2>2, BudgetKept
  <2> QED BY <1>0, <2>1, <2>3 DEF RateInv
<1>2. CASE UNCHANGED vars
  <2>1. UNCHANGED <<now, allowed, stage, hand, log>> BY <1>2 DEF vars
  <2>2. AllowedInv' BY <2>1 DEF RateInv, AllowedInv, Times
  <2>3. FramesInv' BY <2>1 DEF RateInv, FramesInv
  <2>4. BalanceInv' BY <2>1, SameBalanced
  <2>5. RateBudget'
    <3>1. log' = log /\ now' = now BY <2>1
    <3>2. ASSUME NEW s \in {log[i].key.src : i \in DOMAIN log}, NEW from \in 0 .. now
          PROVE  Cardinality(OkIn(s, from, from + RateWindow - 1)') <= RateMax
      <4>1. OkIn(s, from, from + RateWindow - 1)' = OkIn(s, from, from + RateWindow - 1)
            BY <3>1 DEF OkIn
      <4>2. Cardinality(OkIn(s, from, from + RateWindow - 1)) <= RateMax
            BY DEF RateInv, RateBudget
      <4> QED BY <4>1, <4>2
    <3> QED BY <3>1, <3>2 DEF RateBudget
  <2> QED BY <1>0, <2>2, <2>3, <2>4, <2>5 DEF RateInv
<1> QED BY <1>1, <1>2

\* In any second no more frames of a source are accepted than the limit says,
\* whatever threads have them and however long they are between the parts: the
\* limiter cuts the list to the last second and takes the frame's place in one
\* critical section (security.py:203-213).
THEOREM SourceKeepsRate == ASSUME GateConstants PROVE Spec => []RateBudget
<1>1. Init => IInv /\ RateInv BY InitInv, InitRate
<1>2. IInv /\ RateInv /\ [Next]_vars => (IInv /\ RateInv)' BY StepInv, StepRate
<1>3. RateInv => RateBudget BY DEF RateInv
<1> QED BY <1>1, <1>2, <1>3, PTL DEF Spec

----------------------------------------------------------------------------
(* The types of what the three parts remember.                              *)

\* Keys of frames there are; times that have been.
KnownInv == \A e \in seen : e.key \in {Key(f) : f \in Frames}

LastInv == /\ last = [k \in Kinds |-> [s \in Sources |-> last[k][s]]]
           /\ \A k \in Kinds, s \in Sources : last[k][s].at \in -1 .. now

ClockInv == now \in 0 .. MaxTime

MemoryInv == KnownInv /\ LastInv /\ ClockInv

LEMMA MemoryInit == ASSUME GateConstants PROVE Init => MemoryInv
<1> SUFFICES ASSUME Init PROVE MemoryInv
    OBVIOUS
<1>1. /\ now = 0 /\ seen = {} /\ MaxTime \in Nat
      /\ last = [k \in Kinds |-> [s \in Sources |-> NoAngle]]
      BY DEF Init, GateConstants
<1>2. NoAngle.at = -1 BY DEF NoAngle
<1>3. LastInv BY <1>1, <1>2 DEF LastInv
<1> QED BY <1>1, <1>3 DEF MemoryInv, KnownInv, ClockInv

LEMMA MemoryStep ==
  ASSUME GateConstants, TypeInv, FramesInv, MemoryInv, [Next]_vars
  PROVE  MemoryInv'
<1>0. now \in Nat /\ MaxTime \in Nat BY DEF TypeInv, GateConstants
<1>1. ASSUME UNCHANGED <<now, last>>, seen' \subseteq seen PROVE MemoryInv'
  BY <1>1 DEF MemoryInv, KnownInv, LastInv, ClockInv
<1>2. ASSUME NEW t \in Threads, NEW f \in Frames, Begin(t, f) PROVE MemoryInv'
  <2>1. UNCHANGED <<now, last>> /\ seen' \subseteq seen BY <1>2 DEF Begin
  <2> QED BY <1>1, <2>1
<1>3. ASSUME NEW t \in Threads, CheckRate(t) PROVE MemoryInv'
  <2>1. UNCHANGED <<now, last>> /\ seen' \subseteq seen BY <1>3 DEF CheckRate
  <2> QED BY <1>1, <2>1
<1>4. ASSUME NEW t \in Threads, CheckReplay(t) PROVE MemoryInv'
  <2>1. UNCHANGED <<now, last>> /\ hand[t] \in Frames
    <3>1. At(t, "replay") BY <1>4 DEF CheckReplay
    <3>2. stage[t] = 2 BY <3>1, Parts
    <3> QED BY <1>4, <3>2 DEF CheckReplay, FramesInv
  <2>2. \A e \in seen' : e \in seen \/ e.key = Key(hand[t])
        BY <1>4 DEF CheckReplay, Pruned
  <2>3. KnownInv' BY <2>1, <2>2 DEF MemoryInv, KnownInv
  <2> QED BY <2>1, <2>3 DEF MemoryInv, LastInv, ClockInv
<1>5. ASSUME NEW t \in Threads, CheckAnomaly(t) PROVE MemoryInv'
  <2>1. UNCHANGED <<now, seen>> /\ hand[t] \in Frames
    <3>1. At(t, "anomaly") BY <1>5 DEF CheckAnomaly
    <3>2. stage[t] = 3 BY <3>1, Parts
    <3> QED BY <1>5, <3>2 DEF CheckAnomaly, FramesInv
  <2>2. CASE hand[t].kind \notin Kinds
    <3>1. last' = last BY <1>5, <2>2 DEF CheckAnomaly
    <3> QED BY <1>1, <2>1, <3>1
  <2>3. CASE hand[t].kind \in Kinds
    <3>1. PICK a : a = [angle |-> hand[t].angle, at |-> now] OBVIOUS
    <3>2. PICK kind, src : kind = hand[t].kind /\ src = hand[t].src OBVIOUS
    <3>3. last' = [last EXCEPT ![kind][src] = a]
          BY <1>5, <2>3, <3>1, <3>2 DEF CheckAnomaly
    <3>4. kind \in Kinds /\ src \in Sources BY <2>1, <2>3, <3>2 DEF Sources
    <3>5. last = [k \in Kinds |-> [s \in Sources |-> last[k][s]]]
          BY DEF MemoryInv, LastInv
    <3>6. a.at \in -1 .. now BY <1>0, <3>1
    <3>7. last' = [k \in Kinds |-> [s \in Sources |-> IF k = kind /\ s = src THEN a
                                                      ELSE last[k][s]]]
          BY ONLY <3>3, <3>4, <3>5
    <3>8. LastInv'
      <4>1. \A k \in Kinds, s \in Sources : last'[k][s] = a \/ last'[k][s] = last[k][s]
            BY <3>7
      <4> QED BY <2>1, <3>6, <3>7, <4>1 DEF MemoryInv, LastInv
    <3> QED BY <2>1, <3>8 DEF MemoryInv, KnownInv, ClockInv
  <2> QED BY <2>2, <2>3
<1>6. CASE Tick
  <2>1. now' = now + 1 /\ now < MaxTime /\ UNCHANGED <<seen, last>> BY <1>6 DEF Tick
  <2>2. ClockInv' BY <1>0, <2>1 DEF ClockInv
  <2>3. \A i : i \in -1 .. now => i \in -1 .. now + 1 BY <1>0
  <2>4. LastInv' BY <2>1, <2>3 DEF MemoryInv, LastInv
  <2> QED BY <2>1, <2>2, <2>4 DEF MemoryInv, KnownInv
<1>7. CASE UNCHANGED vars BY <1>1, <1>7 DEF vars
<1> QED BY <1>2, <1>3, <1>4, <1>5, <1>6, <1>7 DEF Next

GateInv == IInv /\ RetryInv /\ RateInv /\ MemoryInv

LEMMA GateInit == ASSUME GateConstants PROVE Init => GateInv
BY InitInv, InitRetry, InitRate, MemoryInit DEF GateInv

LEMMA GateStep == ASSUME GateConstants PROVE GateInv /\ [Next]_vars => GateInv'
<1> SUFFICES ASSUME GateInv, [Next]_vars PROVE GateInv'
    OBVIOUS
<1>1. IInv' BY StepInv DEF GateInv
<1>2. RetryInv' BY <1>1, StepRetry DEF GateInv
<1>3. RateInv' BY <1>1, StepRate DEF GateInv
<1>4. MemoryInv' BY MemoryStep DEF GateInv, RateInv
<1> QED BY <1>1, <1>2, <1>3, <1>4 DEF GateInv

LEMMA GateSafe == GateInv => AcceptedOnce /\ RateBudget /\ RateRefusalMayRetry
BY RetryHolds DEF GateInv, IInv, RateInv

LEMMA GateTyped == GateInv => TypeOK
<1> SUFFICES ASSUME GateInv PROVE TypeOK
    OBVIOUS
<1>1. TypeInv /\ AllowedInv /\ KnownInv /\ LastInv /\ ClockInv
      BY DEF GateInv, RateInv, MemoryInv
<1>2. ASSUME NEW s \in Sources
      PROVE  Len(allowed[s]) <= RateMax /\ Range(allowed[s]) \subseteq 0 .. now
  <2>1. Times(allowed[s]) /\ Len(allowed[s]) <= RateMax BY <1>1 DEF AllowedInv
  <2>2. now \in Nat BY <1>1 DEF TypeInv
  <2>3. \A i \in DOMAIN allowed[s] : allowed[s][i] \in Nat /\ allowed[s][i] <= now
        BY <2>1 DEF Times
  <2>4. \A i \in DOMAIN allowed[s] : allowed[s][i] \in 0 .. now BY ONLY <2>2, <2>3
  <2> QED BY <2>1, <2>4 DEF Range
<1>3. \A e \in seen : e.at \in 0 .. now BY <1>1 DEF TypeInv
<1>4. \A t \in Threads : stage[t] \in 0 .. Len(Order) /\ hand[t] \in Frames \cup {NoFrame}
  <2>1. Len(Order) = 3 BY DEF Order
  <2> QED BY <1>1, <2>1 DEF TypeInv, Handed
<1> QED BY <1>1, <1>2, <1>3, <1>4 DEF TypeOK, KnownInv, LastInv, ClockInv

\* The types, and that a source's list of times is never longer than the limit,
\* nothing is remembered of frames there are not, and no time is one to come
\* (security.py:200).
THEOREM GateTypes == ASSUME GateConstants PROVE Spec => []TypeOK
<1>1. Init => GateInv BY GateInit
<1>2. GateInv /\ [Next]_vars => GateInv' BY GateStep
<1>3. GateInv => TypeOK BY GateTyped
<1> QED BY <1>1, <1>2, <1>3, PTL DEF Spec

----------------------------------------------------------------------------
(* The video stream: V is VideoStream, over the variables of VideoLog.      *)

Packets == [video : V!Videos, idx : Nat, total : Nat]
Shown   == [video : V!Videos, data : Seq(Nat \X Nat)]

\* What is in the buffer is a part of a frame that was sent, each fragment once.
PartInv(v) ==
  LET idxs == entries[v] IN
    IF v \in DOMAIN totals
    THEN /\ Len(idxs) < totals[v]
         /\ \A i \in DOMAIN idxs : idxs[i] < totals[v]
         /\ \A i, j \in DOMAIN idxs : i # j => idxs[i] # idxs[j]
    ELSE idxs = << >>

VideoType == /\ totals \in Seq(1 .. MaxFrags) /\ Len(totals) <= MaxVideos
             /\ entries \in [V!Videos -> Seq(Nat)]
             /\ delivered \in Seq(Shown)
             /\ arrivals \in Seq(Packets)
             /\ \A v \in V!Videos : PartInv(v)

ShownInv == \A k \in DOMAIN delivered : delivered[k].video \in DOMAIN totals

Fragment(v, i) == [video |-> v, idx |-> i, total |-> totals[v]]

\* Of every fragment of a frame a copy has come for each time the frame was
\* delivered, and one more if the fragment is in the buffer.
CopiesInv ==
  \A v \in DOMAIN totals : \A i \in 0 .. totals[v] - 1 :
    Cardinality(Deliveries(v)) + (IF i \in Range(entries[v]) THEN 1 ELSE 0)
      <= Cardinality(Copies(Fragment(v, i)))

VideoInv == VideoType /\ ShownInv /\ CopiesInv /\ DeliveredIsSent

LEMMA InitVideo == ASSUME V!VideoConstants PROVE V!Init => VideoInv
<1> SUFFICES ASSUME V!Init PROVE VideoInv
    OBVIOUS
<1>1. /\ totals = << >> /\ entries = [v \in V!Videos |-> << >>]
      /\ delivered = << >> /\ arrivals = << >>
      BY DEF V!Init
<1>2. MaxVideos \in Nat BY DEF V!VideoConstants
<1>3. VideoType BY <1>1, <1>2 DEF VideoType, PartInv
<1>4. ShownInv /\ CopiesInv /\ DeliveredIsSent
      BY <1>1 DEF ShownInv, CopiesInv, DeliveredIsSent
<1> QED BY <1>3, <1>4 DEF VideoInv

LEMMA Member == ASSUME NEW S, NEW s \in Seq(S), NEW i \in DOMAIN s PROVE s[i] \in S
OBVIOUS

\* As many different indexes as the frame has fragments are all of them.
LEMMA AllThere ==
  ASSUME NEW idxs \in Seq(Nat), NEW total \in Nat, Len(idxs) = total,
         \A i \in DOMAIN idxs : idxs[i] < total,
         \A i, j \in DOMAIN idxs : i # j => idxs[i] # idxs[j]
  PROVE  Range(idxs) = 0 .. total - 1
<1>1. DOMAIN idxs = 1 .. total /\ idxs \in [1 .. total -> Nat] OBVIOUS
<1>2. PICK R : R = Range(idxs) OBVIOUS
<1>3. R \subseteq 0 .. total - 1 BY <1>1, <1>2 DEF Range
<1>4. ExistsBijection(1 .. total, R)
  <2>1. idxs \in [1 .. total -> R] BY <1>1, <1>2 DEF Range
  <2>2. \A i, j \in 1 .. total : idxs[i] = idxs[j] => i = j BY <1>1
  <2>3. idxs \in Injection(1 .. total, R) BY <1>1, <2>1, <2>2 DEF Injection, IsInjective
  <2>4. \A r \in R : \E i \in 1 .. total : idxs[i] = r BY <1>1, <1>2 DEF Range
  <2>5. idxs \in Surjection(1 .. total, R) BY <2>1, <2>4 DEF Surjection
  <2> QED BY <2>3, <2>5 DEF ExistsBijection, Bijection
<1>5. IsFiniteSet(1 .. total) /\ Cardinality(1 .. total) = total BY UpTo
<1>6. Cardinality(R) = total BY ONLY <1>4, <1>5, FS_Bijection
<1>7. IsFiniteSet(0 .. total - 1) /\ Cardinality(0 .. total - 1) = total
  <2>1. 0 \in Int /\ total - 1 \in Int /\ total \in Nat OBVIOUS
  <2>2. /\ IsFiniteSet(0 .. total - 1)
        /\ Cardinality(0 .. total - 1) = IF 0 > total - 1 THEN 0 ELSE (total - 1) - 0 + 1
        BY ONLY <2>1, FS_Interval
  <2> QED BY ONLY <2>1, <2>2
<1>8. 0 .. total - 1 = R
  <2>1. Cardinality(0 .. total - 1) = Cardinality(R) BY <1>6, <1>7
  <2> QED BY ONLY <1>3, <1>7, <2>1, FS_Subset
<1> QED BY <1>2, <1>8

LEMMA SendFrameInv ==
  ASSUME V!VideoConstants, VideoInv, V!SendFrame PROVE VideoInv'
<1>1. PICK n \in 1 .. MaxFrags : totals' = Append(totals, n) BY DEF V!SendFrame
<1>2. Len(totals) < MaxVideos /\ UNCHANGED <<entries, delivered, arrivals>>
      BY DEF V!SendFrame
<1>3. /\ totals \in Seq(1 .. MaxFrags) /\ MaxVideos \in Nat /\ MaxFrags \in Nat
      /\ entries \in [V!Videos -> Seq(Nat)]
      BY DEF VideoInv, VideoType, V!VideoConstants
<1>4. /\ Len(totals) \in Nat /\ DOMAIN totals = 1 .. Len(totals)
      /\ DOMAIN totals' = 1 .. Len(totals) + 1
      /\ \A v \in DOMAIN totals : totals'[v] = totals[v]
      /\ totals'[Len(totals) + 1] = n
      BY <1>1, <1>3
<1>5. \A v \in DOMAIN totals' : v \in DOMAIN totals \/ v = Len(totals) + 1
      BY ONLY <1>4
<1>6. Len(totals) + 1 \notin DOMAIN totals /\ Len(totals) + 1 \in V!Videos
      BY ONLY <1>2, <1>3, <1>4 DEF V!Videos
<1>7. entries[Len(totals) + 1] = << >> BY <1>6 DEF VideoInv, VideoType, PartInv
<1>8. VideoType'
  <2>1. totals' \in Seq(1 .. MaxFrags) /\ Len(totals') <= MaxVideos BY <1>1, <1>2, <1>3
  <2>2. ASSUME NEW v \in V!Videos PROVE PartInv(v)'
    <3>1. PartInv(v) BY DEF VideoInv, VideoType
    <3>2. CASE v \in DOMAIN totals
      <4>1. v \in DOMAIN totals' BY <1>4, <3>2
      <4> QED BY <1>2, <1>4, <3>1, <3>2, <4>1 DEF PartInv
    <3>3. CASE v = Len(totals) + 1
      <4>1. entries'[v] = << >> /\ v \in DOMAIN totals' /\ totals'[v] = n
            BY <1>2, <1>4, <1>7, <3>3
      <4>2. Len(<< >>) < n /\ DOMAIN << >> = {} BY <1>3
      <4> QED BY <4>1, <4>2 DEF PartInv
    <3>4. CASE v \notin DOMAIN totals'
      <4>1. v \notin DOMAIN totals BY <1>4, <3>4
      <4> QED BY <1>2, <3>1, <3>4, <4>1 DEF PartInv
    <3> QED BY <1>5, <3>2, <3>3, <3>4
  <2> QED BY <1>2, <2>1, <2>2 DEF VideoInv, VideoType
<1>9. ShownInv' BY <1>2, <1>4 DEF VideoInv, ShownInv
<1>10. DeliveredIsSent'
       BY <1>2, <1>4 DEF VideoInv, ShownInv, DeliveredIsSent, Chunk
<1>11. ASSUME NEW v \in DOMAIN totals', NEW i \in 0 .. totals'[v] - 1
       PROVE  Cardinality(Deliveries(v)) + (IF i \in Range(entries[v]) THEN 1 ELSE 0)
                <= Cardinality(Copies(Fragment(v, i)'))
  <2>1. CASE v \in DOMAIN totals
    <3>1. Fragment(v, i)' = Fragment(v, i) BY <1>4, <2>1 DEF Fragment
    <3>2. totals'[v] = totals[v] BY <1>4, <2>1
    <3> QED BY <2>1, <3>1, <3>2 DEF VideoInv, CopiesInv
  <2>2. CASE v = Len(totals) + 1
    <3>1. Deliveries(v) = {} BY <1>6, <2>2 DEF VideoInv, ShownInv, Deliveries
    <3>2. i \notin Range(entries[v]) BY <1>7, <2>2 DEF Range
    <3>3. PICK f : f = Fragment(v, i)' OBVIOUS
    <3>4. Cardinality(Copies(f)) \in Nat
      <4>1. Len(arrivals) \in Nat /\ Copies(f) \in SUBSET (1 .. Len(arrivals))
            BY DEF VideoInv, VideoType, Copies
      <4> QED BY <4>1, PartFinite
    <3> QED BY <3>1, <3>2, <3>3, <3>4, NoneIsFinite
  <2> QED BY <1>5, <2>1, <2>2
<1>12. CopiesInv'
  <2>1. \A v : Deliveries(v)' = Deliveries(v) BY <1>2 DEF Deliveries
  <2>2. ASSUME NEW v, NEW i PROVE Copies(Fragment(v, i))' = Copies(Fragment(v, i)')
        BY <1>2 DEF Copies
  <2> QED BY <1>2, <1>11, <2>1, <2>2 DEF CopiesInv
<1> QED BY <1>8, <1>9, <1>10, <1>12 DEF VideoInv

\* What is stored is still each fragment of the frame at most once.
LEMMA StoredPart ==
  ASSUME NEW idxs \in Seq(Nat), NEW total \in Nat, NEW f, f.idx \in Nat, f.idx < total,
         Len(idxs) < total, \A i \in DOMAIN idxs : idxs[i] < total,
         \A i, j \in DOMAIN idxs : i # j => idxs[i] # idxs[j]
  PROVE  /\ V!Stored(idxs, f) \in Seq(Nat) /\ Len(V!Stored(idxs, f)) <= total
         /\ \A i \in DOMAIN V!Stored(idxs, f) : V!Stored(idxs, f)[i] < total
         /\ \A i, j \in DOMAIN V!Stored(idxs, f) :
              i # j => V!Stored(idxs, f)[i] # V!Stored(idxs, f)[j]
         /\ Range(V!Stored(idxs, f)) = Range(idxs) \cup {f.idx}
         /\ Len(V!Stored(idxs, f)) = total => f.idx \notin Range(idxs)
<1>0. Len(idxs) \in Nat OBVIOUS
<1>1. Len(idxs) \in Nat /\ DOMAIN idxs = 1 .. Len(idxs) OBVIOUS
<1>2. PICK more : more = V!Stored(idxs, f) OBVIOUS
<1>3. CASE f.idx \in Range(idxs)
  <2>1. more = idxs BY <1>2, <1>3 DEF V!Stored, V!Range, Range
  <2>2. Range(idxs) \cup {f.idx} = Range(idxs) BY <1>3
  <2>3. Len(idxs) <= total BY <1>0
  <2>4. Len(idxs) # total BY <1>0
  <2> QED BY <1>2, <2>1, <2>2, <2>3, <2>4
<1>4. CASE f.idx \notin Range(idxs)
  <2>1. more = Append(idxs, f.idx) BY <1>2, <1>4 DEF V!Stored, V!Range, Range
  <2>2. /\ more \in Seq(Nat) /\ Len(more) = Len(idxs) + 1
        /\ DOMAIN more = 1 .. Len(idxs) + 1
        /\ \A i \in 1 .. Len(idxs) : more[i] = idxs[i]
        /\ more[Len(idxs) + 1] = f.idx
        BY <1>1, <2>1
  <2>3. \A i \in 1 .. Len(idxs) + 1 : i \in 1 .. Len(idxs) \/ i = Len(idxs) + 1
        BY ONLY <1>1
  <2>4. \A i \in 1 .. Len(idxs) : idxs[i] # f.idx BY <1>1, <1>4 DEF Range
  <2>5. \A i \in DOMAIN more : more[i] < total BY <1>1, <2>2, <2>3
  <2>6. \A i, j \in DOMAIN more : i # j => more[i] # more[j] BY <1>1, <2>2, <2>3, <2>4
  <2>7. Range(more) = Range(idxs) \cup {f.idx}
    <3>1. Len(idxs) + 1 \in 1 .. Len(idxs) + 1 BY ONLY <1>1
    <3>2. 1 .. Len(idxs) \subseteq 1 .. Len(idxs) + 1 BY ONLY <1>1
    <3>3. \A r \in Range(more) : r \in Range(idxs) \cup {f.idx} BY <1>1, <2>2, <2>3 DEF Range
    <3>4. \A r \in Range(idxs) \cup {f.idx} : r \in Range(more)
          BY <1>1, <2>2, <3>1, <3>2 DEF Range
    <3> QED BY <3>3, <3>4
  <2>8. Len(more) <= total BY <1>1, <2>2
  <2> QED BY <1>2, <1>4, <2>2, <2>5, <2>6, <2>7, <2>8
<1> QED BY <1>3, <1>4

\* A datagram is one more copy of its fragment, and of no other.
LEMMA CopiesAppend ==
  ASSUME arrivals \in Seq(Packets), NEW f \in Packets, arrivals' = Append(arrivals, f)
  PROVE  /\ \A g : IsFiniteSet(Copies(g)) /\ Cardinality(Copies(g)) \in Nat
         /\ \A g : g # f => Copies(g)' = Copies(g)
         /\ Cardinality(Copies(f)') = Cardinality(Copies(f)) + 1
<1>1. /\ Len(arrivals) \in Nat /\ DOMAIN arrivals = 1 .. Len(arrivals)
      /\ DOMAIN arrivals' = 1 .. Len(arrivals) + 1
      /\ \A k \in 1 .. Len(arrivals) : arrivals'[k] = arrivals[k]
      /\ arrivals'[Len(arrivals) + 1] = f
      OBVIOUS
<1>2. \A k \in 1 .. Len(arrivals) + 1 : k \in 1 .. Len(arrivals) \/ k = Len(arrivals) + 1
      BY ONLY <1>1
<1>3. ASSUME NEW g PROVE IsFiniteSet(Copies(g)) /\ Cardinality(Copies(g)) \in Nat
  <2>1. Copies(g) \in SUBSET (1 .. Len(arrivals)) BY <1>1 DEF Copies
  <2> QED BY <1>1, <2>1, PartFinite
<1>4. \A g : g # f => Copies(g)' = Copies(g) BY <1>1, <1>2 DEF Copies
<1>5. Copies(f)' = Copies(f) \cup {Len(arrivals) + 1} BY <1>1, <1>2 DEF Copies
<1>6. Len(arrivals) + 1 \notin Copies(f) BY <1>1 DEF Copies
<1>7. Cardinality(Copies(f)') = Cardinality(Copies(f)) + 1
      BY ONLY <1>3, <1>5, <1>6, FS_AddElement
<1> QED BY <1>3, <1>4, <1>7

LEMMA DeliveriesAppend ==
  ASSUME delivered \in Seq(Shown), NEW d \in Shown, delivered' = Append(delivered, d)
  PROVE  /\ \A v : IsFiniteSet(Deliveries(v)) /\ Cardinality(Deliveries(v)) \in Nat
         /\ \A v : v # d.video => Deliveries(v)' = Deliveries(v)
         /\ Cardinality(Deliveries(d.video)') = Cardinality(Deliveries(d.video)) + 1
<1>1. /\ Len(delivered) \in Nat /\ DOMAIN delivered = 1 .. Len(delivered)
      /\ DOMAIN delivered' = 1 .. Len(delivered) + 1
      /\ \A k \in 1 .. Len(delivered) : delivered'[k] = delivered[k]
      /\ delivered'[Len(delivered) + 1] = d
      OBVIOUS
<1>2. \A k \in 1 .. Len(delivered) + 1 : k \in 1 .. Len(delivered) \/ k = Len(delivered) + 1
      BY ONLY <1>1
<1>3. ASSUME NEW v PROVE IsFiniteSet(Deliveries(v)) /\ Cardinality(Deliveries(v)) \in Nat
  <2>1. Deliveries(v) \in SUBSET (1 .. Len(delivered)) BY <1>1 DEF Deliveries
  <2> QED BY <1>1, <2>1, PartFinite
<1>4. \A v : v # d.video => Deliveries(v)' = Deliveries(v) BY <1>1, <1>2 DEF Deliveries
<1>5. PICK w : w = d.video OBVIOUS
<1>6. Deliveries(w)' = Deliveries(w) \cup {Len(delivered) + 1}
      BY <1>1, <1>2, <1>5 DEF Deliveries
<1>7. Len(delivered) + 1 \notin Deliveries(w) BY <1>1 DEF Deliveries
<1>8. Cardinality(Deliveries(w)') = Cardinality(Deliveries(w)) + 1
      BY ONLY <1>3, <1>6, <1>7, FS_AddElement
<1> QED BY <1>3, <1>4, <1>5, <1>8

LEMMA ReceiveInv ==
  ASSUME V!VideoConstants, VideoInv, NEW f \in V!Fragments, V!Receive(f)
  PROVE  VideoInv'
<1>0. MaxVideos \in Nat BY DEF V!VideoConstants
<1>1. PICK v : v = f.video OBVIOUS
<1>2. PICK x : x = f.idx OBVIOUS
<1>3. PICK total : total = f.total OBVIOUS
<1>4. PICK idxs : idxs = entries[v] OBVIOUS
<1>5. /\ totals \in Seq(1 .. MaxFrags) /\ Len(totals) <= MaxVideos
      /\ entries \in [V!Videos -> Seq(Nat)]
      /\ delivered \in Seq(Shown) /\ arrivals \in Seq(Packets)
      /\ \A w \in V!Videos : PartInv(w)
      BY DEF VideoInv, VideoType
<1>6. /\ v \in DOMAIN totals /\ x \in Nat /\ total = totals[v] /\ f = Fragment(v, x)
      BY <1>1, <1>2, <1>3 DEF V!Fragments, Fragment
<1>7. total \in Nat /\ v \in V!Videos
  <2>1. Len(totals) \in Nat /\ DOMAIN totals = 1 .. Len(totals) BY <1>5
  <2>2. totals[v] \in 1 .. MaxFrags BY <1>5, <1>6, Member
  <2>3. v \in 1 .. MaxVideos BY <1>0, <1>5, <1>6, <2>1
  <2> QED BY <1>6, <2>2, <2>3 DEF V!Videos
<1>8. /\ idxs \in Seq(Nat) /\ Len(idxs) < total
      /\ \A i \in DOMAIN idxs : idxs[i] < total
      /\ \A i, j \in DOMAIN idxs : i # j => idxs[i] # idxs[j]
      BY <1>4, <1>5, <1>6, <1>7 DEF PartInv
<1>9. x < total /\ arrivals' = Append(arrivals, f) /\ totals' = totals
      BY <1>2, <1>3 DEF V!Receive
<1>10. PICK more : more = V!Stored(idxs, f) OBVIOUS
<1>11. /\ more \in Seq(Nat) /\ Len(more) <= total
       /\ \A i \in DOMAIN more : more[i] < total
       /\ \A i, j \in DOMAIN more : i # j => more[i] # more[j]
       /\ Range(more) = Range(idxs) \cup {x}
       /\ Len(more) = total => x \notin Range(idxs)
       BY <1>2, <1>6, <1>7, <1>8, <1>9, <1>10, StoredPart
<1>12. f \in Packets BY <1>6, <1>7 DEF Packets, Fragment
<1>13. /\ \A g : Cardinality(Copies(g)) \in Nat
       /\ \A g : g # f => Copies(g)' = Copies(g)
       /\ Cardinality(Copies(f)') = Cardinality(Copies(f)) + 1
       BY <1>5, <1>9, <1>12, CopiesAppend
<1>14. arrivals' \in Seq(Packets) BY <1>5, <1>9, <1>12
<1>15. \A w, i : Fragment(w, i) = f => w = v /\ i = x BY <1>6 DEF Fragment
<1>16. \A w, i : Fragment(w, i)' = Fragment(w, i) BY <1>9 DEF Fragment
<1>17. ASSUME NEW w \in DOMAIN totals, NEW i \in 0 .. totals[w] - 1
       PROVE  /\ Cardinality(Deliveries(w)) + (IF i \in Range(entries[w]) THEN 1 ELSE 0)
                   <= Cardinality(Copies(Fragment(w, i)))
              /\ Cardinality(Deliveries(w)) \in Nat
  <2>1. Len(delivered) \in Nat /\ Deliveries(w) \in SUBSET (1 .. Len(delivered))
        BY <1>5 DEF Deliveries
  <2> QED BY <2>1, PartFinite DEF VideoInv, CopiesInv
<1>18. CASE Len(more) # total
  <2>1. entries' = [entries EXCEPT ![v] = more] /\ delivered' = delivered
        BY <1>1, <1>3, <1>4, <1>10, <1>18 DEF V!Receive, V!Complete
  <2>2. \A w \in V!Videos : entries'[w] = IF w = v THEN more ELSE entries[w]
        BY <1>5, <2>1
  <2>3. VideoType'
    <3>1. entries' \in [V!Videos -> Seq(Nat)] BY <1>5, <1>11, <2>1
    <3>2. Len(more) < total BY <1>7, <1>11, <1>18
    <3>3. ASSUME NEW w \in V!Videos PROVE PartInv(w)'
      <4>1. CASE w = v BY <1>6, <1>7, <1>9, <1>11, <2>2, <3>2, <4>1 DEF PartInv
      <4>2. CASE w # v BY <1>5, <1>9, <2>2, <4>2 DEF PartInv
      <4> QED BY <4>1, <4>2
    <3> QED BY <1>5, <1>9, <1>14, <2>1, <3>1, <3>3 DEF VideoType
  <2>4. ShownInv' /\ DeliveredIsSent'
        BY <1>9, <2>1 DEF VideoInv, ShownInv, DeliveredIsSent, Chunk
  <2>5. ASSUME NEW w \in DOMAIN totals, NEW i \in 0 .. totals[w] - 1
        PROVE  Cardinality(Deliveries(w)) + (IF i \in Range(entries'[w]) THEN 1 ELSE 0)
                 <= Cardinality(Copies(Fragment(w, i))')
    <3>1. w \in V!Videos
      <4>1. Len(totals) \in Nat /\ w \in 1 .. Len(totals) BY <1>5
      <4>2. w \in 1 .. MaxVideos BY <1>0, <1>5, <4>1
      <4> QED BY <4>2 DEF V!Videos
    <3>2. CASE Fragment(w, i) = f
      <4>1. w = v /\ i = x BY <1>15, <3>2
      <4>2. Cardinality(Deliveries(w)) <= Cardinality(Copies(f)) BY <1>13, <1>17, <3>2
      <4>3. Cardinality(Copies(Fragment(w, i))') = Cardinality(Copies(f)) + 1
        <5>1. Copies(Fragment(w, i))' = Copies(f)' BY <1>16, <3>2 DEF Copies
        <5> QED BY <1>13, <5>1
      <4> QED BY <1>13, <1>17, <4>2, <4>3
    <3>3. CASE Fragment(w, i) # f
      <4>1. i \in Range(entries'[w]) <=> i \in Range(entries[w])
        <5>1. CASE w = v
          <6>1. i # x BY <1>6, <3>3, <5>1
          <6> QED BY <1>4, <1>11, <2>2, <3>1, <5>1, <6>1
        <5>2. CASE w # v BY <2>2, <3>1, <5>2
        <5> QED BY <5>1, <5>2
      <4>2. Copies(Fragment(w, i))' = Copies(Fragment(w, i))
        <5>1. PICK g : g = Fragment(w, i) OBVIOUS
        <5>2. Copies(g)' = Copies(g) BY <1>13, <3>3, <5>1
        <5>3. Copies(Fragment(w, i))' = Copies(g)' BY <1>16, <5>1 DEF Copies
        <5> QED BY <5>1, <5>2, <5>3
      <4> QED BY <1>17, <4>1, <4>2
    <3> QED BY <3>2, <3>3
  <2>6. CopiesInv'
    <3>1. \A w : Deliveries(w)' = Deliveries(w) BY <2>1 DEF Deliveries
    <3> QED BY <1>9, <2>5, <3>1 DEF CopiesInv
  <2> QED BY <2>3, <2>4, <2>6 DEF VideoInv
<1>19. CASE Len(more) = total
  <2>1. Range(more) = 0 .. total - 1 BY <1>7, <1>11, <1>19, AllThere
  <2> DEFINE d == [video |-> v, data |-> V!Join(v, more)]
  <2>2. /\ entries' = [entries EXCEPT ![v] = << >>]
        /\ delivered' = Append(delivered, d)
        BY <1>1, <1>3, <1>4, <1>10, <1>19 DEF V!Receive, V!Complete, V!Forget
  <2>3. V!Join(v, more) = [i \in 1 .. total |-> Chunk(v, i - 1)]
        BY <1>19 DEF V!Join, V!Chunk, Chunk
  <2>4. d \in Shown /\ d.video = v /\ d.data = [i \in 1 .. total |-> Chunk(v, i - 1)]
    <3>1. \A i \in 1 .. total : Chunk(v, i - 1) \in Nat \X Nat
          BY <1>6, <1>7 DEF Chunk, V!Videos
    <3>2. [i \in 1 .. total |-> Chunk(v, i - 1)] \in Seq(Nat \X Nat) BY <1>7, <3>1
    <3> QED BY <1>7, <2>3, <3>2 DEF Shown
  <2> HIDE DEF d
  <2>5. \A w \in V!Videos : entries'[w] = IF w = v THEN << >> ELSE entries[w]
        BY <1>5, <2>2
  <2>6. VideoType'
    <3>0. << >> \in Seq(Nat) OBVIOUS
    <3>1. entries' \in [V!Videos -> Seq(Nat)] BY <1>5, <2>2, <3>0
    <3>2. delivered' \in Seq(Shown) BY <1>5, <2>2, <2>4
    <3>3. ASSUME NEW w \in V!Videos PROVE PartInv(w)'
      <4>1. CASE w = v
        <5>1. entries'[w] = << >> /\ totals'[w] = total /\ w \in DOMAIN totals'
              BY <1>6, <1>9, <2>5, <4>1
        <5>2. Len(<< >>) < total /\ DOMAIN << >> = {} BY <1>2, <1>6, <1>7, <1>9
        <5> QED BY <5>1, <5>2 DEF PartInv
      <4>2. CASE w # v BY <1>5, <1>9, <2>5, <4>2 DEF PartInv
      <4> QED BY <4>1, <4>2
    <3> QED BY <1>5, <1>9, <1>14, <3>1, <3>2, <3>3 DEF VideoType
  <2>7. ASSUME NEW k \in DOMAIN delivered'
        PROVE  /\ delivered'[k].video \in DOMAIN totals
               /\ delivered'[k].data =
                    [i \in 1 .. totals[delivered'[k].video] |->
                       Chunk(delivered'[k].video, i - 1)]
    <3>1. CASE k \in DOMAIN delivered
      <4>1. delivered'[k] = delivered[k] BY <1>5, <2>2, <3>1
      <4> QED BY <3>1, <4>1 DEF VideoInv, ShownInv, DeliveredIsSent
    <3>2. CASE k \notin DOMAIN delivered
      <4>1. delivered'[k] = d BY <1>5, <2>2, <3>2
      <4> QED BY <1>6, <2>4, <4>1
    <3> QED BY <3>1, <3>2
  <2>8. ShownInv' /\ DeliveredIsSent'
        BY <1>9, <2>7 DEF ShownInv, DeliveredIsSent, Chunk
  <2>9. /\ \A w : w # v => Deliveries(w)' = Deliveries(w)
        /\ Cardinality(Deliveries(v)') = Cardinality(Deliveries(v)) + 1
        BY <1>5, <2>2, <2>4, DeliveriesAppend
  <2>10. ASSUME NEW w \in DOMAIN totals, NEW i \in 0 .. totals[w] - 1
         PROVE  Cardinality(Deliveries(w)') + (IF i \in Range(entries'[w]) THEN 1 ELSE 0)
                  <= Cardinality(Copies(Fragment(w, i))')
    <3>1. w \in V!Videos
      <4>1. Len(totals) \in Nat /\ w \in 1 .. Len(totals) BY <1>5
      <4>2. w \in 1 .. MaxVideos BY <1>0, <1>5, <4>1
      <4> QED BY <4>2 DEF V!Videos
    <3>2. CASE Fragment(w, i) = f
      <4>1. w = v /\ i = x BY <1>15, <3>2
      <4>2. Cardinality(Deliveries(v)) <= Cardinality(Copies(f))
        <5>1. CASE i \in Range(entries[w]) BY <1>13, <1>17, <3>2, <4>1, <5>1
        <5>2. CASE i \notin Range(entries[w]) BY <1>13, <1>17, <3>2, <4>1, <5>2
        <5> QED BY <5>1, <5>2
      <4>3. Copies(Fragment(w, i))' = Copies(f)' BY <1>16, <3>2 DEF Copies
      <4>4. i \notin Range(entries'[w]) BY <2>5, <3>1, <4>1 DEF Range
      <4>5. Cardinality(Deliveries(v)) \in Nat BY <1>17, <4>1
      <4> QED BY <1>13, <2>9, <4>1, <4>2, <4>3, <4>4, <4>5
    <3>3. CASE Fragment(w, i) # f
      <4>1. Copies(Fragment(w, i))' = Copies(Fragment(w, i))
        <5>1. PICK g : g = Fragment(w, i) OBVIOUS
        <5>2. Copies(g)' = Copies(g) BY <1>13, <3>3, <5>1
        <5>3. Copies(Fragment(w, i))' = Copies(g)' BY <1>16, <5>1 DEF Copies
        <5> QED BY <5>1, <5>2, <5>3
      <4>2. CASE w = v
        <5>1. i # x /\ i \in Range(more) BY <1>6, <2>1, <3>3, <4>2
        <5>2. i \in Range(entries[w]) BY <1>4, <1>11, <4>2, <5>1
        <5>3. i \notin Range(entries'[w]) BY <2>5, <3>1, <4>2 DEF Range
        <5>4. Cardinality(Deliveries(w)) + 1 <= Cardinality(Copies(Fragment(w, i)))
              BY <1>17, <5>2
        <5>5. Cardinality(Deliveries(w)) \in Nat BY <1>17
        <5> QED BY <2>9, <4>1, <4>2, <5>3, <5>4, <5>5
      <4>3. CASE w # v
        <5>1. entries'[w] = entries[w] BY <2>5, <3>1, <4>3
        <5> QED BY <1>17, <2>9, <4>1, <4>3, <5>1
      <4> QED BY <4>2, <4>3
    <3> QED BY <3>2, <3>3
  <2>11. CopiesInv' BY <1>9, <2>10 DEF CopiesInv
  <2> QED BY <2>6, <2>8, <2>11 DEF VideoInv
<1> QED BY <1>18, <1>19

LEMMA StepVideo == ASSUME V!VideoConstants PROVE VideoInv /\ [V!Next]_(V!vars) => VideoInv'
<1> SUFFICES ASSUME VideoInv, [V!Next]_(V!vars) PROVE VideoInv'
    OBVIOUS
<1>1. CASE V!SendFrame BY <1>1, SendFrameInv
<1>2. ASSUME NEW f \in V!Fragments, V!Receive(f) PROVE VideoInv' BY <1>2, ReceiveInv
<1>3. CASE UNCHANGED V!vars
  <2>1. UNCHANGED <<totals, entries, delivered, arrivals>> BY <1>3 DEF V!vars
  <2>2. VideoType' BY <2>1 DEF VideoInv, VideoType, PartInv
  <2>3. ShownInv' /\ DeliveredIsSent'
        BY <2>1 DEF VideoInv, ShownInv, DeliveredIsSent, Chunk
  <2>4. CopiesInv'
    <3>1. \A v : Deliveries(v)' = Deliveries(v) BY <2>1 DEF Deliveries
    <3>2. \A v, i : Copies(Fragment(v, i))' = Copies(Fragment(v, i))
          BY <2>1 DEF Copies, Fragment
    <3> QED BY <2>1, <3>1, <3>2 DEF VideoInv, CopiesInv
  <2> QED BY <2>2, <2>3, <2>4 DEF VideoInv
<1> QED BY <1>1, <1>2, <1>3 DEF V!Next

LEMMA CopiesHold == ASSUME V!VideoConstants PROVE VideoInv => AgainOnlyIfAllAgain
<1> SUFFICES ASSUME VideoInv, NEW f \in Fragments, f.idx < f.total
             PROVE  /\ Cardinality(Deliveries(f.video)) <= Cardinality(Copies(f))
                    /\ Len(entries[f.video]) < f.total
    BY DEF AgainOnlyIfAllAgain
<1>1. PICK v : v = f.video OBVIOUS
<1>2. PICK i : i = f.idx OBVIOUS
<1>3. /\ v \in DOMAIN totals /\ f = Fragment(v, i) /\ i \in Nat /\ f.total = totals[v]
      BY <1>1, <1>2 DEF Fragments, Fragment
<1>4. /\ totals \in Seq(1 .. MaxFrags) /\ delivered \in Seq(Shown) /\ arrivals \in Seq(Packets)
      BY DEF VideoInv, VideoType
<1>5. totals[v] \in 1 .. MaxFrags BY <1>3, <1>4, Member
<1>6. i \in 0 .. totals[v] - 1 BY <1>2, <1>3, <1>5
<1>7. Cardinality(Deliveries(v)) + (IF i \in Range(entries[v]) THEN 1 ELSE 0)
        <= Cardinality(Copies(f))
      BY <1>3, <1>6 DEF VideoInv, CopiesInv
<1>8. Cardinality(Deliveries(v)) \in Nat /\ Cardinality(Copies(f)) \in Nat
  <2>1. Len(delivered) \in Nat /\ Deliveries(v) \in SUBSET (1 .. Len(delivered))
        BY <1>4 DEF Deliveries
  <2>2. Len(arrivals) \in Nat /\ Copies(f) \in SUBSET (1 .. Len(arrivals))
        BY <1>4 DEF Copies
  <2> QED BY <2>1, <2>2, PartFinite
<1>9. Cardinality(Deliveries(v)) <= Cardinality(Copies(f)) BY <1>7, <1>8
<1>10. Len(entries[v]) < totals[v]
  <2>1. v \in V!Videos
    <3>1. Len(totals) \in Nat /\ DOMAIN totals = 1 .. Len(totals) BY <1>4
    <3>2. Len(totals) <= MaxVideos /\ MaxVideos \in Nat
          BY DEF VideoInv, VideoType, V!VideoConstants
    <3> QED BY <1>3, <3>1, <3>2 DEF V!Videos
  <2> QED BY <1>3, <2>1 DEF VideoInv, VideoType, PartInv
<1> QED BY <1>1, <1>3, <1>9, <1>10

\* Every frame that on_frame gets is one that was sent, with every chunk in its
\* place: as many different indexes below total_frags as there are fragments
\* are all of them, so the join finds each (video_stream.py:174-183).
THEOREM OnlyWholeFramesDelivered ==
  ASSUME V!VideoConstants PROVE V!Spec => []DeliveredIsSent
<1>1. V!Init => VideoInv BY InitVideo
<1>2. VideoInv /\ [V!Next]_(V!vars) => VideoInv' BY StepVideo
<1>3. VideoInv => DeliveredIsSent BY DEF VideoInv
<1> QED BY <1>1, <1>2, <1>3, PTL DEF V!Spec

\* A frame is delivered once for every time that all its fragments have come, at
\* most: delivery takes the entry away, and the next one starts empty.
THEOREM DeliveredAgainOnlyWhole ==
  ASSUME V!VideoConstants PROVE V!Spec => []AgainOnlyIfAllAgain
<1>1. V!Init => VideoInv BY InitVideo
<1>2. VideoInv /\ [V!Next]_(V!vars) => VideoInv' BY StepVideo
<1>3. VideoInv => AgainOnlyIfAllAgain BY CopiesHold
<1> QED BY <1>1, <1>2, <1>3, PTL DEF V!Spec

----------------------------------------------------------------------------
(* The types of a video stream.                                             *)

ArrivalsInv == Len(arrivals) <= MaxArrivals

LEMMA ArrivalsInit == ASSUME V!VideoConstants PROVE V!Init => ArrivalsInv
<1> SUFFICES ASSUME V!Init PROVE ArrivalsInv
    OBVIOUS
<1>1. MaxArrivals \in Nat BY DEF V!VideoConstants
<1>2. Len(arrivals) = 0 BY DEF V!Init
<1> QED BY ONLY <1>1, <1>2 DEF ArrivalsInv

LEMMA ArrivalsStep ==
  ASSUME V!VideoConstants, VideoType, VideoType', ArrivalsInv, [V!Next]_(V!vars)
  PROVE  ArrivalsInv'
<1>1. arrivals \in Seq(Packets) /\ arrivals' \in Seq(Packets) BY DEF VideoType
<1>2. ASSUME NEW f, arrivals' = Append(arrivals, f), Len(arrivals) < MaxArrivals
      PROVE  ArrivalsInv'
  <2>1. MaxArrivals \in Nat BY DEF V!VideoConstants
  <2>2. Len(arrivals') = Len(arrivals) + 1 /\ Len(arrivals) \in Nat
    <3> HIDE DEF Packets
    <3> QED BY ONLY <1>1, <1>2
  <2>3. Len(arrivals') <= MaxArrivals BY ONLY <1>2, <2>1, <2>2
  <2> QED BY <2>3 DEF ArrivalsInv
<1>3. CASE arrivals' = arrivals BY <1>3 DEF ArrivalsInv
<1> QED BY <1>2, <1>3 DEF V!Next, V!SendFrame, V!Receive, V!vars

VideoTyped == VideoInv /\ ArrivalsInv

LEMMA VideoTypedInit == ASSUME V!VideoConstants PROVE V!Init => VideoTyped
BY InitVideo, ArrivalsInit DEF VideoTyped

LEMMA VideoTypedStep ==
  ASSUME V!VideoConstants PROVE VideoTyped /\ [V!Next]_(V!vars) => VideoTyped'
<1> SUFFICES ASSUME VideoTyped, [V!Next]_(V!vars) PROVE VideoTyped'
    OBVIOUS
<1>1. VideoInv' BY StepVideo DEF VideoTyped
<1>2. ArrivalsInv' BY <1>1, ArrivalsStep DEF VideoTyped, VideoInv
<1> QED BY <1>1, <1>2 DEF VideoTyped

LEMMA VideoSafe ==
  ASSUME V!VideoConstants PROVE VideoTyped => DeliveredIsSent /\ AgainOnlyIfAllAgain
BY CopiesHold DEF VideoTyped, VideoInv

LEMMA VideoTypesHold == ASSUME V!VideoConstants PROVE VideoTyped => V!TypeOK
<1> SUFFICES ASSUME VideoTyped PROVE V!TypeOK
    OBVIOUS
<1>1. VideoType /\ ArrivalsInv BY DEF VideoTyped, VideoInv
<1>2. /\ totals \in Seq(1 .. MaxFrags) /\ Len(totals) <= MaxVideos
      /\ entries \in [V!Videos -> Seq(Nat)] /\ MaxFrags \in Nat
      BY <1>1 DEF VideoType, V!VideoConstants
<1>3. V!Range(totals) \subseteq 1 .. MaxFrags BY <1>2 DEF V!Range
<1>4. ASSUME NEW v \in V!Videos PROVE V!Range(entries[v]) \subseteq 0 .. MaxFrags - 1
  <2>1. PartInv(v) /\ entries[v] \in Seq(Nat) BY <1>1, <1>2 DEF VideoType
  <2>2. ASSUME NEW i \in DOMAIN entries[v] PROVE entries[v][i] \in 0 .. MaxFrags - 1
    <3>1. entries[v][i] \in Nat BY ONLY <2>1, i \in DOMAIN entries[v]
    <3>2. v \in DOMAIN totals
      <4>1. CASE entries[v] = << >> BY <4>1
      <4> QED BY <2>1, <4>1 DEF PartInv
    <3>3. entries[v][i] < totals[v] BY <2>1, <3>2 DEF PartInv
    <3>4. totals[v] \in 1 .. MaxFrags BY ONLY <1>2, <3>2
    <3> QED BY ONLY <1>2, <3>1, <3>3, <3>4
  <2> QED BY <2>2 DEF V!Range
<1> QED BY <1>1, <1>2, <1>3, <1>4 DEF V!TypeOK, ArrivalsInv

\* The types, and that no index in the receiver's buffer is beyond the fragments
\* a frame can have (video_stream.py:155).
THEOREM VideoTypes == ASSUME V!VideoConstants PROVE V!Spec => []V!TypeOK
<1>1. V!Init => VideoTyped BY VideoTypedInit
<1>2. VideoTyped /\ [V!Next]_(V!vars) => VideoTyped' BY VideoTypedStep
<1>3. VideoTyped => V!TypeOK BY VideoTypesHold
<1> QED BY <1>1, <1>2, <1>3, PTL DEF V!Spec
=============================================================================
