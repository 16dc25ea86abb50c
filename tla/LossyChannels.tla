--------------------------- MODULE LossyChannels ---------------------------
(* What a relay promises of each direction: its messages may be lost, but   *)
(* those that come out do so once each, in the order in which they entered. *)
(* Telemetry stands on a path like this; src/README.md 27-35 and            *)
(* leo_relay.py 1-13 promise no more of the relay.                          *)
EXTENDS Naturals, Sequences

CONSTANTS Direction,
          Message    \* numbers, so that the order of entering shows

VARIABLES entered,   \* direction -> the messages that have entered
          underway,  \* direction -> those still in the channel, oldest first
          delivered  \* direction -> those that came out

vars == <<entered, underway, delivered>>

Init == /\ entered = [d \in Direction |-> {}]
        /\ underway = [d \in Direction |-> << >>]
        /\ delivered = [d \in Direction |-> << >>]

Enter(d) == \E m \in Message :
              /\ \A e \in entered[d] : e < m
              /\ entered' = [entered EXCEPT ![d] = @ \cup {m}]
              /\ underway' = [underway EXCEPT ![d] = Append(@, m)]
              /\ UNCHANGED delivered

Without(s, i) == SubSeq(s, 1, i - 1) \o SubSeq(s, i + 1, Len(s))

Lose(d) == /\ \E i \in DOMAIN underway[d] :
                underway' = [underway EXCEPT ![d] = Without(@, i)]
           /\ UNCHANGED <<entered, delivered>>

Deliver(d) == /\ underway[d] # << >>
              /\ delivered' = [delivered EXCEPT ![d] = Append(@, Head(underway[d]))]
              /\ underway' = [underway EXCEPT ![d] = Tail(@)]
              /\ UNCHANGED entered

Next == \E d \in Direction : Enter(d) \/ Lose(d) \/ Deliver(d)

Spec == Init /\ [][Next]_vars
=============================================================================
