------------------------------ MODULE Discovery ------------------------------
(* The discovery service of src/discovery/discovery_service.py, one per     *)
(* node: an announce loop, and a receive thread that runs every handler and *)
(* so makes each handler one step.  Datagrams may be lost, repeated and     *)
(* reordered.  The sequence numbers of the frames are left out: no handler  *)
(* looks at them.                                                           *)
EXTENDS Registry

CONSTANTS CapChoices,   \* what caps may be
          MaxOffers,  \* bound of the model: sessions a node makes for a peer
          MaxLosses, MaxRepeats,  \* bounds of the model: what the path does
          MaxFaults     \* bound of the model: nodes stopped, threads that died

DiscoveryConstants ==
  /\ MaxOffers \in Nat /\ MaxLosses \in Nat
  /\ MaxRepeats \in Nat /\ MaxFaults \in Nat

VARIABLES
  announcing,  \* node -> its announce loop runs
  receiving,   \* node -> its receive thread runs
  net,         \* datagrams under way or in a socket's buffer
  losses, faults

vars == <<caps, announcing, receiving, made, pending, peers, net, losses, repeats, faults>>

NoSession == [maker |-> "none", peer |-> "none", n |-> 0]
Session(n, p, k) == [maker |-> n, peer |-> p, n |-> k]

Datagram(type, from, to, s) == [type |-> type, from |-> from, to |-> to, session |-> s]

\* Every datagram there can be; the agreed capabilities an AGREE bears are
\* those its sender has worked out, Agreed(from, to).
Datagrams(p, n) ==
  {Datagram(type, p, n, NoSession) : type \in {"DISCOVER", "ACK", "REJECT"}}
    \cup {Datagram("NEGOTIATE", p, n, Session(p, n, k)) : k \in 1 .. MaxOffers}
    \cup {Datagram("AGREE", p, n, Session(n, p, k)) : k \in 1 .. MaxOffers}

MutantAgreeWith(m)        == Session(m.to, m.from, 1)
MutantRegister(n, m)      == peers

\* The session id of a NEGOTIATE goes back in the AGREE.
AgreeWith(m) == m.session

\* The registry keeps one session per peer, the last one it heard of.
Register(n, m) ==
  [peers EXCEPT ![n] =
     [q \in DOMAIN @ \cup {m.from} |->
        IF q = m.from THEN [session |-> m.session, agreed |-> Agreed(m.from, n)]
        ELSE @[q]]]

----------------------------------------------------------------------------
Init == /\ caps \in CapChoices
        /\ announcing = [n \in Nodes |-> TRUE]
        /\ receiving = [n \in Nodes |-> TRUE]
        /\ made = [n \in Nodes |-> [p \in Nodes |-> 0]]
        /\ pending = [n \in Nodes |-> {}]
        /\ peers = [n \in Nodes |-> [q \in {} |-> 0]]
        /\ net = {} /\ losses = 0 /\ repeats = 0 /\ faults = 0

\* _handle_discover ignores a node's own broadcast, and so it is left out.
Announce(n) ==
  /\ announcing[n]
  /\ net' = net \cup {Datagram("DISCOVER", n, p, NoSession) : p \in Nodes \ {n}}
  /\ UNCHANGED <<caps, announcing, receiving, made, pending, peers, losses, repeats, faults>>

\* The receive thread of n takes a datagram, which may come once more.
Take(n, m, sent) ==
  /\ receiving[n] /\ m \in net
  /\ \/ net' = (net \ {m}) \cup sent /\ UNCHANGED repeats
     \/ /\ repeats < MaxRepeats /\ repeats' = repeats + 1
        /\ net' = net \cup sent
  /\ UNCHANGED <<caps, announcing, receiving, losses, faults>>

\* NEGOTIATE goes out before the context is stored; the AGREE that answers it
\* waits for the same thread.
HandleDiscover(n, m) ==
  /\ m.type = "DISCOVER"
  /\ IF Empty(Agreed(n, m.from))
     THEN /\ Take(n, m, {Datagram("REJECT", n, m.from, NoSession)})
          /\ UNCHANGED <<made, pending>>
     ELSE LET s == Session(n, m.from, made[n][m.from] + 1) IN
          /\ s.n <= MaxOffers
          /\ made' = [made EXCEPT ![n][m.from] = s.n]
          /\ Take(n, m, {Datagram("NEGOTIATE", n, m.from, s)})
          /\ pending' = [pending EXCEPT ![n] = @ \cup {s}]
  /\ UNCHANGED peers

\* Neither what n has announced nor what it has agreed to is remembered.
HandleNegotiate(n, m) ==
  /\ m.type = "NEGOTIATE"
  /\ Take(n, m, {IF Empty(Agreed(n, m.from))
                 THEN Datagram("REJECT", n, m.from, NoSession)
                 ELSE Datagram("AGREE", n, m.from, AgreeWith(m))})
  /\ UNCHANGED <<made, pending, peers>>

\* Not compared with what is pending.  The ACK names no session.
HandleAgree(n, m) ==
  /\ m.type = "AGREE"
  /\ Take(n, m, {Datagram("ACK", n, m.from, NoSession)})
  /\ peers' = Register(n, m)
  /\ pending' = [pending EXCEPT ![n] = @ \ {m.session}]
  /\ UNCHANGED made

\* A REJECT is only logged; an ACK has no handler, and is logged as unhandled.
LogOnly(n, m) ==
  /\ m.type \in {"REJECT", "ACK"}
  /\ Take(n, m, {})
  /\ UNCHANGED <<made, pending, peers>>

Handle(n, m) == \/ HandleDiscover(n, m) \/ HandleNegotiate(n, m)
                \/ HandleAgree(n, m) \/ LogOnly(n, m)

\* sendto raises in a handler, before it has stored anything: nobody catches the
\* OSError, and the receive thread ends.
SendRaises(n, m) ==
  /\ receiving[n] /\ m \in net /\ faults < MaxFaults
  /\ m.type \notin {"REJECT", "ACK"}
  /\ receiving' = [receiving EXCEPT ![n] = FALSE]
  /\ net' = net \ {m} /\ faults' = faults + 1
  /\ UNCHANGED <<caps, announcing, made, pending, peers, losses, repeats>>

Stop(n) ==
  /\ announcing[n] /\ faults < MaxFaults
  /\ announcing' = [announcing EXCEPT ![n] = FALSE]
  /\ receiving' = [receiving EXCEPT ![n] = FALSE]
  /\ faults' = faults + 1
  /\ UNCHANGED <<caps, made, pending, peers, net, losses, repeats>>

Lose(m) ==
  /\ losses < MaxLosses /\ losses' = losses + 1
  /\ net' = net \ {m}
  /\ UNCHANGED <<caps, announcing, receiving, made, pending, peers, repeats, faults>>

Next == \/ \E n \in Nodes : Announce(n) \/ Stop(n)
        \/ \E m \in net : Handle(m.to, m) \/ SendRaises(m.to, m) \/ Lose(m)

\* Both loops keep running: a node announces again and again, and takes what its
\* peers have sent out of its socket's buffer.
Receive(n) == \E m \in net : m.to = n /\ Handle(n, m)

Spec == /\ Init /\ [][Next]_vars
        /\ \A n \in Nodes : WF_vars(Announce(n)) /\ WF_vars(Receive(n))

----------------------------------------------------------------------------
(* Properties                                                               *)

TypeOK ==
  /\ announcing \in [Nodes -> BOOLEAN] /\ receiving \in [Nodes -> BOOLEAN]
  /\ made \in [Nodes -> [Nodes -> 0 .. MaxOffers]]
  /\ \A n \in Nodes : /\ DOMAIN peers[n] \subseteq Nodes \ {n}
                      /\ \A s \in pending[n] :
                           /\ s.maker = n /\ s.peer \in Nodes
                           /\ s.n \in 1 .. made[n][s.peer]
  /\ net \subseteq UNION {Datagrams(p, n) : p, n \in Nodes}
  /\ losses \in 0 .. MaxLosses /\ repeats \in 0 .. MaxRepeats /\ faults \in 0 .. MaxFaults

\* Two nodes that have something in common end up in each other's registry,
\* although only the answering side of an exchange registers its peer: both
\* announce, and go on (discovery_service.py:110-113, 158, 249).
AllMeet ==
  \A n \in Nodes : \A p \in Nodes \ {n} :
    ~Empty(Agreed(n, p))
      => <>(\/ p \in DOMAIN peers[n]
            \/ ~receiving[n] \/ ~receiving[p] \/ ~announcing[p])
=============================================================================
