------------------------------ MODULE Registry ------------------------------
(* What a node of the discovery service may register, whatever the way the  *)
(* sessions in its table have come about: the state of                      *)
(* src/discovery/discovery_service.py that Discovery changes and that this  *)
(* module makes promises about.                                             *)
EXTENDS Capabilities, Naturals

CONSTANT Nodes

VARIABLES
  caps,   \* node -> _caps, its dictionary
  made,   \* maker -> peer -> session ids made by _handle_discover
  peers,  \* node -> _peers: node id -> session and terms
  pending,  \* node -> the contexts in _pending
  repeats   \* datagrams the path has brought once more

Agreed(n, p) == NegotiateCapabilities(caps[n], caps[p])

\* A node registers a peer only under a session it has itself offered to that
\* very peer, however late or often the AGREE comes, and though it looks at
\* nothing pending.  So the two registries never hold the same session, which is
\* not what README.md:288 and 448-450 say: see MCDiscovery
\* (discovery_service.py:158, 249-255).
RegisteredWasOffered ==
  \A n \in Nodes : \A p \in DOMAIN peers[n] :
    LET s == peers[n][p].session IN
      s.maker = n /\ s.peer = p /\ s.n \in 1 .. made[n][p]

\* Unless the path brings a datagram twice, a peer is put down under a session
\* only while that session is pending, and so once: though _pending is not looked
\* at, an exchange that is over does not come back, whatever is lost or out of
\* order (discovery_service.py:195-202, 248-260).
RegisteredOnce ==
  [][\A n \in Nodes : \A p \in DOMAIN peers'[n] :
       (p \notin DOMAIN peers[n] \/ peers'[n][p].session # peers[n][p].session)
         => peers'[n][p].session \in pending[n] \/ repeats > 0]_peers

\* What a registry says was agreed is what the node itself would have worked
\* out, though the peer worked it out from the NEGOTIATE, and it is not empty
\* (discovery_service.py:179, 219, 253).
RegisteredTerms ==
  \A n \in Nodes : \A p \in DOMAIN peers[n] :
    peers[n][p].agreed = Agreed(n, p) /\ ~Empty(Agreed(n, p))
=============================================================================
