---------------------------- MODULE MCDiscovery ----------------------------
(* A statement of the documentation of Discovery that the code does not     *)
(* keep; MCSessions checks the others.                                      *)
EXTENDS Discovery

Both == [cmds |-> {"yaw", "pitch"}, video |-> {FALSE}]

MCCapChoices == {[n \in Nodes |-> Both]}

\* DISCOVER, NEGOTIATE, AGREE, ACK: "[session established, peers registered]"
\* (README.md:277-289), and "both sides use the same value" as session id
\* (README.md:448-450).  When nothing is under way any more and nothing was lost,
\* a peer that one node has registered has that node registered under the same
\* session.
RegisteredOnBothSides ==
  (net = {} /\ losses = 0 /\ faults = 0) =>
    \A n \in Nodes : \A p \in DOMAIN peers[n] :
      n \in DOMAIN peers[p] /\ peers[p][n].session = peers[n][p].session
=============================================================================
