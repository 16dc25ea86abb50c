----------------------------- MODULE MCSessions -----------------------------
(* Small instances for TLC of the two ways to set up a session, Handshake   *)
(* and Discovery.  They share no state, so each behaviour of this module    *)
(* follows one of them and lets the other rest.                             *)
EXTENDS Handshake, Registry

CONSTANTS CapChoices, MaxOffers, MaxLosses, MaxRepeats, MaxFaults

VARIABLES part,
          announcing, receiving, net, losses, faults

\* One common command; only lists in common, and these empty; nothing in common.
Both    == [cmds |-> {"yaw", "pitch"}, video |-> {FALSE}]
YawOnly == [cmds |-> {"yaw"}, video |-> {FALSE}, interop |-> {TRUE}]
Other   == [cmds |-> {"stop"}, video |-> {FALSE}]
NoList  == [interop |-> {TRUE}]

MCMyCaps   == {Both, NoList}
MCPeerCaps == {YawOnly, Other}
MCCapChoices == {[n \in Nodes |-> IF n = "t1" THEN Both ELSE c] :
                   c \in {YawOnly, Other}}

D == INSTANCE Discovery

ASSUME DiscoveryConstantsHold == D!DiscoveryConstants

MCInit == /\ part \in {"handshake", "discovery"}
          /\ Init /\ D!Init
          /\ part = "handshake" => caps = CHOOSE c \in CapChoices : TRUE
          /\ part = "discovery" => iCaps = (CHOOSE c \in MyCaps : TRUE)
                                 /\ rCaps = (CHOOSE c \in PeerCaps : TRUE)

discoveryVars == <<caps, announcing, receiving, made, pending, peers, net,
                   losses, repeats, faults>>
allVars == <<part, vars, discoveryVars>>

HandshakeStep == part = "handshake" /\ Next /\ UNCHANGED <<part, discoveryVars>>

InDiscovery == part = "discovery" /\ UNCHANGED <<part, vars>>

MCNext == HandshakeStep \/ (InDiscovery /\ D!Next)

MCSpec == /\ MCInit /\ [][MCNext]_allVars
          /\ \A n \in Nodes : /\ WF_allVars(InDiscovery /\ D!Announce(n))
                              /\ WF_allVars(InDiscovery /\ D!Receive(n))

\* The types of both (handshake.py:149, discovery_service.py:173).
TypesOK == TypeOK /\ D!TypeOK

\* See Discovery: nodes with something in common end up in each other's
\* registry (discovery_service.py:110-113, 158, 249).
AllMeet == part = "discovery" => D!AllMeet
=============================================================================
