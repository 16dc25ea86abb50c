---------------------------- MODULE Capabilities ----------------------------
(* Capability dictionaries and the two functions that intersect them:       *)
(* _negotiate_caps of src/protocol/handshake.py, and negotiate_capabilities *)
(* of src/discovery/negotiation.py, which also leaves out what is empty or  *)
(* switched off.  A dictionary maps some keys to sets: a list is the set of *)
(* its items, any other value the singleton of it.                          *)

CONSTANTS ListKeys,    \* keys whose values are lists
          SwitchKeys   \* keys whose values are booleans, {TRUE} or {FALSE}

MutantNegotiateCaps(mine, theirs) ==
  [k \in DOMAIN mine \cap DOMAIN theirs |-> mine[k]]

MutantNegotiateCapabilities(mine, theirs) ==
  [k \in DOMAIN mine \cap DOMAIN theirs |-> mine[k]]

\* An empty list in common is kept as an agreed capability.
NegotiateCaps(mine, theirs) ==
  [k \in {k \in DOMAIN mine \cap DOMAIN theirs :
            k \in ListKeys \/ mine[k] = theirs[k]}
     |-> mine[k] \cap theirs[k]]

Worth(k, mine, theirs) ==
  IF k \in ListKeys THEN mine[k] \cap theirs[k] # {}
  ELSE mine[k] = theirs[k] /\ (k \in SwitchKeys => mine[k] = {TRUE})

NegotiateCapabilities(mine, theirs) ==
  [k \in {k \in DOMAIN mine \cap DOMAIN theirs : Worth(k, mine, theirs)}
     |-> mine[k] \cap theirs[k]]

\* `if not agreed'.
Empty(agreed) == DOMAIN agreed = {}
=============================================================================
