--------------------------- MODULE MCSecurityGate ---------------------------
(* A small instance of SecurityGate for TLC, and a statement of the         *)
(* documentation that the code does not keep.                               *)
EXTENDS SecurityGate

\* Three yaw commands of one source, the last two the same and out of reach of
\* the first.
MCFrames == {[src |-> "a", seq |-> n, kind |-> "yaw", angle |-> IF n = 1 THEN 0 ELSE MaxAngle] :
               n \in 1 .. 3}

Accepted(j) == log[j].verdict = "ok" /\ log[j].kind \in Kinds
SameAngle(i, j) == log[i].key.src = log[j].key.src /\ log[i].kind = log[j].kind

\* "Physics limits + rate-of-change checks per source" (README.md:353): from one
\* accepted angle of a source to its next the change is within the limit.  Checks
\* at one instant, which the code does not compare, are left aside.
ChangeWithinLimit ==
  (\A i, j \in DOMAIN log : i # j /\ SameAngle(i, j) => log[i].at # log[j].at) =>
    \A i, j \in DOMAIN log :
      /\ i < j /\ Accepted(i) /\ Accepted(j) /\ SameAngle(i, j)
      /\ \A k \in i + 1 .. j - 1 : ~(Accepted(k) /\ SameAngle(k, i))
      => Distance(log[i].angle, log[j].angle) <= MaxStep * (log[j].at - log[i].at)
=============================================================================
