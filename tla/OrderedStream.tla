--------------------------- MODULE OrderedStream ---------------------------
(* What a reliable ordered stream promises its two users, whatever protocol *)
(* is underneath: the receiver is handed the payloads the sender submitted, *)
(* each of them once, in the order of submission, and nothing else.         *)
(* src/README.md 248-267 promises this of both ARQ schemes.                 *)
EXTENDS Naturals, Sequences

CONSTANT Payload

VARIABLES submitted, \* the payloads accepted from the sending application
          handed     \* the payloads handed to the receiving application

vars == <<submitted, handed>>

Init == submitted = <<>> /\ handed = <<>>

\* The sending application submits one payload.
Submit == \E p \in Payload : /\ submitted' = Append(submitted, p)
                             /\ UNCHANGED handed

\* The receiver is handed the next few submitted payloads, in one call.
HandOver == \E n \in (Len(handed) + 1) .. Len(submitted) :
              /\ handed' = SubSeq(submitted, 1, n)
              /\ UNCHANGED submitted

Next == Submit \/ HandOver

Spec == Init /\ [][Next]_vars
=============================================================================
