------------------------------ MODULE Handshake ------------------------------
(* The handshake of src/protocol/handshake.py: connect of the initiator,    *)
(* called again and again on one socket, and handle_discover and            *)
(* handle_agree of the responder, whose caller keeps the last context it    *)
(* was given.  The path loses, repeats and reorders datagrams both ways.    *)
(* A damaged frame ends a wait as a frame of another type does, and so as a *)
(* timeout does.                                                            *)
EXTENDS Capabilities, Naturals, Sequences

CONSTANTS MaxRetry,     \* ARQ_MAX_RETRIES
          MyCaps,       \* the dictionaries the initiator may have
          PeerCaps,     \* the dictionaries the responder may have
          MaxConnects,  \* bound of the model: calls of connect
          MaxSessions   \* bound of the model: session ids made

ASSUME HandshakeConstants ==
  MaxRetry \in Nat \ {0} /\ MaxConnects \in Nat /\ MaxSessions \in Nat

VARIABLES
  iCaps, rCaps,  \* _caps of the two sides
  pc, attempt,   \* where connect is, and its loop variable
  offer,         \* session_id in connect, 0 before there is one
  results,       \* history: what each call of connect agreed to and returned
  issued,        \* session ids the responder has made
  ctx,           \* the context handle_discover returned last
  established,   \* history: the contexts that became ESTABLISHED
  toResponder, toInitiator   \* what the path may still bring

initVars == <<pc, attempt, offer, results>>
respVars == <<issued, ctx, established>>
vars == <<iCaps, rCaps, initVars, respVars, toResponder, toInitiator>>

Sessions == 1 .. MaxSessions
Message  == [type : {"DISCOVER", "NEGOTIATE", "AGREE", "ACK", "REJECT"},
             sid : 0 .. MaxSessions]
Bare(type) == [type |-> type, sid |-> 0]
NoCtx == [sid |-> 0, agreed |-> {}]

MutantAttemptsLeft      == attempt <= MaxRetry
MutantSameSession(m)    == TRUE
MutantRightType(m, t)   == TRUE

AttemptsLeft == attempt < MaxRetry

\* The type test of _recv_typed.
RightType(m, type) == m.type = type

\* The session_id test of handle_agree.
SameSession(m) == m.sid = ctx.sid

\* What each side computes to be agreed.
Mine   == NegotiateCaps(iCaps, rCaps)
Theirs == NegotiateCaps(rCaps, iCaps)

----------------------------------------------------------------------------
Init == /\ iCaps \in MyCaps /\ rCaps \in PeerCaps
        /\ pc = "idle" /\ attempt = 0 /\ offer = 0 /\ results = << >>
        /\ issued = 0 /\ ctx = NoCtx /\ established = {}
        /\ toResponder = {} /\ toInitiator = {}

(* The initiator.                                                           *)

Connect == /\ pc = "idle" /\ Len(results) < MaxConnects
           /\ pc' = "discover" /\ attempt' = 1 /\ offer' = 0
           /\ UNCHANGED <<iCaps, rCaps, results, respVars, toResponder, toInitiator>>

\* connect ends; agreed is the session of the AGREE it sent, 0 if it sent none.
Return(agreed, ok) ==
  /\ pc' = "idle"
  /\ results' = Append(results, [agreedTo |-> agreed, ok |-> ok])
  /\ UNCHANGED <<attempt, offer>>

SendDiscover ==
  /\ pc = "discover"
  /\ toResponder' = toResponder \cup {Bare("DISCOVER")}
  /\ pc' = "negotiate"
  /\ UNCHANGED <<iCaps, rCaps, attempt, offer, results, respVars, toInitiator>>

\* The session id of the NEGOTIATE is taken over, whichever DISCOVER it answers.
TakeNegotiate ==
  /\ pc = "negotiate"
  /\ \E m \in toInitiator :
       /\ RightType(m, "NEGOTIATE")
       /\ IF Empty(Mine)
          THEN /\ toResponder' = toResponder \cup {Bare("REJECT")}
               /\ Return(0, FALSE)
          ELSE /\ pc' = "agree" /\ offer' = m.sid
               /\ UNCHANGED <<attempt, results, toResponder>>
  /\ UNCHANGED <<iCaps, rCaps, respVars, toInitiator>>

SendAgree ==
  /\ pc = "agree"
  /\ toResponder' = toResponder \cup {[type |-> "AGREE", sid |-> offer]}
  /\ pc' = "ack"
  /\ UNCHANGED <<iCaps, rCaps, attempt, offer, results, respVars, toInitiator>>

\* An OSError of sendto leaves connect as an exception.
SendRaises == /\ pc \in {"discover", "agree"}
              /\ Return(0, FALSE)
              /\ UNCHANGED <<iCaps, rCaps, respVars, toResponder, toInitiator>>

\* The ACK bears no session id.
TakeAck == /\ pc = "ack"
           /\ \E m \in toInitiator : RightType(m, "ACK")
           /\ Return(offer, TRUE)
           /\ UNCHANGED <<iCaps, rCaps, respVars, toResponder, toInitiator>>

\* _recv_typed returns None: nothing came, or something else.
NoAnswer == /\ \/ /\ pc = "negotiate" /\ AttemptsLeft
                  /\ pc' = "discover" /\ attempt' = attempt + 1
                  /\ UNCHANGED <<offer, results>>
               \/ pc = "negotiate" /\ ~AttemptsLeft /\ Return(0, FALSE)
               \/ pc = "ack" /\ Return(offer, FALSE)
            /\ UNCHANGED <<iCaps, rCaps, respVars, toResponder, toInitiator>>

(* The responder.                                                           *)

\* Each DISCOVER, repeated or not, gets a session id of its own.
HandleDiscover ==
  /\ Bare("DISCOVER") \in toResponder
  /\ IF Empty(Theirs)
     THEN toInitiator' = toInitiator \cup {Bare("REJECT")} /\ UNCHANGED respVars
     ELSE /\ issued < MaxSessions
          /\ issued' = issued + 1
          /\ toInitiator' = toInitiator \cup {[type |-> "NEGOTIATE", sid |-> issued + 1]}
          /\ ctx' = [sid |-> issued + 1, agreed |-> Theirs]
          /\ UNCHANGED established
  /\ UNCHANGED <<iCaps, rCaps, initVars, toResponder>>

HandleAgree ==
  /\ ctx # NoCtx
  /\ \E m \in toResponder : m.type = "AGREE" /\ SameSession(m)
  /\ toInitiator' = toInitiator \cup {Bare("ACK")}
  /\ established' = established \cup {ctx}
  /\ UNCHANGED <<iCaps, rCaps, initVars, issued, ctx, toResponder>>

Lose == /\ \/ /\ \E m \in toResponder : toResponder' = toResponder \ {m}
              /\ UNCHANGED toInitiator
           \/ /\ \E m \in toInitiator : toInitiator' = toInitiator \ {m}
              /\ UNCHANGED toResponder
        /\ UNCHANGED <<iCaps, rCaps, initVars, respVars>>

Next == \/ Connect \/ SendDiscover \/ TakeNegotiate \/ SendAgree
        \/ SendRaises \/ TakeAck \/ NoAnswer
        \/ HandleDiscover \/ HandleAgree \/ Lose

Spec == Init /\ [][Next]_vars

----------------------------------------------------------------------------
(* Properties                                                               *)

\* Types, and no more than MaxRetry DISCOVERs per connect (handshake.py:149).
TypeOK == /\ pc \in {"idle", "discover", "negotiate", "agree", "ack"}
          /\ attempt \in 0 .. MaxRetry
          /\ offer \in 0 .. MaxSessions
          /\ results \in Seq([agreedTo : 0 .. MaxSessions, ok : BOOLEAN])
          /\ issued \in 0 .. MaxSessions
          /\ \A c \in established \cup {ctx} : c.sid \in 0 .. issued
          /\ toResponder \subseteq Message /\ toInitiator \subseteq Message

\* The sessions the initiator has sent an AGREE for.
AgreedTo == {results[c].agreedTo : c \in DOMAIN results}
            \cup (IF pc = "ack" THEN {offer} ELSE {})
EstablishedIds == {c.sid : c \in established}

\* The responder establishes no session but one the initiator agreed to, though
\* each repeated DISCOVER replaces its context (handshake.py:288-294).
EstablishedWasAgreed == EstablishedIds \subseteq AgreedTo \ {0}

\* connect returns a session the responder has not established only when an
\* earlier call sent an AGREE that the responder did confirm: its late ACK,
\* which bears no session id, is taken for this one's (handshake.py:187).
WrongOnlyByLateAck ==
  \A c \in DOMAIN results :
    (results[c].ok /\ results[c].agreedTo \notin EstablishedIds)
      => \E d \in 1 .. c - 1 : results[d].agreedTo \in EstablishedIds

\* The two ends of an established session have worked out the same terms, each
\* from its own dictionary and the other's (handshake.py:173, 256).
SameTerms == \A c \in established : c.agreed = Mine
=============================================================================
