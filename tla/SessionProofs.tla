---------------------------- MODULE SessionProofs ----------------------------
(* Theorems about the two ways to set up a session: about Handshake, for    *)
(* any dictionaries and any number of retries and calls, and about          *)
(* Discovery, for any number of nodes and any dictionaries.                 *)
EXTENDS MCSessions, TLAPS

(****************************************************************************)
(* The handshake.                                                           *)
(****************************************************************************)

\* What is agreed does not depend on who computes it.
LEMMA NegotiateCapsSymmetric ==
  ASSUME NEW a, NEW b
  PROVE  NegotiateCaps(a, b) = NegotiateCaps(b, a)
<1> DEFINE K(x, y) == {k \in DOMAIN x \cap DOMAIN y : k \in ListKeys \/ x[k] = y[k]}
<1>1. K(a, b) = K(b, a)
  OBVIOUS
<1>2. \A k : a[k] \cap b[k] = b[k] \cap a[k]
  OBVIOUS
<1>3. [k \in K(a, b) |-> a[k] \cap b[k]] = [k \in K(b, a) |-> b[k] \cap a[k]]
  BY <1>1, <1>2
<1> QED
  BY <1>3 DEF NegotiateCaps

----------------------------------------------------------------------------
(* Types.                                                                   *)

LEMMA TypeInit == Init => TypeOK
<1> SUFFICES ASSUME Init PROVE TypeOK
  OBVIOUS
<1> QED
  BY HandshakeConstants DEF Init, TypeOK, NoCtx

LEMMA BareIsMessage ==
  ASSUME NEW type \in {"DISCOVER", "NEGOTIATE", "AGREE", "ACK", "REJECT"}
  PROVE  Bare(type) \in Message
BY HandshakeConstants DEF Bare, Message

\* A call of connect ends with a result of the right type.
LEMMA ReturnTyped ==
  ASSUME TypeOK, NEW agreed \in 0 .. MaxSessions, NEW ok \in BOOLEAN,
         Return(agreed, ok)
  PROVE  /\ pc' = "idle" /\ attempt' = attempt /\ offer' = offer
         /\ results' \in Seq([agreedTo : 0 .. MaxSessions, ok : BOOLEAN])
<1>1. [agreedTo |-> agreed, ok |-> ok] \in [agreedTo : 0 .. MaxSessions, ok : BOOLEAN]
  OBVIOUS
<1> QED
  BY <1>1 DEF Return, TypeOK

LEMMA TypeStep == TypeOK /\ [Next]_vars => TypeOK'
<1> SUFFICES ASSUME TypeOK, [Next]_vars PROVE TypeOK'
  OBVIOUS
<1> USE HandshakeConstants
<1>0. 0 \in 0 .. MaxSessions /\ TRUE \in BOOLEAN /\ FALSE \in BOOLEAN
  OBVIOUS
<1>1. CASE Connect
  BY <1>1 DEF Connect, TypeOK, respVars
<1>2. CASE SendDiscover
  BY <1>2, BareIsMessage DEF SendDiscover, TypeOK, respVars
<1>3. CASE TakeNegotiate
  <2>1. PICK m \in toInitiator :
          /\ pc = "negotiate" /\ RightType(m, "NEGOTIATE")
          /\ IF Empty(Mine)
             THEN /\ toResponder' = toResponder \cup {Bare("REJECT")}
                  /\ Return(0, FALSE)
             ELSE /\ pc' = "agree" /\ offer' = m.sid
                  /\ UNCHANGED <<attempt, results, toResponder>>
          /\ UNCHANGED <<iCaps, rCaps, respVars, toInitiator>>
    BY <1>3 DEF TakeNegotiate
  <2>2. m.sid \in 0 .. MaxSessions
    BY DEF TypeOK, Message
  <2>3. CASE Empty(Mine)
    <3>1. Return(0, FALSE) /\ toResponder' \subseteq Message
      BY <2>1, <2>3, BareIsMessage DEF TypeOK
    <3> QED
      BY <1>0, <2>1, <3>1, ReturnTyped DEF TypeOK, respVars
  <2>4. CASE ~Empty(Mine)
    BY <2>1, <2>2, <2>4 DEF TypeOK, respVars
  <2> QED
    BY <2>3, <2>4
<1>4. CASE SendAgree
  <2>1. [type |-> "AGREE", sid |-> offer] \in Message
    BY DEF TypeOK, Message
  <2> QED
    BY <1>4, <2>1 DEF SendAgree, TypeOK, respVars
<1>5. CASE SendRaises
  BY <1>0, <1>5, ReturnTyped DEF SendRaises, TypeOK, respVars
<1>6. CASE TakeAck
  <2>1. offer \in 0 .. MaxSessions
    BY DEF TypeOK
  <2> QED
    BY <1>6, <2>1, ReturnTyped DEF TakeAck, TypeOK, respVars
<1>7. CASE NoAnswer
  <2>1. /\ UNCHANGED <<iCaps, rCaps, respVars, toResponder, toInitiator>>
        /\ offer \in 0 .. MaxSessions
    BY <1>7 DEF NoAnswer, TypeOK
  <2>2. CASE /\ pc = "negotiate" /\ AttemptsLeft
             /\ pc' = "discover" /\ attempt' = attempt + 1
             /\ UNCHANGED <<offer, results>>
    BY <2>1, <2>2 DEF AttemptsLeft, TypeOK, respVars
  <2>3. CASE Return(0, FALSE) \/ Return(offer, FALSE)
    BY <1>0, <2>1, <2>3, ReturnTyped DEF TypeOK, respVars
  <2> QED
    BY <1>7, <2>2, <2>3 DEF NoAnswer
<1>8. CASE HandleDiscover
  <2>1. CASE Empty(Theirs)
    BY <1>8, <2>1, BareIsMessage DEF HandleDiscover, TypeOK, initVars, respVars
  <2>2. CASE ~Empty(Theirs)
    <3>1. issued + 1 \in 0 .. MaxSessions
      BY <1>8, <2>2 DEF HandleDiscover, TypeOK
    <3>2. [type |-> "NEGOTIATE", sid |-> issued + 1] \in Message
      BY <3>1 DEF Message
    <3> QED
      BY <1>8, <2>2, <3>1, <3>2 DEF HandleDiscover, TypeOK, initVars, respVars
  <2> QED
    BY <2>1, <2>2
<1>9. CASE HandleAgree
  BY <1>9, BareIsMessage DEF HandleAgree, TypeOK, initVars, respVars
<1>10. CASE Lose
  BY <1>10 DEF Lose, TypeOK, initVars, respVars
<1>11. CASE UNCHANGED vars
  BY <1>11 DEF vars, TypeOK, initVars, respVars
<1> QED
  BY <1>1, <1>2, <1>3, <1>4, <1>5, <1>6, <1>7, <1>8, <1>9, <1>10, <1>11 DEF Next

\* Types, and no more DISCOVERs per call than there are retries
\* (handshake.py:149).
THEOREM TypeCorrect == Spec => []TypeOK
BY TypeInit, TypeStep, PTL DEF Spec

----------------------------------------------------------------------------
(* Whatever the path brings, late, twice or out of order.                   *)

\* A session id on its way to the initiator, and the one it has taken over, is
\* a real one.
OffersInv == /\ \A m \in toInitiator : m.type = "NEGOTIATE" => m.sid # 0
             /\ pc \in {"agree", "ack"} => offer # 0

\* Only the initiator sends AGREE, and so the responder can trust it.
AgreesInv == \A m \in toResponder : m.type = "AGREE" => m.sid \in AgreedTo \ {0}

\* An ACK tells that there is an established session, not which.
AcksInv == (\E m \in toInitiator : m.type = "ACK") => established # {}

\* The context is made of what the responder has worked out.
CtxInv == ctx # NoCtx => ctx.agreed = Theirs

IInv == /\ OffersInv /\ AgreesInv /\ AcksInv /\ CtxInv
        /\ EstablishedWasAgreed /\ WrongOnlyByLateAck /\ SameTerms

LEMMA InitInv == Init => IInv
<1> SUFFICES ASSUME Init PROVE IInv
  OBVIOUS
<1> QED
  BY DEF Init, IInv, OffersInv, AgreesInv, AcksInv, CtxInv, EstablishedWasAgreed,
         WrongOnlyByLateAck, SameTerms, EstablishedIds

\* The end of a call adds one result; those before it stay.
Appended(agreed, ok) ==
  /\ Len(results) \in Nat /\ DOMAIN results = 1 .. Len(results)
  /\ DOMAIN results' = 1 .. Len(results) + 1
  /\ \A c \in 1 .. Len(results) : results'[c] = results[c]
  /\ results'[Len(results) + 1] = [agreedTo |-> agreed, ok |-> ok]

\* Steps that send no AGREE and end no call.
LEMMA AgreedToKept ==
  ASSUME UNCHANGED results, pc # "ack", pc' # "ack"
  PROVE  AgreedTo' = AgreedTo
BY DEF AgreedTo

\* connect ends: what was agreed to before still is, and the result if there is
\* one.
LEMMA AgreedToGrows ==
  ASSUME TypeOK, NEW agreed \in 0 .. MaxSessions, NEW ok \in BOOLEAN,
         Return(agreed, ok), pc = "ack" => agreed = offer
  PROVE  AgreedTo \cup {agreed} \subseteq AgreedTo'
<1>0. Appended(agreed, ok)
  BY DEF Return, TypeOK, Appended
<1>1. \A c \in DOMAIN results : c \in DOMAIN results' /\ results'[c] = results[c]
  BY <1>0 DEF Appended
<1>2. /\ Len(results) + 1 \in DOMAIN results'
      /\ results'[Len(results) + 1].agreedTo = agreed
  BY <1>0 DEF Appended
<1>3. agreed \in AgreedTo'
  BY <1>2 DEF AgreedTo
<1>4. ASSUME NEW s \in AgreedTo PROVE s \in AgreedTo'
  <2>1. CASE \E c \in DOMAIN results : s = results[c].agreedTo
    BY <1>1, <2>1 DEF AgreedTo
  <2>2. CASE pc = "ack" /\ s = offer
    BY <1>3, <2>2
  <2> QED
    BY <1>4, <2>1, <2>2 DEF AgreedTo
<1> QED
  BY <1>3, <1>4

\* A failed call adds nothing WrongOnlyByLateAck speaks of.
LEMMA FailedCall ==
  ASSUME TypeOK, IInv, NEW agreed \in 0 .. MaxSessions, Return(agreed, FALSE),
         UNCHANGED established
  PROVE  WrongOnlyByLateAck'
<1>0. Appended(agreed, FALSE)
  BY DEF Return, TypeOK, Appended
<1>1. EstablishedIds' = EstablishedIds
  BY DEF EstablishedIds
<1>2. SUFFICES ASSUME NEW c \in DOMAIN results', results'[c].ok,
                      results'[c].agreedTo \notin EstablishedIds
               PROVE  \E d \in 1 .. c - 1 : results'[d].agreedTo \in EstablishedIds
  BY <1>1 DEF WrongOnlyByLateAck
<1>3. c \in DOMAIN results
  BY <1>2, <1>0 DEF Appended
<1>4. PICK d \in 1 .. c - 1 : results[d].agreedTo \in EstablishedIds
  BY <1>2, <1>3, <1>0 DEF IInv, WrongOnlyByLateAck, Appended
<1>5. d \in DOMAIN results
  BY <1>3, <1>4, <1>0 DEF Appended
<1> QED
  BY <1>4, <1>5, <1>0 DEF Appended

\* A call that returns the session of an ACK that may be another's.
LEMMA ConfirmedCall ==
  ASSUME TypeOK, IInv, TakeAck
  PROVE  WrongOnlyByLateAck'
<1>1. Return(offer, TRUE) /\ pc = "ack" /\ EstablishedIds' = EstablishedIds
  BY DEF TakeAck, EstablishedIds, respVars
<1>0. Appended(offer, TRUE)
  BY <1>1 DEF Return, TypeOK, Appended
<1>2. SUFFICES ASSUME NEW c \in DOMAIN results', results'[c].ok,
                      results'[c].agreedTo \notin EstablishedIds
               PROVE  \E d \in 1 .. c - 1 : results'[d].agreedTo \in EstablishedIds
  BY <1>1 DEF WrongOnlyByLateAck
<1>3. CASE c \in DOMAIN results
  <2>1. PICK d \in 1 .. c - 1 : results[d].agreedTo \in EstablishedIds
    BY <1>1, <1>2, <1>3, <1>0 DEF IInv, WrongOnlyByLateAck, Appended
  <2>2. d \in DOMAIN results
    BY <1>1, <1>3, <2>1, <1>0 DEF Appended
  <2> QED
    BY <1>1, <2>1, <2>2, <1>0 DEF Appended
<1>4. CASE c = Len(results) + 1
  <2>1. PICK e \in established : TRUE
    BY DEF TakeAck, RightType, IInv, AcksInv
  <2>2. e.sid \in EstablishedIds /\ e.sid \in AgreedTo
    BY <2>1 DEF EstablishedIds, IInv, EstablishedWasAgreed
  <2>3. e.sid # offer
    BY <1>1, <1>2, <1>4, <2>2, <1>0 DEF Appended
  <2>4. PICK d \in DOMAIN results : e.sid = results[d].agreedTo
    BY <2>2, <2>3 DEF AgreedTo
  <2>5. d \in 1 .. c - 1 /\ results'[d] = results[d]
    BY <1>1, <1>4, <2>4, <1>0 DEF Appended
  <2> QED
    BY <2>2, <2>4, <2>5
<1> QED
  BY <1>1, <1>3, <1>4, <1>0 DEF Appended

\* What the steps of the initiator leave alone.
LEMMA InitiatorFrame ==
  ASSUME IInv, UNCHANGED <<iCaps, rCaps, respVars, toInitiator>>,
         AgreedTo \subseteq AgreedTo'
  PROVE  /\ \A m \in toInitiator' : m.type = "NEGOTIATE" => m.sid # 0
         /\ AcksInv' /\ CtxInv' /\ EstablishedWasAgreed' /\ SameTerms'
BY DEF IInv, OffersInv, AcksInv, CtxInv, EstablishedWasAgreed, SameTerms, EstablishedIds,
       respVars, Mine, Theirs

\* What the steps of the responder and the path leave alone, if they make up no
\* AGREE.
LEMMA ResponderFrame ==
  ASSUME IInv, UNCHANGED <<iCaps, rCaps, initVars>>, toResponder' \subseteq toResponder,
         established \subseteq established'
  PROVE  AgreesInv' /\ AgreedTo' = AgreedTo /\ WrongOnlyByLateAck'
<1>1. AgreedTo' = AgreedTo
  BY DEF initVars, AgreedTo
<1>2. EstablishedIds \subseteq EstablishedIds'
  BY DEF EstablishedIds
<1>3. WrongOnlyByLateAck'
  BY <1>2 DEF IInv, WrongOnlyByLateAck, initVars
<1> QED
  BY <1>1, <1>3 DEF IInv, AgreesInv

LEMMA InitiatorInv ==
  ASSUME TypeOK, IInv,
         \/ Connect \/ SendDiscover \/ TakeNegotiate \/ SendAgree
         \/ SendRaises \/ TakeAck \/ NoAnswer
  PROVE  IInv'
<1> USE HandshakeConstants
<1>0. 0 \in 0 .. MaxSessions /\ FALSE \in BOOLEAN /\ offer \in 0 .. MaxSessions
  BY DEF TypeOK
<1>1. UNCHANGED <<iCaps, rCaps, respVars, toInitiator>>
  BY DEF Connect, SendDiscover, TakeNegotiate, SendAgree, SendRaises, TakeAck, NoAnswer
<1>2. UNCHANGED established /\ EstablishedIds' = EstablishedIds
  BY <1>1 DEF respVars, EstablishedIds
<1>3. (UNCHANGED results) => WrongOnlyByLateAck'
  BY <1>2 DEF IInv, WrongOnlyByLateAck
<1>4. CASE Connect
  <2>1. AgreedTo' = AgreedTo /\ WrongOnlyByLateAck'
    BY <1>3, <1>4, AgreedToKept DEF Connect
  <2> QED
    BY <1>1, <1>4, <2>1, InitiatorFrame DEF Connect, IInv, OffersInv, AgreesInv
<1>5. CASE SendDiscover
  <2>1. AgreedTo' = AgreedTo /\ WrongOnlyByLateAck'
    BY <1>3, <1>5, AgreedToKept DEF SendDiscover
  <2> QED
    BY <1>1, <1>5, <2>1, InitiatorFrame
    DEF SendDiscover, IInv, OffersInv, AgreesInv, Bare
<1>6. CASE TakeNegotiate
  <2>1. CASE Empty(Mine)
    <3>1. Return(0, FALSE) /\ pc # "ack" /\ toResponder' = toResponder \cup {Bare("REJECT")}
      BY <1>6, <2>1 DEF TakeNegotiate
    <3>2. AgreedTo \subseteq AgreedTo' /\ WrongOnlyByLateAck'
      BY <1>0, <1>2, <3>1, AgreedToGrows, FailedCall
    <3> QED
      BY <1>1, <3>1, <3>2, InitiatorFrame DEF IInv, OffersInv, AgreesInv, Bare, Return
  <2>2. CASE ~Empty(Mine)
    <3>1. PICK m \in toInitiator : m.type = "NEGOTIATE" /\ offer' = m.sid
      BY <1>6, <2>2 DEF TakeNegotiate, RightType
    <3>2. pc # "ack" /\ pc' = "agree" /\ UNCHANGED <<results, toResponder>>
      BY <1>6, <2>2 DEF TakeNegotiate
    <3>3. AgreedTo' = AgreedTo /\ WrongOnlyByLateAck' /\ offer' # 0
      BY <1>3, <3>1, <3>2, AgreedToKept DEF IInv, OffersInv
    <3> QED
      BY <1>1, <3>2, <3>3, InitiatorFrame DEF IInv, OffersInv, AgreesInv
  <2> QED
    BY <2>1, <2>2
<1>7. CASE SendAgree
  <2>1. /\ pc = "agree" /\ pc' = "ack" /\ UNCHANGED <<offer, results>>
        /\ toResponder' = toResponder \cup {[type |-> "AGREE", sid |-> offer]}
    BY <1>7 DEF SendAgree
  <2>2. AgreedTo' = AgreedTo \cup {offer} /\ WrongOnlyByLateAck' /\ offer # 0
    BY <1>3, <2>1 DEF AgreedTo, IInv, OffersInv
  <2> QED
    BY <1>1, <2>1, <2>2, InitiatorFrame DEF IInv, OffersInv, AgreesInv
<1>8. CASE SendRaises
  <2>1. Return(0, FALSE) /\ pc # "ack" /\ UNCHANGED toResponder
    BY <1>8 DEF SendRaises
  <2>2. AgreedTo \subseteq AgreedTo' /\ WrongOnlyByLateAck'
    BY <1>0, <1>2, <2>1, AgreedToGrows, FailedCall
  <2> QED
    BY <1>1, <2>1, <2>2, InitiatorFrame DEF IInv, OffersInv, AgreesInv, Return
<1>9. CASE TakeAck
  <2>1. Return(offer, TRUE) /\ UNCHANGED toResponder /\ TRUE \in BOOLEAN
    BY <1>9 DEF TakeAck
  <2>2. AgreedTo \subseteq AgreedTo' /\ WrongOnlyByLateAck'
    BY <1>0, <1>9, <2>1, AgreedToGrows, ConfirmedCall
  <2> QED
    BY <1>1, <2>1, <2>2, InitiatorFrame DEF IInv, OffersInv, AgreesInv, Return
<1>10. CASE NoAnswer
  <2>1. UNCHANGED toResponder
    BY <1>10 DEF NoAnswer
  <2>2. CASE pc = "negotiate" /\ pc' = "discover" /\ UNCHANGED <<offer, results>>
    <3>1. AgreedTo' = AgreedTo /\ WrongOnlyByLateAck'
      BY <1>3, <2>2, AgreedToKept
    <3> QED
      BY <1>1, <2>1, <2>2, <3>1, InitiatorFrame DEF IInv, OffersInv, AgreesInv
  <2>3. CASE \/ pc = "negotiate" /\ Return(0, FALSE)
             \/ pc = "ack" /\ Return(offer, FALSE)
    <3>1. AgreedTo \subseteq AgreedTo' /\ WrongOnlyByLateAck'
      BY <1>0, <1>2, <2>3, AgreedToGrows, FailedCall
    <3> QED
      BY <1>1, <2>1, <2>3, <3>1, InitiatorFrame DEF IInv, OffersInv, AgreesInv, Return
  <2> QED
    BY <1>10, <2>2, <2>3 DEF NoAnswer
<1> QED
  BY <1>4, <1>5, <1>6, <1>7, <1>8, <1>9, <1>10

LEMMA ResponderInv ==
  ASSUME TypeOK, IInv, HandleDiscover \/ HandleAgree \/ Lose
  PROVE  IInv'
<1>1. CASE HandleDiscover
  <2>1. /\ UNCHANGED <<iCaps, rCaps, initVars, established>>
        /\ UNCHANGED <<toResponder, pc, offer>>
    BY <1>1 DEF HandleDiscover, respVars, initVars
  <2>2. AgreesInv' /\ AgreedTo' = AgreedTo /\ WrongOnlyByLateAck'
    BY <2>1, ResponderFrame
  <2>3. EstablishedWasAgreed' /\ SameTerms'
    BY <2>1, <2>2 DEF IInv, EstablishedWasAgreed, SameTerms, EstablishedIds, Mine
  <2>4. OffersInv' /\ AcksInv' /\ CtxInv'
    <3>1. CASE Empty(Theirs)
      BY <1>1, <2>1, <3>1
      DEF HandleDiscover, respVars, Bare, IInv, OffersInv, AcksInv, CtxInv, Theirs
    <3>2. CASE ~Empty(Theirs)
      <4>1. issued + 1 # 0 /\ Theirs' = Theirs
        BY <2>1 DEF TypeOK, Theirs
      <4> QED
        BY <1>1, <2>1, <3>2, <4>1
        DEF HandleDiscover, IInv, OffersInv, AcksInv, CtxInv
    <3> QED
      BY <3>1, <3>2
  <2> QED
    BY <2>2, <2>3, <2>4 DEF IInv
<1>2. CASE HandleAgree
  <2>1. /\ UNCHANGED <<iCaps, rCaps, initVars, ctx, toResponder, pc, offer>>
        /\ ctx # NoCtx
        /\ established' = established \cup {ctx}
        /\ toInitiator' = toInitiator \cup {Bare("ACK")}
    BY <1>2 DEF HandleAgree, initVars
  <2>2. AgreesInv' /\ AgreedTo' = AgreedTo /\ WrongOnlyByLateAck'
    BY <2>1, ResponderFrame
  <2>3. ctx.sid \in AgreedTo \ {0}
    BY <1>2 DEF HandleAgree, SameSession, IInv, AgreesInv
  <2>4. EstablishedWasAgreed'
    BY <2>1, <2>2, <2>3 DEF IInv, EstablishedWasAgreed, EstablishedIds
  <2>5. SameTerms' /\ CtxInv'
    <3>1. ctx.agreed = Mine /\ Mine' = Mine /\ Theirs' = Theirs
      BY <2>1, NegotiateCapsSymmetric DEF IInv, CtxInv, Mine, Theirs
    <3> QED
      BY <2>1, <3>1 DEF IInv, SameTerms, CtxInv
  <2>6. OffersInv' /\ AcksInv'
    BY <2>1 DEF IInv, OffersInv, AcksInv, Bare
  <2> QED
    BY <2>2, <2>4, <2>5, <2>6 DEF IInv
<1>3. CASE Lose
  <2>1. /\ UNCHANGED <<iCaps, rCaps, initVars, respVars, established, ctx, pc, offer>>
        /\ toResponder' \subseteq toResponder /\ toInitiator' \subseteq toInitiator
    BY <1>3 DEF Lose, initVars, respVars
  <2>2. AgreesInv' /\ AgreedTo' = AgreedTo /\ WrongOnlyByLateAck'
    BY <2>1, ResponderFrame
  <2> QED
    BY <2>1, <2>2 DEF IInv, OffersInv, AcksInv, CtxInv, EstablishedWasAgreed,
                      SameTerms, EstablishedIds, Mine, Theirs
<1> QED
  BY <1>1, <1>2, <1>3

LEMMA StepInv == TypeOK /\ IInv /\ [Next]_vars => IInv'
<1> SUFFICES ASSUME TypeOK, IInv, [Next]_vars PROVE IInv'
  OBVIOUS
<1>1. CASE UNCHANGED vars
  <2>1. /\ UNCHANGED <<iCaps, rCaps, pc, offer, results, ctx, established>>
        /\ UNCHANGED <<toResponder, toInitiator>>
    BY <1>1 DEF vars, initVars, respVars
  <2> QED
    BY <2>1 DEF IInv, OffersInv, AgreesInv, AcksInv, CtxInv, EstablishedWasAgreed,
                WrongOnlyByLateAck, SameTerms, EstablishedIds, AgreedTo, Mine, Theirs
<1>2. CASE Next
  BY <1>2, InitiatorInv, ResponderInv DEF Next
<1> QED
  BY <1>1, <1>2

LEMMA Invariance == Spec => []IInv
BY TypeCorrect, InitInv, StepInv, PTL DEF Spec

\* The responder establishes only what the initiator has agreed to, though each
\* repeated DISCOVER replaces its context (handshake.py:288-294).
THEOREM OnlyAgreedIsEstablished == Spec => []EstablishedWasAgreed
<1>1. IInv => EstablishedWasAgreed
  BY DEF IInv
<1> QED
  BY <1>1, Invariance, PTL

\* The one way for connect to return a session nobody has established is an ACK
\* meant for an earlier call (handshake.py:187).
THEOREM WrongByLateAckOnly == Spec => []WrongOnlyByLateAck
<1>1. IInv => WrongOnlyByLateAck
  BY DEF IInv
<1> QED
  BY <1>1, Invariance, PTL

\* Both ends have the same terms in mind (handshake.py:173, 256).
THEOREM TermsAgree == Spec => []SameTerms
<1>1. IInv => SameTerms
  BY DEF IInv
<1> QED
  BY <1>1, Invariance, PTL

(****************************************************************************)
(* The discovery service.                                                   *)
(****************************************************************************)

\* Both nodes work out the same terms, whichever of the two functions' arguments
\* they are.
LEMMA NegotiateCapabilitiesSymmetric ==
  ASSUME NEW a, NEW b
  PROVE  D!NegotiateCapabilities(a, b) = D!NegotiateCapabilities(b, a)
<1> DEFINE K(x, y) == {k \in DOMAIN x \cap DOMAIN y : D!Worth(k, x, y)}
<1>1. \A k : a[k] \cap b[k] = b[k] \cap a[k]
  OBVIOUS
<1>2. \A k : D!Worth(k, a, b) <=> D!Worth(k, b, a)
  BY <1>1 DEF D!Worth
<1>3. K(a, b) = K(b, a)
  BY <1>2
<1>4. [k \in K(a, b) |-> a[k] \cap b[k]] = [k \in K(b, a) |-> b[k] \cap a[k]]
  BY <1>1, <1>3
<1> QED
  BY <1>4 DEF D!NegotiateCapabilities

LEMMA AgreedSymmetric ==
  ASSUME NEW n, NEW p
  PROVE  D!Agreed(n, p) = D!Agreed(p, n)
BY NegotiateCapabilitiesSymmetric DEF D!Agreed

----------------------------------------------------------------------------
(* The inductive invariant.                                                 *)

\* A datagram of two different nodes.  The session in it has been made by the
\* node that is asked to agree, or has agreed, and the two have something in
\* common if it is an AGREE.
Sound(m) ==
  /\ m.from \in Nodes /\ m.to \in Nodes /\ m.from # m.to
  /\ m \in D!Datagrams(m.from, m.to)
  /\ m.type = "NEGOTIATE" => /\ m.session.maker = m.from /\ m.session.peer = m.to
                             /\ m.session.n \in 1 .. made[m.from][m.to]
  /\ m.type = "AGREE" => /\ m.session.maker = m.to /\ m.session.peer = m.from
                         /\ m.session.n \in 1 .. made[m.to][m.from]
                         /\ ~D!Empty(D!Agreed(m.to, m.from))

NetInv == \A m \in net : Sound(m)

PeersInv == peers = [n \in Nodes |-> peers[n]]

PendingInv == pending = [n \in Nodes |-> pending[n]]

MeetInv == D!TypeOK /\ NetInv /\ PeersInv /\ PendingInv /\ D!RegisteredWasOffered /\ D!RegisteredTerms

LEMMA MeetInit == ASSUME D!DiscoveryConstants, D!Init PROVE MeetInv
<1>1. D!TypeOK
  BY DEF D!DiscoveryConstants, D!Init, D!TypeOK
<1>2. NetInv /\ PeersInv /\ PendingInv
  BY DEF D!Init, NetInv, PeersInv, PendingInv
<1>3. D!RegisteredWasOffered /\ D!RegisteredTerms
  BY DEF D!Init, D!RegisteredWasOffered, D!RegisteredTerms
<1> QED
  BY <1>1, <1>2, <1>3 DEF MeetInv

\* A node never makes fewer sessions than it has made.
MadeGrows == /\ made \in [Nodes -> [Nodes -> Nat]] /\ made' \in [Nodes -> [Nodes -> Nat]]
             /\ \A n, p \in Nodes : made[n][p] <= made'[n][p]

LEMMA MadeKept == ASSUME D!DiscoveryConstants, D!TypeOK, UNCHANGED made PROVE MadeGrows
<1>1. 0 .. MaxOffers \subseteq Nat
  BY DEF D!DiscoveryConstants
<1>2. made \in [Nodes -> [Nodes -> Nat]]
  BY <1>1 DEF D!TypeOK
<1> QED
  BY <1>2 DEF MadeGrows

LEMMA SoundKept ==
  ASSUME MadeGrows, UNCHANGED caps, NEW m, Sound(m)
  PROVE  Sound(m)'
<1>1. m.from \in Nodes /\ m.to \in Nodes
  BY DEF Sound
<1>2. /\ made[m.from][m.to] \in Nat /\ made'[m.from][m.to] \in Nat
      /\ made[m.to][m.from] \in Nat /\ made'[m.to][m.from] \in Nat
      /\ made[m.from][m.to] <= made'[m.from][m.to]
      /\ made[m.to][m.from] <= made'[m.to][m.from]
  BY <1>1 DEF MadeGrows
<1>3. D!Agreed(m.to, m.from)' = D!Agreed(m.to, m.from)
  BY DEF D!Agreed
<1>4. \A k : /\ k \in 1 .. made[m.from][m.to] => k \in 1 .. made'[m.from][m.to]
             /\ k \in 1 .. made[m.to][m.from] => k \in 1 .. made'[m.to][m.from]
  BY <1>2
<1> QED
  BY <1>3, <1>4 DEF Sound, D!Datagrams, D!Datagram, D!Session, D!NoSession

\* The net of the next state: what was there, some of it gone, and what is sent.
LEMMA NetKept ==
  ASSUME MadeGrows, UNCHANGED caps, NetInv, \A m \in net' : m \in net \/ Sound(m)'
  PROVE  NetInv'
BY SoundKept DEF NetInv

\* A registry that stays as it is stays right.
LEMMA RegistryKept ==
  ASSUME MadeGrows, UNCHANGED <<caps, peers>>, D!TypeOK,
         D!RegisteredWasOffered, D!RegisteredTerms
  PROVE  D!RegisteredWasOffered' /\ D!RegisteredTerms'
<1>1. ASSUME NEW n \in Nodes, NEW p \in DOMAIN peers[n], NEW k \in 1 .. made[n][p]
      PROVE  k \in 1 .. made'[n][p]
  <2>1. p \in Nodes
    BY DEF D!TypeOK
  <2> QED
    BY <1>1, <2>1 DEF MadeGrows
<1> QED
  BY <1>1 DEF D!RegisteredWasOffered, D!RegisteredTerms, D!Agreed

----------------------------------------------------------------------------
(* One lemma per kind of step.                                              *)

\* What remains to be shown of a step that changes no registry.
LEMMA TypeFromParts ==
  ASSUME NetInv',
         /\ announcing' \in [Nodes -> BOOLEAN] /\ receiving' \in [Nodes -> BOOLEAN]
         /\ made' \in [Nodes -> [Nodes -> 0 .. MaxOffers]],
         \A n \in Nodes : DOMAIN peers'[n] \subseteq Nodes \ {n},
         \A n \in Nodes : \A s \in pending'[n] :
           s.maker = n /\ s.peer \in Nodes /\ s.n \in 1 .. made'[n][s.peer],
         losses' \in 0 .. MaxLosses, repeats' \in 0 .. MaxRepeats, faults' \in 0 .. MaxFaults
  PROVE  D!TypeOK'
<1>1. net' \subseteq UNION {D!Datagrams(p, n) : p, n \in Nodes}
  BY DEF NetInv, Sound
<1> QED
  BY <1>1 DEF D!TypeOK

\* A step that sends what is sound and leaves the sessions and registries alone.
LEMMA QuietStep ==
  ASSUME D!DiscoveryConstants, MeetInv, \A m \in net' : m \in net \/ Sound(m),
         UNCHANGED <<caps, made, pending, peers>>,
         announcing' \in [Nodes -> BOOLEAN], receiving' \in [Nodes -> BOOLEAN],
         losses' \in 0 .. MaxLosses, repeats' \in 0 .. MaxRepeats, faults' \in 0 .. MaxFaults
  PROVE  MeetInv'
<1>1. MadeGrows
  BY MadeKept DEF MeetInv
<1>2. NetInv'
  <2>1. \A m \in net' : m \in net \/ Sound(m)'
    BY <1>1, SoundKept
  <2> QED
    BY <1>1, <2>1, NetKept DEF MeetInv
<1>3. D!RegisteredWasOffered' /\ D!RegisteredTerms'
  BY <1>1, RegistryKept DEF MeetInv
<1>4. D!TypeOK'
  BY <1>2, TypeFromParts DEF MeetInv, D!TypeOK
<1> QED
  BY <1>2, <1>3, <1>4 DEF MeetInv, PeersInv, PendingInv

LEMMA DiscoverInv ==
  ASSUME D!DiscoveryConstants, MeetInv, NEW m \in net, D!HandleDiscover(m.to, m)
  PROVE  MeetInv'
<1>1. m.from \in Nodes /\ m.to \in Nodes /\ m.from # m.to
  BY DEF MeetInv, NetInv, Sound
<1>2. CASE D!Empty(D!Agreed(m.to, m.from))
  <2>1. /\ D!Take(m.to, m, {D!Datagram("REJECT", m.to, m.from, D!NoSession)})
        /\ UNCHANGED <<made, pending, peers>>
    BY <1>2 DEF D!HandleDiscover
  <2>2. Sound(D!Datagram("REJECT", m.to, m.from, D!NoSession))
    BY <1>1 DEF Sound, D!Datagram, D!Datagrams
  <2>3. /\ \A d \in net' : d \in net \/ Sound(d)
        /\ repeats' \in 0 .. MaxRepeats
        /\ UNCHANGED <<caps, announcing, receiving, losses, faults>>
    BY <2>1, <2>2 DEF D!Take, MeetInv, D!TypeOK, D!DiscoveryConstants
  <2> QED
    BY <2>1, <2>3, QuietStep DEF MeetInv, D!TypeOK
<1>3. CASE ~D!Empty(D!Agreed(m.to, m.from))
  <2>0. PICK k : k = made[m.to][m.from] + 1
    OBVIOUS
  <2> DEFINE s == D!Session(m.to, m.from, k)
             d == D!Datagram("NEGOTIATE", m.to, m.from, s)
  <2>1. /\ k <= MaxOffers
        /\ made' = [made EXCEPT ![m.to][m.from] = k]
        /\ D!Take(m.to, m, {d})
        /\ pending' = [pending EXCEPT ![m.to] = @ \cup {s}]
        /\ UNCHANGED peers
    BY <1>3, <2>0 DEF D!HandleDiscover, D!Session
  <2>2. made[m.to][m.from] \in 0 .. MaxOffers /\ k \in 1 .. MaxOffers
    BY <1>1, <2>0, <2>1 DEF MeetInv, D!TypeOK, D!DiscoveryConstants
  <2>3. made' \in [Nodes -> [Nodes -> 0 .. MaxOffers]] /\ MadeGrows
    <3>1. made \in [Nodes -> [Nodes -> 0 .. MaxOffers]]
      BY DEF MeetInv, D!TypeOK
    <3>2. made' \in [Nodes -> [Nodes -> 0 .. MaxOffers]]
      BY <1>1, <2>1, <2>2, <3>1
    <3>3. 0 .. MaxOffers \subseteq Nat
      BY DEF D!DiscoveryConstants
    <3>4. \A n, p \in Nodes : made[n][p] <= made'[n][p]
      BY <1>1, <2>0, <2>1, <2>2, <3>1
    <3> QED
      BY <3>1, <3>2, <3>3, <3>4 DEF MadeGrows
  <2>4. made'[m.to][m.from] = k
    BY <1>1, <2>1 DEF MeetInv, D!TypeOK
  <2>5. /\ \A e \in net' : e \in net \/ e = d
        /\ repeats' \in 0 .. MaxRepeats
        /\ UNCHANGED <<caps, announcing, receiving, losses, faults>>
    BY <2>1 DEF D!Take, MeetInv, D!TypeOK, D!DiscoveryConstants
  <2>6. NetInv'
    <3>1. d \in D!Datagrams(m.to, m.from)
      BY <2>2 DEF D!Datagrams, D!Datagram, D!Session
    <3>2. Sound(d)'
      BY <1>1, <2>2, <2>4, <3>1 DEF Sound, D!Datagram, D!Datagrams, D!Session, D!NoSession
    <3> QED
      BY <2>3, <2>5, <3>2, NetKept DEF MeetInv
  <2>7. D!RegisteredWasOffered' /\ D!RegisteredTerms'
    BY <2>1, <2>3, <2>5, RegistryKept DEF MeetInv
  <2>8. ASSUME NEW n \in Nodes, NEW t \in pending'[n]
        PROVE  t.maker = n /\ t.peer \in Nodes /\ t.n \in 1 .. made'[n][t.peer]
    <3>1. CASE t \in pending[n]
      <4>1. t.maker = n /\ t.peer \in Nodes /\ t.n \in 1 .. made[n][t.peer]
        BY <3>1 DEF MeetInv, D!TypeOK
      <4>2. /\ made[n][t.peer] \in Nat /\ made'[n][t.peer] \in Nat
            /\ made[n][t.peer] <= made'[n][t.peer]
        BY <2>3, <4>1 DEF MadeGrows
      <4> QED
        BY <4>1, <4>2
    <3>2. CASE n = m.to /\ t = s
      BY <1>1, <2>2, <2>4, <3>2 DEF D!Session
    <3>3. pending = [x \in Nodes |-> pending[x]]
      BY DEF MeetInv, PendingInv
    <3> QED
      BY <2>1, <2>8, <3>1, <3>2, <3>3
  <2>9. D!TypeOK'
    BY <2>1, <2>3, <2>5, <2>6, <2>8, TypeFromParts DEF MeetInv, D!TypeOK
  <2>10. PeersInv' /\ PendingInv'
    BY <2>1 DEF MeetInv, PeersInv, PendingInv
  <2> QED
    BY <2>6, <2>7, <2>9, <2>10 DEF MeetInv
<1> QED
  BY <1>2, <1>3

LEMMA NegotiateInv ==
  ASSUME D!DiscoveryConstants, MeetInv, NEW m \in net, D!HandleNegotiate(m.to, m)
  PROVE  MeetInv'
<1> DEFINE d == IF D!Empty(D!Agreed(m.to, m.from))
                THEN D!Datagram("REJECT", m.to, m.from, D!NoSession)
                ELSE D!Datagram("AGREE", m.to, m.from, D!AgreeWith(m))
<1>1. /\ m.type = "NEGOTIATE" /\ D!Take(m.to, m, {d})
      /\ UNCHANGED <<made, pending, peers>>
  BY DEF D!HandleNegotiate
<1>2. Sound(m)
  BY DEF MeetInv, NetInv
<1>3. Sound(d)
  <2>1. m.from \in Nodes /\ m.to \in Nodes /\ m.from # m.to
    BY <1>2 DEF Sound
  <2>2. CASE D!Empty(D!Agreed(m.to, m.from))
    BY <2>1, <2>2 DEF Sound, D!Datagram, D!Datagrams
  <2>3. CASE ~D!Empty(D!Agreed(m.to, m.from))
    <3>1. PICK k \in 1 .. MaxOffers : m.session = D!Session(m.from, m.to, k)
      BY <1>1, <1>2 DEF Sound, D!Datagrams, D!Datagram
    <3>2. d = D!Datagram("AGREE", m.to, m.from, D!Session(m.from, m.to, k))
      BY <2>3, <3>1 DEF D!AgreeWith
    <3>3. d \in D!Datagrams(m.to, m.from)
      BY <3>2 DEF D!Datagrams
    <3>4. D!Agreed(m.from, m.to) = D!Agreed(m.to, m.from)
      BY AgreedSymmetric
    <3> QED
      BY <1>1, <1>2, <2>1, <2>3, <3>1, <3>2, <3>3, <3>4 DEF Sound, D!Datagram, D!Session
  <2> QED
    BY <2>2, <2>3
<1>4. /\ \A e \in net' : e \in net \/ Sound(e)
      /\ repeats' \in 0 .. MaxRepeats
      /\ UNCHANGED <<caps, announcing, receiving, losses, faults>>
  BY <1>1, <1>3 DEF D!Take, MeetInv, D!TypeOK, D!DiscoveryConstants
<1> QED
  BY <1>1, <1>4, QuietStep DEF MeetInv, D!TypeOK

LEMMA AgreeInv ==
  ASSUME D!DiscoveryConstants, MeetInv, NEW m \in net, D!HandleAgree(m.to, m)
  PROVE  MeetInv'
<1> DEFINE ack == D!Datagram("ACK", m.to, m.from, D!NoSession)
<1>1. /\ m.type = "AGREE" /\ D!Take(m.to, m, {ack})
      /\ peers' = D!Register(m.to, m)
      /\ pending' = [pending EXCEPT ![m.to] = @ \ {m.session}]
      /\ UNCHANGED made
  BY DEF D!HandleAgree
<1>2. Sound(m) /\ m.from \in Nodes /\ m.to \in Nodes /\ m.from # m.to
  BY DEF MeetInv, NetInv, Sound
<1>3. /\ \A e \in net' : e \in net \/ e = ack
      /\ repeats' \in 0 .. MaxRepeats
      /\ UNCHANGED <<caps, announcing, receiving, losses, faults>>
  BY <1>1 DEF D!Take, MeetInv, D!TypeOK, D!DiscoveryConstants
<1>4. NetInv'
  <2>1. MadeGrows
    BY <1>1, MadeKept DEF MeetInv
  <2>2. Sound(ack)
    BY <1>2 DEF Sound, D!Datagram, D!Datagrams
  <2>3. Sound(ack)'
    BY <1>3, <2>1, <2>2, SoundKept
  <2> QED
    BY <1>3, <2>1, <2>3, NetKept DEF MeetInv
<1>5. /\ peers'[m.to] = [q \in DOMAIN peers[m.to] \cup {m.from} |->
                           IF q = m.from
                           THEN [session |-> m.session, agreed |-> D!Agreed(m.from, m.to)]
                           ELSE peers[m.to][q]]
      /\ \A n \in Nodes \ {m.to} : peers'[n] = peers[n]
      /\ PeersInv'
  BY <1>1, <1>2 DEF D!Register, MeetInv, PeersInv
<1>6. ASSUME NEW n \in Nodes, NEW p \in DOMAIN peers'[n]
      PROVE  /\ p \in Nodes \ {n}
             /\ peers'[n][p].session.maker = n /\ peers'[n][p].session.peer = p
             /\ peers'[n][p].session.n \in 1 .. made[n][p]
             /\ peers'[n][p].agreed = D!Agreed(n, p) /\ ~D!Empty(D!Agreed(n, p))
  <2>1. CASE n = m.to /\ p = m.from
    <3>1. /\ peers'[n][p].session = m.session
          /\ peers'[n][p].agreed = D!Agreed(p, n)
      BY <1>5, <2>1
    <3>2. D!Agreed(p, n) = D!Agreed(n, p)
      BY AgreedSymmetric
    <3> QED
      BY <1>1, <1>2, <2>1, <3>1, <3>2 DEF Sound
  <2>2. CASE ~(n = m.to /\ p = m.from)
    <3>1. p \in DOMAIN peers[n] /\ peers'[n][p] = peers[n][p]
      BY <1>5, <1>6, <2>2
    <3> QED
      BY <3>1 DEF MeetInv, D!TypeOK, D!RegisteredWasOffered, D!RegisteredTerms
  <2> QED
    BY <2>1, <2>2
<1>7. D!RegisteredWasOffered' /\ D!RegisteredTerms'
  <2>1. UNCHANGED <<caps, made>>
    BY <1>1, <1>3
  <2> QED
    BY <1>6, <2>1 DEF D!RegisteredWasOffered, D!RegisteredTerms, D!Agreed
<1>8. \A n \in Nodes : pending'[n] \subseteq pending[n]
  BY <1>1 DEF MeetInv, PendingInv
<1>9. D!TypeOK'
  BY <1>1, <1>3, <1>4, <1>6, <1>8, TypeFromParts DEF MeetInv, D!TypeOK
<1> QED
  BY <1>1, <1>4, <1>5, <1>7, <1>9 DEF MeetInv, PendingInv

\* The steps that are not handlers, or only log what they take.
LEMMA OtherInv ==
  ASSUME D!DiscoveryConstants, MeetInv,
         \/ \E n \in Nodes : D!Announce(n) \/ D!Stop(n)
         \/ \E m \in net : D!LogOnly(m.to, m) \/ D!SendRaises(m.to, m) \/ D!Lose(m)
  PROVE  MeetInv'
<1>1. CASE \E n \in Nodes : D!Announce(n)
  <2>1. PICK n \in Nodes : D!Announce(n)
    BY <1>1
  <2>2. \A p \in Nodes \ {n} : Sound(D!Datagram("DISCOVER", n, p, D!NoSession))
    BY <2>1 DEF Sound, D!Datagram, D!Datagrams
  <2>3. \A m \in net' : m \in net \/ Sound(m)
    BY <2>1, <2>2 DEF D!Announce
  <2>4. UNCHANGED <<caps, announcing, receiving, made, pending, peers,
                    losses, repeats, faults>>
    BY <2>1 DEF D!Announce
  <2> QED
    BY <2>3, <2>4, QuietStep DEF MeetInv, D!TypeOK
<1>2. CASE \E n \in Nodes : D!Stop(n)
  <2>1. \A m \in net' : m \in net
    BY <1>2 DEF D!Stop
  <2> QED
    BY <1>2, <2>1, QuietStep DEF D!Stop, MeetInv, D!TypeOK, D!DiscoveryConstants
<1>3. CASE \E m \in net : D!LogOnly(m.to, m)
  <2>1. PICK m \in net : D!LogOnly(m.to, m)
    BY <1>3
  <2>2. /\ \A d \in net' : d \in net
        /\ repeats' \in 0 .. MaxRepeats
        /\ UNCHANGED <<caps, announcing, receiving, made, pending, peers, losses, faults>>
    BY <2>1 DEF D!LogOnly, D!Take, MeetInv, D!TypeOK, D!DiscoveryConstants
  <2> QED
    BY <2>2, QuietStep DEF MeetInv, D!TypeOK
<1>4. CASE \E m \in net : D!SendRaises(m.to, m)
  <2>1. PICK m \in net : D!SendRaises(m.to, m)
    BY <1>4
  <2>2. /\ \A d \in net' : d \in net
        /\ receiving' = [receiving EXCEPT ![m.to] = FALSE]
        /\ faults < MaxFaults /\ faults' = faults + 1
        /\ UNCHANGED <<caps, announcing, made, pending, peers, losses, repeats>>
    BY <2>1 DEF D!SendRaises
  <2>3. faults' \in 0 .. MaxFaults
    BY <2>2 DEF MeetInv, D!TypeOK, D!DiscoveryConstants
  <2>4. receiving' \in [Nodes -> BOOLEAN]
    <3>1. receiving \in [Nodes -> BOOLEAN] /\ FALSE \in BOOLEAN
      BY DEF MeetInv, D!TypeOK
    <3> QED
      BY <2>2, <3>1
  <2> QED
    BY <2>2, <2>3, <2>4, QuietStep DEF MeetInv, D!TypeOK
<1>5. CASE \E m \in net : D!Lose(m)
  <2>1. \A m \in net' : m \in net
    BY <1>5 DEF D!Lose
  <2> QED
    BY <1>5, <2>1, QuietStep DEF D!Lose, MeetInv, D!TypeOK, D!DiscoveryConstants
<1> QED
  BY <1>1, <1>2, <1>3, <1>4, <1>5

LEMMA MeetStep == ASSUME D!DiscoveryConstants, MeetInv, [D!Next]_D!vars PROVE MeetInv'
<1>1. CASE UNCHANGED D!vars
  <2>1. \A m \in net' : m \in net
    BY <1>1 DEF D!vars
  <2> QED
    BY <1>1, <2>1, QuietStep DEF D!vars, MeetInv, D!TypeOK
<1>2. CASE D!Next
  BY <1>2, DiscoverInv, NegotiateInv, AgreeInv, OtherInv DEF D!Next, D!Handle
<1> QED
  BY <1>1, <1>2

LEMMA MeetInvariance == ASSUME D!DiscoveryConstants PROVE D!Spec => []MeetInv
<1>1. D!Init => MeetInv
  BY MeetInit
<1>2. MeetInv /\ [D!Next]_D!vars => MeetInv'
  BY MeetStep
<1> QED
  BY <1>1, <1>2, PTL DEF D!Spec

\* The types of a node's tables and of what is under way, and no session but
\* those made is pending (discovery_service.py:173, 195-202).
THEOREM DiscoveryTypeCorrect == ASSUME D!DiscoveryConstants PROVE D!Spec => []D!TypeOK
<1>1. MeetInv => D!TypeOK
  BY DEF MeetInv
<1> QED
  BY <1>1, MeetInvariance, PTL

\* No late or repeated AGREE puts a session into a registry that its owner has
\* not offered to that very peer (discovery_service.py:249-255).  So one exchange
\* registers one of its two ends, where README.md:277-289 and 448-450 show both
\* under one value: MCDiscovery has the run.
THEOREM OnlyOfferedIsRegistered ==
  ASSUME D!DiscoveryConstants PROVE D!Spec => []RegisteredWasOffered
<1>1. MeetInv => RegisteredWasOffered
  BY DEF MeetInv, RegisteredWasOffered, D!RegisteredWasOffered
<1> QED
  BY <1>1, MeetInvariance, PTL

\* The terms in a registry are those its owner works out itself, and are not
\* empty (discovery_service.py:179, 219, 253).
THEOREM TermsAreMutual == ASSUME D!DiscoveryConstants PROVE D!Spec => []RegisteredTerms
<1>1. MeetInv => RegisteredTerms
  BY DEF MeetInv, RegisteredTerms, D!RegisteredTerms, Agreed, D!Agreed, Empty, D!Empty,
         NegotiateCapabilities, D!NegotiateCapabilities, Worth, D!Worth
<1> QED
  BY <1>1, MeetInvariance, PTL

----------------------------------------------------------------------------
(* An exchange that is over does not come back.                             *)

BearsSession(m) == m.type \in {"NEGOTIATE", "AGREE"}

\* While no datagram has come twice, a session under way is pending at the node
\* that has made it, and in one datagram only.
OnceInv ==
  repeats = 0 =>
    /\ \A m \in net : BearsSession(m) => m.session \in pending[m.session.maker]
    /\ \A d, e \in net :
         BearsSession(d) /\ BearsSession(e) /\ d.session = e.session => d = e

\* A step that lets datagrams go, and sends some that bear no session.
LEMMA OnceKept ==
  ASSUME OnceInv, UNCHANGED pending, repeats' = 0 => repeats = 0,
         repeats' = 0 => \A m \in net' : m \in net \/ ~BearsSession(m)
  PROVE  OnceInv'
BY DEF OnceInv, BearsSession

LEMMA DiscoverOnce ==
  ASSUME D!DiscoveryConstants, MeetInv, OnceInv, NEW m \in net,
         D!HandleDiscover(m.to, m)
  PROVE  OnceInv'
<1>1. CASE D!Empty(D!Agreed(m.to, m.from))
  <2>1. ~BearsSession(D!Datagram("REJECT", m.to, m.from, D!NoSession))
    BY DEF BearsSession, D!Datagram
  <2>2. /\ D!Take(m.to, m, {D!Datagram("REJECT", m.to, m.from, D!NoSession)})
        /\ UNCHANGED pending
    BY <1>1 DEF D!HandleDiscover
  <2>3. repeats' = 0 => repeats = 0
    BY <2>2 DEF D!Take, MeetInv, D!TypeOK
  <2>4. \A d \in net' : d \in net \/ ~BearsSession(d)
    BY <2>1, <2>2 DEF D!Take
  <2> QED
    BY <2>2, <2>3, <2>4, OnceKept
<1>2. CASE ~D!Empty(D!Agreed(m.to, m.from))
  <2>0. PICK k : k = made[m.to][m.from] + 1
    OBVIOUS
  <2> DEFINE s == D!Session(m.to, m.from, k)
             x == D!Datagram("NEGOTIATE", m.to, m.from, s)
  <2>1. /\ D!Take(m.to, m, {x})
        /\ pending' = [pending EXCEPT ![m.to] = @ \cup {s}]
    BY <1>2, <2>0 DEF D!HandleDiscover, D!Session
  <2>2. /\ m.to \in Nodes /\ m.from \in Nodes
        /\ k \notin 1 .. made[m.to][m.from]
    <3>1. m.to \in Nodes /\ m.from \in Nodes
      BY DEF MeetInv, NetInv, Sound
    <3>2. made[m.to][m.from] \in Nat
      BY <3>1 DEF MeetInv, D!TypeOK, D!DiscoveryConstants
    <3> QED
      BY <2>0, <3>1, <3>2
  <2>3. /\ x.session = s /\ s.maker = m.to /\ s.peer = m.from /\ s.n = k
    BY DEF D!Datagram, D!Session
  <2>4. \A d \in net : BearsSession(d) => d.session # s
    BY <2>2, <2>3 DEF MeetInv, NetInv, Sound, BearsSession
  <2>5. s \in pending'[m.to] /\ \A n : n \in Nodes => pending[n] \subseteq pending'[n]
    BY <2>1, <2>2 DEF MeetInv, PendingInv
  <2>6. SUFFICES ASSUME repeats' = 0 PROVE OnceInv'
    BY DEF OnceInv
  <2>7. repeats = 0 /\ \A d \in net' : d \in net \/ d = x
    BY <2>1, <2>6 DEF D!Take, MeetInv, D!TypeOK
  <2>8. \A d \in net : BearsSession(d) => d.session.maker \in Nodes
    BY DEF MeetInv, NetInv, Sound, BearsSession
  <2>9. ASSUME NEW d \in net', BearsSession(d)
        PROVE  d.session \in pending'[d.session.maker]
    BY <2>3, <2>5, <2>7, <2>8, <2>9 DEF OnceInv
  <2>10. ASSUME NEW d \in net', NEW e \in net', BearsSession(d), BearsSession(e),
                d.session = e.session
         PROVE  d = e
    BY <2>3, <2>4, <2>7, <2>10 DEF OnceInv
  <2> QED
    BY <2>9, <2>10 DEF OnceInv, BearsSession
<1> QED
  BY <1>1, <1>2

LEMMA NegotiateOnce ==
  ASSUME D!DiscoveryConstants, MeetInv, OnceInv, NEW m \in net,
         D!HandleNegotiate(m.to, m)
  PROVE  OnceInv'
<1> DEFINE x == IF D!Empty(D!Agreed(m.to, m.from))
                THEN D!Datagram("REJECT", m.to, m.from, D!NoSession)
                ELSE D!Datagram("AGREE", m.to, m.from, D!AgreeWith(m))
<1>1. BearsSession(m) /\ D!Take(m.to, m, {x}) /\ UNCHANGED pending
  BY DEF D!HandleNegotiate, BearsSession
<1>2. BearsSession(x) => x.session = m.session
  BY DEF BearsSession, D!Datagram, D!AgreeWith
<1>3. SUFFICES ASSUME repeats' = 0 PROVE OnceInv'
  BY DEF OnceInv
<1>4. repeats = 0 /\ net' = (net \ {m}) \cup {x}
  BY <1>1, <1>3 DEF D!Take, MeetInv, D!TypeOK
<1>5. ASSUME NEW d \in net', BearsSession(d)
      PROVE  d.session \in pending'[d.session.maker]
  BY <1>1, <1>2, <1>4, <1>5 DEF OnceInv
<1>6. ASSUME NEW d \in net', NEW e \in net', BearsSession(d), BearsSession(e),
             d.session = e.session
      PROVE  d = e
  BY <1>1, <1>2, <1>4, <1>6 DEF OnceInv
<1> QED
  BY <1>5, <1>6 DEF OnceInv, BearsSession

LEMMA AgreeOnce ==
  ASSUME D!DiscoveryConstants, MeetInv, OnceInv, NEW m \in net,
         D!HandleAgree(m.to, m)
  PROVE  OnceInv'
<1> DEFINE ack == D!Datagram("ACK", m.to, m.from, D!NoSession)
<1>1. /\ BearsSession(m) /\ D!Take(m.to, m, {ack})
      /\ pending' = [pending EXCEPT ![m.to] = @ \ {m.session}]
  BY DEF D!HandleAgree, BearsSession
<1>2. ~BearsSession(ack)
  BY DEF BearsSession, D!Datagram
<1>3. SUFFICES ASSUME repeats' = 0 PROVE OnceInv'
  BY DEF OnceInv
<1>4. repeats = 0 /\ net' = (net \ {m}) \cup {ack}
  BY <1>1, <1>3 DEF D!Take, MeetInv, D!TypeOK
<1>5. \A s : s # m.session =>
        \A n \in Nodes : s \in pending[n] => s \in pending'[n]
  BY <1>1 DEF MeetInv, PendingInv
<1>6. \A d \in net : BearsSession(d) => d.session.maker \in Nodes
  BY DEF MeetInv, NetInv, Sound, BearsSession
<1>7. ASSUME NEW d \in net', BearsSession(d)
      PROVE  d.session \in pending'[d.session.maker]
  <2>1. d \in net /\ d # m
    BY <1>2, <1>4, <1>7
  <2>2. d.session # m.session
    BY <1>1, <1>4, <1>7, <2>1 DEF OnceInv
  <2> QED
    BY <1>4, <1>5, <1>6, <1>7, <2>1, <2>2 DEF OnceInv
<1>8. ASSUME NEW d \in net', NEW e \in net', BearsSession(d), BearsSession(e),
             d.session = e.session
      PROVE  d = e
  BY <1>2, <1>4, <1>8 DEF OnceInv
<1> QED
  BY <1>7, <1>8 DEF OnceInv, BearsSession

\* The steps that are not handlers, or only log what they take.
LEMMA OtherOnce ==
  ASSUME D!DiscoveryConstants, MeetInv, OnceInv,
         \/ \E n \in Nodes : D!Announce(n) \/ D!Stop(n)
         \/ \E m \in net : D!LogOnly(m.to, m) \/ D!SendRaises(m.to, m) \/ D!Lose(m)
  PROVE  OnceInv'
<1>1. \A m \in net' : m \in net \/ ~BearsSession(m)
  <2>1. \A n, p : ~BearsSession(D!Datagram("DISCOVER", n, p, D!NoSession))
    BY DEF BearsSession, D!Datagram
  <2> QED
    BY <2>1 DEF D!Announce, D!Stop, D!LogOnly, D!Take, D!SendRaises, D!Lose
<1>2. UNCHANGED pending
  BY DEF D!Announce, D!Stop, D!LogOnly, D!SendRaises, D!Lose
<1>3. repeats' = 0 => repeats = 0
  BY DEF D!Announce, D!Stop, D!LogOnly, D!Take, D!SendRaises, D!Lose, MeetInv, D!TypeOK
<1> QED
  BY <1>1, <1>2, <1>3, OnceKept

LEMMA OnceStep ==
  ASSUME D!DiscoveryConstants, MeetInv, OnceInv, [D!Next]_D!vars
  PROVE  OnceInv'
<1>1. CASE UNCHANGED D!vars
  BY <1>1 DEF D!vars, OnceInv, BearsSession
<1>2. CASE D!Next
  BY <1>2, DiscoverOnce, NegotiateOnce, AgreeOnce, OtherOnce DEF D!Next, D!Handle
<1> QED
  BY <1>1, <1>2

\* Only an AGREE changes a registry, and only the entry of the node it is from.
LEMMA RegistersPending ==
  ASSUME MeetInv, OnceInv, [D!Next]_D!vars, UNCHANGED peers \/ repeats = 0,
         NEW n \in Nodes, NEW p \in DOMAIN peers'[n],
         p \notin DOMAIN peers[n] \/ peers'[n][p].session # peers[n][p].session
  PROVE  peers'[n][p].session \in pending[n]
<1>1. PICK m \in net : D!HandleAgree(m.to, m) /\ repeats = 0
  BY DEF D!Next, D!vars, D!Handle, D!Announce, D!Stop, D!HandleDiscover,
         D!HandleNegotiate, D!LogOnly, D!SendRaises, D!Lose
<1>2. /\ m.to \in Nodes /\ m.session.maker = m.to /\ m.session \in pending[m.to]
  BY <1>1 DEF D!HandleAgree, MeetInv, NetInv, Sound, OnceInv, BearsSession
<1>3. /\ peers'[m.to] = [q \in DOMAIN peers[m.to] \cup {m.from} |->
                           IF q = m.from
                           THEN [session |-> m.session, agreed |-> D!Agreed(m.from, m.to)]
                           ELSE peers[m.to][q]]
      /\ \A x \in Nodes \ {m.to} : peers'[x] = peers[x]
  BY <1>1, <1>2 DEF D!HandleAgree, D!Register, MeetInv, PeersInv
<1>4. n = m.to /\ p = m.from /\ peers'[n][p].session = m.session
  BY <1>3
<1> QED
  BY <1>2, <1>4

\* An exchange that is over is not registered again, unless the path brings a
\* datagram twice, though _pending is not looked at
\* (discovery_service.py:195-202, 248-260).
THEOREM RegisteredOnlyOnce ==
  ASSUME D!DiscoveryConstants PROVE D!Spec => RegisteredOnce
<1>1. D!Init => OnceInv
  BY DEF D!Init, OnceInv
<1>2. MeetInv /\ OnceInv /\ [D!Next]_D!vars => OnceInv'
  BY OnceStep
<1>3. MeetInv /\ OnceInv /\ [D!Next]_D!vars =>
        [\A n \in Nodes : \A p \in DOMAIN peers'[n] :
           (p \notin DOMAIN peers[n] \/ peers'[n][p].session # peers[n][p].session)
             => peers'[n][p].session \in pending[n] \/ repeats > 0]_peers
  <2>1. MeetInv => repeats = 0 \/ repeats > 0
    BY DEF MeetInv, D!TypeOK, D!DiscoveryConstants
  <2> QED
    BY <2>1, RegistersPending
<1> QED
  BY <1>1, <1>2, <1>3, MeetInvariance, PTL DEF D!Spec, RegisteredOnce

----------------------------------------------------------------------------
(* Both together, as MCSessions lets them run: a session set up one way     *)
(* never disturbs what holds of the other.                                  *)

SessionsInv == TypeOK /\ IInv /\ MeetInv

LEMMA SessionsInit == MCInit => SessionsInv
<1>1. MCInit => Init /\ D!Init
  BY DEF MCInit
<1> QED
  BY <1>1, TypeInit, InitInv, MeetInit, DiscoveryConstantsHold DEF SessionsInv

LEMMA SessionsStep == SessionsInv /\ [MCNext]_allVars => SessionsInv'
<1> SUFFICES ASSUME SessionsInv, [MCNext]_allVars PROVE SessionsInv'
  OBVIOUS
<1>1. \/ [Next]_vars /\ UNCHANGED D!vars
      \/ [D!Next]_D!vars /\ UNCHANGED vars
  BY DEF MCNext, HandshakeStep, InDiscovery, allVars, discoveryVars, D!vars
<1>2. TypeOK' /\ IInv'
  BY <1>1, TypeStep, StepInv DEF SessionsInv
<1>3. MeetInv'
  BY <1>1, MeetStep, DiscoveryConstantsHold DEF SessionsInv
<1> QED
  BY <1>2, <1>3 DEF SessionsInv

LEMMA SessionsInvariance == MCSpec => []SessionsInv
BY SessionsInit, SessionsStep, PTL DEF MCSpec

\* The types of both, whichever of the two a program runs
\* (handshake.py:149, discovery_service.py:173).
THEOREM SessionsTyped == MCSpec => []TypesOK
<1>1. SessionsInv => TypesOK
  BY DEF SessionsInv, MeetInv, TypesOK
<1> QED
  BY <1>1, SessionsInvariance, PTL

\* And what always holds of what the two establish and register, for any
\* dictionaries and any number of nodes (handshake.py:103-112, 149-176;
\* discovery_service.py:179, 219, 249-255).
THEOREM SessionsSafe ==
  MCSpec => [](/\ EstablishedWasAgreed /\ WrongOnlyByLateAck /\ SameTerms
               /\ RegisteredWasOffered /\ RegisteredTerms)
<1>1. SessionsInv => /\ EstablishedWasAgreed /\ WrongOnlyByLateAck /\ SameTerms
                     /\ RegisteredWasOffered /\ RegisteredTerms
  BY DEF SessionsInv, IInv, MeetInv, RegisteredWasOffered, D!RegisteredWasOffered,
         RegisteredTerms, D!RegisteredTerms, Agreed, D!Agreed, Empty, D!Empty,
         NegotiateCapabilities, D!NegotiateCapabilities, Worth, D!Worth
<1> QED
  BY <1>1, SessionsInvariance, PTL
=============================================================================
