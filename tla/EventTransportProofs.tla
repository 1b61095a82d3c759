-------------------------- MODULE EventTransportProofs --------------------------
(***************************************************************************)
(* Theorems about EventTransport, for any messages, subscriptions, ways,   *)
(* and any number of callbacks, crashes and lost acknowledgements.         *)
(***************************************************************************)
EXTENDS EventTransport, FiniteSetTheorems, TLAPS

------------------------------------------------------------------------------
(* Types *)

CallbacksFinite == \A s \in Pull : IsFiniteSet(callbacks[s])

TypeInv == TransportTypeOK /\ CallbacksFinite

\* What a consumer that has a message is about.
LEMMA ConsumerHas ==
  ASSUME TransportTypeOK, NEW s \in Pull, NEW at \in {"handle", "ack"},
         consumer[s].at = at
  PROVE  /\ consumer[s] = [at |-> at, msg |-> consumer[s].msg]
         /\ consumer[s].msg \in Event
<1>1. consumer[s] \in {Receiving, Returned} \cup Consuming
  BY DEF TransportTypeOK
<1>2. consumer[s] # Receiving /\ consumer[s] # Returned
  BY DEF Receiving, Returned
<1> QED  BY <1>1, <1>2 DEF Consuming

LEMMA ConsumingIs ==
  ASSUME NEW e \in Event
  PROVE  /\ [at |-> "handle", msg |-> e] \in Consuming
         /\ [at |-> "ack", msg |-> e] \in Consuming
BY DEF Consuming

LEMMA AcknowledgeType ==
  ASSUME NEW e \in Event, TransportTypeOK, Acknowledge(e)
  PROVE  acked' \subseteq Event /\ mishaps' \in 0..MaxMishaps
BY TransportAssumption DEF Acknowledge, Mishap, TransportTypeOK

LEMMA TypeStep == TypeInv /\ [TransportNext]_transportVars => TypeInv'
<1> SUFFICES ASSUME TypeInv, [TransportNext]_transportVars PROVE TypeInv'
  OBVIOUS
<1> USE DEF TypeInv, CallbacksFinite
<1>0. TransportTypeOK /\ Outstanding \in Nat
  BY TransportAssumption
<1>1. ASSUME NEW e \in Event, NEW s \in Pull, Callback(e, s) PROVE TypeInv'
  <2>1. /\ IsFiniteSet(callbacks[s] \cup {e})
        /\ Cardinality(callbacks[s]) \in Nat
        /\ Cardinality(callbacks[s] \cup {e}) = Cardinality(callbacks[s]) + 1
    BY <1>1, FS_AddElement, FS_CardinalityType DEF Callback
  <2>2. Cardinality(callbacks[s] \cup {e}) <= Outstanding
    BY <1>0, <1>1, <2>1 DEF Callback
  <2> QED  BY <1>1, <2>1, <2>2 DEF Callback, TransportTypeOK
<1>2. ASSUME NEW e \in Event, NEW s \in Pull, Take(e, s) PROVE TypeInv'
  <2>1. /\ IsFiniteSet(callbacks[s] \ {e})
        /\ Cardinality(callbacks[s]) \in Nat
        /\ Cardinality(callbacks[s] \ {e}) = Cardinality(callbacks[s]) - 1
    BY <1>2, FS_RemoveElement, FS_CardinalityType DEF Take
  <2>2. Cardinality(callbacks[s] \ {e}) <= Outstanding
    BY <1>0, <2>1 DEF TransportTypeOK
  <2> QED  BY <1>2, <2>1, <2>2, ConsumingIs DEF Take, TransportTypeOK
<1>3. ASSUME NEW s \in Pull, ConsumeMalformed(s) PROVE TypeInv'
  <2>1. acked' \subseteq Event /\ mishaps' \in 0..MaxMishaps
    BY <1>0, <1>3, ConsumerHas, AcknowledgeType DEF ConsumeMalformed
  <2> QED  BY <1>3, <2>1 DEF ConsumeMalformed, TransportTypeOK
<1>4. ASSUME NEW s \in Pull, Consume(s) PROVE TypeInv'
  <2>1. consumer[s].msg \in Event \ Malformed
    BY <1>0, <1>4, ConsumerHas DEF Consume
  <2> QED  BY <1>4, <2>1, ConsumingIs DEF Consume, TransportTypeOK
<1>5. ASSUME NEW s \in Pull, Ack(s) PROVE TypeInv'
  <2>1. acked' \subseteq Event /\ mishaps' \in 0..MaxMishaps
    BY <1>0, <1>5, ConsumerHas, AcknowledgeType DEF Ack
  <2> QED  BY <1>5, <2>1 DEF Ack, TransportTypeOK
<1>6. ASSUME NEW e \in Event, TelemetryPost(e) PROVE TypeInv'
  BY <1>6 DEF TelemetryPost, TransportTypeOK
<1>7. ASSUME NEW e \in Event, Answer(e) PROVE TypeInv'
  <2>1. acked' \subseteq Event /\ mishaps' \in 0..MaxMishaps
    BY <1>0, <1>7, AcknowledgeType DEF Answer
  <2> QED  BY <1>7, <2>1 DEF Answer, TransportTypeOK
<1>8. ASSUME NEW e \in Event, MqttMessage(e) PROVE TypeInv'
  <2>1. e \notin Malformed
    BY <1>8, TransportAssumption DEF MqttMessage, Deliverable
  <2> QED  BY <1>8, <2>1 DEF MqttMessage, TransportTypeOK
<1>9. ASSUME NEW e \in Event, MqttLoses(e) PROVE TypeInv'
  BY <1>9 DEF MqttLoses, TransportTypeOK
<1>10. CASE CrashAndRestart
  <2>1. IsFiniteSet({}) /\ Cardinality({}) = 0
    BY FS_EmptySet
  <2>2. mishaps' \in 0..MaxMishaps
    BY <1>10, TransportAssumption DEF CrashAndRestart, Mishap, TransportTypeOK
  <2> QED  BY <1>0, <1>10, <2>1, <2>2 DEF CrashAndRestart, TransportTypeOK
<1>11. CASE UNCHANGED transportVars
  BY <1>11 DEF transportVars, TransportTypeOK
<1> QED
  BY <1>1, <1>2, <1>3, <1>4, <1>5, <1>6, <1>7, <1>8, <1>9, <1>10, <1>11
     DEF TransportNext, ConsumerGoesOn

\* No more callbacks run than the subscription allows, and nothing malformed is
\* handed on.
THEOREM TransportTypeCorrect == TransportSpec => []TransportTypeOK
<1>1. TransportInit => TypeInv
  <2>1. IsFiniteSet({}) /\ Cardinality({}) = 0
    BY FS_EmptySet
  <2> QED
    BY <2>1, TransportAssumption DEF TransportInit, TypeInv, TransportTypeOK, CallbacksFinite
<1>2. TypeInv => TransportTypeOK
  BY DEF TypeInv
<1> QED  BY <1>1, <1>2, TypeStep, PTL DEF TransportSpec

------------------------------------------------------------------------------
(* Nothing is acknowledged ahead of being handed on *)

\* Whoever is about to acknowledge an event has handed it on.
HandedInv ==
  /\ AckedWasHanded
  /\ \A s \in Pull : consumer[s].at = "ack" => consumer[s].msg \in handed
  /\ answering \ Malformed \subseteq handed

LEMMA HandedStep ==
  TransportTypeOK /\ HandedInv /\ [TransportNext]_transportVars => HandedInv'
<1> SUFFICES ASSUME TransportTypeOK, HandedInv, [TransportNext]_transportVars
             PROVE  HandedInv'
  OBVIOUS
<1> USE DEF HandedInv, AckedWasHanded
<1>1. ASSUME NEW e \in Event, NEW s \in Pull, Callback(e, s) PROVE HandedInv'
  BY <1>1 DEF Callback
<1>2. ASSUME NEW e \in Event, NEW s \in Pull, Take(e, s) PROVE HandedInv'
  BY <1>2 DEF Take, TransportTypeOK
<1>3. ASSUME NEW s \in Pull, ConsumeMalformed(s) PROVE HandedInv'
  BY <1>3 DEF ConsumeMalformed, Acknowledge, TransportTypeOK, Returned
<1>4. ASSUME NEW s \in Pull, Consume(s) PROVE HandedInv'
  BY <1>4 DEF Consume, TransportTypeOK
<1>5. ASSUME NEW s \in Pull, Ack(s) PROVE HandedInv'
  BY <1>5 DEF Ack, Acknowledge, TransportTypeOK, Receiving
<1>6. ASSUME NEW e \in Event, TelemetryPost(e) PROVE HandedInv'
  BY <1>6 DEF TelemetryPost
<1>7. ASSUME NEW e \in Event, Answer(e) PROVE HandedInv'
  BY <1>7 DEF Answer, Acknowledge
<1>8. ASSUME NEW e \in Event, MqttMessage(e) \/ MqttLoses(e) PROVE HandedInv'
  BY <1>8 DEF MqttMessage, MqttLoses, Deliverable
<1>9. CASE CrashAndRestart
  BY <1>9 DEF CrashAndRestart, Receiving
<1>10. CASE UNCHANGED transportVars
  BY <1>10 DEF transportVars
<1> QED
  BY <1>1, <1>2, <1>3, <1>4, <1>5, <1>6, <1>7, <1>8, <1>9, <1>10
     DEF TransportNext, ConsumerGoesOn

\* An event of Pub/Sub's is delivered until it has been handed to
\* handleMQTTEvent: no crash can lose it.
THEOREM AckedIsHanded == TransportSpec => []AckedWasHanded
<1>1. TransportInit => HandedInv
  BY DEF TransportInit, HandedInv, AckedWasHanded, Receiving
<1>2. HandedInv => AckedWasHanded
  BY DEF HandedInv
<1> QED  BY <1>1, <1>2, HandedStep, TransportTypeCorrect, PTL DEF TransportSpec
===============================================================================
