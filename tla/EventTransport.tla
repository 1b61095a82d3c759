---------------------------- MODULE EventTransport ----------------------------
(***************************************************************************)
(* How the drones' events reach handleMQTTEvent of mission-control: pulled *)
(* from a Pub/Sub subscription, pushed by Pub/Sub to an HTTP endpoint, or  *)
(* read from an MQTT broker.  Pub/Sub is external: it delivers a message   *)
(* again until it is acknowledged.  So is the broker: at QoS 0 it delivers *)
(* a message once or not at all.                                           *)
(*                                                                         *)
(* A pulled message goes from a callback, of which the library runs a      *)
(* bounded number, through an unbuffered channel to the one goroutine that *)
(* consumes it.  handleMQTTEvent starts a goroutine and returns, so to     *)
(* have been handed to it is all that the transport owes an event.         *)
(***************************************************************************)
EXTENDS Naturals, FiniteSets

CONSTANTS
  Event,        \* messages drones sent, each a message of its own
  Malformed,    \* those without the attribute deviceId or subFolder
  Pull,         \* the pull subscriptions
  Push, Mqtt,   \* names of the push subscription and the broker
  Via,          \* Via[e]: how event e travels
  Outstanding,  \* callbacks a subscription runs at once (1000)
  Faults,       \* "crash", "ack": what may fail in a run
  MaxMishaps    \* bound: crashes and lost acknowledgements

ASSUME TransportAssumption ==
  /\ Push \notin Pull /\ Mqtt \notin Pull /\ Push # Mqtt
  /\ Via \in [Event -> Pull \cup {Push, Mqtt}]
  /\ Malformed \subseteq {e \in Event : Via[e] # Mqtt}
  /\ Outstanding \in Nat \ {0}
  /\ MaxMishaps \in Nat

VARIABLES
  acked,        \* those Pub/Sub or the broker does not deliver any more
  callbacks,    \* callbacks[s]: the events whose callback waits to send
  consumer,     \* consumer[s]: where s's consumer is, and its event
  answering,    \* pushed events whose answer is on its way
  handed,       \* history: the events handed to handleMQTTEvent
  mishaps       \* crashes and lost acknowledgements so far

transportVars == <<acked, callbacks, consumer, answering, handed, mishaps>>

Receiving == [at |-> "recv"]
Returned == [at |-> "returned"]
Consuming == [at: {"handle", "ack"}, msg: Event]

TransportTypeOK ==
  /\ acked \subseteq Event
  /\ callbacks \in [Pull -> SUBSET Event]
  /\ \A s \in Pull : Cardinality(callbacks[s]) <= Outstanding
  /\ consumer \in [Pull -> {Receiving, Returned} \cup Consuming]
  /\ answering \subseteq Event
  /\ handed \subseteq Event \ Malformed
  /\ mishaps \in 0..MaxMishaps

TransportInit ==
  /\ acked = {} /\ handed = {} /\ answering = {}
  /\ callbacks = [s \in Pull |-> {}]
  /\ consumer = [s \in Pull |-> Receiving]
  /\ mishaps = 0

Mishap == mishaps < MaxMishaps /\ mishaps' = mishaps + 1

\* An acknowledgement may be lost on its way to Pub/Sub.
Acknowledge(e) ==
  \/ acked' = acked \cup {e} /\ UNCHANGED mishaps
  \/ "ack" \in Faults /\ Mishap /\ UNCHANGED acked

\* e is on its way to a subscriber, for the first time or again.
Deliverable(e, s) == e \notin acked /\ Via[e] = s

------------------------------------------------------------------------------
(* pullIoTCoreMessages *)

Callback(e, s) ==
  /\ Deliverable(e, s)
  /\ e \notin callbacks[s]
  /\ Cardinality(callbacks[s]) < Outstanding
  /\ callbacks' = [callbacks EXCEPT ![s] = @ \cup {e}]
  /\ UNCHANGED <<acked, consumer, answering, handed, mishaps>>

\* Mutant: the message is acknowledged as soon as it is received.
TakeAcknowledged(e, s) ==
  /\ consumer[s] = Receiving
  /\ e \in callbacks[s]
  /\ callbacks' = [callbacks EXCEPT ![s] = @ \ {e}]
  /\ consumer' = [consumer EXCEPT ![s] = [at |-> "handle", msg |-> e]]
  /\ acked' = acked \cup {e}
  /\ UNCHANGED <<answering, handed, mishaps>>

Take(e, s) ==
  /\ consumer[s] = Receiving
  /\ e \in callbacks[s]
  /\ callbacks' = [callbacks EXCEPT ![s] = @ \ {e}]
  /\ consumer' = [consumer EXCEPT ![s] = [at |-> "handle", msg |-> e]]
  /\ UNCHANGED <<acked, answering, handed, mishaps>>

\* Mutant: a message is handed on whether or not it has its attributes.
ConsumeUnchecked(s) ==
  /\ consumer[s].at = "handle"
  /\ handed' = handed \cup {consumer[s].msg}
  /\ consumer' = [consumer EXCEPT ![s] = [at |-> "ack", msg |-> @.msg]]
  /\ UNCHANGED <<acked, callbacks, answering, mishaps>>

\* A message without its attributes is acknowledged, and the consumer returns.
ConsumeMalformed(s) ==
  /\ consumer[s].at = "handle"
  /\ consumer[s].msg \in Malformed
  /\ Acknowledge(consumer[s].msg)
  /\ consumer' = [consumer EXCEPT ![s] = Returned]
  /\ UNCHANGED <<callbacks, answering, handed>>

Consume(s) ==
  /\ consumer[s].at = "handle"
  /\ consumer[s].msg \notin Malformed
  /\ handed' = handed \cup {consumer[s].msg}
  /\ consumer' = [consumer EXCEPT ![s] = [at |-> "ack", msg |-> @.msg]]
  /\ UNCHANGED <<acked, callbacks, answering, mishaps>>

Ack(s) ==
  /\ consumer[s].at = "ack"
  /\ Acknowledge(consumer[s].msg)
  /\ consumer' = [consumer EXCEPT ![s] = Receiving]
  /\ UNCHANGED <<callbacks, answering, handed>>

------------------------------------------------------------------------------
(* telemetryPostHandler, listenMQTTEvents *)

\* Mutant: a malformed message is answered with an error.
TelemetryRefuses(e) ==
  /\ Deliverable(e, Push) /\ e \notin answering
  /\ e \notin Malformed
  /\ handed' = handed \cup {e}
  /\ answering' = answering \cup {e}
  /\ UNCHANGED <<acked, callbacks, consumer, mishaps>>

\* The attributes missing is an event not handed on, and answered alike.
TelemetryPost(e) ==
  /\ Deliverable(e, Push) /\ e \notin answering
  /\ handed' = handed \cup ({e} \ Malformed)
  /\ answering' = answering \cup {e}
  /\ UNCHANGED <<acked, callbacks, consumer, mishaps>>

Answer(e) ==
  /\ e \in answering
  /\ Acknowledge(e)
  /\ answering' = answering \ {e}
  /\ UNCHANGED <<callbacks, consumer, handed>>

MqttMessage(e) ==
  /\ Deliverable(e, Mqtt)
  /\ acked' = acked \cup {e}
  /\ handed' = handed \cup {e}
  /\ UNCHANGED <<callbacks, consumer, answering, mishaps>>

MqttLoses(e) ==
  /\ Deliverable(e, Mqtt)
  /\ acked' = acked \cup {e}
  /\ UNCHANGED <<callbacks, consumer, answering, handed, mishaps>>

------------------------------------------------------------------------------
\* main starts a new consumer for each subscription.
CrashAndRestart ==
  /\ "crash" \in Faults
  /\ Mishap
  /\ callbacks' = [s \in Pull |-> {}]
  /\ consumer' = [s \in Pull |-> Receiving]
  /\ answering' = {}
  /\ UNCHANGED <<acked, handed>>

ConsumerGoesOn(s) ==
  \/ \E e \in Event : Take(e, s)
  \/ ConsumeMalformed(s) \/ Consume(s) \/ Ack(s)

TransportNext ==
  \/ \E e \in Event :
       \/ \E s \in Pull : Callback(e, s)
       \/ TelemetryPost(e) \/ Answer(e)
       \/ MqttMessage(e) \/ MqttLoses(e)
  \/ \E s \in Pull : ConsumerGoesOn(s)
  \/ CrashAndRestart

TransportSpec == TransportInit /\ [][TransportNext]_transportVars

\* Pub/Sub delivers what is not acknowledged, pulled or pushed, and the
\* consumer runs; the broker need not deliver.
FairTransportSpec ==
  /\ TransportSpec
  /\ \A s \in Pull :
       /\ WF_transportVars(\E e \in Event : Callback(e, s))
       /\ WF_transportVars(ConsumerGoesOn(s))
  /\ WF_transportVars(\E e \in Event : TelemetryPost(e) \/ Answer(e))

------------------------------------------------------------------------------
(* Properties *)

\* An event that Pub/Sub will not deliver again has reached handleMQTTEvent,
\* whatever was lost with a crash: none is acknowledged ahead of that.
AckedWasHanded ==
  \A e \in acked \ Malformed : Via[e] # Mqtt => e \in handed

Wholesome == {Push} \cup {s \in Pull : \A e \in Malformed : Via[e] # s}

\* Every event of a subscription whose messages are all well formed is handed
\* on at last, crashes, lost acknowledgements and redeliveries notwithstanding,
\* and whatever becomes of the other subscriptions; likewise what is pushed.
EventIsHanded ==
  \A e \in {x \in Event \ Malformed : Via[x] \in Wholesome} : <>(e \in handed)

\* "Pubsub message doesn't contain attribute": a malformed message that is
\* pushed is done with, and not delivered for ever.
MalformedIsDropped ==
  \A e \in {x \in Malformed : Via[x] = Push} : <>(e \in acked)

\* One message that "doesn't contain attribute deviceId" is that message's
\* problem: the others of its subscription are handed on.
OthersAreHanded ==
  \A e \in {x \in Event \ Malformed : Via[x] \in Pull} : <>(e \in handed)
==============================================================================
