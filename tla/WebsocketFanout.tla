--------------------------- MODULE WebsocketFanout ---------------------------
(***************************************************************************)
(* mission-control's websocket: publishMessage, which every event handler  *)
(* starts in a goroutine of its own, and subscribeWebsocket.  One mutex    *)
(* guards the set of subscribers.  A publisher holds it while it offers    *)
(* its message to each of them, never waiting for a buffer: a subscriber   *)
(* whose buffer is full has its connection closed, and stays in the set    *)
(* until its own loop finds out.                                           *)
(*                                                                         *)
(* Events are numbered in the order in which their publishers get the      *)
(* mutex.                                                                  *)
(***************************************************************************)
EXTENDS Naturals, Sequences

CONSTANTS
  Sub,         \* subscribers, one per websocket connection
  Buffer,      \* capacity of a subscriber's channel (32 in the code)
  MaxEvents    \* bound: events ever published

ASSUME FanoutAssumption == Buffer \in Nat \ {0} /\ MaxEvents \in Nat

VARIABLES
  pending,       \* publishers that have not yet got the mutex
  sent,          \* events published so far
  busy,          \* a publisher holds the mutex
  offering,      \* the subscribers it has not yet come to
  subscribers,   \* websocketSubscribers
  conn,          \* conn[s]: the connection, "open" or "closed"
  at,            \* at[s]: where the handler of s is
  messages,      \* messages[s]: the channel
  writing,       \* writing[s]: the message the handler of s took last, or 0
  from,          \* history: events published before s was added
  got            \* history: what reached the client

publisher == <<pending, sent, busy, offering>>
fanoutVars == <<publisher, subscribers, conn, at, messages, writing, from, got>>

FanoutTypeOK ==
  /\ pending \in 0..MaxEvents /\ sent \in 0..MaxEvents
  /\ busy \in BOOLEAN
  /\ offering \subseteq subscribers /\ subscribers \subseteq Sub
  /\ conn \in [Sub -> {"open", "closed"}]
  /\ at \in [Sub -> {"new", "select", "write", "leave", "gone"}]
  /\ messages \in [Sub -> Seq(1..MaxEvents)]
  /\ writing \in [Sub -> 0..MaxEvents]
  /\ from \in [Sub -> 0..MaxEvents]
  /\ got \in [Sub -> Seq(1..MaxEvents)]

FanoutInit ==
  /\ pending = 0 /\ sent = 0
  /\ busy = FALSE /\ offering = {}
  /\ subscribers = {}
  /\ conn = [s \in Sub |-> "open"]
  /\ at = [s \in Sub |-> "new"]
  /\ messages = [s \in Sub |-> << >>]
  /\ writing = [s \in Sub |-> 0]
  /\ from = [s \in Sub |-> 0]
  /\ got = [s \in Sub |-> << >>]

------------------------------------------------------------------------------
(* publishMessage *)

\* A handler is through with its work: go publishMessage(websocketMsg).
StartPublisher ==
  /\ pending + sent < MaxEvents
  /\ pending' = pending + 1
  /\ UNCHANGED <<sent, busy, offering, subscribers, conn, at, messages, writing, from, got>>

LockToPublish ==
  /\ pending > 0 /\ ~busy
  /\ pending' = pending - 1
  /\ sent' = sent + 1
  /\ busy' = TRUE
  /\ offering' = subscribers
  /\ UNCHANGED <<subscribers, conn, at, messages, writing, from, got>>

Offer(s) ==
  /\ s \in offering
  /\ Len(messages[s]) < Buffer
  /\ messages' = [messages EXCEPT ![s] = Append(@, sent)]
  /\ offering' = offering \ {s}
  /\ UNCHANGED <<pending, sent, busy, subscribers, conn, at, writing, from, got>>

\* Mutant: a slow subscriber just misses the message.
SkipSlow(s) ==
  /\ s \in offering
  /\ Len(messages[s]) >= Buffer
  /\ offering' = offering \ {s}
  /\ UNCHANGED <<pending, sent, busy, subscribers, conn, at, messages, writing, from, got>>

\* The buffer is full: the connection is closed, under the mutex.
CloseSlow(s) ==
  /\ s \in offering
  /\ Len(messages[s]) >= Buffer
  /\ conn' = [conn EXCEPT ![s] = "closed"]
  /\ offering' = offering \ {s}
  /\ UNCHANGED <<pending, sent, busy, subscribers, at, messages, writing, from, got>>

\* Mutant: a return without Unlock.
KeepLock ==
  /\ busy /\ offering = {}
  /\ UNCHANGED fanoutVars

Unlock ==
  /\ busy /\ offering = {}
  /\ busy' = FALSE
  /\ UNCHANGED <<pending, sent, offering, subscribers, conn, at, messages, writing, from, got>>

------------------------------------------------------------------------------
(* subscribeWebsocket *)

AddSubscriber(s) ==
  /\ at[s] = "new" /\ ~busy
  /\ subscribers' = subscribers \cup {s}
  /\ from' = [from EXCEPT ![s] = sent]
  /\ at' = [at EXCEPT ![s] = "select"]
  /\ UNCHANGED <<publisher, conn, messages, writing, got>>

TakeMessage(s) ==
  /\ at[s] = "select" /\ messages[s] # << >>
  /\ writing' = [writing EXCEPT ![s] = Head(messages[s])]
  /\ messages' = [messages EXCEPT ![s] = Tail(@)]
  /\ at' = [at EXCEPT ![s] = "write"]
  /\ UNCHANGED <<publisher, subscribers, conn, from, got>>

\* Mutant: the write is tried again after it succeeded.
WrittenTwice(s) ==
  /\ at[s] = "write" /\ conn[s] = "open"
  /\ got' = [got EXCEPT ![s] = Append(@, writing[s])]
  /\ UNCHANGED <<publisher, subscribers, conn, at, messages, writing, from>>

Written(s) ==
  /\ at[s] = "write" /\ conn[s] = "open"
  /\ got' = [got EXCEPT ![s] = Append(@, writing[s])]
  /\ at' = [at EXCEPT ![s] = "select"]
  /\ UNCHANGED <<publisher, subscribers, conn, messages, writing, from>>

\* Mutant: a failed write is logged and the loop continues.
WriteIgnored(s) ==
  /\ at[s] = "write"
  /\ at' = [at EXCEPT ![s] = "select"]
  /\ UNCHANGED <<publisher, subscribers, conn, messages, writing, from, got>>

\* The connection was closed, the client is gone or the write took longer
\* than two seconds.
WriteFails(s) ==
  /\ at[s] = "write"
  /\ at' = [at EXCEPT ![s] = "leave"]
  /\ UNCHANGED <<publisher, subscribers, conn, messages, writing, from, got>>

ContextDone(s) ==
  /\ at[s] = "select"
  /\ at' = [at EXCEPT ![s] = "leave"]
  /\ UNCHANGED <<publisher, subscribers, conn, messages, writing, from, got>>

\* Mutant: the set is changed without the mutex.
RemoveUnlocked(s) ==
  /\ at[s] = "leave"
  /\ subscribers' = subscribers \ {s}
  /\ conn' = [conn EXCEPT ![s] = "closed"]
  /\ at' = [at EXCEPT ![s] = "gone"]
  /\ UNCHANGED <<publisher, messages, writing, from, got>>

\* The deferred removeSubscriber and conn.Close.
RemoveSubscriber(s) ==
  /\ at[s] = "leave" /\ ~busy
  /\ subscribers' = subscribers \ {s}
  /\ conn' = [conn EXCEPT ![s] = "closed"]
  /\ at' = [at EXCEPT ![s] = "gone"]
  /\ UNCHANGED <<publisher, messages, writing, from, got>>

PublisherNext ==
  StartPublisher \/ LockToPublish \/ Unlock \/ \E s \in Sub : Offer(s) \/ CloseSlow(s)

SubscriberNext(s) ==
  \/ AddSubscriber(s) \/ TakeMessage(s) \/ Written(s) \/ WriteFails(s)
  \/ ContextDone(s) \/ RemoveSubscriber(s)

FanoutNext == PublisherNext \/ \E s \in Sub : SubscriberNext(s)

FanoutSpec == FanoutInit /\ [][FanoutNext]_fanoutVars

\* Goroutines run: a publisher with the mutex goes on, one that waits for it
\* gets it (Go's mutex does not starve a waiter), and a handler takes what is
\* in its channel, writes or fails within its two seconds, and leaves.
\* Nothing makes handlers publish or clients come and go.
FanoutFairness ==
  /\ SF_fanoutVars(LockToPublish)
  /\ WF_fanoutVars(Unlock \/ \E s \in Sub : Offer(s) \/ CloseSlow(s))
  /\ \A s \in Sub :
       /\ WF_fanoutVars(TakeMessage(s) \/ Written(s) \/ WriteFails(s))
       /\ SF_fanoutVars(RemoveSubscriber(s))

FairFanoutSpec == FanoutSpec /\ FanoutFairness

------------------------------------------------------------------------------
(* Properties *)

InHand(s) == IF at[s] = "write" THEN <<writing[s]>> ELSE << >>

\* What s has received or will, and how far it has been offered events.
Held(s) == got[s] \o InHand(s) \o messages[s]
Upto(s) == IF s \in offering THEN sent - 1 ELSE sent

\* As long as a subscriber's connection is open, what it has received, what
\* is being written and what waits in its channel are one unbroken run of
\* events from its subscription up to the last one offered to it: a full
\* buffer costs a subscriber its connection, never an event in the middle.
GaplessWhileOpen ==
  \A s \in subscribers : conn[s] = "open" /\ at[s] # "leave" =>
    Held(s) = [i \in 1..(Upto(s) - from[s]) |-> from[s] + i]

\* A subscriber that was too slow is out of the set in the end, its handler
\* finished, although closing its connection does not take it out.
SlowLeaves == \A s \in Sub : conn[s] = "closed" ~> s \notin subscribers

\* Every event that was to be published is, however slow the subscribers.
AllPublished == pending > 0 ~> pending = 0

Feed == INSTANCE EventFeed

\* Buffers, mutex and cut-off connections included, users see an event feed.
ImplementsFeed == Feed!FeedSpec
==============================================================================
