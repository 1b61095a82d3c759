------------------------- MODULE WebsocketFanoutProofs -------------------------
(***************************************************************************)
(* Theorems about WebsocketFanout, for any subscribers, buffers of any     *)
(* capacity and any number of events.                                      *)
(***************************************************************************)
EXTENDS WebsocketFanout, TLAPS

------------------------------------------------------------------------------
(* Sequences *)

LEMMA AppendToThird ==
  ASSUME NEW S, NEW a \in Seq(S), NEW b \in Seq(S), NEW c \in Seq(S), NEW x \in S
  PROVE  a \o b \o Append(c, x) = Append(a \o b \o c, x)
OBVIOUS

LEMMA HeadToSecond ==
  ASSUME NEW S, NEW a \in Seq(S), NEW c \in Seq(S), c # << >>
  PROVE  /\ Head(c) \in S /\ Tail(c) \in Seq(S)
         /\ a \o <<Head(c)>> \o Tail(c) = a \o << >> \o c
OBVIOUS

LEMMA SecondToFirst ==
  ASSUME NEW S, NEW a \in Seq(S), NEW c \in Seq(S), NEW x \in S
  PROVE  Append(a, x) \o << >> \o c = a \o <<x>> \o c
OBVIOUS

LEMMA RunAppend ==
  ASSUME NEW f \in Nat, NEW n \in Nat
  PROVE  Append([i \in 1..n |-> f + i], f + n + 1) = [i \in 1..(n + 1) |-> f + i]
OBVIOUS

------------------------------------------------------------------------------
(* Types *)

\* Who is in the set, what a handler has that has not begun, and when messages
\* are offered.
FanoutInv ==
  /\ FanoutTypeOK
  /\ pending + sent <= MaxEvents
  /\ ~busy => offering = {}
  /\ \A s \in Sub :
       /\ at[s] \in {"select", "write", "leave"} <=> s \in subscribers
       /\ at[s] = "new" => got[s] = << >> /\ messages[s] = << >>
       /\ at[s] = "write" => writing[s] # 0
       /\ from[s] <= sent
       /\ s \in offering => from[s] < sent

LEMMA FanoutInvInit == FanoutInit => FanoutInv
<1> SUFFICES ASSUME FanoutInit PROVE FanoutInv
  OBVIOUS
<1>1. busy \in BOOLEAN /\ offering = {}
  BY Zenon DEF FanoutInit
<1>2. /\ pending \in 0..MaxEvents /\ sent \in 0..MaxEvents
      /\ pending + sent <= MaxEvents
  BY FanoutAssumption DEF FanoutInit
<1>3. /\ messages \in [Sub -> Seq(1..MaxEvents)] /\ got \in [Sub -> Seq(1..MaxEvents)]
      /\ writing \in [Sub -> 0..MaxEvents] /\ from \in [Sub -> 0..MaxEvents]
  BY FanoutAssumption DEF FanoutInit
<1>4. FanoutTypeOK
  BY <1>1, <1>2, <1>3 DEF FanoutInit, FanoutTypeOK
<1> QED  BY <1>1, <1>2, <1>4 DEF FanoutInit, FanoutInv

LEMMA FanoutInvStep == FanoutInv /\ [FanoutNext]_fanoutVars => FanoutInv'
<1> SUFFICES ASSUME FanoutInv, [FanoutNext]_fanoutVars PROVE FanoutInv'
  OBVIOUS
<1> USE FanoutAssumption DEF FanoutInv, FanoutTypeOK
<1>1. CASE StartPublisher  BY <1>1 DEF StartPublisher
<1>2. CASE LockToPublish  BY <1>2 DEF LockToPublish
<1>3. CASE Unlock  BY <1>3 DEF Unlock
<1>4. ASSUME NEW s \in Sub, Offer(s) PROVE FanoutInv'
  <2>1. sent \in 1..MaxEvents
    BY <1>4 DEF Offer
  <2>2. Append(messages[s], sent) \in Seq(1..MaxEvents)
    BY <2>1
  <2> QED  BY <1>4, <2>2 DEF Offer
<1>5. ASSUME NEW s \in Sub, CloseSlow(s) PROVE FanoutInv'
  BY <1>5 DEF CloseSlow
<1>6. ASSUME NEW s \in Sub, AddSubscriber(s) PROVE FanoutInv'
  BY <1>6 DEF AddSubscriber, publisher
<1>7. ASSUME NEW s \in Sub, TakeMessage(s) PROVE FanoutInv'
  <2>1. Head(messages[s]) \in 1..MaxEvents /\ Tail(messages[s]) \in Seq(1..MaxEvents)
    BY <1>7 DEF TakeMessage
  <2> QED  BY <1>7, <2>1 DEF TakeMessage, publisher
<1>8. ASSUME NEW s \in Sub, Written(s) PROVE FanoutInv'
  <2>1. Append(got[s], writing[s]) \in Seq(1..MaxEvents)
    BY <1>8 DEF Written
  <2> QED  BY <1>8, <2>1 DEF Written, publisher
<1>9. ASSUME NEW s \in Sub, WriteFails(s) \/ ContextDone(s) PROVE FanoutInv'
  BY <1>9 DEF WriteFails, ContextDone, publisher
<1>10. ASSUME NEW s \in Sub, RemoveSubscriber(s) PROVE FanoutInv'
  BY <1>10 DEF RemoveSubscriber, publisher
<1>11. CASE UNCHANGED fanoutVars
  BY <1>11 DEF fanoutVars, publisher
<1> QED
  BY <1>1, <1>2, <1>3, <1>4, <1>5, <1>6, <1>7, <1>8, <1>9, <1>10, <1>11
     DEF FanoutNext, PublisherNext, SubscriberNext

LEMMA FanoutInvariant == FanoutSpec => []FanoutInv
BY FanoutInvInit, FanoutInvStep, PTL DEF FanoutSpec

\* Messages are offered only to those in the set, which no handler enters or
\* leaves meanwhile.
THEOREM FanoutTypeCorrect == FanoutSpec => []FanoutTypeOK
<1>1. FanoutInv => FanoutTypeOK
  BY DEF FanoutInv
<1> QED  BY <1>1, FanoutInvariant, PTL

------------------------------------------------------------------------------
(* No gaps *)

Gapless(s) ==
  s \in subscribers /\ conn[s] = "open" /\ at[s] # "leave" =>
    Held(s) = [i \in 1..(Upto(s) - from[s]) |-> from[s] + i]

EventNumber == 1..MaxEvents

LEMMA GaplessForAll == FanoutInv => (GaplessWhileOpen <=> \A s \in Sub : Gapless(s))
BY DEF GaplessWhileOpen, Gapless, FanoutInv, FanoutTypeOK

\* A step that has nothing to do with s.
LEMMA GaplessKept ==
  ASSUME NEW s \in Sub, Gapless(s), s \in subscribers' => s \in subscribers,
         conn'[s] = "open" => conn[s] = "open", at'[s] = at[s],
         messages'[s] = messages[s], writing'[s] = writing[s],
         from'[s] = from[s], got'[s] = got[s], Upto(s)' = Upto(s)
  PROVE  Gapless(s)'
BY DEF Gapless, Held, InHand

LEMMA GaplessStep ==
  FanoutInv /\ GaplessWhileOpen /\ [FanoutNext]_fanoutVars => GaplessWhileOpen'
<1> SUFFICES ASSUME FanoutInv, GaplessWhileOpen, [FanoutNext]_fanoutVars
             PROVE  GaplessWhileOpen'
  OBVIOUS
<1>0. FanoutInv'
  BY FanoutInvStep
<1>a. /\ \A t \in Sub : Gapless(t)
      /\ (\A t \in Sub : Gapless(t)') => GaplessWhileOpen'
  BY <1>0, GaplessForAll DEF GaplessWhileOpen, Gapless, FanoutInv, FanoutTypeOK
<1> SUFFICES ASSUME NEW t \in Sub PROVE Gapless(t)'
  BY <1>a
<1>b. /\ Gapless(t)
      /\ got[t] \in Seq(1..MaxEvents) /\ messages[t] \in Seq(1..MaxEvents)
      /\ sent \in Nat /\ from[t] \in Nat /\ from[t] <= sent
  BY <1>a, FanoutAssumption DEF FanoutInv, FanoutTypeOK
<1>d. got[t] \in Seq(EventNumber) /\ messages[t] \in Seq(EventNumber)
  BY <1>b DEF EventNumber
\* A step of another subscriber's.
<1>c. ASSUME NEW s \in Sub, s # t, UNCHANGED publisher,
             subscribers' \subseteq subscribers \cup {s},
             \A u \in Sub \ {s} :
               conn'[u] = conn[u] /\ at'[u] = at[u] /\ messages'[u] = messages[u]
               /\ writing'[u] = writing[u] /\ from'[u] = from[u] /\ got'[u] = got[u]
      PROVE  Gapless(t)'
  BY <1>b, <1>c, GaplessKept DEF publisher, Upto
<1>1. CASE StartPublisher \/ Unlock
  BY <1>1, <1>b, GaplessKept DEF StartPublisher, Unlock, Upto
<1>2. CASE LockToPublish
  <2>1. CASE t \in subscribers
    <3>1. Upto(t)' = Upto(t)
      BY <1>2, <1>b, <2>1 DEF LockToPublish, Upto, FanoutInv
    <3> QED  BY <1>2, <1>b, <3>1, GaplessKept DEF LockToPublish
  <2>2. CASE t \notin subscribers
    BY <1>2, <2>2 DEF LockToPublish, Gapless
  <2> QED  BY <2>1, <2>2
<1>3. ASSUME NEW s \in Sub, Offer(s) PROVE Gapless(t)'
  <2>1. CASE s # t
    BY <1>3, <1>b, <2>1, GaplessKept DEF Offer, Upto, FanoutInv, FanoutTypeOK
  <2>2. CASE s = t
    <3> DEFINE f == from[t]
               n == sent - 1 - from[t]
               run == [i \in 1..n |-> f + i]
    <3>1. /\ messages'[t] = Append(messages[t], sent) /\ sent \in 1..MaxEvents
          /\ n \in Nat /\ f + n + 1 = sent
          /\ Upto(t) - f = n /\ Upto(t)' - f = n + 1
      BY <1>3, <1>b, <2>2, FanoutAssumption DEF Offer, Upto, FanoutInv, FanoutTypeOK
    <3>2. InHand(t)' = InHand(t) /\ InHand(t) \in Seq(EventNumber)
      <4>1. UNCHANGED <<at, writing, got>>
        BY <1>3 DEF Offer
      <4>2. at[t] = "write" => writing[t] \in EventNumber
        BY DEF FanoutInv, FanoutTypeOK, EventNumber
      <4>3. InHand(t)' = InHand(t)
        BY <4>1, Zenon DEF InHand
      <4> QED  BY <4>2, <4>3 DEF InHand
    <3>3. Held(t)' = Append(Held(t), sent)
      <4>1. Held(t)' = got[t] \o InHand(t) \o Append(messages[t], sent)
        BY <1>3, <3>1, <3>2 DEF Offer, Held
      <4>2. got[t] \o InHand(t) \o Append(messages[t], sent)
              = Append(got[t] \o InHand(t) \o messages[t], sent)
        <5>1. sent \in EventNumber
          BY <3>1 DEF EventNumber
        <5>2. PICK a \in Seq(EventNumber), b \in Seq(EventNumber), c \in Seq(EventNumber),
                   x \in EventNumber :
                a = got[t] /\ b = InHand(t) /\ c = messages[t] /\ x = sent
          BY <1>d, <3>2, <5>1
        <5>3. a \o b \o Append(c, x) = Append(a \o b \o c, x)
          BY AppendToThird
        <5> QED  BY <5>2, <5>3
      <4> QED  BY <4>1, <4>2 DEF Held
    <3>4. Append(run, sent) = [i \in 1..(n + 1) |-> f + i]
      BY <1>b, <3>1, RunAppend
    <3> QED  BY <1>3, <1>b, <2>2, <3>1, <3>3, <3>4 DEF Offer, Gapless
  <2> QED  BY <2>1, <2>2
<1>4. ASSUME NEW s \in Sub, CloseSlow(s) PROVE Gapless(t)'
  <2>1. CASE s # t
    BY <1>4, <1>b, <2>1, GaplessKept DEF CloseSlow, Upto, FanoutInv, FanoutTypeOK
  <2>2. CASE s = t
    BY <1>4, <2>2 DEF CloseSlow, Gapless, FanoutInv, FanoutTypeOK
  <2> QED  BY <2>1, <2>2
<1>5. ASSUME NEW s \in Sub, AddSubscriber(s) PROVE Gapless(t)'
  <2>1. CASE s # t
    BY <1>5, <1>c, <2>1 DEF AddSubscriber, FanoutInv, FanoutTypeOK
  <2>2. CASE s = t
    <3>1. /\ got'[t] = << >> /\ messages'[t] = << >> /\ InHand(t)' = << >>
          /\ Upto(t)' - from'[t] = 0
      BY <1>5, <1>b, <2>2 DEF AddSubscriber, publisher, InHand, Upto, FanoutInv, FanoutTypeOK
    <3>2. Held(t)' = << >>
      BY <3>1 DEF Held
    <3>3. [i \in 1..(Upto(t)' - from'[t]) |-> from'[t] + i] = << >>
      BY <3>1
    <3> QED  BY <3>2, <3>3 DEF Gapless
  <2> QED  BY <2>1, <2>2
<1>6. ASSUME NEW s \in Sub, TakeMessage(s) PROVE Gapless(t)'
  <2>1. CASE s # t
    BY <1>6, <1>c, <2>1 DEF TakeMessage, FanoutInv, FanoutTypeOK
  <2>2. CASE s = t
    <3>1. /\ InHand(t) = << >> /\ InHand(t)' = <<Head(messages[t])>>
          /\ messages'[t] = Tail(messages[t]) /\ got'[t] = got[t] /\ messages[t] # << >>
      BY <1>6, <2>2 DEF TakeMessage, InHand, FanoutInv, FanoutTypeOK
    <3>2. Held(t)' = Held(t)
      BY <1>b, <3>1, HeadToSecond DEF Held
    <3>3. Upto(t)' = Upto(t) /\ from'[t] = from[t] /\ UNCHANGED <<subscribers, conn>>
      BY <1>6 DEF TakeMessage, publisher, Upto
    <3>4. at[t] # "leave"
      BY <1>6, <2>2 DEF TakeMessage
    <3> QED  BY <1>b, <3>2, <3>3, <3>4 DEF Gapless
  <2> QED  BY <2>1, <2>2
<1>7. ASSUME NEW s \in Sub, Written(s) PROVE Gapless(t)'
  <2>1. CASE s # t
    BY <1>7, <1>c, <2>1 DEF Written, FanoutInv, FanoutTypeOK
  <2>2. CASE s = t
    <3>1. /\ InHand(t) = <<writing[t]>> /\ InHand(t)' = << >> /\ writing[t] \in 1..MaxEvents
          /\ messages'[t] = messages[t] /\ got'[t] = Append(got[t], writing[t])
      BY <1>7, <2>2 DEF Written, InHand, FanoutInv, FanoutTypeOK
    <3>2. Held(t)' = Held(t)
      <4>1. Held(t)' = Append(got[t], writing[t]) \o << >> \o messages[t]
        BY <3>1 DEF Held
      <4>2. Held(t) = got[t] \o <<writing[t]>> \o messages[t]
        BY <3>1 DEF Held
      <4>3. Append(got[t], writing[t]) \o << >> \o messages[t]
              = got[t] \o <<writing[t]>> \o messages[t]
        <5>1. writing[t] \in EventNumber
          BY <3>1 DEF EventNumber
        <5> QED  BY <1>d, <5>1, SecondToFirst
      <4> QED  BY <4>1, <4>2, <4>3
    <3>3. Upto(t)' = Upto(t) /\ from'[t] = from[t] /\ UNCHANGED <<subscribers, conn>>
      BY <1>7 DEF Written, publisher, Upto
    <3>4. at[t] # "leave"
      BY <1>7, <2>2 DEF Written
    <3> QED  BY <1>b, <3>2, <3>3, <3>4 DEF Gapless
  <2> QED  BY <2>1, <2>2
<1>8. ASSUME NEW s \in Sub, WriteFails(s) \/ ContextDone(s) PROVE Gapless(t)'
  <2>1. CASE s # t
    BY <1>8, <1>c, <2>1 DEF WriteFails, ContextDone, FanoutInv, FanoutTypeOK
  <2>2. CASE s = t
    BY <1>8, <2>2 DEF WriteFails, ContextDone, Gapless, FanoutInv, FanoutTypeOK
  <2> QED  BY <2>1, <2>2
<1>9. ASSUME NEW s \in Sub, RemoveSubscriber(s) PROVE Gapless(t)'
  <2>1. CASE s # t
    BY <1>9, <1>c, <2>1 DEF RemoveSubscriber, FanoutInv, FanoutTypeOK
  <2>2. CASE s = t
    BY <1>9, <2>2 DEF RemoveSubscriber, Gapless
  <2> QED  BY <2>1, <2>2
<1>10. CASE UNCHANGED fanoutVars
  BY <1>10, <1>b, GaplessKept DEF fanoutVars, publisher, Upto
<1> QED
  BY <1>1, <1>2, <1>3, <1>4, <1>5, <1>6, <1>7, <1>8, <1>9, <1>10
     DEF FanoutNext, PublisherNext, SubscriberNext

\* A subscriber misses no event for as long as its connection is open, whatever
\* the capacity of its buffer.
THEOREM GaplessStays == FanoutSpec => []GaplessWhileOpen
<1>1. FanoutInit => GaplessWhileOpen
  BY DEF FanoutInit, GaplessWhileOpen
<1> QED  BY <1>1, GaplessStep, FanoutInvariant, PTL DEF FanoutSpec

------------------------------------------------------------------------------
(* WebsocketFanout implements EventFeed *)

LEMMA FeedStep ==
  FanoutInv /\ GaplessWhileOpen /\ [FanoutNext]_fanoutVars => [Feed!FeedNext]_(Feed!feedVars)
<1> SUFFICES ASSUME FanoutInv, GaplessWhileOpen, [FanoutNext]_fanoutVars
             PROVE  [Feed!FeedNext]_(Feed!feedVars)
  OBVIOUS
<1>1. CASE LockToPublish
  BY <1>1 DEF LockToPublish, Feed!FeedNext, Feed!Send
<1>2. ASSUME NEW s \in Sub, AddSubscriber(s) PROVE Feed!FeedNext
  BY <1>2 DEF AddSubscriber, publisher, FanoutInv, Feed!FeedNext, Feed!Subscribe
<1>3. ASSUME NEW s \in Sub, Written(s) PROVE Feed!FeedNext
  <2> DEFINE n == Upto(s) - from[s]
             f == from[s]
  <2>1. /\ got[s] \in Seq(1..MaxEvents) /\ messages[s] \in Seq(1..MaxEvents)
        /\ writing[s] \in 1..MaxEvents
        /\ from[s] \in Nat /\ sent \in Nat /\ n \in Nat /\ from[s] + n <= sent
    BY <1>3, FanoutAssumption DEF Written, FanoutInv, FanoutTypeOK, Upto
  <2>2. got[s] \o <<writing[s]>> \o messages[s] = [i \in 1..n |-> from[s] + i]
    BY <1>3 DEF Written, GaplessWhileOpen, FanoutInv, Held, InHand
  <2>3. writing[s] = from[s] + Len(got[s]) + 1 /\ Len(got[s]) + 1 <= n
    <3>1. f \in Nat /\ n \in Nat /\ got[s] \o <<writing[s]>> \o messages[s] = [i \in 1..n |-> f + i]
      BY <2>1, <2>2
    <3>2. /\ got[s] \in Seq(EventNumber) /\ messages[s] \in Seq(EventNumber)
          /\ writing[s] \in EventNumber
      BY <2>1 DEF EventNumber
    <3> HIDE DEF n, f
    <3>3. PICK a \in Seq(EventNumber), c \in Seq(EventNumber), x \in EventNumber,
               k \in Nat, l \in Nat :
            a = got[s] /\ c = messages[s] /\ x = writing[s] /\ k = f /\ l = n
      BY <3>1, <3>2
    <3>4. a \o <<x>> \o c = [i \in 1..l |-> k + i]
      BY <3>1, <3>3
    <3>5. x = k + Len(a) + 1 /\ Len(a) + 1 <= l
      <4> DEFINE h == a \o <<x>> \o c
      <4>1. Len(h) = Len(a) + 1 + Len(c) /\ h[Len(a) + 1] = x
        OBVIOUS
      <4>2. Len(a) \in Nat /\ Len(c) \in Nat
        OBVIOUS
      <4>3. Len([i \in 1..l |-> k + i]) = l
        OBVIOUS
      <4>4. h = [i \in 1..l |-> k + i]
        BY <3>4
      <4> HIDE DEF h
      <4> QED  BY <4>1, <4>2, <4>3, <4>4
    <3>6. writing[s] = f + Len(got[s]) + 1 /\ Len(got[s]) + 1 <= n
      BY <3>3, <3>5
    <3> QED  BY <3>6 DEF f
  <2>4. Len(got[s]) \in Nat
    BY <2>1
  <2>5. from[s] + Len(got[s]) + 1 <= sent
    BY <2>1, <2>3, <2>4
  <2>6. /\ got' = [got EXCEPT ![s] = Append(@, from[s] + Len(got[s]) + 1)]
        /\ UNCHANGED <<sent, from>>
    BY <1>3, <2>3 DEF Written, publisher
  <2> QED  BY <2>5, <2>6 DEF Feed!FeedNext, Feed!Receive
<1>4. CASE UNCHANGED <<sent, from, got>>
  BY <1>4 DEF Feed!feedVars
<1> QED
  BY <1>1, <1>2, <1>3, <1>4 DEF FanoutNext, PublisherNext, SubscriberNext, fanoutVars,
     publisher, StartPublisher, Unlock, Offer, CloseSlow, TakeMessage, WriteFails,
     ContextDone, RemoveSubscriber

\* What users see is an event feed.
THEOREM FanoutImplementsFeed == FanoutSpec => ImplementsFeed
<1>1. FanoutInit => Feed!FeedInit
  BY DEF FanoutInit, Feed!FeedInit
<1> QED
  BY <1>1, FeedStep, FanoutInvariant, GaplessStays, PTL
     DEF FanoutSpec, ImplementsFeed, Feed!FeedSpec
===============================================================================
