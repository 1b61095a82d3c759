------------------------------ MODULE EventFeed ------------------------------
(***************************************************************************)
(* What a user of mission-control's websocket may expect: events come in   *)
(* one order, the same for everybody; a subscriber gets them without a gap *)
(* or a repetition from the moment it subscribed, until it is cut off.     *)
(* Nothing is said about buffers, locks or slow connections.               *)
(* WebsocketFanout implements this module.                                 *)
(***************************************************************************)
EXTENDS Naturals, Sequences

CONSTANT Sub     \* subscribers

VARIABLES
  sent,          \* number of events so far; they are numbered in their order
  from,          \* from[s]: events sent before s subscribed
  got            \* got[s]: the events s has received

feedVars == <<sent, from, got>>

FeedInit ==
  /\ sent = 0
  /\ from = [s \in Sub |-> 0]
  /\ got = [s \in Sub |-> << >>]

Send ==
  /\ sent' = sent + 1
  /\ UNCHANGED <<from, got>>

Subscribe(s) ==
  /\ got[s] = << >>
  /\ from' = [from EXCEPT ![s] = sent]
  /\ UNCHANGED <<sent, got>>

\* The next event in order, if it has been sent.
Receive(s) ==
  LET next == from[s] + Len(got[s]) + 1 IN
  /\ next <= sent
  /\ got' = [got EXCEPT ![s] = Append(@, next)]
  /\ UNCHANGED <<sent, from>>

FeedNext == Send \/ \E s \in Sub : Subscribe(s) \/ Receive(s)

FeedSpec == FeedInit /\ [][FeedNext]_feedVars
==============================================================================
