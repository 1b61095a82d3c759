--------------------------- MODULE VideoMultiplexer ---------------------------
(***************************************************************************)
(* video-multiplexer: the viewers of one drone's video share a session,    *)
(* that is an ffmpeg run by one goroutine whose output another goroutine   *)
(* multicasts to a channel per viewer.  The first viewer makes the         *)
(* session; the last one to leave asks for its end, which the ffmpeg       *)
(* goroutine notices with the next data.  Viewers, the two goroutines of a *)
(* session and those of the session after it all run at once.              *)
(*                                                                         *)
(* streams is keyed by device; different devices share nothing, so one     *)
(* device is modelled.  Every visit of a viewer has an id of its own, so   *)
(* one viewer is one visit.  Sessions are numbered as they are made.       *)
(***************************************************************************)
EXTENDS Naturals, Sequences

CONSTANTS
  Viewer,       \* visits to the video page
  Sessions,     \* bound: sessions ever made
  Lag,          \* a viewer further behind than this gets no more (5)
  Tries,        \* starts of ffmpeg in a session (15)
  MaxFrames,    \* bound: buffers an ffmpeg delivers in a session
  Faults        \* "mqtt": sending the start command may fail

ASSUME VideoAssumption ==
  /\ Sessions \in Nat /\ Lag \in Nat /\ MaxFrames \in Nat
  /\ Tries \in Nat \ {0}

VARIABLES
  streams,      \* the session stored for the device, or 0
  made,         \* sessions made so far
  ffmpeg,       \* ffmpeg[g]: where session g's ffmpeg goroutine is
  tries,        \* tries[g]: starts of ffmpeg so far
  frames,       \* frames[g]: buffers read so far
  multi,        \* multi[g]: the multicast goroutine: "off", "recv", "send", "done"
  frame,        \* frame[g]: the buffer it holds
  end,          \* the sessions whose end channel is closed
  listeners,    \* listeners[g]: the viewers subscribed to g
  viewer,       \* viewer[v]: where v's handler is
  session,      \* session[v]: the session v found, or 0
  channel,      \* channel[v]: the buffers waiting for v
  closed,       \* the viewers whose channel is closed
  last          \* last[v]: history, the last buffer sent to v

ffmpegVars == <<streams, made, ffmpeg, tries, frames>>
multiVars == <<multi, frame, listeners, end, channel, closed>>
viewerVars == <<viewer, session, last>>
videoVars == <<ffmpegVars, multiVars, viewerVars>>

Session == 1..Sessions

\* The ffmpeg goroutine has its session's entry until it is in FfmpegOut.
FfmpegOn == {"start", "run", "read", "send"}
FfmpegOut == {"delete", "stop", "close"}

VideoTypeOK ==
  /\ streams \in 0..made /\ made \in 0..Sessions
  /\ ffmpeg \in [Session -> {"off", "done"} \cup FfmpegOn \cup FfmpegOut]
  /\ tries \in [Session -> 0..Tries]
  /\ frames \in [Session -> 0..MaxFrames]
  /\ multi \in [Session -> {"off", "recv", "send", "done"}]
  /\ frame \in [Session -> 0..MaxFrames]
  /\ end \subseteq Session
  /\ listeners \in [Session -> SUBSET Viewer]
  /\ viewer \in [Viewer -> {"new", "found", "started", "first", "play", "leave", "gone"}]
  /\ session \in [Viewer -> 0..Sessions]
  /\ channel \in [Viewer -> Seq(1..MaxFrames)]
  /\ \A v \in Viewer : Len(channel[v]) <= Lag + 1
  /\ closed \subseteq Viewer
  /\ last \in [Viewer -> 0..MaxFrames]

VideoInit ==
  /\ streams = 0 /\ made = 0
  /\ ffmpeg = [g \in Session |-> "off"]
  /\ tries = [g \in Session |-> 0]
  /\ frames = [g \in Session |-> 0]
  /\ multi = [g \in Session |-> "off"]
  /\ frame = [g \in Session |-> 0]
  /\ end = {}
  /\ listeners = [g \in Session |-> {}]
  /\ viewer = [v \in Viewer |-> "new"]
  /\ session = [v \in Viewer |-> 0]
  /\ channel = [v \in Viewer |-> << >>]
  /\ closed = {}
  /\ last = [v \in Viewer |-> 0]

------------------------------------------------------------------------------
(* A viewer: streamVideo, getMultiplexer, subscribe, unsubscribe *)

Steps(v, x) == viewer' = [viewer EXCEPT ![v] = x]

\* streams.LoadOrStore
LoadOrStore(v) ==
  /\ viewer[v] = "new"
  /\ \/ streams # 0 /\ UNCHANGED <<streams, made>>
     \/ streams = 0 /\ made < Sessions /\ made' = made + 1 /\ streams' = made'
  /\ session' = [session EXCEPT ![v] = streams']
  /\ Steps(v, "found")
  /\ UNCHANGED <<ffmpeg, tries, frames, multiVars, last>>

\* once.Do(d.start)
GetMultiplexer(v) ==
  /\ viewer[v] = "found"
  /\ LET g == session[v] IN
       IF multi[g] = "off"
       THEN /\ multi' = [multi EXCEPT ![g] = "recv"]
            /\ ffmpeg' = [ffmpeg EXCEPT ![g] = "start"]
       ELSE UNCHANGED <<multi, ffmpeg>>
  /\ Steps(v, "started")
  /\ UNCHANGED <<streams, made, tries, frames, frame, listeners, end, channel, closed,
                 session, last>>

\* Nothing tells whether the session is still going on.
Subscribe(v) ==
  /\ viewer[v] = "started"
  /\ listeners' = [listeners EXCEPT ![session[v]] = @ \cup {v}]
  /\ Steps(v, "first")
  /\ UNCHANGED <<ffmpegVars, multi, frame, end, channel, closed, session, last>>

\* A buffer is taken and sent; the first goes out as magic bytes.
ViewerSends(v) ==
  /\ viewer[v] \in {"first", "play"}
  /\ channel[v] # << >>
  /\ last' = [last EXCEPT ![v] = Head(channel[v])]
  /\ channel' = [channel EXCEPT ![v] = Tail(@)]
  /\ Steps(v, "play")
  /\ UNCHANGED <<ffmpegVars, multi, frame, listeners, end, closed, session>>

\* The client is gone, which only a failing send shows.
ViewerSendFails(v) ==
  /\ viewer[v] \in {"first", "play"}
  /\ channel[v] # << >>
  /\ channel' = [channel EXCEPT ![v] = Tail(@)]
  /\ Steps(v, "leave")
  /\ UNCHANGED <<ffmpegVars, multi, frame, listeners, end, closed, session, last>>

\* The channel is closed and empty: the loop ends, or the first buffer is nil
\* and its use panics; either way the deferred unsubscribe runs.
ViewerEnds(v) ==
  /\ viewer[v] \in {"first", "play"}
  /\ channel[v] = << >> /\ v \in closed
  /\ Steps(v, "leave")
  /\ UNCHANGED <<ffmpegVars, multiVars, session, last>>

\* Mutant: the last viewer takes the session out of streams itself.
UnsubscribeDeletes(v) ==
  /\ viewer[v] = "leave"
  /\ LET g == session[v] IN
       /\ listeners' = [listeners EXCEPT ![g] = @ \ {v}]
       /\ end' = IF listeners'[g] = {} THEN end \cup {g} ELSE end
       /\ streams' = IF listeners'[g] = {} THEN 0 ELSE streams
  /\ Steps(v, "gone")
  /\ UNCHANGED <<made, ffmpeg, tries, frames, multi, frame, channel, closed, session, last>>

\* Whoever leaves nobody behind closes end; to close it again panics, which
\* net/http recovers, with the lock released.
Unsubscribe(v) ==
  /\ viewer[v] = "leave"
  /\ LET g == session[v] IN
       /\ listeners' = [listeners EXCEPT ![g] = @ \ {v}]
       /\ end' = IF listeners'[g] = {} THEN end \cup {g} ELSE end
  /\ Steps(v, "gone")
  /\ UNCHANGED <<ffmpegVars, multi, frame, channel, closed, session, last>>

------------------------------------------------------------------------------
(* The ffmpeg goroutine: startffmpegV2 *)

Ffmpeg(g, x) == ffmpeg' = [ffmpeg EXCEPT ![g] = x]

StartSent(g) ==
  /\ ffmpeg[g] = "start"
  /\ Ffmpeg(g, "run")
  /\ UNCHANGED <<streams, made, tries, frames, multiVars, viewerVars>>

\* The channel is closed but the session stays in streams.
StartNotSent(g) ==
  /\ "mqtt" \in Faults
  /\ ffmpeg[g] = "start"
  /\ Ffmpeg(g, "done")
  /\ UNCHANGED <<streams, made, tries, frames, multiVars, viewerVars>>

\* The next try, if any is left, starts ffmpeg or fails to.
Try(g) ==
  /\ ffmpeg[g] = "run" /\ tries[g] < Tries
  /\ tries' = [tries EXCEPT ![g] = @ + 1]
  /\ Ffmpeg(g, "read") \/ Ffmpeg(g, "run")
  /\ UNCHANGED <<streams, made, frames, multiVars, viewerVars>>

GiveUp(g) ==
  /\ ffmpeg[g] = "run" /\ tries[g] = Tries
  /\ Ffmpeg(g, "delete")
  /\ UNCHANGED <<streams, made, tries, frames, multiVars, viewerVars>>

\* ffmpeg delivers; end is looked at now and only now.
ReadData(g) ==
  /\ ffmpeg[g] = "read" /\ g \notin end
  /\ frames[g] < MaxFrames
  /\ frames' = [frames EXCEPT ![g] = @ + 1]
  /\ Ffmpeg(g, "send")
  /\ UNCHANGED <<streams, made, tries, multiVars, viewerVars>>

\* Mutant: the clean-up is not deferred.
KillOnly(g) ==
  /\ ffmpeg[g] = "read" /\ g \in end
  /\ Ffmpeg(g, "close")
  /\ UNCHANGED <<streams, made, tries, frames, multiVars, viewerVars>>

KillFfmpeg(g) ==
  /\ ffmpeg[g] = "read" /\ g \in end
  /\ Ffmpeg(g, "delete")
  /\ UNCHANGED <<streams, made, tries, frames, multiVars, viewerVars>>

FfmpegExits(g) ==
  /\ ffmpeg[g] = "read"
  /\ Ffmpeg(g, "run")
  /\ UNCHANGED <<streams, made, tries, frames, multiVars, viewerVars>>

\* streams.Delete(deviceID): by device, whatever session is stored.
DeleteStream(g) ==
  /\ ffmpeg[g] = "delete"
  /\ streams' = 0
  /\ Ffmpeg(g, "stop")
  /\ UNCHANGED <<made, tries, frames, multiVars, viewerVars>>

\* The stop command is sent, or not; the goroutine goes on alike.
SendStop(g) ==
  /\ ffmpeg[g] = "stop"
  /\ Ffmpeg(g, "close")
  /\ UNCHANGED <<streams, made, tries, frames, multiVars, viewerVars>>

CloseStream(g) ==
  /\ ffmpeg[g] = "close"
  /\ Ffmpeg(g, "done")
  /\ UNCHANGED <<streams, made, tries, frames, multiVars, viewerVars>>

------------------------------------------------------------------------------
(* The multicast goroutine *)

\* The unbuffered inStream hands a buffer over.
HandOver(g) ==
  /\ ffmpeg[g] = "send" /\ multi[g] = "recv"
  /\ frame' = [frame EXCEPT ![g] = frames[g]]
  /\ multi' = [multi EXCEPT ![g] = "send"]
  /\ Ffmpeg(g, "read")
  /\ UNCHANGED <<streams, made, tries, frames, listeners, end, channel, closed, viewerVars>>

\* Mutant: nobody is too slow.
MulticastToAll(g) ==
  /\ multi[g] = "send"
  /\ channel' = [v \in Viewer |->
       IF v \in listeners[g] THEN Append(channel[v], frame[g]) ELSE channel[v]]
  /\ multi' = [multi EXCEPT ![g] = "recv"]
  /\ UNCHANGED <<ffmpegVars, frame, listeners, end, closed, viewerVars>>

\* Mutant: when somebody lags, the buffer is multicast once more.
MulticastAgain(g) ==
  /\ multi[g] = "send"
  /\ channel' = [v \in Viewer |->
       IF v \in listeners[g] /\ Len(channel[v]) <= Lag
       THEN Append(channel[v], frame[g]) ELSE channel[v]]
  /\ multi' = [multi EXCEPT ![g] =
       IF \E v \in listeners[g] : Len(channel[v]) > Lag THEN "send" ELSE "recv"]
  /\ UNCHANGED <<ffmpegVars, frame, listeners, end, closed, viewerVars>>

\* The lock is held throughout; who lags misses the buffer.
Multicast(g) ==
  /\ multi[g] = "send"
  /\ channel' = [v \in Viewer |->
       IF v \in listeners[g] /\ Len(channel[v]) <= Lag
       THEN Append(channel[v], frame[g]) ELSE channel[v]]
  /\ multi' = [multi EXCEPT ![g] = "recv"]
  /\ UNCHANGED <<ffmpegVars, frame, listeners, end, closed, viewerVars>>

\* Mutant: the end of inStream is the end of the goroutine.
LeaveListeners(g) ==
  /\ multi[g] = "recv" /\ ffmpeg[g] = "done"
  /\ multi' = [multi EXCEPT ![g] = "done"]
  /\ UNCHANGED <<ffmpegVars, frame, listeners, end, channel, closed, viewerVars>>

CloseListeners(g) ==
  /\ multi[g] = "recv" /\ ffmpeg[g] = "done"
  /\ closed' = closed \cup listeners[g]
  /\ multi' = [multi EXCEPT ![g] = "done"]
  /\ UNCHANGED <<ffmpegVars, frame, listeners, end, channel, viewerVars>>

------------------------------------------------------------------------------
ViewerGoesOn(v) ==
  \/ GetMultiplexer(v) \/ Subscribe(v)
  \/ ViewerSends(v) \/ ViewerSendFails(v) \/ ViewerEnds(v) \/ Unsubscribe(v)

FfmpegGoesOn(g) ==
  \/ StartSent(g) \/ StartNotSent(g) \/ Try(g) \/ GiveUp(g)
  \/ ReadData(g) \/ KillFfmpeg(g) \/ FfmpegExits(g)
  \/ DeleteStream(g) \/ SendStop(g) \/ CloseStream(g)

MultiGoesOn(g) == HandOver(g) \/ Multicast(g) \/ CloseListeners(g)

VideoNext ==
  \/ \E v \in Viewer : LoadOrStore(v) \/ ViewerGoesOn(v)
  \/ \E g \in Session : FfmpegGoesOn(g) \/ MultiGoesOn(g)

VideoSpec == VideoInit /\ [][VideoNext]_videoVars

\* Every goroutine goes on when it can, and a running ffmpeg delivers data or
\* exits.  Nobody has to come and watch.
FairVideoSpec ==
  /\ VideoSpec
  /\ \A v \in Viewer : WF_videoVars(ViewerGoesOn(v))
  /\ \A g \in Session : WF_videoVars(FfmpegGoesOn(g)) /\ WF_videoVars(MultiGoesOn(g))

------------------------------------------------------------------------------
(* Properties *)

\* A drone's video is read by one ffmpeg at a time, and the session it
\* belongs to is the one the next viewer will find: no session, ending late,
\* takes away the entry of its successor although it deletes by device.
RunningIsFound ==
  \A g \in Session : ffmpeg[g] \in FfmpegOn \cup {"delete"} => streams = g

\* A viewer is sent buffers of its own session in the order in which ffmpeg
\* wrote them, none twice, whatever it misses when it lags.
Rising(q) == \A i, j \in DOMAIN q : i < j => q[i] < q[j]

InOrder ==
  \A v \in Viewer :
    /\ Rising(channel[v])
    /\ \A i \in DOMAIN channel[v] : last[v] < channel[v][i]

\* A session nobody listens to any more ends: ffmpeg is gone, and the next
\* viewer gets a session of its own, save where the start command could not
\* be sent and no ffmpeg was ever tried.
AbandonedEnds ==
  \A g \in Session :
    g \in end ~> (ffmpeg[g] = "done" /\ (streams # g \/ tries[g] = 0))

\* A viewer whose channel is closed is let go, and one that plays is not
\* left with a session that is over.
PlayerLetGo ==
  \A v \in Viewer :
    (viewer[v] = "play" /\ ffmpeg[session[v]] = "done") ~> viewer[v] = "gone"

\* "close all downstream listener channels": a viewer that subscribed to a
\* session is played to or let go.
SubscriberServed ==
  \A v \in Viewer : viewer[v] = "first" ~> viewer[v] # "first"
==============================================================================
