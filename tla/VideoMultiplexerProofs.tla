------------------------- MODULE VideoMultiplexerProofs -------------------------
(***************************************************************************)
(* Theorems about VideoMultiplexer and VideoDrone, for any number of       *)
(* viewers, sessions, tries and buffers, any lag and any faults.           *)
(***************************************************************************)
EXTENDS VideoDrone, Integers, SequenceTheorems, TLAPS

------------------------------------------------------------------------------
(* Types *)

\* No more buffers wait than the lag allows, so that multicast never waits.
LEMMA AppendWithinLag ==
  ASSUME NEW q \in Seq(1..MaxFrames), NEW x \in 1..MaxFrames, Len(q) <= Lag
  PROVE  Append(q, x) \in Seq(1..MaxFrames) /\ Len(Append(q, x)) <= Lag + 1
BY VideoAssumption

\* Counters that go together: a buffer is read, handed over, multicast.
BuffersInOrder ==
  \A g \in Session :
    /\ frame[g] <= frames[g]
    /\ ffmpeg[g] = "send" => frame[g] < frames[g]
    /\ multi[g] = "send" => frame[g] # 0

\* Viewers that have a session have one that was made.
SessionsMade ==
  \A v \in Viewer : viewer[v] # "new" => session[v] \in 1..made

VideoInv == VideoTypeOK /\ BuffersInOrder /\ SessionsMade

LEMMA VideoInvInit == VideoInit => VideoInv
<1> SUFFICES ASSUME VideoInit PROVE VideoInv
  OBVIOUS
<1>1. /\ streams \in 0..made /\ made \in 0..Sessions
      /\ tries \in [Session -> 0..Tries]
      /\ frames \in [Session -> 0..MaxFrames]
      /\ frame \in [Session -> 0..MaxFrames]
  BY VideoAssumption DEF VideoInit
<1>2. /\ ffmpeg \in [Session -> {"off", "done"} \cup FfmpegOn \cup FfmpegOut]
      /\ multi \in [Session -> {"off", "recv", "send", "done"}]
      /\ end \subseteq Session
      /\ listeners \in [Session -> SUBSET Viewer]
      /\ viewer \in [Viewer -> {"new", "found", "started", "first", "play", "leave", "gone"}]
  BY DEF VideoInit
<1>3. /\ session \in [Viewer -> 0..Sessions]
      /\ channel \in [Viewer -> Seq(1..MaxFrames)]
      /\ \A v \in Viewer : Len(channel[v]) <= Lag + 1
      /\ closed \subseteq Viewer
      /\ last \in [Viewer -> 0..MaxFrames]
  BY VideoAssumption DEF VideoInit
<1>4. VideoTypeOK
  BY <1>1, <1>2, <1>3 DEF VideoTypeOK
<1>5. BuffersInOrder /\ SessionsMade
  BY DEF VideoInit, BuffersInOrder, SessionsMade
<1> QED  BY <1>4, <1>5 DEF VideoInv

LEMMA VideoInvStep == VideoInv /\ [VideoNext]_videoVars => VideoInv'
<1> SUFFICES ASSUME VideoInv, [VideoNext]_videoVars PROVE VideoInv'
  OBVIOUS
<1> USE VideoAssumption DEF VideoInv, VideoTypeOK, BuffersInOrder, SessionsMade
<1>1. ASSUME NEW v \in Viewer, LoadOrStore(v) PROVE VideoInv'
  BY <1>1 DEF LoadOrStore, Steps, multiVars
<1>2. ASSUME NEW v \in Viewer, GetMultiplexer(v) PROVE VideoInv'
  BY <1>2 DEF GetMultiplexer, Steps, FfmpegOn
<1>3. ASSUME NEW v \in Viewer, Subscribe(v) PROVE VideoInv'
  BY <1>3 DEF Subscribe, Steps, ffmpegVars
<1>4. ASSUME NEW v \in Viewer, ViewerSends(v) \/ ViewerSendFails(v) PROVE VideoInv'
  <2>1. /\ Head(channel[v]) \in 1..MaxFrames /\ Tail(channel[v]) \in Seq(1..MaxFrames)
        /\ Len(Tail(channel[v])) <= Lag + 1
    BY <1>4 DEF ViewerSends, ViewerSendFails
  <2>2. CASE ViewerSends(v)
    BY <2>1, <2>2 DEF ViewerSends, Steps, ffmpegVars
  <2>3. CASE ViewerSendFails(v)
    BY <2>1, <2>3 DEF ViewerSendFails, Steps, ffmpegVars
  <2> QED  BY <1>4, <2>2, <2>3
<1>5. ASSUME NEW v \in Viewer, ViewerEnds(v) PROVE VideoInv'
  BY <1>5 DEF ViewerEnds, Steps, ffmpegVars, multiVars
<1>6. ASSUME NEW v \in Viewer, Unsubscribe(v) PROVE VideoInv'
  <2>1. session[v] \in Session
    BY <1>6 DEF Unsubscribe, Session
  <2>2. listeners' \in [Session -> SUBSET Viewer] /\ end' \subseteq Session
    BY <1>6, <2>1 DEF Unsubscribe
  <2> QED  BY <1>6, <2>2 DEF Unsubscribe, Steps, ffmpegVars
\* A step of the ffmpeg goroutine to x that reads no buffer.
<1>7. ASSUME NEW g \in Session, NEW x \in {"run", "read", "delete", "stop", "close", "done"},
             Ffmpeg(g, x), streams' \in {streams, 0}, tries' \in [Session -> 0..Tries],
             UNCHANGED <<made, frames, multiVars, viewerVars>>
      PROVE  VideoInv'
  <2>1. ffmpeg' \in [Session -> {"off", "done"} \cup FfmpegOn \cup FfmpegOut]
    BY <1>7 DEF Ffmpeg, FfmpegOn, FfmpegOut
  <2>2. \A h \in Session : ffmpeg'[h] = "send" => ffmpeg[h] = "send"
    BY <1>7 DEF Ffmpeg
  <2>3. streams' \in 0..made
    BY <1>7
  <2> QED  BY <1>7, <2>1, <2>2, <2>3 DEF multiVars, viewerVars
<1>8. ASSUME NEW g \in Session,
             \/ StartSent(g) \/ StartNotSent(g) \/ Try(g) \/ GiveUp(g) \/ KillFfmpeg(g)
             \/ FfmpegExits(g) \/ DeleteStream(g) \/ SendStop(g) \/ CloseStream(g)
      PROVE  VideoInv'
  <2>1. CASE Try(g)
    <3>1. tries' \in [Session -> 0..Tries]
      BY <2>1 DEF Try
    <3> QED  BY <1>7, <2>1, <3>1 DEF Try
  <2>2. CASE StartSent(g) \/ StartNotSent(g) \/ GiveUp(g) \/ KillFfmpeg(g)
    BY <1>7, <2>2 DEF StartSent, StartNotSent, GiveUp, KillFfmpeg
  <2>3. CASE FfmpegExits(g) \/ DeleteStream(g) \/ SendStop(g) \/ CloseStream(g)
    BY <1>7, <2>3 DEF FfmpegExits, DeleteStream, SendStop, CloseStream
  <2> QED  BY <1>8, <2>1, <2>2, <2>3
<1>9. ASSUME NEW g \in Session, ReadData(g) PROVE VideoInv'
  BY <1>9 DEF ReadData, Ffmpeg, FfmpegOn, multiVars, viewerVars
<1>10. ASSUME NEW g \in Session, HandOver(g) PROVE VideoInv'
  BY <1>10 DEF HandOver, Ffmpeg, FfmpegOn, viewerVars
<1>11. ASSUME NEW g \in Session, Multicast(g) PROVE VideoInv'
  <2>1. frame[g] \in 1..MaxFrames
    BY <1>11 DEF Multicast
  <2>2. ASSUME NEW v \in Viewer
        PROVE  channel'[v] \in Seq(1..MaxFrames) /\ Len(channel'[v]) <= Lag + 1
    BY <1>11, <2>1, AppendWithinLag DEF Multicast
  <2>3. channel' \in [Viewer -> Seq(1..MaxFrames)]
    BY <1>11, <2>2 DEF Multicast
  <2> QED  BY <1>11, <2>2, <2>3 DEF Multicast, ffmpegVars, viewerVars
<1>12. ASSUME NEW g \in Session, CloseListeners(g) PROVE VideoInv'
  BY <1>12 DEF CloseListeners, ffmpegVars, viewerVars
<1>13. CASE UNCHANGED videoVars
  BY <1>13 DEF videoVars, ffmpegVars, multiVars, viewerVars
<1> QED
  BY <1>1, <1>2, <1>3, <1>4, <1>5, <1>6, <1>7, <1>8, <1>9, <1>10, <1>11, <1>12, <1>13
     DEF VideoNext, ViewerGoesOn, FfmpegGoesOn, MultiGoesOn

LEMMA VideoInvariant == VideoSpec => []VideoInv
BY VideoInvInit, VideoInvStep, PTL DEF VideoSpec

\* Buffers are numbered as they were read, and a viewer's channel never holds
\* more of them than fit.
THEOREM VideoTypeCorrect == VideoSpec => []VideoTypeOK
<1>1. VideoInv => VideoTypeOK
  BY DEF VideoInv
<1> QED  BY <1>1, VideoInvariant, PTL

------------------------------------------------------------------------------
(* The session that runs is the one to be found *)

\* A session that was made and not started is stored, too: whoever made it is
\* going to start it.
FoundInv ==
  /\ RunningIsFound
  /\ \A g \in Session :
       multi[g] = "off" => ffmpeg[g] = "off" /\ (g <= made => streams = g)

LEMMA FoundStep == VideoInv /\ FoundInv /\ [VideoNext]_videoVars => FoundInv'
<1> SUFFICES ASSUME VideoInv, FoundInv, [VideoNext]_videoVars PROVE FoundInv'
  OBVIOUS
<1>0. /\ ffmpeg \in [Session -> {"off", "done"} \cup FfmpegOn \cup FfmpegOut]
      /\ multi \in [Session -> {"off", "recv", "send", "done"}]
  BY DEF VideoInv, VideoTypeOK
<1> USE <1>0 DEF FoundInv, RunningIsFound, FfmpegOn
<1>1. ASSUME NEW v \in Viewer, LoadOrStore(v) PROVE FoundInv'
  <2>1. CASE streams # 0
    BY <1>1, <2>1 DEF LoadOrStore, multiVars
  <2>2. CASE streams = 0
    <3>1. made' = made + 1 /\ streams' = made + 1 /\ made \in Nat
      BY <1>1, <2>2, VideoAssumption DEF LoadOrStore, VideoInv, VideoTypeOK
    <3>2. UNCHANGED <<ffmpeg, multi>>
      BY <1>1 DEF LoadOrStore, multiVars
    <3>3. \A g \in Session : g \in Nat /\ g # 0
      BY DEF Session
    <3> QED  BY <2>2, <3>1, <3>2, <3>3
  <2> QED  BY <2>1, <2>2
<1>2. ASSUME NEW v \in Viewer, GetMultiplexer(v) PROVE FoundInv'
  <2>1. session[v] \in Session /\ session[v] <= made
    BY <1>2 DEF GetMultiplexer, VideoInv, VideoTypeOK, SessionsMade, Session
  <2> QED  BY <1>2, <2>1 DEF GetMultiplexer
<1>3. ASSUME UNCHANGED <<streams, made, ffmpeg, multi>> PROVE FoundInv'
  BY <1>3
<1>4. ASSUME NEW v \in Viewer,
             \/ Subscribe(v) \/ ViewerSends(v) \/ ViewerSendFails(v)
             \/ ViewerEnds(v) \/ Unsubscribe(v)
      PROVE  FoundInv'
  BY <1>3, <1>4 DEF Subscribe, ViewerSends, ViewerSendFails, ViewerEnds, Unsubscribe,
     ffmpegVars, multiVars
\* A step of a session that runs, or is over.
<1>5. ASSUME NEW g \in Session, ffmpeg[g] # "off", NEW x, Ffmpeg(g, x),
             ffmpeg[g] \in FfmpegOn \cup {"delete"} \/ x \notin FfmpegOn \cup {"delete"},
             NEW y \in {multi[g], "send"}, multi' = [multi EXCEPT ![g] = y],
             UNCHANGED <<streams, made>>
      PROVE  FoundInv'
  BY <1>5 DEF Ffmpeg
<1>6. ASSUME NEW g \in Session,
             \/ StartSent(g) \/ StartNotSent(g) \/ Try(g) \/ GiveUp(g)
             \/ ReadData(g) \/ KillFfmpeg(g) \/ FfmpegExits(g)
      PROVE  FoundInv'
  <2>1. multi' = [multi EXCEPT ![g] = multi[g]] /\ UNCHANGED <<streams, made>>
    BY <1>6 DEF StartSent, StartNotSent, Try, GiveUp, ReadData, KillFfmpeg, FfmpegExits, multiVars
  <2>2. ffmpeg[g] # "off" /\ ffmpeg[g] \in FfmpegOn /\ \E x : Ffmpeg(g, x)
    BY <1>6 DEF StartSent, StartNotSent, Try, GiveUp, ReadData, KillFfmpeg, FfmpegExits
  <2> QED  BY <1>5, <2>1, <2>2
<1>7. ASSUME NEW g \in Session, SendStop(g) \/ CloseStream(g) PROVE FoundInv'
  <2>1. multi' = [multi EXCEPT ![g] = multi[g]] /\ UNCHANGED <<streams, made>>
    BY <1>7 DEF SendStop, CloseStream, multiVars
  <2> QED  BY <1>5, <1>7, <2>1 DEF SendStop, CloseStream
<1>8. ASSUME NEW g \in Session, DeleteStream(g) PROVE FoundInv'
  BY <1>8 DEF DeleteStream, Ffmpeg, multiVars
<1>9. ASSUME NEW g \in Session, HandOver(g) PROVE FoundInv'
  BY <1>5, <1>9 DEF HandOver
<1>10. ASSUME NEW g \in Session, Multicast(g) \/ CloseListeners(g) PROVE FoundInv'
  BY <1>10 DEF Multicast, CloseListeners, ffmpegVars
<1>11. CASE UNCHANGED videoVars
  BY <1>3, <1>11 DEF videoVars, ffmpegVars, multiVars
<1> QED
  BY <1>1, <1>2, <1>4, <1>6, <1>7, <1>8, <1>9, <1>10, <1>11
     DEF VideoNext, ViewerGoesOn, FfmpegGoesOn, MultiGoesOn

LEMMA FoundInvariant == VideoSpec => []FoundInv
<1>1. VideoInit => FoundInv
  BY DEF VideoInit, FoundInv, RunningIsFound, FfmpegOn, Session
<1> QED  BY <1>1, FoundStep, VideoInvariant, PTL DEF VideoSpec

\* Deleting by device never deletes a successor's entry, and there is one ffmpeg
\* at a time.
THEOREM RunningStaysFound == VideoSpec => []RunningIsFound
<1>1. FoundInv => RunningIsFound
  BY DEF FoundInv
<1> QED  BY <1>1, FoundInvariant, PTL

------------------------------------------------------------------------------
(* Buffers arrive in order *)

LEMMA RisingAppend ==
  ASSUME NEW q \in Seq(Nat), NEW x \in Nat, Rising(q), \A i \in DOMAIN q : q[i] < x
  PROVE  Rising(Append(q, x))
BY DEF Rising

LEMMA RisingTail ==
  ASSUME NEW q \in Seq(Nat), Rising(q), q # << >>
  PROVE  /\ Rising(Tail(q))
         /\ \A i \in DOMAIN Tail(q) :
              Head(q) < Tail(q)[i] /\ i + 1 \in DOMAIN q /\ Tail(q)[i] = q[i + 1]
BY DEF Rising

\* The last buffer that session g has multicast.
Multicasted(g) == IF multi[g] = "send" THEN frame[g] - 1 ELSE frame[g]

\* What v has been sent and what waits for it rises, and is of its session.
Ordered(v) ==
  /\ Rising(channel[v])
  /\ \A i \in DOMAIN channel[v] : last[v] < channel[v][i]
  /\ viewer[v] \in {"new", "found", "started"} =>
       /\ channel[v] = << >> /\ last[v] = 0
       /\ \A g \in Session : v \notin listeners[g]
  /\ \A g \in Session : v \in listeners[g] => session[v] = g
  /\ viewer[v] # "new" =>
       /\ last[v] <= Multicasted(session[v])
       /\ \A i \in DOMAIN channel[v] : channel[v][i] <= Multicasted(session[v])

OrderInv == \A v \in Viewer : Ordered(v)

\* A step after which no session has multicast less than before.
LEMMA OrderKept ==
  ASSUME VideoInv, VideoInv', NEW v \in Viewer, Ordered(v),
         channel'[v] = channel[v], last'[v] = last[v], session'[v] = session[v],
         viewer'[v] \in {"new", "found", "started"} => viewer[v] \in {"new", "found", "started"},
         viewer[v] = "new" => viewer'[v] = "new",
         \A g \in Session : v \in listeners'[g] => v \in listeners[g],
         \A g \in Session : Multicasted(g) <= Multicasted(g)'
  PROVE  Ordered(v)'
<1>1. channel[v] \in Seq(Nat) /\ last[v] \in Nat
  BY VideoAssumption DEF VideoInv, VideoTypeOK
<1>2. ASSUME viewer[v] # "new"
      PROVE  session[v] \in Session
  BY <1>2 DEF VideoInv, VideoTypeOK, SessionsMade, Session
<1>3. \A g \in Session : Multicasted(g) \in Int /\ Multicasted(g)' \in Int
  BY DEF VideoInv, VideoTypeOK, Multicasted
<1>4. ASSUME viewer'[v] # "new"
      PROVE  /\ last[v] <= Multicasted(session[v])'
             /\ \A i \in DOMAIN channel[v] : channel[v][i] <= Multicasted(session[v])'
  <2>1. /\ viewer[v] # "new" /\ session[v] \in Session
        /\ last[v] <= Multicasted(session[v])
        /\ \A i \in DOMAIN channel[v] : channel[v][i] <= Multicasted(session[v])
    BY <1>2, <1>4 DEF Ordered
  <2> QED  BY <1>1, <1>3, <2>1
<1> QED  BY <1>4 DEF Ordered

LEMMA OrderStep == VideoInv /\ VideoInv' /\ OrderInv /\ [VideoNext]_videoVars => OrderInv'
<1> SUFFICES ASSUME VideoInv, VideoInv', OrderInv, [VideoNext]_videoVars,
                    NEW v \in Viewer
             PROVE  Ordered(v)'
  BY DEF OrderInv
<1>0. Ordered(v)
  BY DEF OrderInv
<1>t. /\ viewer \in [Viewer -> {"new", "found", "started", "first", "play", "leave", "gone"}]
      /\ session \in [Viewer -> 0..Sessions]
      /\ channel \in [Viewer -> Seq(1..MaxFrames)]
      /\ last \in [Viewer -> 0..MaxFrames]
      /\ listeners \in [Session -> SUBSET Viewer]
      /\ multi \in [Session -> {"off", "recv", "send", "done"}]
      /\ frame \in [Session -> 0..MaxFrames] /\ frames \in [Session -> 0..MaxFrames]
  BY DEF VideoInv, VideoTypeOK
<1>m. \A g \in Session : Multicasted(g) \in Int
  BY <1>t DEF Multicasted
\* A step that multicasts nothing and touches no viewer.
<1>1. ASSUME UNCHANGED <<channel, last, session, viewer, listeners, frame>>,
             \A g \in Session : multi'[g] = "send" => multi[g] = "send"
      PROVE  Ordered(v)'
  <2>1. \A g \in Session : Multicasted(g) <= Multicasted(g)'
    BY <1>1, <1>t DEF Multicasted
  <2> QED  BY <1>0, <1>1, <2>1, OrderKept
<1>2. ASSUME NEW u \in Viewer, LoadOrStore(u) PROVE Ordered(v)'
  <2>k. \A g \in Session : Multicasted(g) <= Multicasted(g)'
    BY <1>2, <1>m DEF LoadOrStore, Multicasted, multiVars
  <2>1. CASE u = v
    <3>1. /\ viewer[v] = "new" /\ viewer'[v] = "found"
          /\ channel'[v] = << >> /\ last'[v] = 0
          /\ \A g \in Session : v \notin listeners'[g]
      BY <1>0, <1>2, <1>t, <2>1 DEF LoadOrStore, Ordered, Steps, multiVars
    <3>2. session'[v] \in Session
      BY <3>1 DEF VideoInv, VideoTypeOK, SessionsMade, Session
    <3>h. PICK h \in Session : h = session'[v]
      BY <3>2
    <3>g. 0 <= Multicasted(h)'
      <4>1. /\ frame'[h] \in 0..MaxFrames /\ MaxFrames \in Nat
            /\ multi'[h] = "send" => frame'[h] # 0
        BY VideoAssumption DEF VideoInv, VideoTypeOK, BuffersInOrder
      <4> QED  BY <4>1 DEF Multicasted
    <3>3. 0 <= Multicasted(session[v])'
      BY <3>h, <3>g
    <3> QED  BY <3>1, <3>3 DEF Ordered, Rising
  <2>2. CASE u # v
    <3>1. /\ channel'[v] = channel[v] /\ last'[v] = last[v] /\ listeners' = listeners
          /\ session'[v] = session[v] /\ viewer'[v] = viewer[v]
      BY <1>2, <1>t, <2>2 DEF LoadOrStore, Steps, multiVars
    <3> QED  BY <1>0, <2>k, <3>1, OrderKept
  <2> QED  BY <2>1, <2>2
<1>3. ASSUME NEW u \in Viewer, GetMultiplexer(u) PROVE Ordered(v)'
  <2>1. \A g \in Session : Multicasted(g) <= Multicasted(g)'
    BY <1>3, <1>m, <1>t DEF GetMultiplexer, Multicasted
  <2>2. /\ channel'[v] = channel[v] /\ last'[v] = last[v] /\ listeners' = listeners
        /\ session'[v] = session[v]
        /\ viewer'[v] \in {viewer[v], "started"}
        /\ viewer[v] # "found" => viewer'[v] = viewer[v]
    BY <1>3, <1>t DEF GetMultiplexer, Steps
  <2> QED  BY <1>0, <2>1, <2>2, OrderKept
<1>4. ASSUME NEW u \in Viewer, Subscribe(u) PROVE Ordered(v)'
  <2>1. \A g \in Session : Multicasted(g)' = Multicasted(g)
    BY <1>4 DEF Subscribe, Multicasted, ffmpegVars
  <2>2. /\ channel'[v] = channel[v] /\ last'[v] = last[v] /\ session'[v] = session[v]
        /\ viewer'[v] = IF v = u THEN "first" ELSE viewer[v]
        /\ v = u => viewer[v] = "started"
    BY <1>4, <1>t DEF Subscribe, Steps
  <2>3. session[u] \in Session
    BY <1>4 DEF Subscribe, VideoInv, VideoTypeOK, SessionsMade, Session
  <2>4. \A g \in Session : v \in listeners'[g] => v \in listeners[g] \/ (v = u /\ g = session[v])
    BY <1>4, <1>t, <2>3 DEF Subscribe
  <2>5. CASE v = u
    <3>1. /\ channel[v] = << >> /\ last[v] = 0
          /\ \A g \in Session : v \in listeners'[g] => session'[v] = g
      BY <1>0, <2>2, <2>4, <2>5 DEF Ordered
    <3>2. 0 <= Multicasted(session[v])
      BY <2>3, <2>5 DEF VideoInv, VideoTypeOK, BuffersInOrder, Multicasted
    <3>3. Multicasted(session[v])' = Multicasted(session[v])
      BY <2>1, <2>2, <2>3, <2>5
    <3> QED  BY <2>2, <2>5, <3>1, <3>2, <3>3 DEF Ordered, Rising
  <2>6. CASE v # u
    BY <1>0, <1>m, <2>1, <2>2, <2>4, <2>6, OrderKept
  <2> QED  BY <2>5, <2>6
<1>5. ASSUME NEW u \in Viewer, ViewerSends(u) PROVE Ordered(v)'
  <2>1. \A g \in Session : Multicasted(g)' = Multicasted(g)
    BY <1>5 DEF ViewerSends, Multicasted, ffmpegVars
  <2>2. listeners' = listeners /\ session' = session
    BY <1>5 DEF ViewerSends
  <2>3. CASE v = u
    <3>1. /\ channel[v] # << >> /\ channel'[v] = Tail(channel[v])
          /\ last'[v] = Head(channel[v])
          /\ viewer[v] # "new" /\ viewer'[v] = "play"
      BY <1>5, <1>t, <2>3 DEF ViewerSends, Steps
    <3>2. PICK q \in Seq(Nat) : q = channel[v]
      BY <1>t, VideoAssumption
    <3>3. Rising(q) /\ q # << >>
      BY <1>0, <3>1, <3>2 DEF Ordered
    <3>4. /\ Rising(Tail(q))
          /\ \A i \in DOMAIN Tail(q) :
               Head(q) < Tail(q)[i] /\ i + 1 \in DOMAIN q /\ Tail(q)[i] = q[i + 1]
      BY <3>3, RisingTail
    <3>5. 1 \in DOMAIN q /\ Head(q) = q[1]
      BY <3>3
    <3>6. session[v] \in Session
      BY <3>1 DEF VideoInv, VideoTypeOK, SessionsMade, Session
    <3>7. /\ last[v] <= Multicasted(session[v])
          /\ \A i \in DOMAIN q : q[i] <= Multicasted(session[v])
      BY <1>0, <3>1, <3>2 DEF Ordered
    <3>8. \A i \in DOMAIN q : last[v] < q[i]
      BY <1>0, <3>2 DEF Ordered
    <3>9. Multicasted(session[v])' = Multicasted(session[v])
      BY <2>1, <2>2, <3>6
    <3>10. /\ channel'[v] = Tail(q) /\ last'[v] \in {last[v], Head(q)}
           /\ \A i \in DOMAIN Tail(q) : last'[v] < Tail(q)[i]
      BY <3>1, <3>2, <3>4, <3>8
    <3>11. /\ last'[v] <= Multicasted(session[v])
           /\ \A i \in DOMAIN Tail(q) : Tail(q)[i] <= Multicasted(session[v])
      BY <3>4, <3>5, <3>7, <3>10
    <3> QED  BY <1>0, <2>2, <3>1, <3>4, <3>9, <3>10, <3>11 DEF Ordered
  <2>4. CASE v # u
    <3>1. /\ channel'[v] = channel[v] /\ last'[v] = last[v] /\ viewer'[v] = viewer[v]
      BY <1>5, <1>t, <2>4 DEF ViewerSends, Steps
    <3> QED  BY <1>0, <1>m, <2>1, <2>2, <3>1, OrderKept
  <2> QED  BY <2>3, <2>4
<1>6. ASSUME NEW u \in Viewer, ViewerSendFails(u) PROVE Ordered(v)'
  <2>1. \A g \in Session : Multicasted(g)' = Multicasted(g)
    BY <1>6 DEF ViewerSendFails, Multicasted, ffmpegVars
  <2>2. listeners' = listeners /\ session' = session
    BY <1>6 DEF ViewerSendFails
  <2>3. CASE v = u
    <3>1. /\ channel[v] # << >> /\ channel'[v] = Tail(channel[v])
          /\ last'[v] = last[v]
          /\ viewer[v] # "new" /\ viewer'[v] = "leave"
      BY <1>6, <1>t, <2>3 DEF ViewerSendFails, Steps
    <3>2. PICK q \in Seq(Nat) : q = channel[v]
      BY <1>t, VideoAssumption
    <3>3. Rising(q) /\ q # << >>
      BY <1>0, <3>1, <3>2 DEF Ordered
    <3>4. /\ Rising(Tail(q))
          /\ \A i \in DOMAIN Tail(q) :
               Head(q) < Tail(q)[i] /\ i + 1 \in DOMAIN q /\ Tail(q)[i] = q[i + 1]
      BY <3>3, RisingTail
    <3>5. 1 \in DOMAIN q /\ Head(q) = q[1]
      BY <3>3
    <3>6. session[v] \in Session
      BY <3>1 DEF VideoInv, VideoTypeOK, SessionsMade, Session
    <3>7. /\ last[v] <= Multicasted(session[v])
          /\ \A i \in DOMAIN q : q[i] <= Multicasted(session[v])
      BY <1>0, <3>1, <3>2 DEF Ordered
    <3>8. \A i \in DOMAIN q : last[v] < q[i]
      BY <1>0, <3>2 DEF Ordered
    <3>9. Multicasted(session[v])' = Multicasted(session[v])
      BY <2>1, <2>2, <3>6
    <3>10. /\ channel'[v] = Tail(q) /\ last'[v] \in {last[v], Head(q)}
           /\ \A i \in DOMAIN Tail(q) : last'[v] < Tail(q)[i]
      BY <3>1, <3>2, <3>4, <3>8
    <3>11. /\ last'[v] <= Multicasted(session[v])
           /\ \A i \in DOMAIN Tail(q) : Tail(q)[i] <= Multicasted(session[v])
      BY <3>4, <3>5, <3>7, <3>10
    <3> QED  BY <1>0, <2>2, <3>1, <3>4, <3>9, <3>10, <3>11 DEF Ordered
  <2>4. CASE v # u
    <3>1. /\ channel'[v] = channel[v] /\ last'[v] = last[v] /\ viewer'[v] = viewer[v]
      BY <1>6, <1>t, <2>4 DEF ViewerSendFails, Steps
    <3> QED  BY <1>0, <1>m, <2>1, <2>2, <3>1, OrderKept
  <2> QED  BY <2>3, <2>4
<1>7. ASSUME NEW u \in Viewer, ViewerEnds(u) \/ Unsubscribe(u) PROVE Ordered(v)'
  <2>1. \A g \in Session : Multicasted(g)' = Multicasted(g)
    BY <1>7 DEF ViewerEnds, Unsubscribe, Multicasted, multiVars
  <2>2. /\ channel'[v] = channel[v] /\ last'[v] = last[v] /\ session'[v] = session[v]
        /\ viewer'[v] \in {viewer[v], "leave", "gone"}
        /\ viewer[v] = "new" => viewer'[v] = "new"
    BY <1>7, <1>t DEF ViewerEnds, Unsubscribe, Steps, multiVars
  <2>3. ASSUME NEW g \in Session PROVE v \in listeners'[g] => v \in listeners[g]
    BY <1>7, <1>t DEF ViewerEnds, Unsubscribe, multiVars
  <2> QED  BY <1>0, <1>m, <2>1, <2>2, <2>3, OrderKept
<1>8. ASSUME NEW g \in Session, FfmpegGoesOn(g) PROVE Ordered(v)'
  <2>1. UNCHANGED <<channel, last, session, viewer, listeners, frame, multi>>
    BY <1>8 DEF FfmpegGoesOn, StartSent, StartNotSent, Try, GiveUp, ReadData, KillFfmpeg,
       FfmpegExits, DeleteStream, SendStop, CloseStream, multiVars, viewerVars
  <2> QED  BY <1>1, <2>1
<1>9. ASSUME NEW g \in Session, HandOver(g) PROVE Ordered(v)'
  <2>1. UNCHANGED <<channel, last, session, viewer, listeners>>
    BY <1>9 DEF HandOver, viewerVars
  <2>2. ASSUME NEW h \in Session PROVE Multicasted(h) <= Multicasted(h)'
    <3>1. frame[g] < frames[g] /\ multi[g] = "recv"
      BY <1>9 DEF HandOver, VideoInv, BuffersInOrder
    <3> QED  BY <1>9, <1>t, <3>1 DEF HandOver, Multicasted
  <2> QED  BY <1>0, <2>1, <2>2, OrderKept
<1>10. ASSUME NEW g \in Session, Multicast(g) PROVE Ordered(v)'
  <2>1. UNCHANGED <<last, session, viewer, listeners, frame>>
    BY <1>10 DEF Multicast, ffmpegVars, viewerVars
  <2>2. ASSUME NEW h \in Session PROVE Multicasted(h) <= Multicasted(h)'
    BY <1>10, <1>t DEF Multicast, Multicasted
  <2>3. CASE v \in listeners[g] /\ Len(channel[v]) <= Lag
    <3>1. PICK q \in Seq(Nat) : q = channel[v]
      BY <1>t, VideoAssumption
    <3>2. PICK x \in Nat : x = frame[g]
      BY <1>t
    <3>3. x # 0 /\ Multicasted(g) = x - 1 /\ Multicasted(g)' = x
      BY <1>10, <1>t, <3>2 DEF Multicast, Multicasted, VideoInv, BuffersInOrder
    <3>4. session[v] = g /\ viewer[v] \notin {"new", "found", "started"}
      BY <1>0, <2>3 DEF Ordered
    <3>5. /\ Rising(q) /\ last[v] <= x - 1
          /\ \A i \in DOMAIN q : last[v] < q[i] /\ q[i] <= x - 1
      BY <1>0, <3>1, <3>3, <3>4 DEF Ordered
    <3>6. channel'[v] = Append(q, x)
      BY <1>10, <2>3, <3>1, <3>2 DEF Multicast
    <3>7. Rising(Append(q, x))
      BY <3>2, <3>5, RisingAppend
    <3>8. last[v] \in Nat
      BY <1>t
    <3>9. /\ last[v] <= x
          /\ \A i \in DOMAIN Append(q, x) : last[v] < Append(q, x)[i] /\ Append(q, x)[i] <= x
      BY <3>3, <3>5, <3>8
    <3>10. session'[v] = g /\ Multicasted(session[v])' = x
      BY <2>1, <3>3, <3>4
    <3> QED  BY <1>0, <2>1, <3>4, <3>6, <3>7, <3>9, <3>10 DEF Ordered
  <2>4. CASE ~(v \in listeners[g] /\ Len(channel[v]) <= Lag)
    <3>1. channel'[v] = channel[v]
      BY <1>10, <1>t, <2>4 DEF Multicast
    <3> QED  BY <1>0, <2>1, <2>2, <3>1, OrderKept
  <2> QED  BY <2>3, <2>4
<1>11. ASSUME NEW g \in Session, CloseListeners(g) PROVE Ordered(v)'
  <2>1. UNCHANGED <<channel, last, session, viewer, listeners, frame>>
    BY <1>11 DEF CloseListeners, viewerVars
  <2>2. \A h \in Session : multi'[h] = "send" => multi[h] = "send"
    BY <1>11, <1>t DEF CloseListeners
  <2> QED  BY <1>1, <2>1, <2>2
<1>12. CASE UNCHANGED videoVars
  BY <1>1, <1>12 DEF videoVars, multiVars, viewerVars
<1> QED
  BY <1>2, <1>3, <1>4, <1>5, <1>6, <1>7, <1>8, <1>9, <1>10, <1>11, <1>12
     DEF VideoNext, ViewerGoesOn, MultiGoesOn

\* Whoever comes late, lags or leaves: what a viewer is sent is of one session,
\* in the order in which its ffmpeg wrote it, and nothing of it twice.
THEOREM BuffersStayInOrder == VideoSpec => []InOrder
<1>1. VideoInit => OrderInv
  <2> SUFFICES ASSUME VideoInit, NEW v \in Viewer PROVE Ordered(v)
    BY DEF OrderInv
  <2>1. /\ channel[v] = << >> /\ last[v] = 0 /\ viewer[v] = "new"
        /\ \A g \in Session : listeners[g] = {}
    BY DEF VideoInit
  <2> QED  BY <2>1 DEF Ordered, Rising
<1>2. VideoInv /\ OrderInv /\ [VideoNext]_videoVars => OrderInv'
  BY VideoInvStep, OrderStep
<1>3. OrderInv => InOrder
  BY DEF OrderInv, Ordered, InOrder
<1> QED  BY <1>1, <1>2, <1>3, VideoInvariant, PTL DEF VideoSpec

------------------------------------------------------------------------------
(* The composition with the drone *)

\* The drone's steps are stutters of the multiplexer, and the multiplexer's in
\* the composition are its own: what holds of it alone holds with the drone.
LEMMA DroneAddsNothing == VideoDroneSpec => VideoSpec
<1>1. VideoDroneInit => VideoInit
  BY DEF VideoDroneInit
<1>2. [VideoDroneNext]_allVars => [VideoNext]_videoVars
  <2> SUFFICES ASSUME [VideoDroneNext]_allVars PROVE VideoNext \/ UNCHANGED videoVars
    OBVIOUS
  <2>1. ASSUME NEW v \in Viewer, ViewerComes(v) \/ ViewerSteps(v) PROVE VideoNext
    BY <2>1 DEF ViewerComes, ViewerSteps, VideoNext
  <2>2. ASSUME NEW g \in Session, FfmpegSteps(g) \/ MultiSteps(g) PROVE VideoNext
    BY <2>2 DEF FfmpegSteps, MultiSteps, SendsStart, StartTimesOut, SendsStop,
       FfmpegGoesOn, VideoNext
  <2>3. ASSUME DroneGoesOn PROVE UNCHANGED videoVars
    BY <2>3 DEF DroneGoesOn, DroneStarts, StreamExists, DroneRuns, DroneStops,
       StreamNotFound, DronePanics, Receives
  <2>4. CASE UNCHANGED allVars
    BY <2>4 DEF allVars
  <2> QED  BY <2>1, <2>2, <2>3, <2>4 DEF VideoDroneNext
<1> QED  BY <1>1, <1>2, PTL DEF VideoDroneSpec, VideoSpec

\* With a drone at the other end of the wire, too, one ffmpeg reads its video
\* and viewers get what it delivers in order.
THEOREM VideoDroneCorrect == VideoDroneSpec => [](RunningIsFound /\ InOrder)
BY DroneAddsNothing, RunningStaysFound, BuffersStayInOrder, PTL

LEMMA WireStep ==
  ASSUME wire \in Seq({"start", "stop"}), drone \in DroneState, [VideoDroneNext]_allVars
  PROVE  wire' \in Seq({"start", "stop"}) /\ drone' \in DroneState
<1> DEFINE Typed == wire' \in Seq({"start", "stop"}) /\ drone' \in DroneState
<1> USE DEF LoseTrack, Deliver, Lose, DroneState, droneVars
<1>a. ASSUME NEW c \in {"start", "stop"}, Deliver(c) \/ Lose PROVE Typed
  <2>1. /\ Append(wire, c) \in Seq({"start", "stop"})
        /\ << >> \in Seq({"start", "stop"})
    OBVIOUS
  <2>2. /\ wire' = << >> \/ wire' = wire \/ wire' = Append(wire, c)
        /\ drone' = drone \/ drone' = "unknown"
    BY <1>a
  <2>3. wire' \in Seq({"start", "stop"})
    BY <2>1, <2>2
  <2>4. drone' \in DroneState
    BY <2>2
  <2> QED  BY <2>3, <2>4
<1>1. ASSUME NEW g \in Session, FfmpegSteps(g) \/ MultiSteps(g) PROVE Typed
  <2>1. CASE SendsStart(g) \/ SendsStop(g)
    BY <1>a, <2>1 DEF SendsStart, SendsStop
  <2>2. CASE StartTimesOut(g)
    BY <2>2 DEF StartTimesOut
  <2>3. CASE UNCHANGED droneVars
    BY <2>3
  <2> QED  BY <1>1, <2>1, <2>2, <2>3 DEF FfmpegSteps, MultiSteps
<1>2. ASSUME NEW v \in Viewer, ViewerComes(v) \/ ViewerSteps(v) PROVE Typed
  BY <1>2 DEF ViewerComes, ViewerSteps
<1>3. ASSUME DroneGoesOn PROVE Typed
  <2>1. wire # << >> => Tail(wire) \in Seq({"start", "stop"})
    OBVIOUS
  <2>2. CASE DroneRuns
    BY <2>2 DEF DroneRuns
  <2>3. CASE DronePanics
    BY <2>3 DEF DronePanics
  <2>4. CASE DroneStarts \/ StreamExists \/ DroneStops \/ StreamNotFound
    <3>1. wire # << >> /\ wire' = Tail(wire)
      BY <2>4 DEF DroneStarts, StreamExists, DroneStops, StreamNotFound, Receives
    <3>2. drone' \in {drone, "starting", "off"}
      BY <2>4 DEF DroneStarts, StreamExists, DroneStops, StreamNotFound
    <3> QED  BY <2>1, <3>1, <3>2
  <2> QED  BY <1>3, <2>2, <2>3, <2>4 DEF DroneGoesOn
<1>4. CASE UNCHANGED allVars
  BY <1>4 DEF allVars
<1> QED  BY <1>1, <1>2, <1>3, <1>4 DEF VideoDroneNext

\* What travels to the drone are commands, whatever is lost on the way.
THEOREM VideoDroneTypeCorrect == VideoDroneSpec => []VideoDroneTypeOK
<1> DEFINE Typed == wire \in Seq({"start", "stop"}) /\ drone \in DroneState
<1>1. VideoDroneInit => Typed
  BY DEF VideoDroneInit, DroneState
<1>2. Typed /\ [VideoDroneNext]_allVars => Typed'
  BY WireStep
<1>3. VideoTypeOK /\ Typed => VideoDroneTypeOK
  BY DEF VideoDroneTypeOK
<1> QED
  BY <1>1, <1>2, <1>3, DroneAddsNothing, VideoTypeCorrect, PTL DEF VideoDroneSpec

------------------------------------------------------------------------------
(* The last word to the drone is a stop *)

\* g has sent start, or given it up, and has not sent stop yet.
OwesStop(g) == ffmpeg[g] \in {"run", "read", "send", "delete", "stop"}

LastIsStop(w) == w # << >> /\ w[Len(w)] = "stop"

\* Two sessions' commands may be sent in any order, so that no session knows
\* what the drone is doing; but whoever sends start is going to send stop after
\* it, and nothing else makes the drone stream.
StopComesLast ==
  \/ drone = "unknown"
  \/ \E g \in Session : OwesStop(g)
  \/ LastIsStop(wire)
  \/ wire = << >> /\ drone = "off"

LEMMA StopAppended ==
  ASSUME NEW w \in Seq({"start", "stop"})
  PROVE  LastIsStop(Append(w, "stop"))
BY DEF LastIsStop

LEMMA StopReceived ==
  ASSUME NEW w \in Seq({"start", "stop"}), w # << >>, LastIsStop(w)
  PROVE  \/ LastIsStop(Tail(w))
         \/ Tail(w) = << >> /\ Head(w) = "stop"
<1>0. Len(w) \in Nat /\ Len(w) # 0 /\ Len(Tail(w)) = Len(w) - 1
  OBVIOUS
<1>1. CASE Len(w) = 1
  <2>1. Tail(w) \in Seq({"start", "stop"}) /\ Len(Tail(w)) = 0
    BY <1>0, <1>1
  <2>2. Tail(w) = << >>
    BY <2>1, EmptySeq
  <2>3. Head(w) = w[1]
    OBVIOUS
  <2> QED  BY <1>1, <2>2, <2>3 DEF LastIsStop
<1>2. CASE Len(w) # 1
  <2>1. Len(w) > 1 /\ Len(Tail(w)) = Len(w) - 1
    BY <1>0, <1>2
  <2>2. Tail(w)[Len(w) - 1] = w[Len(w)]
    BY <1>0, <2>1
  <2>3. Len(Tail(w)) # 0 /\ Len(<< >>) = 0
    BY <1>0, <2>1
  <2>4. Tail(w) # << >>
    BY <2>3
  <2> QED  BY <1>0, <2>2, <2>4 DEF LastIsStop
<1> QED  BY <1>1, <1>2

LEMMA StopStaysLast ==
  ASSUME VideoTypeOK, FoundInv, wire \in Seq({"start", "stop"}), drone \in DroneState,
         StopComesLast, [VideoDroneNext]_allVars
  PROVE  StopComesLast'
<1>t. ffmpeg \in [Session -> {"off", "done"} \cup FfmpegOn \cup FfmpegOut]
  BY DEF VideoTypeOK
\* Whoever owes a stop goes on owing it, and the drone is left alone.
<1>a. ASSUME UNCHANGED droneVars, \A g \in Session : OwesStop(g) => OwesStop(g)'
      PROVE  StopComesLast'
  BY <1>a DEF StopComesLast, droneVars
<1>b. ASSUME LoseTrack PROVE StopComesLast'
  BY <1>b DEF LoseTrack, StopComesLast
<1>1. ASSUME NEW g \in Session, SendsStart(g) PROVE StopComesLast'
  <2>1. OwesStop(g)'
    BY <1>t, <1>1 DEF SendsStart, StartSent, Ffmpeg, OwesStop
  <2> QED  BY <2>1 DEF StopComesLast
<1>2. ASSUME NEW g \in Session, StartTimesOut(g) PROVE StopComesLast'
  BY <1>2, <1>b DEF StartTimesOut
<1>3. ASSUME NEW g \in Session, SendsStop(g) PROVE StopComesLast'
  <2>1. CASE Lose
    BY <2>1, <1>b DEF Lose
  <2>2. CASE Deliver("stop") /\ drone # "unknown"
    BY <2>2, StopAppended DEF Deliver, StopComesLast
  <2>3. CASE Deliver("stop") /\ drone = "unknown"
    BY <2>3 DEF Deliver, droneVars, StopComesLast
  <2> QED  BY <1>3, <2>1, <2>2, <2>3 DEF SendsStop
<1>4. ASSUME NEW g \in Session, UNCHANGED droneVars,
             \/ Try(g) \/ GiveUp(g) \/ ReadData(g) \/ KillFfmpeg(g) \/ FfmpegExits(g)
             \/ DeleteStream(g) \/ CloseStream(g)
      PROVE  StopComesLast'
  <2>1. \A h \in Session : OwesStop(h) => OwesStop(h)'
    BY <1>t, <1>4 DEF Try, GiveUp, ReadData, KillFfmpeg, FfmpegExits, DeleteStream,
       CloseStream, Ffmpeg, OwesStop
  <2> QED  BY <1>4, <2>1, <1>a
<1>5. ASSUME NEW g \in Session, MultiSteps(g) PROVE StopComesLast'
  <2>1. \A h \in Session : OwesStop(h) => OwesStop(h)'
    BY <1>t, <1>5 DEF MultiSteps, MultiGoesOn, HandOver, Multicast, CloseListeners,
       ffmpegVars, Ffmpeg, OwesStop
  <2> QED  BY <1>5, <2>1, <1>a DEF MultiSteps
<1>6. ASSUME NEW v \in Viewer, ViewerComes(v) \/ ViewerSteps(v) PROVE StopComesLast'
  <2>1. \A h \in Session : ffmpeg'[h] = ffmpeg[h] \/ multi[h] = "off"
    BY <1>t, <1>6 DEF ViewerComes, ViewerSteps, LoadOrStore, ViewerGoesOn, GetMultiplexer,
       Subscribe, ViewerSends, ViewerSendFails, ViewerEnds, Unsubscribe, ffmpegVars
  <2>2. \A h \in Session : OwesStop(h) => OwesStop(h)'
    BY <2>1 DEF OwesStop, FoundInv
  <2> QED  BY <1>6, <2>2, <1>a DEF ViewerComes, ViewerSteps
<1>7. ASSUME DroneGoesOn PROVE StopComesLast'
  <2>1. CASE DronePanics
    BY <2>1, <1>b DEF DronePanics
  <2>2. CASE DroneRuns
    BY <2>2 DEF DroneRuns, StopComesLast, videoVars, ffmpegVars, OwesStop
  <2>3. ASSUME NEW c \in {"start", "stop"}, Receives(c), drone # "unknown",
               drone' \in DroneState, c = "stop" => drone' = "off"
        PROVE  StopComesLast'
    <3>1. \A g \in Session : OwesStop(g) => OwesStop(g)'
      BY <2>3 DEF Receives, videoVars, ffmpegVars, OwesStop
    <3>2. /\ wire # << >> /\ wire' = Tail(wire) /\ Head(wire) = c
      BY <2>3 DEF Receives
    <3>3. LastIsStop(wire) => StopComesLast'
      <4>1. /\ wire # << >> /\ LastIsStop(wire)
            => LastIsStop(Tail(wire)) \/ (Tail(wire) = << >> /\ Head(wire) = "stop")
        BY StopReceived
      <4>2. (LastIsStop(wire) => LastIsStop(wire')) \/ (wire' = << >> /\ drone' = "off")
        BY <2>3, <3>2, <4>1
      <4> QED  BY <4>2 DEF StopComesLast
    <3> QED  BY <2>3, <3>1, <3>2, <3>3 DEF StopComesLast
  <2>4. CASE drone = "unknown" /\ UNCHANGED drone
    BY <2>4 DEF StopComesLast
  <2>5. CASE DroneStarts \/ StreamExists
    BY <2>3, <2>4, <2>5 DEF DroneStarts, StreamExists, DroneState
  <2>6. CASE DroneStops \/ StreamNotFound
    BY <2>3, <2>6 DEF DroneStops, StreamNotFound, DroneState
  <2> QED  BY <1>7, <2>1, <2>2, <2>5, <2>6 DEF DroneGoesOn
<1>8. CASE UNCHANGED allVars
  BY <1>8, <1>a DEF allVars, videoVars, ffmpegVars, OwesStop
<1> QED
  BY <1>1, <1>2, <1>3, <1>4, <1>5, <1>6, <1>7, <1>8
     DEF VideoDroneNext, FfmpegSteps

\* In whatever order the stop of a session and the start of the next are sent,
\* and however the sessions end: a drone that every session has left and every
\* command has reached streams to nobody.
THEOREM NeverStreamsToNobody == VideoDroneSpec => []NoStreamWithoutSession
<1> DEFINE Typed == wire \in Seq({"start", "stop"}) /\ drone \in DroneState
<1>1. VideoDroneInit => StopComesLast
  BY DEF VideoDroneInit, StopComesLast
<1>2. VideoDroneTypeOK => VideoTypeOK /\ Typed
  BY DEF VideoDroneTypeOK
<1>3. VideoDroneTypeOK /\ FoundInv /\ StopComesLast /\ [VideoDroneNext]_allVars => StopComesLast'
  BY <1>2, StopStaysLast
<1>4. StopComesLast => NoStreamWithoutSession
  BY DEF StopComesLast, NoStreamWithoutSession, OwesStop, LastIsStop
<1> QED
  BY <1>1, <1>3, <1>4, VideoDroneTypeCorrect, FoundInvariant, DroneAddsNothing, PTL
     DEF VideoDroneSpec
===============================================================================
