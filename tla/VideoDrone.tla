------------------------------ MODULE VideoDrone ------------------------------
(***************************************************************************)
(* video-multiplexer and the drone whose video it shows, here an emulated  *)
(* one: video-test-server.  A session's ffmpeg goroutine sends start when  *)
(* it begins and stop when it ends; commands travel in order and may get   *)
(* lost; video-test-server takes them one at a time.  A session's stop is  *)
(* sent after its entry is gone, so the next session's start may be ahead  *)
(* of it: the drone ignores the start and obeys the stop, and the new      *)
(* session has no video and gives up.                                      *)
(***************************************************************************)
EXTENDS VideoMultiplexer

VARIABLES
  wire,      \* commands on their way to the drone
  drone      \* see DroneState

droneVars == <<wire, drone>>
allVars == <<videoVars, droneVars>>

\* "starting": ffmpeg is in streams, its process is not there yet; "on": it is
\* there, and streams or has ended by itself.  "unknown": a command was lost or
\* came after it had been given up, or the program panicked; whether the drone
\* streams is open from then on.
DroneState == {"off", "starting", "on", "unknown"}

VideoDroneTypeOK ==
  /\ VideoTypeOK
  /\ wire \in Seq({"start", "stop"})
  /\ drone \in DroneState

VideoDroneInit == VideoInit /\ wire = << >> /\ drone = "off"

------------------------------------------------------------------------------
(* SendCommand, as called by the ffmpeg goroutine *)

LoseTrack == wire' = << >> /\ drone' = "unknown"

Deliver(c) ==
  IF drone = "unknown" THEN UNCHANGED droneVars
  ELSE wire' = Append(wire, c) /\ UNCHANGED drone

\* At QoS 1 to the broker, at QoS 0 from there to the drone.
Lose == "mqtt" \in Faults /\ LoseTrack

SendsStart(g) == StartSent(g) /\ (Deliver("start") \/ Lose)

\* The two seconds are over, the command delivered or not.
StartTimesOut(g) == StartNotSent(g) /\ LoseTrack

SendsStop(g) == SendStop(g) /\ (Deliver("stop") \/ Lose)

------------------------------------------------------------------------------
(* video-test-server: run() and its ffmpeg *)

Receives(c) ==
  /\ wire # << >> /\ Head(wire) = c
  /\ wire' = Tail(wire)
  /\ UNCHANGED videoVars

DroneStarts == Receives("start") /\ drone = "off" /\ drone' = "starting"

StreamExists == Receives("start") /\ drone # "off" /\ UNCHANGED drone

\* go cmd.Run()
DroneRuns == drone = "starting" /\ drone' = "on" /\ UNCHANGED <<videoVars, wire>>

DroneStops == Receives("stop") /\ drone = "on" /\ drone' = "off"

StreamNotFound == Receives("stop") /\ drone = "off" /\ UNCHANGED drone

\* cmd.Process is nil until the process is there, and Kill dereferences it.
DronePanics ==
  /\ wire # << >> /\ Head(wire) = "stop" /\ drone = "starting"
  /\ LoseTrack
  /\ UNCHANGED videoVars

DroneGoesOn ==
  \/ DroneStarts \/ StreamExists \/ DroneRuns
  \/ DroneStops \/ StreamNotFound \/ DronePanics

------------------------------------------------------------------------------
(* A viewer's and a session's steps *)

\* Without video from the drone ffmpeg delivers nothing, and exits.
FfmpegSteps(g) ==
  \/ SendsStart(g) \/ StartTimesOut(g) \/ SendsStop(g)
  \/ drone \in {"on", "unknown"} /\ (ReadData(g) \/ KillFfmpeg(g)) /\ UNCHANGED droneVars
  \/ /\ Try(g) \/ GiveUp(g) \/ FfmpegExits(g) \/ DeleteStream(g) \/ CloseStream(g)
     /\ UNCHANGED droneVars

MultiSteps(g) == MultiGoesOn(g) /\ UNCHANGED droneVars

ViewerSteps(v) == ViewerGoesOn(v) /\ UNCHANGED droneVars

ViewerComes(v) == LoadOrStore(v) /\ UNCHANGED droneVars

VideoDroneNext ==
  \/ \E v \in Viewer : ViewerComes(v) \/ ViewerSteps(v)
  \/ \E g \in Session : FfmpegSteps(g) \/ MultiSteps(g)
  \/ DroneGoesOn

VideoDroneSpec == VideoDroneInit /\ [][VideoDroneNext]_allVars

\* As FairVideoSpec; of the drone nothing is asked.
FairVideoDroneSpec ==
  /\ VideoDroneSpec
  /\ \A v \in Viewer : WF_allVars(ViewerSteps(v))
  /\ \A g \in Session : WF_allVars(FfmpegSteps(g)) /\ WF_allVars(MultiSteps(g))

------------------------------------------------------------------------------
(* Properties *)

\* The drone does not stream to nobody: when every session is over and every
\* command has arrived, it is not streaming, in whatever order the stop of a
\* session and the start of the next were sent.
NoStreamWithoutSession ==
  (\A g \in Session : ffmpeg[g] \in {"off", "done"}) /\ wire = << >>
    => drone \in {"off", "unknown"}
==============================================================================
