------------------------------- MODULE GzServer -------------------------------
(***************************************************************************)
(* gzserver: the HTTP handlers that start and stop one Gazebo simulation   *)
(* and put drones into it.  Each request runs in a goroutine of its own;   *)
(* gzserverCmd and drones are package variables without a lock.  A handler *)
(* is cut where it blocks: reading its request, looking an address up,     *)
(* waiting for the script that asks Gazebo to insert the drone's model.    *)
(*                                                                         *)
(* Gazebo, the scripts and the addresses are external.  A simulation is    *)
(* numbered in the order of the starts.                                    *)
(***************************************************************************)
EXTENDS Naturals, FiniteSets

CONSTANTS
  Request,      \* the handler goroutines there are at a time
  Device,       \* device ids
  StartsAlone,  \* TRUE: nobody asks for a start while another start is handled
  Faults,       \* "lookup", "fork", "gz", "exit": what may fail in a run
  MaxSims       \* bound: simulations ever started

ASSUME GzAssumption ==
  /\ IsFiniteSet(Request)
  /\ StartsAlone \in BOOLEAN
  /\ MaxSims \in Nat

VARIABLES
  gzserverCmd,  \* the simulation the API knows of, or 0
  drones,       \* the devices in the map of drones
  req,          \* req[r]: the handler goroutine r runs
  left,         \* left[d]: goroutines of d's creations blocked on done for ever
  sims,         \* simulations started so far
  running,      \* the simulations whose gzserver runs
  models,       \* models[i]: the devices with a model in simulation i
  orphans       \* spawn scripts whose shell was killed: <<r, d>>

api == <<gzserverCmd, drones, req, left>>
gazebo == <<sims, running, models, orphans>>
gzVars == <<api, gazebo>>

Sim == 1..MaxSims
Idle == [at |-> "idle"]
Starting == [at |-> "start"]
Creating == [at: {"body", "lookup", "spawn", "exited"}, dev: Device]

GzTypeOK ==
  /\ gzserverCmd \in 0..sims /\ sims \in 0..MaxSims
  /\ drones \subseteq Device
  /\ req \in [Request -> {Idle, Starting} \cup Creating]
  /\ left \in [Device -> Nat]
  /\ running \subseteq 1..sims
  /\ models \in [Sim -> SUBSET Device]
  /\ \A i \in Sim \ running : models[i] = {}
  /\ orphans \subseteq Request \X Device

GzInit ==
  /\ gzserverCmd = 0 /\ sims = 0
  /\ drones = {} /\ running = {} /\ orphans = {}
  /\ req = [r \in Request |-> Idle]
  /\ left = [d \in Device |-> 0]
  /\ models = [i \in Sim |-> {}]

Goes(r, x) == req' = [req EXCEPT ![r] = x]

CreatesAt(r, at) == req[r].at = at
Creates(r) == req[r] \in Creating

------------------------------------------------------------------------------
(* startSimulation and stopSimulation *)

\* Mutant: a simulation that runs is no reason not to start another.
StartAnyway(r) ==
  /\ req[r] = Idle
  /\ StartsAlone => \A q \in Request : req[q] # Starting
  /\ Goes(r, Starting)
  /\ UNCHANGED <<gzserverCmd, drones, left, gazebo>>

\* Whoever finds a simulation is refused.  The body of the request is read
\* after the check.
StartSimulation(r) ==
  /\ req[r] = Idle
  /\ StartsAlone => \A q \in Request : req[q] # Starting
  /\ gzserverCmd = 0
  /\ Goes(r, Starting)
  /\ UNCHANGED <<gzserverCmd, drones, left, gazebo>>

StartGazebo(r) ==
  /\ req[r] = Starting
  /\ sims < MaxSims
  /\ sims' = sims + 1
  /\ gzserverCmd' = sims'
  /\ running' = running \cup {sims'}
  /\ Goes(r, Idle)
  /\ UNCHANGED <<drones, left, models, orphans>>

StartMalformed(r) ==
  /\ req[r] = Starting
  /\ Goes(r, Idle)
  /\ UNCHANGED <<gzserverCmd, drones, left, gazebo>>

\* Mutant: a start that failed is logged, and its command kept.
StartKeepsCmd(r) ==
  /\ "fork" \in Faults
  /\ req[r] = Starting
  /\ gzserverCmd' = sims + 1
  /\ Goes(r, Idle)
  /\ UNCHANGED <<drones, left, gazebo>>

\* log.Fatal: the API is the container's only service, so everything stops.
StartFatal(r) ==
  /\ "fork" \in Faults
  /\ req[r] = Starting
  /\ gzserverCmd' = 0 /\ drones' = {}
  /\ req' = [q \in Request |-> Idle]
  /\ left' = [d \in Device |-> 0]
  /\ running' = {} /\ orphans' = {}
  /\ models' = [i \in Sim |-> {}]
  /\ UNCHANGED sims

Ends(i) ==
  /\ running' = running \ {i}
  /\ models' = [models EXCEPT ![i] = {}]
  /\ UNCHANGED <<sims, orphans>>

\* The process group is killed; the map of drones stays as it is.
StopSimulation ==
  /\ gzserverCmd # 0
  /\ Ends(gzserverCmd)
  /\ gzserverCmd' = 0
  /\ UNCHANGED <<drones, req, left>>

\* gzserver ends by itself, and nobody waits for it.
GazeboExits(i) ==
  /\ "exit" \in Faults
  /\ i \in running
  /\ Ends(i)
  /\ UNCHANGED api

------------------------------------------------------------------------------
(* createDrone *)

CreateDrone(r, d) ==
  /\ req[r] = Idle
  /\ gzserverCmd # 0
  /\ Goes(r, [at |-> "body", dev |-> d])
  /\ UNCHANGED <<gzserverCmd, drones, left, gazebo>>

\* A device in the map is refused.
CreateChecks(r) ==
  /\ CreatesAt(r, "body")
  /\ Goes(r, IF req[r].dev \in drones THEN Idle
             ELSE [at |-> "lookup", dev |-> req[r].dev])
  /\ UNCHANGED <<gzserverCmd, drones, left, gazebo>>

\* Neither the lookup nor the script asks whether the simulation still runs.
CreateSpawns(r) ==
  /\ CreatesAt(r, "lookup")
  /\ Goes(r, [at |-> "spawn", dev |-> req[r].dev])
  /\ UNCHANGED <<gzserverCmd, drones, left, gazebo>>

CreateFails(r) ==
  /\ "lookup" \in Faults
  /\ CreatesAt(r, "lookup")
  /\ Goes(r, Idle)
  /\ UNCHANGED <<gzserverCmd, drones, left, gazebo>>

\* Any gzserver that runs may be the one that answers gz.
Inserts(d) ==
  /\ \E i \in running : models' = [models EXCEPT ![i] = @ \cup {d}]
  /\ UNCHANGED <<sims, running>>

ScriptInserts(r) ==
  /\ CreatesAt(r, "spawn")
  /\ Inserts(req[r].dev)
  /\ Goes(r, [at |-> "exited", dev |-> req[r].dev])
  /\ UNCHANGED <<gzserverCmd, drones, left, orphans>>

ScriptFails(r) ==
  /\ "gz" \in Faults
  /\ CreatesAt(r, "spawn")
  /\ Goes(r, [at |-> "exited", dev |-> req[r].dev])
  /\ UNCHANGED <<gzserverCmd, drones, left, gazebo>>

\* done is received: the device is recorded, whatever the script's result.
Record(r) ==
  /\ CreatesAt(r, "exited")
  /\ drones' = drones \cup {req[r].dev}
  /\ Goes(r, Idle)
  /\ UNCHANGED <<gzserverCmd, left, gazebo>>

\* Mutant: a creation that timed out is not recorded.
TimeoutReturns(r) ==
  /\ Creates(r) /\ req[r].at \in {"spawn", "exited"}
  /\ Goes(r, Idle)
  /\ left' = [left EXCEPT ![req[r].dev] = @ + 1]
  /\ orphans' = IF CreatesAt(r, "spawn") THEN orphans \cup {<<r, req[r].dev>>} ELSE orphans
  /\ UNCHANGED <<gzserverCmd, drones, sims, running, models>>

\* Mutant: the timer runs only once the script has ended.
TimeoutLate(r) ==
  /\ CreatesAt(r, "exited")
  /\ drones' = drones \cup {req[r].dev}
  /\ left' = [left EXCEPT ![req[r].dev] = @ + 1]
  /\ Goes(r, Idle)
  /\ UNCHANGED <<gzserverCmd, gazebo>>

\* Twenty seconds are over, maybe just when the script has ended.  The shell
\* is killed, not the gz it runs; nobody will receive from done.
Timeout(r) ==
  /\ Creates(r) /\ req[r].at \in {"spawn", "exited"}
  /\ drones' = drones \cup {req[r].dev}
  /\ left' = [left EXCEPT ![req[r].dev] = @ + 1]
  /\ orphans' = IF CreatesAt(r, "spawn") THEN orphans \cup {<<r, req[r].dev>>} ELSE orphans
  /\ Goes(r, Idle)
  /\ UNCHANGED <<gzserverCmd, sims, running, models>>

OrphanInserts(o) ==
  /\ o \in orphans
  /\ Inserts(o[2])
  /\ orphans' = orphans \ {o}
  /\ UNCHANGED api

OrphanFails(o) ==
  /\ o \in orphans
  /\ orphans' = orphans \ {o}
  /\ UNCHANGED <<api, sims, running, models>>

------------------------------------------------------------------------------
CreateGoesOn(r) == Record(r) \/ Timeout(r)

GzNext ==
  \/ \E r \in Request :
       \/ StartSimulation(r) \/ StartGazebo(r) \/ StartMalformed(r) \/ StartFatal(r)
       \/ \E d \in Device : CreateDrone(r, d)
       \/ CreateChecks(r) \/ CreateSpawns(r) \/ CreateFails(r)
       \/ ScriptInserts(r) \/ ScriptFails(r) \/ CreateGoesOn(r)
  \/ \E o \in orphans : OrphanInserts(o) \/ OrphanFails(o)
  \/ StopSimulation
  \/ \E i \in running : GazeboExits(i)

GzSpec == GzInit /\ [][GzNext]_gzVars

\* Timers fire and goroutines run; clients, lookups and scripts may take for
\* ever.
FairGzSpec == GzSpec /\ \A r \in Request : WF_gzVars(CreateGoesOn(r))

------------------------------------------------------------------------------
(* Properties *)

Listed(d) ==
  d \in drones \/ \E r \in Request : req[r] = [at |-> "exited", dev |-> d]

\* The list of drones misses none: a model is in a simulation only if its
\* device is in the map or its creation is about to put it there, although a
\* script that timed out may insert it long after its request was answered.
ModelIsListed == \A i \in running : \A d \in models[i] : Listed(d)

\* "single simulation environment": the only gzserver that runs is the one the
\* API can stop, provided that starts are not made side by side.
SimulationIsKnown == running \subseteq {gzserverCmd}

\* A timeout leaves a goroutine behind for ever, but a device whose creation
\* timed out is never created again: as many are left as there were requests
\* for it at once, not as there are requests.
LeftBehindBounded == \A d \in Device : left[d] <= Cardinality(Request)

\* A creation is answered even if Gazebo never answers the script.
SpawnIsAnswered ==
  \A r \in Request : CreatesAt(r, "spawn") ~> ~Creates(r)
==============================================================================
