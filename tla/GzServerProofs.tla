----------------------------- MODULE GzServerProofs -----------------------------
(***************************************************************************)
(* Theorems about GzServer, for any devices, any number of requests at a   *)
(* time, any faults and any number of simulations.                         *)
(***************************************************************************)
EXTENDS GzServer, FiniteSetTheorems, TLAPS

------------------------------------------------------------------------------
(* Types *)

CreateAt == {"body", "lookup", "spawn", "exited"}

\* Where a handler is tells what it does.
LEMMA AtTells ==
  ASSUME GzTypeOK, NEW r \in Request, NEW at \in CreateAt, CreatesAt(r, at)
  PROVE  /\ req[r] = [at |-> at, dev |-> req[r].dev]
         /\ req[r].dev \in Device
         /\ Creates(r)
<1>1. req[r] \in {Idle, Starting} \cup Creating
  BY DEF GzTypeOK
<1>2. req[r] # Idle /\ req[r] # Starting
  BY DEF Idle, Starting, CreatesAt, CreateAt
<1> QED  BY <1>1, <1>2 DEF Creating, Creates, CreatesAt

LEMMA CreatingIs ==
  ASSUME NEW at \in CreateAt, NEW d \in Device
  PROVE  [at |-> at, dev |-> d] \in Creating
BY DEF CreateAt, Creating

LEMMA CreatesHasDevice ==
  ASSUME NEW r \in Request, Creates(r)
  PROVE  req[r].dev \in Device /\ req[r].at \in CreateAt
BY DEF Creates, Creating, CreateAt

LEMMA GzTypeStep == GzTypeOK /\ [GzNext]_gzVars => GzTypeOK'
<1> SUFFICES ASSUME GzTypeOK, [GzNext]_gzVars PROVE GzTypeOK'
  OBVIOUS
<1> USE GzAssumption DEF GzTypeOK, Sim
<1>1. ASSUME NEW r \in Request, StartSimulation(r) \/ StartMalformed(r) PROVE GzTypeOK'
  BY <1>1 DEF StartSimulation, StartMalformed, Goes, gazebo
<1>2. ASSUME NEW r \in Request, StartGazebo(r) PROVE GzTypeOK'
  BY <1>2 DEF StartGazebo, Goes
<1>3. ASSUME NEW r \in Request, StartFatal(r) PROVE GzTypeOK'
  BY <1>3 DEF StartFatal
<1>4. ASSUME NEW r \in Request, NEW d \in Device, CreateDrone(r, d) PROVE GzTypeOK'
  BY <1>4 DEF CreateDrone, Goes, gazebo, Creating
<1>5. ASSUME NEW r \in Request, CreateChecks(r) \/ CreateSpawns(r) \/ CreateFails(r)
      PROVE  GzTypeOK'
  <2>1. CASE CreateChecks(r)
    <3>1. [at |-> "lookup", dev |-> req[r].dev] \in Creating
      BY <2>1, AtTells, CreatingIs DEF CreateChecks, CreateAt
    <3> QED  BY <2>1, <3>1 DEF CreateChecks, Goes, gazebo
  <2>2. CASE CreateSpawns(r)
    <3>1. [at |-> "spawn", dev |-> req[r].dev] \in Creating
      BY <2>2, AtTells, CreatingIs DEF CreateSpawns, CreateAt
    <3> QED  BY <2>2, <3>1 DEF CreateSpawns, Goes, gazebo
  <2>3. CASE CreateFails(r)
    BY <2>3 DEF CreateFails, Goes, gazebo
  <2> QED  BY <1>5, <2>1, <2>2, <2>3
<1>6. ASSUME NEW r \in Request, ScriptInserts(r) \/ ScriptFails(r) PROVE GzTypeOK'
  <2>1. CreatesAt(r, "spawn")
    BY <1>6 DEF ScriptInserts, ScriptFails
  <2>2. /\ req[r].dev \in Device
        /\ [at |-> "exited", dev |-> req[r].dev] \in Creating
    BY <2>1, AtTells, CreatingIs DEF CreateAt
  <2>3. CASE ScriptInserts(r)
    BY <2>2, <2>3 DEF ScriptInserts, Inserts, Goes
  <2>4. CASE ScriptFails(r)
    BY <2>2, <2>4 DEF ScriptFails, Goes, gazebo
  <2> QED  BY <1>6, <2>3, <2>4
<1>7. ASSUME NEW r \in Request, CreateGoesOn(r) PROVE GzTypeOK'
  <2>1. CASE Record(r)
    <3>1. req[r].dev \in Device
      BY <2>1, AtTells DEF Record, CreateAt
    <3> QED  BY <2>1, <3>1 DEF Record, Goes, gazebo
  <2>2. CASE Timeout(r)
    <3>1. req[r].dev \in Device
      BY <2>2, CreatesHasDevice DEF Timeout
    <3> QED  BY <2>2, <3>1 DEF Timeout, Goes
  <2> QED  BY <1>7, <2>1, <2>2 DEF CreateGoesOn
<1>8. ASSUME NEW o \in orphans, OrphanInserts(o) \/ OrphanFails(o) PROVE GzTypeOK'
  <2>1. o[2] \in Device
    OBVIOUS
  <2>2. CASE OrphanInserts(o)
    BY <2>1, <2>2 DEF OrphanInserts, Inserts, api
  <2>3. CASE OrphanFails(o)
    BY <2>3 DEF OrphanFails, api
  <2> QED  BY <1>8, <2>2, <2>3
<1>9. CASE StopSimulation
  BY <1>9 DEF StopSimulation, Ends
<1>10. ASSUME NEW i \in running, GazeboExits(i) PROVE GzTypeOK'
  BY <1>10 DEF GazeboExits, Ends, api
<1>11. CASE UNCHANGED gzVars
  BY <1>11 DEF gzVars, api, gazebo
<1> QED
  BY <1>1, <1>2, <1>3, <1>4, <1>5, <1>6, <1>7, <1>8, <1>9, <1>10, <1>11 DEF GzNext

\* Nothing is inserted into a simulation that does not run, and the API never
\* takes a simulation for its own that was not started.
THEOREM GzTypeCorrect == GzSpec => []GzTypeOK
<1>1. GzInit => GzTypeOK
  BY GzAssumption DEF GzInit, GzTypeOK, Sim
<1> QED  BY <1>1, GzTypeStep, PTL DEF GzSpec

------------------------------------------------------------------------------
(* Models are listed *)

\* A script that is left to itself belongs to a device that is recorded.
OrphansRecorded == \A o \in orphans : o[2] \in drones

ListedInv == ModelIsListed /\ OrphansRecorded

LEMMA ListedKept ==
  ASSUME ListedInv,
         drones \subseteq drones',
         \A d \in Device : Listed(d) => Listed(d)',
         \A i \in running' : \A d \in models'[i] :
           d \in Device /\ ((i \in running /\ d \in models[i]) \/ Listed(d)'),
         \A o \in orphans' : o \in orphans \/ o[2] \in drones'
  PROVE  ListedInv'
BY DEF ListedInv, ModelIsListed, OrphansRecorded

LEMMA ListedStep == GzTypeOK /\ ListedInv /\ [GzNext]_gzVars => ListedInv'
<1> SUFFICES ASSUME GzTypeOK, ListedInv, [GzNext]_gzVars PROVE ListedInv'
  OBVIOUS
<1>0. /\ \A i \in running : i \in Sim /\ models[i] \subseteq Device
      /\ \A i \in Sim \ running : models[i] = {}
  BY GzAssumption DEF GzTypeOK, Sim
\* Steps that leave Gazebo alone and record and forget nothing.
<1>1. ASSUME NEW r \in Request, NEW x,
             ~CreatesAt(r, "exited"), req' = [req EXCEPT ![r] = x],
             UNCHANGED <<drones, gazebo>>
      PROVE  ListedInv'
  <2>1. ASSUME NEW d \in Device, Listed(d) PROVE Listed(d)'
    BY <1>1, <2>1 DEF Listed, CreatesAt, GzTypeOK
  <2> QED  BY <1>0, <1>1, <2>1, ListedKept DEF gazebo
<1>2. ASSUME NEW r \in Request, StartSimulation(r) \/ StartMalformed(r) PROVE ListedInv'
  BY <1>1, <1>2 DEF StartSimulation, StartMalformed, Goes, CreatesAt, Idle, Starting
<1>3. ASSUME NEW r \in Request, StartGazebo(r) PROVE ListedInv'
  <2>1. ASSUME NEW d \in Device, Listed(d) PROVE Listed(d)'
    BY <1>3, <2>1 DEF Listed, StartGazebo, Goes, Starting, GzTypeOK
  <2>2. sims + 1 \in Sim \ running
    BY <1>3, GzAssumption DEF StartGazebo, GzTypeOK, Sim
  <2> QED  BY <1>0, <1>3, <2>1, <2>2, ListedKept DEF StartGazebo
<1>4. ASSUME NEW r \in Request, StartFatal(r) PROVE ListedInv'
  BY <1>4 DEF StartFatal, ListedInv, ModelIsListed, OrphansRecorded
<1>5. ASSUME NEW r \in Request, NEW d \in Device, CreateDrone(r, d) PROVE ListedInv'
  <2>1. ~CreatesAt(r, "exited")
    BY <1>5 DEF CreateDrone, CreatesAt, Idle
  <2> QED  BY <1>1, <1>5, <2>1 DEF CreateDrone, Goes
<1>6. ASSUME NEW r \in Request, CreateChecks(r) \/ CreateSpawns(r) \/ CreateFails(r)
      PROVE  ListedInv'
  BY <1>1, <1>6 DEF CreateChecks, CreateSpawns, CreateFails, Goes, CreatesAt
<1>7. ASSUME NEW r \in Request, ScriptInserts(r) PROVE ListedInv'
  <2>1. /\ CreatesAt(r, "spawn") /\ Inserts(req[r].dev)
        /\ req' = [req EXCEPT ![r] = [at |-> "exited", dev |-> req[r].dev]]
        /\ UNCHANGED <<drones, orphans>>
    BY <1>7 DEF ScriptInserts, Goes
  <2>2. req[r].dev \in Device
    BY <2>1, AtTells DEF CreateAt
  <2>3. ASSUME NEW d \in Device, Listed(d) PROVE Listed(d)'
    BY <2>1, <2>3 DEF Listed, CreatesAt, GzTypeOK
  <2>4. Listed(req[r].dev)'
    BY <2>1 DEF Listed, GzTypeOK
  <2> QED  BY <1>0, <2>1, <2>2, <2>3, <2>4, ListedKept DEF Inserts, GzTypeOK
<1>8. ASSUME NEW r \in Request, ScriptFails(r) PROVE ListedInv'
  BY <1>1, <1>8 DEF ScriptFails, Goes, CreatesAt
<1>9. ASSUME NEW r \in Request, CreateGoesOn(r) PROVE ListedInv'
  <2>1. /\ drones' = drones \cup {req[r].dev}
        /\ req' = [req EXCEPT ![r] = Idle]
        /\ UNCHANGED <<running, models>>
        /\ orphans' \subseteq orphans \cup {<<r, req[r].dev>>}
    BY <1>9 DEF CreateGoesOn, Record, Timeout, Goes, gazebo
  <2>2. ASSUME NEW d \in Device, Listed(d) PROVE Listed(d)'
    BY <2>1, <2>2 DEF Listed, GzTypeOK
  <2> QED  BY <1>0, <2>1, <2>2, ListedKept
<1>10. ASSUME NEW o \in orphans, OrphanInserts(o) PROVE ListedInv'
  <2>1. o[2] \in drones
    BY DEF ListedInv, OrphansRecorded
  <2>2. \A d \in Device : Listed(d) => Listed(d)'
    BY <1>10 DEF Listed, OrphanInserts, api
  <2>3. Listed(o[2])' /\ o[2] \in Device
    BY <1>10, <2>1 DEF Listed, OrphanInserts, api, GzTypeOK
  <2> QED
    BY <1>0, <1>10, <2>2, <2>3, ListedKept DEF OrphanInserts, Inserts, api, GzTypeOK
<1>11. ASSUME NEW o \in orphans, OrphanFails(o) PROVE ListedInv'
  BY <1>11 DEF OrphanFails, api, ListedInv, ModelIsListed, OrphansRecorded, Listed
<1>12. ASSUME NEW i, Ends(i), UNCHANGED <<drones, req>> PROVE ListedInv'
  BY <1>0, <1>12 DEF Ends, ListedInv, ModelIsListed, OrphansRecorded, Listed, GzTypeOK
<1>13. CASE StopSimulation
  BY <1>12, <1>13 DEF StopSimulation
<1>14. ASSUME NEW i \in running, GazeboExits(i) PROVE ListedInv'
  BY <1>12, <1>14 DEF GazeboExits, api
<1>15. CASE UNCHANGED gzVars
  BY <1>15 DEF gzVars, api, gazebo, ListedInv, ModelIsListed, OrphansRecorded, Listed
<1> QED
  BY <1>2, <1>3, <1>4, <1>5, <1>6, <1>7, <1>8, <1>9, <1>10, <1>11, <1>13, <1>14, <1>15
     DEF GzNext

\* The list of drones misses none, also of those whose script timed out and
\* inserted the model later.
THEOREM ModelsAreListed == GzSpec => []ModelIsListed
<1>1. GzInit => ListedInv
  BY DEF GzInit, ListedInv, ModelIsListed, OrphansRecorded
<1>2. ListedInv => ModelIsListed
  BY DEF ListedInv
<1> QED  BY <1>1, <1>2, ListedStep, GzTypeCorrect, PTL DEF GzSpec

------------------------------------------------------------------------------
(* One simulation *)

\* Who starts a simulation is the only one to, and found none.
StartsInv ==
  /\ \A r \in Request : req[r] = Starting => gzserverCmd = 0
  /\ \A r, q \in Request : req[r] = Starting /\ req[q] = Starting => r = q

KnownInv == StartsInv /\ SimulationIsKnown

LEMMA KnownStep ==
  ASSUME StartsAlone
  PROVE  GzTypeOK /\ KnownInv /\ [GzNext]_gzVars => KnownInv'
<1> SUFFICES ASSUME GzTypeOK, KnownInv, [GzNext]_gzVars PROVE KnownInv'
  OBVIOUS
<1> USE DEF KnownInv, StartsInv, SimulationIsKnown
<1>1. ASSUME NEW r \in Request, StartSimulation(r) PROVE KnownInv'
  BY <1>1 DEF StartSimulation, Goes, GzTypeOK, gazebo
<1>2. ASSUME NEW r \in Request, StartGazebo(r) PROVE KnownInv'
  <2>1. running = {}
    BY <1>2 DEF StartGazebo, GzTypeOK
  <2>2. \A q \in Request : req'[q] # Starting
    BY <1>2 DEF StartGazebo, Goes, GzTypeOK, Idle, Starting
  <2> QED  BY <1>2, <2>1, <2>2 DEF StartGazebo
\* A handler that does not start a simulation leaves the API's alone.
<1>3. ASSUME NEW r \in Request, NEW x, x # Starting,
             req' = [req EXCEPT ![r] = x], UNCHANGED <<gzserverCmd, running>>
      PROVE  KnownInv'
  BY <1>3 DEF GzTypeOK
<1>4. ASSUME NEW r \in Request, StartMalformed(r) \/ CreateFails(r) \/ CreateGoesOn(r)
      PROVE  KnownInv'
  <2>1. req' = [req EXCEPT ![r] = Idle] /\ UNCHANGED <<gzserverCmd, running>>
    BY <1>4 DEF StartMalformed, CreateFails, CreateGoesOn, Record, Timeout, Goes, gazebo
  <2> QED  BY <1>3, <2>1 DEF Idle, Starting
<1>5. ASSUME NEW r \in Request, StartFatal(r) PROVE KnownInv'
  BY <1>5 DEF StartFatal, Idle, Starting
<1>6. ASSUME NEW r \in Request, NEW d \in Device, CreateDrone(r, d) PROVE KnownInv'
  <2>1. [at |-> "body", dev |-> d] # Starting
    BY DEF Starting
  <2> QED  BY <1>3, <1>6, <2>1 DEF CreateDrone, Goes, gazebo
<1>7. ASSUME NEW r \in Request,
             CreateChecks(r) \/ CreateSpawns(r) \/ ScriptInserts(r) \/ ScriptFails(r)
      PROVE  KnownInv'
  <2>1. \A at \in {"lookup", "spawn", "exited"} : [at |-> at, dev |-> req[r].dev] # Starting
    BY DEF Starting
  <2>2. CASE CreateChecks(r)
    BY <1>3, <2>1, <2>2 DEF CreateChecks, Goes, gazebo, Idle, Starting
  <2>3. CASE CreateSpawns(r)
    BY <1>3, <2>1, <2>3 DEF CreateSpawns, Goes, gazebo
  <2>4. CASE ScriptInserts(r)
    BY <1>3, <2>1, <2>4 DEF ScriptInserts, Inserts, Goes
  <2>5. CASE ScriptFails(r)
    BY <1>3, <2>1, <2>5 DEF ScriptFails, Goes, gazebo
  <2> QED  BY <1>7, <2>2, <2>3, <2>4, <2>5
<1>8. ASSUME NEW o \in orphans, OrphanInserts(o) \/ OrphanFails(o) PROVE KnownInv'
  BY <1>8 DEF OrphanInserts, OrphanFails, Inserts, api
<1>9. CASE StopSimulation
  BY <1>9 DEF StopSimulation, Ends
<1>10. ASSUME NEW i \in running, GazeboExits(i) PROVE KnownInv'
  BY <1>10 DEF GazeboExits, Ends, api
<1>11. CASE UNCHANGED gzVars
  BY <1>11 DEF gzVars, api, gazebo
<1> QED
  BY <1>1, <1>2, <1>4, <1>5, <1>6, <1>7, <1>8, <1>9, <1>10, <1>11 DEF GzNext

\* If starts are not made side by side, stopping the simulation stops the only
\* one there is.
THEOREM SimulationStaysKnown == StartsAlone => (GzSpec => []SimulationIsKnown)
<1> SUFFICES ASSUME StartsAlone PROVE GzSpec => []SimulationIsKnown
  OBVIOUS
<1>1. GzInit => KnownInv
  BY DEF GzInit, KnownInv, StartsInv, SimulationIsKnown, Idle, Starting
<1>2. KnownInv => SimulationIsKnown
  BY DEF KnownInv
<1>3. GzTypeOK /\ KnownInv /\ [GzNext]_gzVars => KnownInv'
  BY KnownStep
<1> QED  BY <1>1, <1>2, <1>3, GzTypeCorrect, PTL DEF GzSpec

------------------------------------------------------------------------------
(* Goroutines left behind *)

\* The creations of d that have found it not to be in the map.
Past(d) == {r \in Request : Creates(r) /\ req[r].at # "body" /\ req[r].dev = d}

LeftInv ==
  /\ \A d \in Device : left[d] # 0 => d \in drones
  /\ \A d \in Device : left[d] + Cardinality(Past(d)) <= Cardinality(Request)

LEMMA PastIsFinite ==
  ASSUME NEW d
  PROVE  /\ Past(d) \subseteq Request /\ IsFiniteSet(Past(d))
         /\ Cardinality(Past(d)) \in Nat /\ Cardinality(Request) \in Nat
         /\ Cardinality(Past(d)) <= Cardinality(Request)
<1>1. Past(d) \in SUBSET Request
  BY DEF Past
<1> QED  BY <1>1, GzAssumption, FS_Subset, FS_CardinalityType

\* A step after which no more creations are past the check than before.
LEMMA LeftKept ==
  ASSUME LeftInv, UNCHANGED left, GzTypeOK, drones \subseteq drones',
         \A d \in Device : Past(d)' \subseteq Past(d)
  PROVE  LeftInv'
<1>1. ASSUME NEW d \in Device
      PROVE  /\ Cardinality(Past(d)') \in Nat
             /\ Cardinality(Past(d)') <= Cardinality(Past(d))
  <2>1. Past(d)' \in SUBSET Past(d)
    OBVIOUS
  <2> QED  BY <2>1, PastIsFinite, FS_Subset, FS_CardinalityType
<1>2. \A d \in Device : left'[d] # 0 => d \in drones'
  BY DEF LeftInv
<1>3. ASSUME NEW d \in Device
      PROVE  left'[d] + Cardinality(Past(d)') <= Cardinality(Request)
  <2>1. left[d] + Cardinality(Past(d)) <= Cardinality(Request) /\ left[d] \in Nat
    BY DEF LeftInv, GzTypeOK
  <2> QED  BY <1>1, <2>1, PastIsFinite
<1> QED  BY <1>2, <1>3 DEF LeftInv

LEMMA LeftStep == GzTypeOK /\ LeftInv /\ [GzNext]_gzVars => LeftInv'
<1> SUFFICES ASSUME GzTypeOK, LeftInv, [GzNext]_gzVars PROVE LeftInv'
  OBVIOUS
<1>0. /\ Idle \notin Creating /\ Starting \notin Creating
      /\ req \in [Request -> {Idle, Starting} \cup Creating]
  BY DEF Idle, Starting, Creating, GzTypeOK
\* A handler that stops, or has not come to the check.
<1>1. ASSUME NEW r \in Request, NEW x, x \in Creating => x.at = "body",
             req' = [req EXCEPT ![r] = x], drones \subseteq drones', UNCHANGED left
      PROVE  LeftInv'
  <2>1. ASSUME NEW d \in Device PROVE Past(d)' \subseteq Past(d)
    BY <1>0, <1>1 DEF Past, Creates
  <2> QED  BY <1>1, <2>1, LeftKept
\* A handler that has passed the check and goes on.
<1>2. ASSUME NEW r \in Request, NEW at \in CreateAt, Creates(r), req[r].at # "body",
             req' = [req EXCEPT ![r] = [at |-> at, dev |-> req[r].dev]],
             UNCHANGED <<drones, left>>
      PROVE  LeftInv'
  <2>1. ASSUME NEW d \in Device PROVE Past(d)' \subseteq Past(d)
    BY <1>0, <1>2 DEF Past, Creates
  <2> QED  BY <1>2, <2>1, LeftKept
<1>3. ASSUME NEW r \in Request,
             StartSimulation(r) \/ StartMalformed(r) \/ StartGazebo(r) \/ CreateFails(r)
      PROVE  LeftInv'
  BY <1>0, <1>1, <1>3 DEF StartSimulation, StartMalformed, StartGazebo, CreateFails, Goes
<1>4. ASSUME NEW r \in Request, StartFatal(r) PROVE LeftInv'
  <2>1. ASSUME NEW d \in Device PROVE left'[d] = 0 /\ Past(d)' = {}
    BY <1>0, <1>4 DEF StartFatal, Past, Creates
  <2>2. Cardinality({}) = 0 /\ Cardinality(Request) \in Nat
    BY FS_EmptySet, FS_CardinalityType, GzAssumption
  <2> QED  BY <2>1, <2>2 DEF LeftInv
<1>5. ASSUME NEW r \in Request, NEW d \in Device, CreateDrone(r, d) PROVE LeftInv'
  BY <1>1, <1>5 DEF CreateDrone, Goes
<1>6. ASSUME NEW r \in Request, CreateChecks(r) PROVE LeftInv'
  <2>0. PICK e \in Device : e = req[r].dev
    BY <1>6, AtTells DEF CreateChecks, CreateAt
  <2>1. CASE e \in drones
    BY <1>0, <1>1, <1>6, <2>0, <2>1 DEF CreateChecks, Goes
  <2>2. CASE e \notin drones
    <3>1. /\ req' = [req EXCEPT ![r] = [at |-> "lookup", dev |-> e]]
          /\ UNCHANGED <<drones, left>>
      BY <1>6, <2>0, <2>2 DEF CreateChecks, Goes
    <3>2. left[e] = 0
      BY <2>2, <3>1 DEF LeftInv
    <3>3. Past(e)' \in SUBSET Request
      BY DEF Past
    <3>4. Cardinality(Past(e)') \in Nat /\ Cardinality(Past(e)') <= Cardinality(Request)
      BY <3>3, FS_Subset, FS_CardinalityType, GzAssumption
    <3>5. ASSUME NEW d \in Device, d # e PROVE Past(d)' = Past(d)
      BY <1>0, <1>6, <2>0, <3>1, <3>5, AtTells DEF Past, Creates, CreateChecks, CreatesAt, CreateAt, Creating
    <3>6. ASSUME NEW d \in Device
          PROVE  left'[d] + Cardinality(Past(d)') <= Cardinality(Request)
      <4>1. CASE d = e
        BY <3>1, <3>2, <3>4, <4>1
      <4>2. CASE d # e
        BY <3>1, <3>5, <4>2 DEF LeftInv
      <4> QED  BY <4>1, <4>2
    <3> QED  BY <3>1, <3>6 DEF LeftInv
  <2> QED  BY <2>1, <2>2
<1>7. ASSUME NEW r \in Request, CreateSpawns(r) PROVE LeftInv'
  BY <1>2, <1>7, AtTells DEF CreateSpawns, Goes, CreatesAt, CreateAt
<1>8. ASSUME NEW r \in Request, ScriptInserts(r) \/ ScriptFails(r) PROVE LeftInv'
  <2>1. CreatesAt(r, "spawn") /\ UNCHANGED <<drones, left>>
        /\ req' = [req EXCEPT ![r] = [at |-> "exited", dev |-> req[r].dev]]
    BY <1>8 DEF ScriptInserts, ScriptFails, Goes
  <2> QED  BY <1>2, <2>1, AtTells DEF CreatesAt, CreateAt
<1>9. ASSUME NEW r \in Request, Record(r) PROVE LeftInv'
  BY <1>0, <1>1, <1>9 DEF Record, Goes
<1>10. ASSUME NEW r \in Request, Timeout(r) PROVE LeftInv'
  <2>0. PICK e \in Device : e = req[r].dev
    BY <1>10, CreatesHasDevice DEF Timeout
  <2>1. /\ r \in Past(e)
        /\ drones' = drones \cup {e}
        /\ left' = [left EXCEPT ![e] = @ + 1]
        /\ req' = [req EXCEPT ![r] = Idle]
    BY <1>10, <2>0 DEF Timeout, Past, Goes
  <2>2. Past(e)' = Past(e) \ {r}
    BY <1>0, <2>0, <2>1 DEF Past, Creates
  <2>3. Cardinality(Past(e)') = Cardinality(Past(e)) - 1
    BY <2>1, <2>2, PastIsFinite, FS_RemoveElement
  <2>4. ASSUME NEW d \in Device, d # e PROVE Past(d)' = Past(d)
    BY <1>0, <2>0, <2>1, <2>4 DEF Past, Creates
  <2>5. ASSUME NEW d \in Device
        PROVE  left'[d] + Cardinality(Past(d)') <= Cardinality(Request)
    <3>1. CASE d = e
      <4>1. left'[d] = left[d] + 1 /\ left[d] \in Nat
        BY <2>1, <3>1 DEF GzTypeOK
      <4>2. left[d] + Cardinality(Past(d)) <= Cardinality(Request)
        BY DEF LeftInv
      <4> QED  BY <2>3, <3>1, <4>1, <4>2, PastIsFinite
    <3>2. CASE d # e
      BY <2>1, <2>4, <3>2 DEF LeftInv, GzTypeOK
    <3> QED  BY <3>1, <3>2
  <2>6. ASSUME NEW d \in Device, left'[d] # 0 PROVE d \in drones'
    BY <2>1, <2>6 DEF LeftInv, GzTypeOK
  <2> QED  BY <2>5, <2>6 DEF LeftInv
<1>11. CASE UNCHANGED <<drones, req, left>>
  <2>1. \A d \in Device : Past(d)' = Past(d)
    BY <1>11 DEF Past, Creates
  <2> QED  BY <1>11, <2>1, LeftKept
<1>12. ASSUME NEW o \in orphans, OrphanInserts(o) \/ OrphanFails(o) PROVE LeftInv'
  BY <1>11, <1>12 DEF OrphanInserts, OrphanFails, api
<1>13. CASE StopSimulation
  BY <1>11, <1>13 DEF StopSimulation
<1>14. ASSUME NEW i \in running, GazeboExits(i) PROVE LeftInv'
  BY <1>11, <1>14 DEF GazeboExits, api
<1>15. CASE UNCHANGED gzVars
  BY <1>11, <1>15 DEF gzVars, api
<1> QED
  BY <1>3, <1>4, <1>5, <1>6, <1>7, <1>8, <1>9, <1>10, <1>12, <1>13, <1>14, <1>15
     DEF GzNext, CreateGoesOn

\* Timeouts leave as many goroutines behind for a device as there are requests
\* at a time, however often it is asked for.
THEOREM LeftBehindStaysBounded == GzSpec => []LeftBehindBounded
<1>1. GzInit => LeftInv
  <2> SUFFICES ASSUME GzInit PROVE LeftInv
    OBVIOUS
  <2>1. ASSUME NEW d \in Device PROVE left[d] = 0 /\ Past(d) = {}
    BY DEF GzInit, Past, Creates, Creating, Idle
  <2>2. Cardinality({}) = 0 /\ Cardinality(Request) \in Nat
    BY FS_EmptySet, FS_CardinalityType, GzAssumption
  <2> QED  BY <2>1, <2>2 DEF LeftInv
<1>2. GzTypeOK /\ LeftInv => LeftBehindBounded
  <2> SUFFICES ASSUME GzTypeOK, LeftInv, NEW d \in Device
               PROVE  left[d] <= Cardinality(Request)
    BY DEF LeftBehindBounded
  <2>1. left[d] \in Nat /\ left[d] + Cardinality(Past(d)) <= Cardinality(Request)
    BY DEF GzTypeOK, LeftInv
  <2> QED  BY <2>1, PastIsFinite
<1> QED  BY <1>1, <1>2, LeftStep, GzTypeCorrect, PTL DEF GzSpec
===============================================================================
