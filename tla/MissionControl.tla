---------------------------- MODULE MissionControl ----------------------------
(***************************************************************************)
(* mission-control: the HTTP handlers that create and delete missions, put *)
(* drones and tasks in them, and the handlers of the drones' events.  Each *)
(* request and each trust event runs in a goroutine of its own over maps   *)
(* that no lock protects.  A handler is cut where it blocks, that is where *)
(* it runs git, asks the git server or sends a command to a drone; what it *)
(* does between two such calls is one step.  A handler keeps, across its   *)
(* blocking calls, the *Mission it looked up first.                        *)
(*                                                                         *)
(* The drones' own code is not part of the repository: what they do with   *)
(* a command is taken from how mission-control uses their events.          *)
(***************************************************************************)
EXTENDS GitOutbox

CONSTANTS
  Dev,          \* device ids of drones
  Task,         \* backlog items
  NoSlug,       \* the empty slug: a drone in no mission
  Ops,          \* the requests and events that occur in a run
  Alone,        \* the requests that are made only while no other runs
  MaxRequests   \* bound: requests ever made

Outgoing ==
  [type: {"trust", "remove"}, name: Dev] \cup [type: {"task"}, name: Task]

ASSUME MissionAssumption ==
  /\ NoSlug \notin Slug
  /\ Outgoing \subseteq Message
  /\ MaxRequests \in Nat

VARIABLES
  missions,     \* missions[s]: address of the Mission registered as s, or 0
  roster,       \* roster[m]: Mission m's Drones
  drones,       \* drones[d]: the slug d is assigned to, or NoSlug
  backlog,      \* backlog[s]: the tasks listed for s
  heap,         \* addresses given out to Missions and Drones so far
  h,            \* h[p]: the handler goroutine p runs
  process,      \* "up", "crashed" or "panicked"
  requests,     \* requests made so far
  inbox,        \* inbox[d]: commands on their way to drone d
  link,         \* link[d]: the mission drone d believes it is in
  seen          \* seen[d]: mission-state events on their way from drone d

memory == <<missions, roster, drones, backlog, heap>>
field == <<inbox, link, seen>>
missionVars == <<outboxVars, memory, h, process, requests, field>>

Address == 1..MaxRequests
Status == {"", "unknown", "online", "failed"}
Drone == [ref: Address, dev: Dev, trusted: BOOLEAN, status: Status]

Idle == [op |-> "none"]
Handler ==
  [op: {"create"}, at: {"begin", "publish", "published", "undo"},
   slug: Slug, mission: {0}, arg: {NoSlug}] \cup
  [op: {"delete"}, at: {"begin", "finish"}, slug: Slug, mission: Address, arg: {NoSlug}] \cup
  [op: {"assign"}, at: {"begin", "finish"}, slug: Slug, mission: Address, arg: Dev] \cup
  [op: {"remove"}, at: {"publish", "published", "finish"},
   slug: Slug, mission: Address, arg: Dev] \cup
  [op: {"task"}, at: {"publish", "published", "finish"},
   slug: Slug, mission: Address, arg: Task] \cup
  [op: {"trust"}, at: {"begin"}, slug: {NoSlug}, mission: {0}, arg: Dev] \cup
  [op: {"trust"}, at: {"publish", "published"}, slug: Slug, mission: Address, arg: Dev]
Command == [cmd: {"initialize-trust", "join-mission", "leave-mission"},
            slug: Slug \cup {NoSlug}]

MissionTypeOK ==
  /\ OutboxTypeOK
  /\ missions \in [Slug -> Address \cup {0}]
  /\ roster \in [Address -> SUBSET Drone]
  /\ drones \in [Dev -> Slug \cup {NoSlug}]
  /\ backlog \in [Slug -> SUBSET Task]
  /\ heap \in 0..MaxRequests
  /\ h \in [Writer -> {Idle} \cup Handler]
  /\ process \in {"up", "crashed", "panicked"}
  /\ requests \in 0..MaxRequests
  /\ inbox \in [Dev -> Seq(Command)]
  /\ link \in [Dev -> Slug \cup {NoSlug}]
  /\ seen \in [Dev -> SUBSET (Slug \cup {NoSlug})]

MissionInit ==
  /\ OutboxInit
  /\ missions = [s \in Slug |-> 0]
  /\ roster = [m \in Address |-> {}]
  /\ drones = [d \in Dev |-> NoSlug]
  /\ backlog = [s \in Slug |-> {}]
  /\ h = [p \in Writer |-> Idle]
  /\ heap = 0
  /\ process = "up"
  /\ requests = 0
  /\ inbox = [d \in Dev |-> << >>]
  /\ link = [d \in Dev |-> NoSlug]
  /\ seen = [d \in Dev |-> {}]

\* What dies with the process: its maps, its goroutines and their clones.
LoseMemory ==
  /\ LoseClones
  /\ missions' = [s \in Slug |-> 0]
  /\ roster' = [m \in Address |-> {}]
  /\ drones' = [d \in Dev |-> NoSlug]
  /\ backlog' = [s \in Slug |-> {}]
  /\ h' = [p \in Writer |-> Idle]

------------------------------------------------------------------------------
(* How handlers start, move and end *)

MayStart(p, op) ==
  /\ process = "up"
  /\ h[p] = Idle
  /\ op \in Ops
  /\ op \in Alone => \A q \in Writer : h[q] = Idle
  /\ \A q \in Writer : h[q] # Idle => h[q].op \notin Alone

Enter(p, op, at, s, a) ==
  h' = [h EXCEPT ![p] =
    [op |-> op, at |-> at, slug |-> s, mission |-> missions[s], arg |-> a]]

\* A request that passes its checks; one that fails them changes nothing.
Request(p, op, at, s, a) ==
  /\ MayStart(p, op)
  /\ requests < MaxRequests
  /\ requests' = requests + 1
  /\ Enter(p, op, at, s, a)
  /\ UNCHANGED <<outboxVars, memory, process, field>>

At(p, op, at) == process = "up" /\ h[p] # Idle /\ h[p].op = op /\ h[p].at = at

Goto(p, at) ==
  h' = [h EXCEPT ![p] =
    [op |-> @.op, at |-> at, slug |-> @.slug, mission |-> @.mission, arg |-> @.arg]]

Done(p) == h' = [h EXCEPT ![p] = Idle]

\* MQTT at QoS 1 behind a two-second wait whose token's error is not read: a
\* timeout may follow a delivery, and a command may be lost without an error.
SendCommand(d, c, ok) ==
  /\ \/ inbox' = [inbox EXCEPT ![d] = Append(@, c)]
     \/ "mqtt" \in Faults /\ UNCHANGED inbox
  /\ ok \/ "mqtt" \in Faults
  /\ UNCHANGED <<link, seen>>

Bare(c) == [cmd |-> c, slug |-> NoSlug]

------------------------------------------------------------------------------
(* publishGitMessage and the git part of createInitialConfig, as called by *)
(* a handler: clone, commit, push, and what the caller does with an error. *)

Announcement(x) ==
  IF x.op = "create" THEN Config ELSE [type |-> x.op, name |-> x.arg]

Publishing(p) ==
  process = "up" /\ h[p] # Idle /\ h[p].at = "publish"

PublishClone(p) ==
  /\ Publishing(p)
  /\ GitClone(p, h[p].slug, Announcement(h[p]))
  /\ UNCHANGED <<memory, h, process, requests, field>>

PublishCommit(p) ==
  /\ Publishing(p)
  /\ GitCommit(p)
  /\ UNCHANGED <<memory, h, process, requests, field>>

\* Mutant: the commit is rebased on whatever main has become.
PushRebased(p) ==
  /\ Publishing(p)
  /\ clone[p].stage = "committed"
  /\ clone[p].slug \in repos
  /\ main' = [main EXCEPT ![clone[p].slug] = Append(@, Committed(p))]
  /\ clone' = [clone EXCEPT ![p] = NoClone]
  /\ Goto(p, "published")
  /\ UNCHANGED <<repos, clock, acked, memory, process, requests, field>>

PublishPush(p) ==
  /\ Publishing(p)
  /\ GitPush(p)
  /\ Goto(p, "published")
  /\ UNCHANGED <<memory, process, requests, field>>

\* Mutant: a failed creation leaves its repository.
ErrorWithoutUndo(p) ==
  /\ Publishing(p)
  /\ \/ GitPushUncleaned(p) \/ GitRefused(p) \/ GitFault(p)
     \/ /\ clone[p] = NoClone
        /\ h[p].slug \notin repos \/ "git" \in Faults
        /\ UNCHANGED outboxVars
  /\ Done(p)
  /\ UNCHANGED <<memory, process, requests, field>>

\* Only createMission undoes anything when it cannot publish.
PublishError(p) ==
  /\ Publishing(p)
  /\ \/ GitPushUncleaned(p) \/ GitRefused(p) \/ GitFault(p)
     \/ /\ clone[p] = NoClone
        /\ h[p].slug \notin repos \/ "git" \in Faults
        /\ UNCHANGED outboxVars
  /\ IF h[p].op = "create" THEN Goto(p, "undo") ELSE Done(p)
  /\ UNCHANGED <<memory, process, requests, field>>

------------------------------------------------------------------------------
(* createMission and deleteMission *)

CreateMission(p, s) == missions[s] = 0 /\ Request(p, "create", "begin", s, NoSlug)

\* Mutant: a repository that exists is as good as a new one.
CreateRepoAnyway(p) ==
  /\ At(p, "create", "begin")
  /\ \/ InitBareRepo(h[p].slug)
     \/ h[p].slug \in repos /\ UNCHANGED outboxVars
  /\ Goto(p, "publish")
  /\ UNCHANGED <<memory, process, requests, field>>

\* The git server is external: whether it takes an existing repository for a
\* success ("reinit") or for an error is left open.
CreateRepo(p) ==
  /\ At(p, "create", "begin")
  /\ \/ InitBareRepo(h[p].slug) /\ Goto(p, "publish")
     \/ /\ h[p].slug \in repos /\ "reinit" \in Faults
        /\ Goto(p, "publish")
        /\ UNCHANGED outboxVars
     \/ /\ h[p].slug \in repos \/ "init" \in Faults
        /\ Done(p)
        /\ UNCHANGED outboxVars
  /\ UNCHANGED <<memory, process, requests, field>>

CreateUndo(p) ==
  /\ At(p, "create", "undo")
  /\ \/ DeleteRepo(h[p].slug)
     \/ /\ h[p].slug \notin repos \/ "delete" \in Faults
        /\ UNCHANGED outboxVars
  /\ Done(p)
  /\ UNCHANGED <<memory, process, requests, field>>

\* A request allocates one Mission or one Drone at most: the bound is never
\* reached before that of the requests.
Allocate == heap < MaxRequests /\ heap' = heap + 1

\* Mutant: the backlog of an earlier mission of that name is kept.
RegisterOldBacklog(p) ==
  /\ At(p, "create", "published")
  /\ Allocate
  /\ missions' = [missions EXCEPT ![h[p].slug] = heap']
  /\ Done(p)
  /\ UNCHANGED <<outboxVars, roster, drones, backlog, process, requests, field>>

CreateRegister(p) ==
  /\ At(p, "create", "published")
  /\ Allocate
  /\ missions' = [missions EXCEPT ![h[p].slug] = heap']
  /\ backlog' = [backlog EXCEPT ![h[p].slug] = {}]
  /\ Done(p)
  /\ UNCHANGED <<outboxVars, roster, drones, process, requests, field>>

DeleteMission(p, s) == missions[s] # 0 /\ Request(p, "delete", "begin", s, NoSlug)

\* An error of the git server is logged and the mission removed all the same.
DeleteMissionRepo(p) ==
  /\ At(p, "delete", "begin")
  /\ \/ DeleteRepo(h[p].slug)
     \/ /\ h[p].slug \notin repos \/ "delete" \in Faults
        /\ UNCHANGED outboxVars
  /\ Goto(p, "finish")
  /\ UNCHANGED <<memory, process, requests, field>>

DeviceIn(m) == {e.dev : e \in roster[m]}

Members(s) == IF missions[s] = 0 THEN {} ELSE roster[missions[s]]

\* Mutant: the drones of a mission that goes keep their entries.
ForgetMissionOnly(p) ==
  /\ At(p, "delete", "finish")
  /\ missions' = [missions EXCEPT ![h[p].slug] = 0]
  /\ Done(p)
  /\ UNCHANGED <<outboxVars, roster, drones, backlog, heap, process, requests, field>>

DeleteForget(p) ==
  /\ At(p, "delete", "finish")
  /\ drones' = [d \in Dev |-> IF d \in DeviceIn(h[p].mission) THEN NoSlug ELSE drones[d]]
  /\ missions' = [missions EXCEPT ![h[p].slug] = 0]
  /\ Done(p)
  /\ UNCHANGED <<outboxVars, roster, backlog, heap, process, requests, field>>

------------------------------------------------------------------------------
(* assignDroneToMission and removeDroneFromMission *)

\* Mutant: nobody asks whether the drone is in a mission.
AssignAnyDrone(p, s, d) ==
  /\ missions[s] # 0
  /\ Request(p, "assign", "begin", s, d)

AssignDrone(p, s, d) ==
  /\ missions[s] # 0
  /\ drones[d] = NoSlug
  /\ Request(p, "assign", "begin", s, d)

\* Mutant: the drone is not told to make its key.
AssignUntold(p) ==
  /\ At(p, "assign", "begin")
  /\ Goto(p, "finish")
  /\ UNCHANGED <<outboxVars, memory, process, requests, field>>

AssignSend(p) ==
  /\ At(p, "assign", "begin")
  /\ \E ok \in BOOLEAN :
       /\ SendCommand(h[p].arg, Bare("initialize-trust"), ok)
       /\ IF ok THEN Goto(p, "finish") ELSE Done(p)
  /\ UNCHANGED <<outboxVars, memory, process, requests>>

AssignRegister(p) ==
  /\ At(p, "assign", "finish")
  /\ Allocate
  /\ roster' = [roster EXCEPT ![h[p].mission] = @ \cup
       {[ref |-> heap', dev |-> h[p].arg, trusted |-> FALSE, status |-> ""]}]
  /\ drones' = [drones EXCEPT ![h[p].arg] = h[p].slug]
  /\ Done(p)
  /\ UNCHANGED <<outboxVars, missions, backlog, process, requests, field>>

\* Mutant: the removal is not published.
RemoveUnpublished(p, s, d) ==
  /\ missions[s] # 0
  /\ drones[d] # NoSlug
  /\ Request(p, "remove", "published", s, d)

\* The drone has to be in a mission, which need not be the one named.
RemoveDrone(p, s, d) ==
  /\ missions[s] # 0
  /\ drones[d] # NoSlug
  /\ Request(p, "remove", "publish", s, d)

RemoveSend(p) ==
  /\ At(p, "remove", "published")
  /\ \E ok \in BOOLEAN :
       /\ SendCommand(h[p].arg, Bare("leave-mission"), ok)
       /\ IF ok THEN Goto(p, "finish") ELSE Done(p)
  /\ UNCHANGED <<outboxVars, memory, process, requests>>

\* Mutant: the drone is struck off the list but not off the index.
ForgetListOnly(p) ==
  /\ At(p, "remove", "finish")
  /\ roster' = [roster EXCEPT ![h[p].mission] = {e \in @ : e.dev # h[p].arg}]
  /\ Done(p)
  /\ UNCHANGED <<outboxVars, missions, drones, backlog, heap, process, requests, field>>

\* Mutant: the drone is struck off the index but not off the list.
ForgetIndexOnly(p) ==
  /\ At(p, "remove", "finish")
  /\ drones' = [drones EXCEPT ![h[p].arg] = NoSlug]
  /\ Done(p)
  /\ UNCHANGED <<outboxVars, missions, roster, backlog, heap, process, requests, field>>

RemoveForget(p) ==
  /\ At(p, "remove", "finish")
  /\ roster' = [roster EXCEPT ![h[p].mission] = {e \in @ : e.dev # h[p].arg}]
  /\ drones' = [drones EXCEPT ![h[p].arg] = NoSlug]
  /\ Done(p)
  /\ UNCHANGED <<outboxVars, missions, backlog, heap, process, requests, field>>

------------------------------------------------------------------------------
(* addTaskToMissionBacklog *)

AddTask(p, s, t) == missions[s] # 0 /\ Request(p, "task", "publish", s, t)

\* update-backlog is sent to the roster, errors or not; drones only pull.
TaskNotify(p) ==
  /\ At(p, "task", "published")
  /\ Goto(p, "finish")
  /\ UNCHANGED <<outboxVars, memory, process, requests, field>>

TaskRegister(p) ==
  /\ At(p, "task", "finish")
  /\ backlog' = [backlog EXCEPT ![h[p].slug] = @ \cup {h[p].arg}]
  /\ Done(p)
  /\ UNCHANGED <<outboxVars, missions, roster, drones, heap, process, requests, field>>

------------------------------------------------------------------------------
(* The drones, and handleTrustMessage *)

DroneDoes(d, c) ==
  /\ inbox[d] # << >>
  /\ Head(inbox[d]).cmd = c
  /\ inbox' = [inbox EXCEPT ![d] = Tail(@)]
  /\ UNCHANGED seen

\* The drone makes its key; its trust event starts a handler.
DroneTrusts(p, d) ==
  /\ DroneDoes(d, "initialize-trust")
  /\ MayStart(p, "trust")
  /\ h' = [h EXCEPT ![p] = [op |-> "trust", at |-> "begin", slug |-> NoSlug,
                            mission |-> 0, arg |-> d]]
  /\ UNCHANGED <<outboxVars, memory, process, requests, link>>

DroneJoins(d) ==
  /\ DroneDoes(d, "join-mission")
  /\ link' = [link EXCEPT ![d] = Head(inbox[d]).slug]
  /\ UNCHANGED <<outboxVars, memory, h, process, requests>>

DroneLeaves(d) ==
  /\ DroneDoes(d, "leave-mission")
  /\ link' = [link EXCEPT ![d] = NoSlug]
  /\ UNCHANGED <<outboxVars, memory, h, process, requests>>

Replace(m, e, x) == roster' = [roster EXCEPT ![m] = (@ \ {e}) \cup {x}]

\* e is the first of device d in m's Drones, which are in the order of their
\* addresses.
First(m, d, e) ==
  /\ e \in roster[m] /\ e.dev = d
  /\ \A f \in roster[m] : f.dev = d => e.ref <= f.ref

TrustsBegin(p) == At(p, "trust", "begin")

TrustUnassigned(p) ==
  /\ TrustsBegin(p)
  /\ drones[h[p].arg] = NoSlug
  /\ Done(p)
  /\ UNCHANGED <<outboxVars, memory, process, requests, field>>

\* missions[missionSlug] is nil and its Drones are read all the same, in a
\* goroutine that nothing recovers.
TrustPanics(p) ==
  /\ TrustsBegin(p)
  /\ drones[h[p].arg] # NoSlug
  /\ missions[drones[h[p].arg]] = 0
  /\ process' = "panicked"
  /\ LoseMemory
  /\ UNCHANGED <<heap, requests, field>>

TrustAgain(p) ==
  /\ TrustsBegin(p)
  /\ LET s == drones[h[p].arg] IN
       /\ s # NoSlug
       /\ missions[s] # 0
       /\ \E e \in roster[missions[s]] : First(missions[s], h[p].arg, e) /\ e.trusted
  /\ Done(p)
  /\ UNCHANGED <<outboxVars, memory, process, requests, field>>

\* Mutant: a status of no meaning.
TrustUnstated(p) ==
  /\ TrustsBegin(p)
  /\ LET d == h[p].arg
         m == missions[drones[d]]
     IN  /\ drones[d] # NoSlug
         /\ m # 0
         /\ \E e \in roster[m] :
              /\ First(m, d, e)
              /\ Replace(m, e, [ref |-> e.ref, dev |-> d, trusted |-> TRUE,
                                status |-> "trusted"])
         /\ Enter(p, "trust", "publish", drones[d], d)
  /\ UNCHANGED <<outboxVars, missions, drones, backlog, heap, process, requests, field>>

\* The first Drone of the device is trusted; the loop ends alike without one.
TrustMark(p) ==
  /\ TrustsBegin(p)
  /\ LET d == h[p].arg
         s == drones[d]
         m == missions[s]
     IN  /\ s # NoSlug
         /\ m # 0
         /\ \/ \E e \in roster[m] :
                 /\ First(m, d, e)
                 /\ ~e.trusted
                 /\ Replace(m, e, [ref |-> e.ref, dev |-> d,
                                   trusted |-> TRUE, status |-> "unknown"])
            \/ d \notin DeviceIn(m) /\ UNCHANGED roster
         /\ Enter(p, "trust", "publish", s, d)
  /\ UNCHANGED <<outboxVars, missions, drones, backlog, heap, process, requests, field>>

TrustJoin(p) ==
  /\ At(p, "trust", "published")
  /\ \E ok \in BOOLEAN :
       SendCommand(h[p].arg, [cmd |-> "join-mission", slug |-> h[p].slug], ok)
  /\ Done(p)
  /\ UNCHANGED <<outboxVars, memory, process, requests>>

------------------------------------------------------------------------------
(* mission-state events: any number, on their way for any time *)

DroneReports(d) ==
  /\ "report" \in Ops
  /\ seen' = [seen EXCEPT ![d] = @ \cup {link[d]}]
  /\ UNCHANGED <<outboxVars, memory, h, process, requests, inbox, link>>

\* The drone restarts and has lost what it knew.
DroneForgets(d) ==
  /\ "reset" \in Faults
  /\ link[d] # NoSlug
  /\ link' = [link EXCEPT ![d] = NoSlug]
  /\ UNCHANGED <<outboxVars, memory, h, process, requests, inbox, seen>>

Arrives(d, r) ==
  /\ process = "up"
  /\ r \in seen[d]
  /\ seen' = [seen EXCEPT ![d] = @ \ {r}]
  /\ UNCHANGED <<outboxVars, missions, drones, backlog, heap, h, process, requests,
                 inbox, link>>

\* getDrone ranges over a map: any mission with a Drone of the device will do.
MissionState(d, r) ==
  /\ Arrives(d, r)
  /\ \E s \in Slug :
       /\ missions[s] # 0
       /\ \E e \in roster[missions[s]] :
            LET Set(x) == Replace(missions[s], e,
                  [ref |-> e.ref, dev |-> d, trusted |-> e.trusted, status |-> x])
            IN  /\ First(missions[s], d, e)
                /\ IF r = s THEN Set("online")
                   ELSE IF r = NoSlug /\ e.status # "failed" THEN Set("failed")
                   ELSE UNCHANGED roster

MissionStateUnknown(d, r) ==
  /\ Arrives(d, r)
  /\ \A s \in Slug : d \notin {e.dev : e \in Members(s)}
  /\ UNCHANGED roster

------------------------------------------------------------------------------
(* The process *)

Crash ==
  /\ "crash" \in Faults
  /\ process = "up"
  /\ process' = "crashed"
  /\ LoseMemory
  /\ UNCHANGED <<heap, requests, field>>

\* main builds empty maps; the repositories are still there.
Restart ==
  /\ process # "up"
  /\ process' = "up"
  /\ UNCHANGED <<outboxVars, memory, h, requests, field>>

Ask(p) ==
  \E s \in Slug :
    \/ CreateMission(p, s) \/ DeleteMission(p, s)
    \/ \E d \in Dev : AssignDrone(p, s, d) \/ RemoveDrone(p, s, d)
    \/ \E t \in Task : AddTask(p, s, t)

Publish(p) ==
  PublishClone(p) \/ PublishCommit(p) \/ PublishPush(p) \/ PublishError(p)

Handle(p) ==
  \/ Publish(p)
  \/ CreateRepo(p) \/ CreateUndo(p) \/ CreateRegister(p)
  \/ DeleteMissionRepo(p) \/ DeleteForget(p)
  \/ AssignSend(p) \/ AssignRegister(p)
  \/ RemoveSend(p) \/ RemoveForget(p)
  \/ TaskNotify(p) \/ TaskRegister(p)
  \/ TrustUnassigned(p) \/ TrustPanics(p) \/ TrustAgain(p) \/ TrustMark(p) \/ TrustJoin(p)

DroneActs(d) ==
  \/ \E p \in Writer : DroneTrusts(p, d)
  \/ DroneJoins(d) \/ DroneLeaves(d)

DroneSends(d) ==
  \/ DroneReports(d) \/ DroneForgets(d)
  \/ \E r \in Slug \cup {NoSlug} : MissionState(d, r) \/ MissionStateUnknown(d, r)

MissionNext ==
  \/ \E p \in Writer : Ask(p) \/ Handle(p)
  \/ \E d \in Dev : DroneActs(d) \/ DroneSends(d)
  \/ Crash
  \/ Restart

MissionSpec == MissionInit /\ [][MissionNext]_missionVars

\* The Go scheduler runs every goroutine, and drones read their commands;
\* clients and the drones' reports are under no obligation.
MissionFairness ==
  /\ \A p \in Writer : WF_missionVars(Handle(p))
  /\ \A d \in Dev : SF_missionVars(DroneActs(d))

FairMissionSpec == MissionSpec /\ MissionFairness

------------------------------------------------------------------------------
(* Properties *)

\* The index handleTrustMessage and removeDrone go by never points at a
\* mission that is gone or at a roster without the drone, whatever requests
\* for one drone or one mission overlap: it is what keeps the unchecked use
\* of missions[missionSlug] at the start of handleTrustMessage from panicking.
IndexNamesRoster ==
  \A d \in Dev : drones[d] # NoSlug =>
    /\ missions[drones[d]] # 0
    /\ d \in DeviceIn(missions[drones[d]])

\* Between the removal of the repository and that of the mission.
Deleting(s) == \E p \in Writer : h[p] # Idle /\ h[p].op = "delete" /\ h[p].slug = s

\* What getMissionBacklog lists for a mission has been published to the
\* drones: every item is in the outbox of the mission's own repository, not
\* of an earlier one of the same name.
BacklogIsPublished ==
  \A s \in Slug : missions[s] # 0 /\ ~Deleting(s) =>
    \A t \in backlog[s] :
      \E i \in DOMAIN main[s] : main[s][i].msg = [type |-> "task", name |-> t]

\* A mission that can be found has a repository whose history starts with
\* its config.yaml, so that drones and publishers can clone it, save while
\* it is being deleted.
RegisteredHasRepo ==
  \A s \in Slug : missions[s] # 0 /\ ~Deleting(s) =>
    s \in repos /\ Len(main[s]) > 0 /\ main[s][1].msg = Config

\* No repository outlives its mission, or is left by a creation that failed,
\* to stand in the way of the next mission of that name.
NoOrphanRepo ==
  process = "up" => \A s \in repos : missions[s] # 0 \/
    \E p \in Writer : h[p] # Idle /\ h[p].op = "create" /\ h[p].slug = s

\* "Drone not part of any mission" is logged and no more: no trust event takes
\* mission-control down by the nil mission that its index entry names.
NeverPanics == process # "panicked"

\* The handlers' steps are steps of the publication protocol, crashes and
\* failures included, so what is proved of GitOutbox holds here.
ImplementsOutbox == OutboxSpec

\* The strengthening the proofs need, where missions are deleted one at a time
\* and the git server makes no repository twice: who deletes is alone; of
\* those who create a mission one alone has made its repository, and the
\* mission is not there yet; a mission has a repository until one who deletes
\* it has removed it; and the *Mission a handler holds is the one registered.
Creating(p, s) ==
  h[p] # Idle /\ h[p].op = "create" /\ h[p].at # "begin" /\ h[p].slug = s

Removing(p, s) ==
  h[p] # Idle /\ h[p].op = "delete" /\ h[p].at = "finish" /\ h[p].slug = s

DeletesAlone ==
  \A p, q \in Writer : h[p] # Idle /\ h[p].op = "delete" /\ q # p => h[q] = Idle

CreatorOwnsSlug ==
  \A p \in Writer, s \in Slug : Creating(p, s) =>
    /\ s \in repos /\ missions[s] = 0
    /\ \A q \in Writer : Creating(q, s) => q = p

MissionsHaveRepos ==
  \A s \in Slug : missions[s] # 0 => s \in repos \/ \E p \in Writer : Removing(p, s)

HeldIsRegistered ==
  \A p \in Writer : h[p] # Idle /\ h[p].mission # 0 => missions[h[p].slug] = h[p].mission

LifecycleInv ==
  DeletesAlone /\ CreatorOwnsSlug /\ MissionsHaveRepos /\ HeldIsRegistered

\* What else the proofs need of the repositories' contents: a working copy is
\* its handler's; a repository just made is empty and one in use starts with
\* config.yaml; what a task's handler is about to list has been pushed.
StartsWithConfig(s) == Len(main[s]) > 0 /\ main[s][1].msg = Config

CloneServesHandler ==
  \A p \in Writer : clone[p] # NoClone =>
    /\ h[p] # Idle /\ h[p].at = "publish"
    /\ clone[p].slug = h[p].slug /\ clone[p].msg = Announcement(h[p])

CreatedIsEmpty ==
  \A p \in Writer, s \in Slug :
    Creating(p, s) /\ h[p].at = "publish" => main[s] = << >>

ConfigComesFirst ==
  \A s \in Slug :
    \/ missions[s] # 0 /\ ~\E p \in Writer : Removing(p, s)
    \/ \E p \in Writer : Creating(p, s) /\ h[p].at = "published"
    => StartsWithConfig(s)

Carries(s, t) == \E i \in DOMAIN main[s] : main[s][i].msg = [type |-> "task", name |-> t]

PushedBeforeListed ==
  \A p \in Writer :
    h[p] # Idle /\ h[p].op = "task" /\ h[p].at # "publish" => Carries(h[p].slug, h[p].arg)

ListedIsCarried ==
  \A s \in Slug : missions[s] # 0 /\ ~(\E p \in Writer : Removing(p, s)) =>
    \A t \in backlog[s] : Carries(s, t)

HistoryInv ==
  /\ CloneServesHandler /\ CreatedIsEmpty /\ ConfigComesFirst
  /\ PushedBeforeListed /\ ListedIsCarried

\* And, where repositories are always removed and the process lives on: one
\* stands for its mission, or for the creation that will register it or
\* remove it again.
OwnedInv ==
  /\ process = "up"
  /\ \A s \in repos : missions[s] # 0 \/ \E p \in Writer : Creating(p, s)
  /\ \A p \in Writer, s \in Slug : Removing(p, s) => s \notin repos

\* "Drone '%s' already part of mission %s": a drone is in one Drones list,
\* once.
OneMissionPerDrone ==
  \A s, t \in Slug :
    \A e \in Members(s), f \in Members(t) : e.dev = f.dev => s = t /\ e = f

\* "Drone '%s' not part of mission %s": only a drone of the mission is
\* removed from it, so a drone that is listed is known to be assigned there.
ListedIsIndexed ==
  \A s \in Slug : \A e \in Members(s) : drones[e.dev] = s

\* The strengthening of these two, where requests about drones and deletions
\* are made one at a time and a client removes a drone from its own mission:
\* such a handler is alone and what it looked up is current; no address is
\* given out twice; and no roster lists a device twice.
RemovalsNameMission ==
  \A p \in Writer, s \in Slug, d \in Dev : RemoveDrone(p, s, d) => drones[d] = s

Exclusive == {"assign", "remove", "delete"}

ExclusiveAlone ==
  \A p, q \in Writer : h[p] # Idle /\ h[p].op \in Exclusive /\ q # p => h[q] = Idle

ExclusiveCurrent ==
  \A p \in Writer : h[p] # Idle /\ h[p].op \in Exclusive =>
    /\ missions[h[p].slug] = h[p].mission
    /\ h[p].op = "assign" => drones[h[p].arg] = NoSlug
    /\ h[p].op = "remove" => drones[h[p].arg] = h[p].slug

AddressesApart ==
  /\ \A s \in Slug : missions[s] <= heap
  /\ \A m \in Address : m > heap => roster[m] = {}
  /\ \A s, t \in Slug : missions[s] # 0 /\ missions[s] = missions[t] => s = t

NoneListedTwice == \A m \in Address : \A e, f \in roster[m] : e.dev = f.dev => e = f

OneByOneInv ==
  /\ ExclusiveAlone /\ ExclusiveCurrent
  /\ AddressesApart /\ NoneListedTwice /\ ListedIsIndexed

\* When nothing is going on, a roster and the outbox tell the same story:
\* the drones whose last word in the outbox is drone-added are the trusted
\* drones of the mission.
TrustedIn(s, d) == \E e \in Members(s) : e.dev = d /\ e.trusted

Quiet == process = "up" /\ \A p \in Writer : h[p] = Idle

About(log, d) ==
  {i \in DOMAIN log : log[i].msg \in [type: {"trust", "remove"}, name: {d}]}

LastIn(log, d) == CHOOSE i \in About(log, d) : \A j \in About(log, d) : j <= i

LastWordIn(log, d) ==
  IF About(log, d) = {} THEN "remove" ELSE log[LastIn(log, d)].msg.type

LastWord(s, d) == LastWordIn(main[s], d)

OutboxTellsRoster ==
  Quiet => \A s \in Slug, d \in Dev : missions[s] # 0 =>
    (LastWord(s, d) = "trust" <=> TrustedIn(s, d))

\* The strengthening, where every handler runs alone and neither git nor MQTT
\* fails: a working copy is up to date with its repository; the two stories
\* differ while a drone marked as trusted is announced and while a removal
\* published is carried out, and no longer; and the outbox of a mission about
\* to be registered says nothing of any drone.
AllAlone == \A p, q \in Writer : h[p] # Idle /\ q # p => h[q] = Idle

CloneIsCurrent ==
  \A p \in Writer : clone[p] # NoClone => clone[p].base = main[clone[p].slug]

HasLast ==
  \A s \in Slug, d \in Dev : About(main[s], d) # {} =>
    \E i \in About(main[s], d) : \A j \in About(main[s], d) : j <= i

Announcing(s, d) ==
  \E p \in Writer : /\ h[p] # Idle /\ h[p].op = "trust" /\ h[p].at = "publish"
                   /\ h[p].slug = s /\ h[p].arg = d

Withdrawn(s, d) ==
  \E p \in Writer : /\ h[p] # Idle /\ h[p].op = "remove" /\ h[p].at # "publish"
                   /\ h[p].slug = s /\ h[p].arg = d

InStep ==
  \A s \in Slug, d \in Dev : missions[s] # 0 /\ ~(\E p \in Writer : Removing(p, s)) =>
    /\ Announcing(s, d) => TrustedIn(s, d)
    /\ Withdrawn(s, d) => LastWord(s, d) # "trust"
    /\ ~Announcing(s, d) /\ ~Withdrawn(s, d) =>
         (LastWord(s, d) = "trust" <=> TrustedIn(s, d))

StartsSilent ==
  \A p \in Writer, s \in Slug : Creating(p, s) /\ h[p].at = "published" =>
    \A d \in Dev : LastWord(s, d) # "trust"

TellsInv ==
  /\ AllAlone /\ AddressesApart /\ CloneIsCurrent
  /\ HasLast /\ InStep /\ StartsSilent

\* A drone that is trusted has been told which mission to join, or is no
\* longer in it, sooner or later.
TrustLeadsToJoin ==
  \A s \in Slug, d \in Dev : TrustedIn(s, d) ~> (link[d] = s \/ ~TrustedIn(s, d))

\* An assigned drone that is left alone ends up in its mission.
AssignLeadsToJoin ==
  \A s \in Slug, d \in Dev : drones[d] = s ~> (link[d] = s \/ drones[d] # s)
==============================================================================
