------------------------ MODULE MissionControlProofs ------------------------
(***************************************************************************)
(* Proofs about MissionControl, for any sets of slugs, drones, tasks and   *)
(* goroutines and any bounds.                                              *)
(*                                                                         *)
(* First, every step of a handler is a step of GitOutbox, so that all that *)
(* GitOutboxProofs proves holds of mission-control.  This needs the types  *)
(* of what a handler carries from one blocking call to the next.           *)
(*                                                                         *)
(* The rest lets requests overlap as they like, provided missions are      *)
(* deleted while nothing else runs and the git server refuses to make a    *)
(* repository again.  Second, what keeps a trust event from using a        *)
(* mission that is gone.  Third, the histories of the repositories: a      *)
(* mission that can be found can be cloned, and what is listed is there.   *)
(* Fourth, where repositories are always removed and the process lives on, *)
(* none is left over.                                                      *)
(***************************************************************************)
EXTENDS MissionControl, GitOutboxProofs

------------------------------------------------------------------------------
(* Types *)

MemoryTypeOK ==
  /\ missions \in [Slug -> Address \cup {0}]
  /\ roster \in [Address -> SUBSET Drone]
  /\ drones \in [Dev -> Slug \cup {NoSlug}]
  /\ backlog \in [Slug -> SUBSET Task]
  /\ heap \in 0..MaxRequests

FieldTypeOK ==
  /\ inbox \in [Dev -> Seq(Command)]
  /\ link \in [Dev -> Slug \cup {NoSlug}]
  /\ seen \in [Dev -> SUBSET (Slug \cup {NoSlug})]

HandlersTypeOK == h \in [Writer -> {Idle} \cup Handler]

\* MissionTypeOK without the outbox.
ControlTypeOK ==
  /\ MemoryTypeOK
  /\ HandlersTypeOK
  /\ FieldTypeOK
  /\ process \in {"up", "crashed", "panicked"}
  /\ requests \in 0..MaxRequests

\* What a handler holds, by the request or event it serves.
LEMMA HandlerFields ==
  ASSUME NEW x \in Handler
  PROVE  /\ x.op = "create" => /\ x.at \in {"begin", "publish", "published", "undo"}
                               /\ x.slug \in Slug /\ x.mission = 0 /\ x.arg = NoSlug
         /\ x.op = "delete" => /\ x.at \in {"begin", "finish"}
                               /\ x.slug \in Slug /\ x.mission \in Address /\ x.arg = NoSlug
         /\ x.op = "assign" => /\ x.at \in {"begin", "finish"}
                               /\ x.slug \in Slug /\ x.mission \in Address /\ x.arg \in Dev
         /\ x.op = "remove" => /\ x.at \in {"publish", "published", "finish"}
                               /\ x.slug \in Slug /\ x.mission \in Address /\ x.arg \in Dev
         /\ x.op = "task" => /\ x.at \in {"publish", "published", "finish"}
                             /\ x.slug \in Slug /\ x.mission \in Address /\ x.arg \in Task
         /\ x.op = "trust" => /\ x.arg \in Dev
                              /\ \/ x.at = "begin" /\ x.slug = NoSlug /\ x.mission = 0
                                 \/ /\ x.at \in {"publish", "published"}
                                    /\ x.slug \in Slug /\ x.mission \in Address
         /\ x.op \in {"create", "delete", "assign", "remove", "task", "trust"}
  BY DEF Handler

\* A busy goroutine runs a handler.
LEMMA Busy ==
  ASSUME HandlersTypeOK, NEW p \in Writer, h[p] # Idle
  PROVE  h[p] \in Handler
  BY DEF HandlersTypeOK

\* A handler that goes on to the next of its steps is one still.
LEMMA GotoKeepsHandlers ==
  ASSUME HandlersTypeOK, NEW p \in Writer, h[p] # Idle, NEW at, Goto(p, at),
         \/ h[p].op = "create" /\ at \in {"publish", "published", "undo"}
         \/ h[p].op \in {"delete", "assign"} /\ at = "finish"
         \/ h[p].op \in {"remove", "task"} /\ at \in {"published", "finish"}
         \/ h[p].op = "trust" /\ h[p].at # "begin" /\ at = "published"
  PROVE  HandlersTypeOK'
<1> DEFINE x == h[p]
           y == [op |-> x.op, at |-> at, slug |-> x.slug, mission |-> x.mission, arg |-> x.arg]
<1>1. x \in Handler
  BY Busy
<1>2. y \in Handler
  <2>1. CASE x.op = "create"
    BY <1>1, <2>1, HandlerFields DEF Handler
  <2>2. CASE x.op = "delete"
    BY <1>1, <2>2, HandlerFields DEF Handler
  <2>3. CASE x.op = "assign"
    BY <1>1, <2>3, HandlerFields DEF Handler
  <2>4. CASE x.op = "remove"
    BY <1>1, <2>4, HandlerFields DEF Handler
  <2>5. CASE x.op = "task"
    BY <1>1, <2>5, HandlerFields DEF Handler
  <2>6. CASE x.op = "trust"
    BY <1>1, <2>6, HandlerFields DEF Handler
  <2> QED
    BY <2>1, <2>2, <2>3, <2>4, <2>5, <2>6
<1>3. h' = [h EXCEPT ![p] = y]
  BY DEF Goto
<1> HIDE DEF y
<1> QED
  BY <1>2, <1>3 DEF HandlersTypeOK

LEMMA DoneKeepsHandlers ==
  ASSUME HandlersTypeOK, NEW p \in Writer, Done(p)
  PROVE  HandlersTypeOK'
  BY DEF HandlersTypeOK, Done

\* A handler that begins its work carries the mission registered by then.
LEMMA EnterKeepsHandlers ==
  ASSUME HandlersTypeOK, MemoryTypeOK, NEW p \in Writer, NEW op, NEW at, NEW s \in Slug, NEW a,
         Enter(p, op, at, s, a),
         \/ op = "create" /\ at = "begin" /\ missions[s] = 0 /\ a = NoSlug
         \/ op = "delete" /\ at = "begin" /\ missions[s] # 0 /\ a = NoSlug
         \/ op = "assign" /\ at = "begin" /\ missions[s] # 0 /\ a \in Dev
         \/ op = "remove" /\ at = "publish" /\ missions[s] # 0 /\ a \in Dev
         \/ op = "task" /\ at = "publish" /\ missions[s] # 0 /\ a \in Task
         \/ op = "trust" /\ at = "publish" /\ missions[s] # 0 /\ a \in Dev
  PROVE  HandlersTypeOK'
<1> DEFINE m == missions[s]
           y == [op |-> op, at |-> at, slug |-> s, mission |-> m, arg |-> a]
<1>1. m \in Address \cup {0}
  BY DEF MemoryTypeOK
<1>2. y \in Handler
  <2> HIDE DEF m
  <2> QED
    BY <1>1 DEF Handler, m
<1>3. h' = [h EXCEPT ![p] = y]
  BY DEF Enter
<1> HIDE DEF y
<1> QED
  BY <1>2, <1>3 DEF HandlersTypeOK

LEMMA InitTypes == MissionInit => ControlTypeOK
  BY MissionAssumption
  DEF MissionInit, ControlTypeOK, MemoryTypeOK, HandlersTypeOK, FieldTypeOK

\* A request that is let in starts a handler and touches nothing else.
LEMMA RequestKeepsTypes ==
  ASSUME ControlTypeOK, NEW p \in Writer, NEW op, NEW at, NEW s \in Slug, NEW a,
         Request(p, op, at, s, a),
         \/ op = "create" /\ at = "begin" /\ missions[s] = 0 /\ a = NoSlug
         \/ op = "delete" /\ at = "begin" /\ missions[s] # 0 /\ a = NoSlug
         \/ op = "assign" /\ at = "begin" /\ missions[s] # 0 /\ a \in Dev
         \/ op = "remove" /\ at = "publish" /\ missions[s] # 0 /\ a \in Dev
         \/ op = "task" /\ at = "publish" /\ missions[s] # 0 /\ a \in Task
  PROVE  ControlTypeOK'
<1> USE DEF ControlTypeOK
<1>1. HandlersTypeOK'
  BY EnterKeepsHandlers DEF Request
<1>2. requests' \in 0..MaxRequests
  BY MissionAssumption DEF Request
<1>3. MemoryTypeOK' /\ FieldTypeOK' /\ process' = process
  BY DEF Request, memory, field, MemoryTypeOK, FieldTypeOK
<1> QED
  BY <1>1, <1>2, <1>3

LEMMA AskKeepsTypes ==
  ASSUME ControlTypeOK, NEW p \in Writer, Ask(p)
  PROVE  ControlTypeOK'
<1>1. PICK s \in Slug :
        \/ CreateMission(p, s) \/ DeleteMission(p, s)
        \/ \E d \in Dev : AssignDrone(p, s, d) \/ RemoveDrone(p, s, d)
        \/ \E t \in Task : AddTask(p, s, t)
  BY DEF Ask
<1>2. CASE CreateMission(p, s) \/ DeleteMission(p, s)
  BY <1>2, RequestKeepsTypes DEF CreateMission, DeleteMission
<1>3. CASE \E d \in Dev : AssignDrone(p, s, d)
  BY <1>3, RequestKeepsTypes DEF AssignDrone
<1>4. CASE \E d \in Dev : RemoveDrone(p, s, d)
  BY <1>4, RequestKeepsTypes DEF RemoveDrone
<1>5. CASE \E t \in Task : AddTask(p, s, t)
  BY <1>5, RequestKeepsTypes DEF AddTask
<1> QED
  BY <1>1, <1>2, <1>3, <1>4, <1>5

\* Publishing touches nothing but the outbox and the handler's place.
LEMMA PublishKeepsTypes ==
  ASSUME ControlTypeOK, NEW p \in Writer, Publish(p)
  PROVE  ControlTypeOK'
<1> USE DEF ControlTypeOK
<1>1. /\ UNCHANGED memory /\ UNCHANGED field /\ UNCHANGED process /\ UNCHANGED requests
      /\ h[p] # Idle /\ h[p].at = "publish"
      /\ \/ UNCHANGED h
         \/ Goto(p, "published")
         \/ Done(p)
         \/ h[p].op = "create" /\ Goto(p, "undo")
  <2>1. CASE PublishClone(p) \/ PublishCommit(p)
    BY <2>1 DEF PublishClone, PublishCommit, Publishing
  <2>2. CASE PublishPush(p)
    BY <2>2 DEF PublishPush, Publishing
  <2>3. CASE PublishError(p)
    BY <2>3 DEF PublishError, Publishing
  <2> QED
    BY <2>1, <2>2, <2>3 DEF Publish
<1>2. h[p] \in Handler
  BY <1>1, Busy
<1>3. h[p].op \in {"create", "remove", "task", "trust"}
  BY <1>1, <1>2, HandlerFields
<1>4. HandlersTypeOK'
  <2>1. CASE UNCHANGED h
    BY <2>1 DEF HandlersTypeOK
  <2>2. CASE Goto(p, "published")
    BY <1>1, <1>3, <2>2, GotoKeepsHandlers
  <2>3. CASE Done(p)
    BY <2>3, DoneKeepsHandlers
  <2>4. CASE h[p].op = "create" /\ Goto(p, "undo")
    BY <1>1, <2>4, GotoKeepsHandlers
  <2> QED
    BY <1>1, <2>1, <2>2, <2>3, <2>4
<1>5. MemoryTypeOK' /\ FieldTypeOK'
  BY <1>1 DEF memory, field, MemoryTypeOK, FieldTypeOK
<1> QED
  BY <1>1, <1>4, <1>5

\* An allocation yields an address.
LEMMA AllocateAddress ==
  ASSUME MemoryTypeOK, Allocate
  PROVE  heap' \in Address /\ heap' \in 0..MaxRequests
  BY MissionAssumption DEF MemoryTypeOK, Allocate, Address

LEMMA CreateKeepsTypes ==
  ASSUME ControlTypeOK, NEW p \in Writer,
         CreateRepo(p) \/ CreateUndo(p) \/ CreateRegister(p)
  PROVE  ControlTypeOK'
<1> USE DEF ControlTypeOK
<1>1. h[p] # Idle /\ h[p].op = "create" /\ h[p] \in Handler /\ h[p].slug \in Slug
  BY Busy, HandlerFields DEF CreateRepo, CreateUndo, CreateRegister, At
<1>2. Goto(p, "publish") \/ Done(p)
  BY DEF CreateRepo, CreateUndo, CreateRegister
<1>3. HandlersTypeOK'
  BY <1>1, <1>2, GotoKeepsHandlers, DoneKeepsHandlers
<1>4. CASE CreateRepo(p) \/ CreateUndo(p)
  <2>1. UNCHANGED <<memory, process, requests, field>>
    BY <1>4 DEF CreateRepo, CreateUndo
  <2> QED
    BY <1>3, <2>1 DEF memory, field, MemoryTypeOK, FieldTypeOK
<1>5. CASE CreateRegister(p)
  <2>1. /\ missions' = [missions EXCEPT ![h[p].slug] = heap']
        /\ backlog' = [backlog EXCEPT ![h[p].slug] = {}]
        /\ Allocate
        /\ UNCHANGED <<roster, drones, process, requests, field>>
    BY <1>5 DEF CreateRegister
  <2>2. heap' \in Address /\ heap' \in 0..MaxRequests
    BY <2>1, AllocateAddress
  <2>3. MemoryTypeOK'
    BY <2>1, <2>2 DEF MemoryTypeOK
  <2> QED
    BY <1>3, <2>1, <2>3 DEF field, FieldTypeOK
<1> QED
  BY <1>4, <1>5

LEMMA DeleteKeepsTypes ==
  ASSUME ControlTypeOK, NEW p \in Writer, DeleteMissionRepo(p) \/ DeleteForget(p)
  PROVE  ControlTypeOK'
<1> USE DEF ControlTypeOK
<1>1. h[p] # Idle /\ h[p].op = "delete"
  BY DEF DeleteMissionRepo, DeleteForget, At
<1>2. HandlersTypeOK'
  BY <1>1, GotoKeepsHandlers, DoneKeepsHandlers DEF DeleteMissionRepo, DeleteForget
<1>3. CASE DeleteMissionRepo(p)
  BY <1>2, <1>3 DEF DeleteMissionRepo, memory, field, MemoryTypeOK, FieldTypeOK
<1>4. CASE DeleteForget(p)
  <2>1. MemoryTypeOK'
    BY <1>4 DEF DeleteForget, MemoryTypeOK
  <2> QED
    BY <1>2, <1>4, <2>1 DEF DeleteForget, field, FieldTypeOK
<1> QED
  BY <1>3, <1>4

LEMMA BareCommand ==
  Bare("initialize-trust") \in Command /\ Bare("leave-mission") \in Command
  BY DEF Bare, Command

\* Sending a command appends it to the drone's inbox, or loses it.
LEMMA SendKeepsTypes ==
  ASSUME FieldTypeOK, NEW d \in Dev, NEW c \in Command, NEW ok \in BOOLEAN,
         SendCommand(d, c, ok)
  PROVE  FieldTypeOK'
<1>1. CASE inbox' = [inbox EXCEPT ![d] = Append(inbox[d], c)]
  <2>1. Append(inbox[d], c) \in Seq(Command)
    BY DEF FieldTypeOK
  <2> QED
    BY <1>1, <2>1 DEF FieldTypeOK, SendCommand
<1>2. CASE UNCHANGED inbox
  BY <1>2 DEF FieldTypeOK, SendCommand
<1> QED
  BY <1>1, <1>2 DEF SendCommand

LEMMA AssignKeepsTypes ==
  ASSUME ControlTypeOK, NEW p \in Writer, AssignSend(p) \/ AssignRegister(p)
  PROVE  ControlTypeOK'
<1> USE DEF ControlTypeOK
<1>1. /\ h[p] # Idle /\ h[p].op = "assign" /\ h[p] \in Handler
      /\ h[p].slug \in Slug /\ h[p].mission \in Address /\ h[p].arg \in Dev
  BY Busy, HandlerFields DEF AssignSend, AssignRegister, At
<1>2. CASE AssignSend(p)
  <2>1. PICK ok \in BOOLEAN :
          /\ SendCommand(h[p].arg, Bare("initialize-trust"), ok)
          /\ IF ok THEN Goto(p, "finish") ELSE Done(p)
    BY <1>2 DEF AssignSend
  <2>2. HandlersTypeOK'
    BY <1>1, <2>1, GotoKeepsHandlers, DoneKeepsHandlers
  <2>3. FieldTypeOK'
    BY <1>1, <2>1, SendKeepsTypes, BareCommand
  <2>4. UNCHANGED memory /\ UNCHANGED process /\ UNCHANGED requests
    BY <1>2 DEF AssignSend
  <2> QED
    BY <2>2, <2>3, <2>4 DEF memory, MemoryTypeOK
<1>3. CASE AssignRegister(p)
  <2> DEFINE e == [ref |-> heap', dev |-> h[p].arg, trusted |-> FALSE, status |-> ""]
  <2>1. Allocate /\ Done(p)
    BY <1>3 DEF AssignRegister
  <2>2. heap' \in Address /\ heap' \in 0..MaxRequests
    BY <2>1, AllocateAddress
  <2>3. e \in Drone
    BY <1>1, <2>2 DEF Drone, Status
  <2>4. /\ roster' = [roster EXCEPT ![h[p].mission] = @ \cup {e}]
        /\ drones' = [drones EXCEPT ![h[p].arg] = h[p].slug]
        /\ UNCHANGED missions /\ UNCHANGED backlog
        /\ UNCHANGED process /\ UNCHANGED requests /\ UNCHANGED field
    BY <1>3 DEF AssignRegister
  <2> HIDE DEF e
  <2>5. MemoryTypeOK'
    BY <1>1, <2>2, <2>3, <2>4 DEF MemoryTypeOK
  <2>6. HandlersTypeOK'
    BY <2>1, DoneKeepsHandlers
  <2> QED
    BY <2>4, <2>5, <2>6 DEF field, FieldTypeOK
<1> QED
  BY <1>2, <1>3

LEMMA RemoveKeepsTypes ==
  ASSUME ControlTypeOK, NEW p \in Writer, RemoveSend(p) \/ RemoveForget(p)
  PROVE  ControlTypeOK'
<1> USE DEF ControlTypeOK
<1>1. /\ h[p] # Idle /\ h[p].op = "remove" /\ h[p] \in Handler /\ h[p].arg \in Dev
  BY Busy, HandlerFields DEF RemoveSend, RemoveForget, At
<1>2. CASE RemoveSend(p)
  <2>1. PICK ok \in BOOLEAN :
          /\ SendCommand(h[p].arg, Bare("leave-mission"), ok)
          /\ IF ok THEN Goto(p, "finish") ELSE Done(p)
    BY <1>2 DEF RemoveSend
  <2>2. HandlersTypeOK'
    BY <1>1, <2>1, GotoKeepsHandlers, DoneKeepsHandlers
  <2>3. FieldTypeOK'
    BY <1>1, <2>1, SendKeepsTypes, BareCommand
  <2>4. UNCHANGED memory /\ UNCHANGED process /\ UNCHANGED requests
    BY <1>2 DEF RemoveSend
  <2> QED
    BY <2>2, <2>3, <2>4 DEF memory, MemoryTypeOK
<1>3. CASE RemoveForget(p)
  <2>1. MemoryTypeOK'
    BY <1>3 DEF RemoveForget, MemoryTypeOK
  <2>2. HandlersTypeOK'
    BY <1>3, DoneKeepsHandlers DEF RemoveForget
  <2> QED
    BY <1>3, <2>1, <2>2 DEF RemoveForget, field, FieldTypeOK
<1> QED
  BY <1>2, <1>3

LEMMA TaskKeepsTypes ==
  ASSUME ControlTypeOK, NEW p \in Writer, TaskNotify(p) \/ TaskRegister(p)
  PROVE  ControlTypeOK'
<1> USE DEF ControlTypeOK
<1>1. /\ h[p] # Idle /\ h[p].op = "task" /\ h[p] \in Handler /\ h[p].arg \in Task
  BY Busy, HandlerFields DEF TaskNotify, TaskRegister, At
<1>2. HandlersTypeOK'
  BY <1>1, GotoKeepsHandlers, DoneKeepsHandlers DEF TaskNotify, TaskRegister
<1>3. CASE TaskNotify(p)
  BY <1>2, <1>3 DEF TaskNotify, memory, field, MemoryTypeOK, FieldTypeOK
<1>4. CASE TaskRegister(p)
  <2>1. MemoryTypeOK'
    BY <1>1, <1>4 DEF TaskRegister, MemoryTypeOK
  <2> QED
    BY <1>2, <1>4, <2>1 DEF TaskRegister, field, FieldTypeOK
<1> QED
  BY <1>3, <1>4

\* Putting a Drone in another's place keeps the rosters' type.
LEMMA ReplaceKeepsTypes ==
  ASSUME MemoryTypeOK, NEW m \in Address, NEW e, NEW x \in Drone, Replace(m, e, x)
  PROVE  roster' \in [Address -> SUBSET Drone]
  BY DEF MemoryTypeOK, Replace

LEMMA TrustKeepsTypes ==
  ASSUME ControlTypeOK, NEW p \in Writer,
         TrustUnassigned(p) \/ TrustAgain(p) \/ TrustMark(p) \/ TrustJoin(p)
  PROVE  ControlTypeOK'
<1> USE DEF ControlTypeOK
<1>1. h[p] # Idle /\ h[p].op = "trust" /\ h[p] \in Handler /\ h[p].arg \in Dev
  BY Busy, HandlerFields DEF TrustUnassigned, TrustAgain, TrustMark, TrustJoin, TrustsBegin, At
<1>2. CASE TrustUnassigned(p) \/ TrustAgain(p)
  <2>1. /\ Done(p)
        /\ UNCHANGED memory /\ UNCHANGED process /\ UNCHANGED requests /\ UNCHANGED field
    BY <1>2 DEF TrustUnassigned, TrustAgain
  <2> QED
    BY <2>1, DoneKeepsHandlers DEF memory, field, MemoryTypeOK, FieldTypeOK
<1>3. CASE TrustMark(p)
  <2> DEFINE d == h[p].arg
             s == drones[d]
             m == missions[s]
  <2>1. /\ s # NoSlug /\ m # 0 /\ Enter(p, "trust", "publish", s, d)
        /\ \/ \E e \in roster[m] :
                Replace(m, e, [ref |-> e.ref, dev |-> d, trusted |-> TRUE, status |-> "unknown"])
           \/ UNCHANGED roster
        /\ UNCHANGED <<missions, drones, backlog, heap, process, requests, field>>
    BY <1>3 DEF TrustMark
  <2>2. s \in Slug /\ m \in Address
    BY <1>1, <2>1 DEF MemoryTypeOK
  <2>3. HandlersTypeOK'
    BY <1>1, <2>1, <2>2, EnterKeepsHandlers
  <2>4. roster' \in [Address -> SUBSET Drone]
    <3>1. CASE UNCHANGED roster
      BY <3>1 DEF MemoryTypeOK
    <3>2. ASSUME NEW e \in roster[m],
                 Replace(m, e, [ref |-> e.ref, dev |-> d, trusted |-> TRUE, status |-> "unknown"])
          PROVE  roster' \in [Address -> SUBSET Drone]
      <4>1. e \in Drone
        BY <2>2 DEF MemoryTypeOK
      <4>2. [ref |-> e.ref, dev |-> d, trusted |-> TRUE, status |-> "unknown"] \in Drone
        BY <1>1, <4>1 DEF Drone, Status
      <4> QED
        BY <2>2, <3>2, <4>2, ReplaceKeepsTypes
    <3> QED
      BY <2>1, <3>1, <3>2
  <2>5. MemoryTypeOK'
    BY <2>1, <2>4 DEF MemoryTypeOK
  <2> QED
    BY <2>1, <2>3, <2>5 DEF field, FieldTypeOK
<1>4. CASE TrustJoin(p)
  <2>1. h[p].at # "begin"
    BY <1>4 DEF TrustJoin, At
  <2>2. [cmd |-> "join-mission", slug |-> h[p].slug] \in Command
    BY <1>1, <2>1, HandlerFields DEF Command
  <2>3. FieldTypeOK'
    BY <1>1, <1>4, <2>2, SendKeepsTypes DEF TrustJoin
  <2>4. HandlersTypeOK'
    BY <1>4, DoneKeepsHandlers DEF TrustJoin
  <2> QED
    BY <1>4, <2>3, <2>4 DEF TrustJoin, memory, MemoryTypeOK
<1> QED
  BY <1>2, <1>3, <1>4

\* The process starts again from empty maps, whatever it held.
LEMMA ProcessKeepsTypes ==
  ASSUME ControlTypeOK,
         Crash \/ Restart \/ \E p \in Writer : TrustPanics(p)
  PROVE  ControlTypeOK'
<1> USE DEF ControlTypeOK
<1>1. CASE Restart
  BY <1>1 DEF Restart, memory, field, MemoryTypeOK, HandlersTypeOK, FieldTypeOK
<1>2. CASE Crash \/ \E p \in Writer : TrustPanics(p)
  <2>1. /\ LoseMemory /\ process' \in {"crashed", "panicked"}
        /\ UNCHANGED heap /\ UNCHANGED requests /\ UNCHANGED field
    BY <1>2 DEF Crash, TrustPanics
  <2>2. MemoryTypeOK' /\ HandlersTypeOK'
    BY <2>1 DEF LoseMemory, MemoryTypeOK, HandlersTypeOK
  <2> QED
    BY <2>1, <2>2 DEF field, FieldTypeOK
<1> QED
  BY <1>1, <1>2

LEMMA DroneActsKeepsTypes ==
  ASSUME ControlTypeOK, NEW d \in Dev, DroneActs(d)
  PROVE  ControlTypeOK'
<1> USE DEF ControlTypeOK
<1>1. PICK c : DroneDoes(d, c)
  BY DEF DroneActs, DroneTrusts, DroneJoins, DroneLeaves
<1>2. inbox[d] \in Seq(Command) /\ inbox[d] # << >>
  BY <1>1 DEF DroneDoes, FieldTypeOK
<1>3. Head(inbox[d]) \in Command /\ Tail(inbox[d]) \in Seq(Command)
  BY <1>2
<1>4. inbox' \in [Dev -> Seq(Command)] /\ UNCHANGED seen
  BY <1>1, <1>3 DEF DroneDoes, FieldTypeOK
<1>5. CASE \E p \in Writer : DroneTrusts(p, d)
  <2>1. PICK p \in Writer : DroneTrusts(p, d)
    BY <1>5
  <2> DEFINE x == [op |-> "trust", at |-> "begin", slug |-> NoSlug, mission |-> 0, arg |-> d]
  <2>2. x \in Handler
    BY DEF Handler
  <2>3. /\ h' = [h EXCEPT ![p] = x]
        /\ UNCHANGED memory /\ UNCHANGED process /\ UNCHANGED requests /\ UNCHANGED link
    BY <2>1 DEF DroneTrusts
  <2> HIDE DEF x
  <2>4. HandlersTypeOK'
    BY <2>2, <2>3 DEF HandlersTypeOK
  <2> QED
    BY <1>4, <2>3, <2>4 DEF memory, MemoryTypeOK, FieldTypeOK
<1>6. CASE DroneJoins(d) \/ DroneLeaves(d)
  <2>1. /\ \E s \in Slug \cup {NoSlug} : link' = [link EXCEPT ![d] = s]
        /\ UNCHANGED memory /\ UNCHANGED h /\ UNCHANGED process /\ UNCHANGED requests
    BY <1>3, <1>6 DEF DroneJoins, DroneLeaves, Command
  <2>2. FieldTypeOK'
    BY <1>4, <2>1 DEF FieldTypeOK
  <2> QED
    BY <2>1, <2>2 DEF memory, MemoryTypeOK, HandlersTypeOK
<1> QED
  BY <1>5, <1>6 DEF DroneActs

\* A drone's own report changes its Drone in one place only.
LEMMA StateKeepsRoster ==
  ASSUME MemoryTypeOK, NEW d \in Dev, NEW r, MissionState(d, r)
  PROVE  roster' \in [Address -> SUBSET Drone]
<1>1. PICK s \in Slug :
        /\ missions[s] # 0
        /\ \E e \in roster[missions[s]] :
             \/ \E x \in {"online", "failed"} :
                   Replace(missions[s], e,
                           [ref |-> e.ref, dev |-> d, trusted |-> e.trusted, status |-> x])
             \/ UNCHANGED roster
  BY DEF MissionState
<1> DEFINE m == missions[s]
<1>2. m \in Address
  BY <1>1 DEF MemoryTypeOK
<1> HIDE DEF m
<1>3. ASSUME NEW e \in roster[m], NEW x \in {"online", "failed"},
             Replace(m, e, [ref |-> e.ref, dev |-> d, trusted |-> e.trusted, status |-> x])
      PROVE  roster' \in [Address -> SUBSET Drone]
  <2>1. e \in Drone
    BY <1>2 DEF MemoryTypeOK
  <2>2. [ref |-> e.ref, dev |-> d, trusted |-> e.trusted, status |-> x] \in Drone
    BY <2>1 DEF Drone, Status
  <2> QED
    BY <1>2, <1>3, <2>2, ReplaceKeepsTypes
<1>4. CASE UNCHANGED roster
  BY <1>4 DEF MemoryTypeOK
<1> QED
  BY <1>1, <1>3, <1>4 DEF m

LEMMA DroneSendsKeepsTypes ==
  ASSUME ControlTypeOK, NEW d \in Dev, DroneSends(d)
  PROVE  ControlTypeOK'
<1> USE DEF ControlTypeOK
<1>1. CASE DroneReports(d)
  <2>1. link[d] \in Slug \cup {NoSlug}
    BY DEF FieldTypeOK
  <2>2. FieldTypeOK'
    BY <1>1, <2>1 DEF DroneReports, FieldTypeOK
  <2> QED
    BY <1>1, <2>2 DEF DroneReports, memory, MemoryTypeOK, HandlersTypeOK
<1>2. CASE DroneForgets(d)
  <2>1. FieldTypeOK'
    BY <1>2 DEF DroneForgets, FieldTypeOK
  <2> QED
    BY <1>2, <2>1 DEF DroneForgets, memory, MemoryTypeOK, HandlersTypeOK
<1>3. ASSUME NEW r \in Slug \cup {NoSlug}, MissionState(d, r) \/ MissionStateUnknown(d, r)
      PROVE  ControlTypeOK'
  <2>1. Arrives(d, r)
    BY <1>3 DEF MissionState, MissionStateUnknown
  <2>2. roster' \in [Address -> SUBSET Drone]
    BY <1>3, StateKeepsRoster DEF MissionStateUnknown, MemoryTypeOK
  <2>3. FieldTypeOK'
    BY <2>1 DEF Arrives, FieldTypeOK
  <2> QED
    BY <2>1, <2>2, <2>3 DEF Arrives, MemoryTypeOK, HandlersTypeOK
<1> QED
  BY <1>1, <1>2, <1>3 DEF DroneSends

LEMMA HandleKeepsTypes ==
  ASSUME ControlTypeOK, NEW p \in Writer, Handle(p)
  PROVE  ControlTypeOK'
<1>1. CASE Publish(p)
  BY <1>1, PublishKeepsTypes
<1>2. CASE CreateRepo(p) \/ CreateUndo(p) \/ CreateRegister(p)
  BY <1>2, CreateKeepsTypes
<1>3. CASE DeleteMissionRepo(p) \/ DeleteForget(p)
  BY <1>3, DeleteKeepsTypes
<1>4. CASE AssignSend(p) \/ AssignRegister(p)
  BY <1>4, AssignKeepsTypes
<1>5. CASE RemoveSend(p) \/ RemoveForget(p)
  BY <1>5, RemoveKeepsTypes
<1>6. CASE TaskNotify(p) \/ TaskRegister(p)
  BY <1>6, TaskKeepsTypes
<1>7. CASE TrustUnassigned(p) \/ TrustAgain(p) \/ TrustMark(p) \/ TrustJoin(p)
  BY <1>7, TrustKeepsTypes
<1>8. CASE TrustPanics(p)
  BY <1>8, ProcessKeepsTypes
<1> QED
  BY <1>1, <1>2, <1>3, <1>4, <1>5, <1>6, <1>7, <1>8 DEF Handle

LEMMA NextKeepsTypes == ControlTypeOK /\ [MissionNext]_missionVars => ControlTypeOK'
<1> SUFFICES ASSUME ControlTypeOK, [MissionNext]_missionVars
             PROVE  ControlTypeOK'
  OBVIOUS
<1>1. CASE \E p \in Writer : Ask(p) \/ Handle(p)
  BY <1>1, AskKeepsTypes, HandleKeepsTypes
<1>2. CASE \E d \in Dev : DroneActs(d) \/ DroneSends(d)
  BY <1>2, DroneActsKeepsTypes, DroneSendsKeepsTypes
<1>3. CASE Crash \/ Restart
  BY <1>3, ProcessKeepsTypes
<1>4. CASE UNCHANGED missionVars
  BY <1>4 DEF missionVars, memory, field, ControlTypeOK, MemoryTypeOK, HandlersTypeOK, FieldTypeOK
<1> QED
  BY <1>1, <1>2, <1>3, <1>4 DEF MissionNext

\* What handlers carry across their blocking calls, and all that they share,
\* keep their types.
THEOREM ControlTypeCorrect == MissionSpec => []ControlTypeOK
<1>1. MissionInit => ControlTypeOK
  BY InitTypes
<1>2. ControlTypeOK /\ [MissionNext]_missionVars => ControlTypeOK'
  BY NextKeepsTypes
<1> QED
  BY <1>1, <1>2, PTL DEF MissionSpec

------------------------------------------------------------------------------
(* Handlers publish by the steps of GitOutbox *)

\* What a publishing handler appends to its mission's outbox.
LEMMA PublisherHasPayload ==
  ASSUME ControlTypeOK, NEW p \in Writer, Publishing(p)
  PROVE  h[p].slug \in Slug /\ Announcement(h[p]) \in Payload
<1>1. h[p] # Idle /\ h[p].at = "publish" /\ h[p] \in Handler
  BY Busy DEF Publishing, ControlTypeOK
<1> DEFINE x == h[p]
<1>2. x \in Handler /\ x.at = "publish"
  BY <1>1
<1> HIDE DEF x
<1>3. x.slug \in Slug
  BY <1>2, HandlerFields
<1>4. Announcement(x) \in Payload
  <2>1. CASE x.op = "create"
    BY <2>1 DEF Announcement, Payload
  <2>2. CASE x.op \in {"remove", "trust"}
    <3>1. x.arg \in Dev
      BY <1>2, <2>2, HandlerFields
    <3>2. [type |-> x.op, name |-> x.arg] \in Outgoing
      BY <2>2, <3>1 DEF Outgoing
    <3> QED
      BY <2>2, <3>2, MissionAssumption DEF Announcement, Payload
  <2>3. CASE x.op = "task"
    <3>1. x.arg \in Task
      BY <1>2, <2>3, HandlerFields
    <3>2. [type |-> x.op, name |-> x.arg] \in Outgoing
      BY <2>3, <3>1 DEF Outgoing
    <3> QED
      BY <2>3, <3>2, MissionAssumption DEF Announcement, Payload
  <2> QED
    BY <1>2, <2>1, <2>2, <2>3, HandlerFields
<1> QED
  BY <1>3, <1>4 DEF x

LEMMA PublishIsOutboxStep ==
  ASSUME ControlTypeOK, NEW p \in Writer, Publish(p)
  PROVE  [OutboxNext]_outboxVars
<1>1. Publishing(p)
  BY DEF Publish, PublishClone, PublishCommit, PublishPush, PublishError
<1>2. CASE PublishClone(p)
  BY <1>1, <1>2, PublisherHasPayload DEF PublishClone, OutboxNext
<1>3. CASE PublishCommit(p)
  BY <1>3 DEF PublishCommit, OutboxNext
<1>4. CASE PublishPush(p)
  BY <1>4 DEF PublishPush, OutboxNext
<1>5. CASE PublishError(p)
  BY <1>5 DEF PublishError, OutboxNext
<1> QED
  BY <1>2, <1>3, <1>4, <1>5 DEF Publish

LEMMA HandleIsOutboxStep ==
  ASSUME ControlTypeOK, NEW p \in Writer, Handle(p)
  PROVE  [OutboxNext]_outboxVars
<1>1. CASE Publish(p)
  BY <1>1, PublishIsOutboxStep
<1>2. CASE CreateRepo(p) \/ CreateUndo(p) \/ DeleteMissionRepo(p)
  <2>1. h[p].slug \in Slug
    <3>1. h[p] \in Handler /\ h[p].op \in {"create", "delete"}
      BY <1>2, Busy DEF CreateRepo, CreateUndo, DeleteMissionRepo, At, ControlTypeOK
    <3> QED
      BY <3>1, HandlerFields
  <2>2. InitBareRepo(h[p].slug) \/ DeleteRepo(h[p].slug) \/ UNCHANGED outboxVars
    BY <1>2 DEF CreateRepo, CreateUndo, DeleteMissionRepo
  <2> QED
    BY <2>1, <2>2 DEF OutboxNext
<1>3. CASE TrustPanics(p)
  BY <1>3 DEF TrustPanics, LoseMemory, OutboxNext
<1>4. CASE UNCHANGED outboxVars
  BY <1>4
<1> QED
  BY <1>1, <1>2, <1>3, <1>4
  DEF Handle, CreateRegister, DeleteForget, AssignSend, AssignRegister, RemoveSend,
      RemoveForget, TaskNotify, TaskRegister, TrustUnassigned, TrustAgain, TrustMark, TrustJoin

LEMMA AskLeavesOutbox ==
  ASSUME NEW p \in Writer, Ask(p)
  PROVE  UNCHANGED outboxVars
  BY DEF Ask, CreateMission, DeleteMission, AssignDrone, RemoveDrone, AddTask, Request

LEMMA DronesLeaveOutbox ==
  ASSUME NEW d \in Dev, DroneActs(d) \/ DroneSends(d)
  PROVE  UNCHANGED outboxVars
  BY DEF DroneActs, DroneTrusts, DroneJoins, DroneLeaves, DroneSends, DroneReports,
     DroneForgets, MissionState, MissionStateUnknown, Arrives

LEMMA StepIsOutboxStep ==
  ControlTypeOK /\ [MissionNext]_missionVars => [OutboxNext]_outboxVars
<1> SUFFICES ASSUME ControlTypeOK, [MissionNext]_missionVars
             PROVE  [OutboxNext]_outboxVars
  OBVIOUS
<1>1. CASE \E p \in Writer : Ask(p)
  BY <1>1, AskLeavesOutbox
<1>2. CASE \E p \in Writer : Handle(p)
  BY <1>2, HandleIsOutboxStep
<1>3. CASE \E d \in Dev : DroneActs(d) \/ DroneSends(d)
  BY <1>3, DronesLeaveOutbox
<1>4. CASE Crash
  BY <1>4 DEF Crash, LoseMemory, OutboxNext
<1>5. CASE Restart
  BY <1>5 DEF Restart
<1>6. CASE UNCHANGED missionVars
  BY <1>6 DEF missionVars
<1> QED
  BY <1>1, <1>2, <1>3, <1>4, <1>5, <1>6 DEF MissionNext

\* Whatever handlers, drones, crashes and failing calls interleave, what they
\* do to the repositories is what the publication protocol allows.
THEOREM MissionImplementsOutbox == MissionSpec => ImplementsOutbox
<1>1. MissionInit => OutboxInit
  BY DEF MissionInit
<1>2. ControlTypeOK /\ [MissionNext]_missionVars => [OutboxNext]_outboxVars
  BY StepIsOutboxStep
<1> QED
  BY <1>1, <1>2, ControlTypeCorrect, PTL DEF MissionSpec, ImplementsOutbox, OutboxSpec

\* All variables of mission-control keep their types.
THEOREM MissionTypeCorrect == MissionSpec => []MissionTypeOK
<1>1. ControlTypeOK /\ OutboxTypeOK => MissionTypeOK
  BY DEF ControlTypeOK, MemoryTypeOK, HandlersTypeOK, FieldTypeOK, MissionTypeOK
<1>2. MissionSpec => OutboxSpec
  BY MissionImplementsOutbox DEF ImplementsOutbox
<1> QED
  BY <1>1, <1>2, ControlTypeCorrect, OutboxTypeCorrect, PTL

------------------------------------------------------------------------------
(* The life of a mission, when deletions do not overlap other requests *)

\* A handler that starts, or that looks its mission up, holds the mission
\* registered by then; nobody deletes meanwhile.
LEMMA EnterKeepsLifecycle ==
  ASSUME LifecycleInv, HandlersTypeOK, NEW p \in Writer,
         NEW op, NEW at, NEW s, NEW a, Enter(p, op, at, s, a),
         UNCHANGED missions, UNCHANGED repos,
         h[p] # Idle => h[p].op = "trust",
         \A q \in Writer : h[q] # Idle => h[q].op # "delete",
         op = "delete" => at = "begin" /\ \A q \in Writer : q # p => h[q] = Idle,
         op = "create" => at = "begin"
  PROVE  LifecycleInv'
<1> DEFINE x == [op |-> op, at |-> at, slug |-> s, mission |-> missions[s], arg |-> a]
<1>1. \A q \in Writer : h'[q] = IF q = p THEN x ELSE h[q]
  BY DEF Enter, HandlersTypeOK
<1>2. x # Idle /\ x.op = op /\ x.at = at /\ x.slug = s /\ x.mission = missions[s]
  BY DEF Idle
<1> HIDE DEF x
<1>3. DeletesAlone'
  BY <1>1, <1>2 DEF DeletesAlone
<1>4. CreatorOwnsSlug'
  BY <1>1, <1>2 DEF LifecycleInv, CreatorOwnsSlug, Creating
<1>5. MissionsHaveRepos'
  BY <1>1, <1>2 DEF LifecycleInv, MissionsHaveRepos, Removing
<1>6. HeldIsRegistered'
  BY <1>1, <1>2 DEF LifecycleInv, HeldIsRegistered
<1> QED
  BY <1>3, <1>4, <1>5, <1>6 DEF LifecycleInv

\* So does a trust event, which looks its mission up later.
LEMMA TrustStartKeepsLifecycle ==
  ASSUME LifecycleInv, HandlersTypeOK, NEW p \in Writer, NEW d \in Dev, DroneTrusts(p, d),
         \A q \in Writer : h[q] # Idle => h[q].op # "delete"
  PROVE  LifecycleInv'
<1> DEFINE x == [op |-> "trust", at |-> "begin", slug |-> NoSlug, mission |-> 0, arg |-> d]
<1>1. \A q \in Writer : h'[q] = IF q = p THEN x ELSE h[q]
  BY DEF DroneTrusts, HandlersTypeOK
<1>2. x # Idle /\ x.op = "trust" /\ x.mission = 0
  BY DEF Idle
<1>3. UNCHANGED missions /\ UNCHANGED repos
  BY DEF DroneTrusts, memory, outboxVars
<1> HIDE DEF x
<1>4. DeletesAlone'
  BY <1>1, <1>2 DEF DeletesAlone
<1>5. CreatorOwnsSlug'
  BY <1>1, <1>2, <1>3 DEF LifecycleInv, CreatorOwnsSlug, Creating
<1>6. MissionsHaveRepos'
  BY <1>1, <1>2, <1>3 DEF LifecycleInv, MissionsHaveRepos, Removing
<1>7. HeldIsRegistered'
  BY <1>1, <1>2, <1>3 DEF LifecycleInv, HeldIsRegistered
<1> QED
  BY <1>4, <1>5, <1>6, <1>7 DEF LifecycleInv

\* A handler that moves on or ends, and leaves missions and repositories as
\* they are, unless it made or removed the repository just now.
LEMMA MoveKeepsLifecycle ==
  ASSUME LifecycleInv, HandlersTypeOK, NEW p \in Writer, h[p] # Idle,
         Done(p) \/ \E at : Goto(p, at),
         UNCHANGED missions, UNCHANGED repos,
         h[p].op # "delete",
         h[p].op = "create" => Done(p) \/ h[p].at # "begin"
  PROVE  LifecycleInv'
<1>1. PICK x :
        /\ h' = [h EXCEPT ![p] = x]
        /\ \/ x = Idle
           \/ /\ x # Idle /\ x.op = h[p].op /\ x.slug = h[p].slug /\ x.mission = h[p].mission
              /\ h[p].op = "create" => h[p].at # "begin"
  <2>1. CASE Done(p)
    BY <2>1 DEF Done
  <2>2. CASE ~Done(p)
    <3>1. PICK at : Goto(p, at)
      BY <2>2
    <3> DEFINE y == [op |-> h[p].op, at |-> at, slug |-> h[p].slug,
                     mission |-> h[p].mission, arg |-> h[p].arg]
    <3>2. h' = [h EXCEPT ![p] = y]
      BY <3>1 DEF Goto
    <3>3. /\ y # Idle /\ y.op = h[p].op /\ y.slug = h[p].slug /\ y.mission = h[p].mission
          /\ h[p].op = "create" => h[p].at # "begin"
      BY <2>2 DEF Idle
    <3> HIDE DEF y
    <3> QED
      BY <3>2, <3>3
  <2> QED
    BY <2>1, <2>2
<1>2. \A q \in Writer : h'[q] = IF q = p THEN x ELSE h[q]
  BY <1>1 DEF HandlersTypeOK
<1>3. DeletesAlone'
  BY <1>1, <1>2 DEF LifecycleInv, DeletesAlone
<1>4. CreatorOwnsSlug'
  BY <1>1, <1>2 DEF LifecycleInv, CreatorOwnsSlug, Creating
<1>5. MissionsHaveRepos'
  BY <1>1, <1>2 DEF LifecycleInv, MissionsHaveRepos, Removing
<1>6. HeldIsRegistered'
  BY <1>1, <1>2 DEF LifecycleInv, HeldIsRegistered
<1> QED
  BY <1>3, <1>4, <1>5, <1>6 DEF LifecycleInv

\* Only one of several creations of a mission makes its repository.
LEMMA CreateRepoKeepsLifecycle ==
  ASSUME "reinit" \notin Faults,
         LifecycleInv, ControlTypeOK, NEW p \in Writer, CreateRepo(p)
  PROVE  LifecycleInv'
<1> DEFINE s == h[p].slug
<1>1. /\ h[p] # Idle /\ h[p].op = "create" /\ s \in Slug /\ h[p].mission = 0
      /\ HandlersTypeOK /\ UNCHANGED missions
  BY Busy, HandlerFields DEF CreateRepo, At, ControlTypeOK, memory
<1>2. CASE Done(p) /\ UNCHANGED outboxVars
  <2>1. UNCHANGED repos
    BY <1>2 DEF outboxVars
  <2> QED
    BY <1>1, <1>2, <2>1, MoveKeepsLifecycle
<1>3. CASE InitBareRepo(s) /\ Goto(p, "publish")
  <2> DEFINE x == [op |-> h[p].op, at |-> "publish", slug |-> s,
                   mission |-> h[p].mission, arg |-> h[p].arg]
  <2>1. \A q \in Writer : h'[q] = IF q = p THEN x ELSE h[q]
    BY <1>1, <1>3 DEF Goto, HandlersTypeOK
  <2>2. /\ x # Idle /\ x.op = "create" /\ x.at = "publish" /\ x.slug = s /\ x.mission = 0
    BY <1>1 DEF Idle
  <2>3. s \notin repos /\ repos' = repos \cup {s}
    BY <1>3 DEF InitBareRepo
  <2>4. \A q \in Writer : ~Creating(q, s) /\ ~Removing(q, s)
    <3>1. \A q \in Writer : ~Creating(q, s)
      BY <1>1, <2>3 DEF LifecycleInv, CreatorOwnsSlug
    <3>2. \A q \in Writer : h[q] # Idle => h[q].op # "delete"
      BY <1>1 DEF LifecycleInv, DeletesAlone
    <3> QED
      BY <3>1, <3>2 DEF Removing
  <2>5. missions[s] = 0
    BY <1>1, <2>3, <2>4 DEF LifecycleInv, MissionsHaveRepos
  <2> HIDE DEF x, s
  <2>6. DeletesAlone'
    BY <1>1, <2>1, <2>2 DEF LifecycleInv, DeletesAlone
  <2>7. CreatorOwnsSlug'
    BY <1>1, <2>1, <2>2, <2>3, <2>4, <2>5 DEF LifecycleInv, CreatorOwnsSlug, Creating
  <2>8. MissionsHaveRepos'
    BY <1>1, <2>1, <2>2, <2>3, <2>5 DEF LifecycleInv, MissionsHaveRepos, Removing, s
  <2>9. HeldIsRegistered'
    BY <1>1, <2>1, <2>2 DEF LifecycleInv, HeldIsRegistered
  <2> QED
    BY <2>6, <2>7, <2>8, <2>9 DEF LifecycleInv
<1> QED
  BY <1>2, <1>3 DEF CreateRepo

\* What a failed creation removes is its own repository.
LEMMA CreateUndoKeepsLifecycle ==
  ASSUME LifecycleInv, ControlTypeOK, NEW p \in Writer, CreateUndo(p)
  PROVE  LifecycleInv'
<1> DEFINE s == h[p].slug
<1>1. /\ s \in Slug /\ Creating(p, s) /\ HandlersTypeOK /\ UNCHANGED missions /\ Done(p)
  BY Busy, HandlerFields DEF CreateUndo, At, ControlTypeOK, memory, Creating
<1>2. /\ missions[s] = 0 /\ repos \ {s} \subseteq repos'
      /\ \A q \in Writer : Creating(q, s) => q = p
  BY <1>1 DEF LifecycleInv, CreatorOwnsSlug, CreateUndo, DeleteRepo, outboxVars
<1>3. \A q \in Writer : h'[q] = IF q = p THEN Idle ELSE h[q]
  BY <1>1 DEF Done, HandlersTypeOK
<1>4. h[p] # Idle /\ h[p].op = "create"
  BY <1>1 DEF Creating
<1> HIDE DEF s
<1>5. DeletesAlone'
  BY <1>3 DEF LifecycleInv, DeletesAlone
<1>6. CreatorOwnsSlug'
  BY <1>1, <1>2, <1>3 DEF LifecycleInv, CreatorOwnsSlug, Creating
<1>7. MissionsHaveRepos'
  BY <1>1, <1>2, <1>3, <1>4 DEF LifecycleInv, MissionsHaveRepos, Removing
<1>8. HeldIsRegistered'
  BY <1>1, <1>3 DEF LifecycleInv, HeldIsRegistered
<1> QED
  BY <1>5, <1>6, <1>7, <1>8 DEF LifecycleInv

\* The mission that is registered is new, and nobody holds another of its
\* name.
LEMMA CreateRegisterKeepsLifecycle ==
  ASSUME LifecycleInv, ControlTypeOK, NEW p \in Writer, CreateRegister(p)
  PROVE  LifecycleInv'
<1> DEFINE s == h[p].slug
<1>1. /\ s \in Slug /\ Creating(p, s) /\ Done(p) /\ HandlersTypeOK /\ MemoryTypeOK
      /\ missions' = [missions EXCEPT ![s] = heap'] /\ UNCHANGED repos
  BY Busy, HandlerFields DEF CreateRegister, At, ControlTypeOK, outboxVars, Creating
<1>2. /\ s \in repos /\ missions[s] = 0
      /\ \A q \in Writer : Creating(q, s) => q = p
  BY <1>1 DEF LifecycleInv, CreatorOwnsSlug
<1>3. \A q \in Writer : h'[q] = IF q = p THEN Idle ELSE h[q]
  BY <1>1 DEF Done, HandlersTypeOK
<1>4. \A t \in Slug : t # s => missions'[t] = missions[t]
  BY <1>1 DEF MemoryTypeOK
<1>5. h[p] # Idle /\ h[p].op = "create"
  BY <1>1 DEF Creating
<1>6. \A q \in Writer : h[q] # Idle => h[q].slug \in Slug \/ h[q].mission = 0
  BY <1>1, Busy, HandlerFields
<1> HIDE DEF s
<1>7. DeletesAlone'
  BY <1>3 DEF LifecycleInv, DeletesAlone
<1>8. CreatorOwnsSlug'
  BY <1>1, <1>2, <1>3, <1>4 DEF LifecycleInv, CreatorOwnsSlug, Creating
<1>9. MissionsHaveRepos'
  BY <1>1, <1>2, <1>3, <1>4, <1>5 DEF LifecycleInv, MissionsHaveRepos, Removing
<1>10. HeldIsRegistered'
  BY <1>2, <1>3, <1>4, <1>6 DEF LifecycleInv, HeldIsRegistered
<1> QED
  BY <1>7, <1>8, <1>9, <1>10 DEF LifecycleInv

\* Nobody holds a mission while it is deleted.
LEMMA DeleteKeepsLifecycle ==
  ASSUME LifecycleInv, ControlTypeOK, NEW p \in Writer,
         DeleteMissionRepo(p) \/ DeleteForget(p)
  PROVE  LifecycleInv'
<1> DEFINE s == h[p].slug
<1>1. /\ h[p] # Idle /\ h[p].op = "delete" /\ s \in Slug /\ HandlersTypeOK
      /\ missions \in [Slug -> Address \cup {0}]
  BY Busy, HandlerFields DEF DeleteMissionRepo, DeleteForget, At, ControlTypeOK, MemoryTypeOK
<1>2. \A q \in Writer : q # p => h[q] = Idle
  BY <1>1 DEF LifecycleInv, DeletesAlone
<1>3. CASE DeleteMissionRepo(p)
  <2> DEFINE x == [op |-> h[p].op, at |-> "finish", slug |-> s,
                   mission |-> h[p].mission, arg |-> h[p].arg]
  <2>1. h' = [h EXCEPT ![p] = x] /\ UNCHANGED missions /\ repos \ {s} \subseteq repos'
    BY <1>3 DEF DeleteMissionRepo, DeleteRepo, outboxVars, Goto, memory
  <2>2. \A q \in Writer : h'[q] = IF q = p THEN x ELSE Idle
    BY <1>1, <1>2, <2>1 DEF HandlersTypeOK
  <2>3. /\ x # Idle /\ x.op = "delete" /\ x.at = "finish" /\ x.slug = s
        /\ x.mission = h[p].mission
    BY <1>1 DEF Idle
  <2> HIDE DEF x, s
  <2>4. DeletesAlone'
    BY <2>2 DEF DeletesAlone
  <2>5. CreatorOwnsSlug'
    BY <2>2, <2>3 DEF CreatorOwnsSlug, Creating
  <2>6. MissionsHaveRepos'
    <3>1. SUFFICES ASSUME NEW t \in Slug, missions[t] # 0, t # s
                   PROVE  t \in repos'
      BY <2>1, <2>2, <2>3 DEF MissionsHaveRepos, Removing
    <3>2. \A q \in Writer : ~Removing(q, t)
      BY <1>1, <1>2, <3>1 DEF Removing, s
    <3> QED
      BY <2>1, <3>1, <3>2 DEF LifecycleInv, MissionsHaveRepos
  <2>7. HeldIsRegistered'
    BY <1>1, <2>1, <2>2, <2>3 DEF LifecycleInv, HeldIsRegistered, s
  <2> QED
    BY <2>4, <2>5, <2>6, <2>7 DEF LifecycleInv
<1>4. CASE DeleteForget(p)
  <2>1. /\ h' = [h EXCEPT ![p] = Idle] /\ missions' = [missions EXCEPT ![s] = 0]
        /\ UNCHANGED repos
    BY <1>4 DEF DeleteForget, Done, outboxVars
  <2>2. \A q \in Writer : h'[q] = Idle
    BY <1>1, <1>2, <2>1 DEF HandlersTypeOK
  <2>3. MissionsHaveRepos'
    <3>1. SUFFICES ASSUME NEW t \in Slug, missions[t] # 0, t # s
                   PROVE  t \in repos
      BY <1>1, <2>1 DEF MissionsHaveRepos
    <3>2. \A q \in Writer : ~Removing(q, t)
      BY <1>1, <1>2, <3>1 DEF Removing
    <3> QED
      BY <3>1, <3>2 DEF LifecycleInv, MissionsHaveRepos
  <2> QED
    BY <2>2, <2>3 DEF LifecycleInv, DeletesAlone, CreatorOwnsSlug, Creating, HeldIsRegistered
<1> QED
  BY <1>3, <1>4

\* A process that is gone holds nothing.
LEMMA DeathKeepsLifecycle ==
  ASSUME LoseMemory
  PROVE  LifecycleInv'
<1>1. /\ \A q \in Writer : h'[q] = Idle
      /\ \A s \in Slug : missions'[s] = 0
  BY DEF LoseMemory
<1> QED
  BY <1>1 DEF LifecycleInv, DeletesAlone, CreatorOwnsSlug, Creating, MissionsHaveRepos,
     HeldIsRegistered

\* Where deletions are made alone, nothing starts while one goes on, and one
\* starts while nothing goes on.
LEMMA StartsAlone ==
  ASSUME "delete" \in Alone, NEW p \in Writer, NEW op, MayStart(p, op)
  PROVE  /\ h[p] = Idle
         /\ \A q \in Writer : h[q] # Idle => h[q].op # "delete"
         /\ op = "delete" => \A q \in Writer : h[q] = Idle
  BY DEF MayStart

LEMMA AskKeepsLifecycle ==
  ASSUME "delete" \in Alone,
         LifecycleInv, ControlTypeOK, NEW p \in Writer, Ask(p)
  PROVE  LifecycleInv'
<1>1. ASSUME NEW op, NEW at, NEW s, NEW a, Request(p, op, at, s, a),
             op \in {"create", "delete"} => at = "begin"
      PROVE  LifecycleInv'
  <2>1. /\ MayStart(p, op) /\ Enter(p, op, at, s, a)
        /\ UNCHANGED missions /\ UNCHANGED repos
    BY <1>1 DEF Request, outboxVars, memory
  <2> QED
    BY <1>1, <2>1, StartsAlone, EnterKeepsLifecycle DEF ControlTypeOK
<1>2. PICK s \in Slug :
        \/ CreateMission(p, s) \/ DeleteMission(p, s)
        \/ \E d \in Dev : AssignDrone(p, s, d) \/ RemoveDrone(p, s, d)
        \/ \E t \in Task : AddTask(p, s, t)
  BY DEF Ask
<1> QED
  BY <1>1, <1>2 DEF CreateMission, DeleteMission, AssignDrone, RemoveDrone, AddTask

LEMMA PublishKeepsLifecycle ==
  ASSUME LifecycleInv, ControlTypeOK, NEW p \in Writer, Publish(p)
  PROVE  LifecycleInv'
<1>1. HandlersTypeOK /\ Publishing(p) /\ h[p] # Idle /\ h[p].at = "publish"
  BY DEF Publish, PublishClone, PublishCommit, PublishPush, PublishError, Publishing, ControlTypeOK
<1>2. h[p].op # "delete"
  BY <1>1, Busy, HandlerFields
<1>3. CASE PublishClone(p) \/ PublishCommit(p)
  <2>1. UNCHANGED h /\ UNCHANGED missions /\ UNCHANGED repos
    BY <1>3 DEF PublishClone, PublishCommit, GitClone, GitCommit, memory
  <2> QED
    BY <2>1 DEF LifecycleInv, DeletesAlone, CreatorOwnsSlug, Creating, MissionsHaveRepos,
       Removing, HeldIsRegistered
<1>4. CASE PublishPush(p)
  <2>1. Goto(p, "published") /\ UNCHANGED missions /\ UNCHANGED repos
    BY <1>4 DEF PublishPush, GitPush, memory
  <2> QED
    BY <1>1, <1>2, <2>1, MoveKeepsLifecycle
<1>5. CASE PublishError(p)
  <2>1. UNCHANGED missions /\ UNCHANGED repos
    BY <1>5 DEF PublishError, GitPushUncleaned, GitRefused, GitFault, memory, outboxVars
  <2>2. Done(p) \/ Goto(p, "undo")
    BY <1>5 DEF PublishError
  <2> QED
    BY <1>1, <1>2, <2>1, <2>2, MoveKeepsLifecycle
<1> QED
  BY <1>3, <1>4, <1>5 DEF Publish

\* The other handlers move on without touching missions or repositories.
LEMMA OtherHandlersKeepLifecycle ==
  ASSUME LifecycleInv, ControlTypeOK, NEW p \in Writer,
         \/ AssignSend(p) \/ AssignRegister(p) \/ RemoveSend(p) \/ RemoveForget(p)
         \/ TaskNotify(p) \/ TaskRegister(p)
         \/ TrustUnassigned(p) \/ TrustAgain(p) \/ TrustJoin(p)
  PROVE  LifecycleInv'
<1>1. /\ h[p] # Idle /\ h[p].op \in {"assign", "remove", "task", "trust"}
      /\ UNCHANGED missions /\ UNCHANGED repos
  BY DEF AssignSend, AssignRegister, RemoveSend, RemoveForget, TaskNotify, TaskRegister,
     TrustUnassigned, TrustAgain, TrustJoin, TrustsBegin, At, memory, outboxVars
<1>2. Done(p) \/ Goto(p, "finish")
  BY DEF AssignSend, AssignRegister, RemoveSend, RemoveForget, TaskNotify, TaskRegister,
     TrustUnassigned, TrustAgain, TrustJoin
<1> QED
  BY <1>1, <1>2, MoveKeepsLifecycle DEF ControlTypeOK

LEMMA TrustMarkKeepsLifecycle ==
  ASSUME LifecycleInv, ControlTypeOK, NEW p \in Writer, TrustMark(p)
  PROVE  LifecycleInv'
<1>1. h[p] # Idle /\ h[p].op = "trust"
  BY DEF TrustMark, TrustsBegin, At
<1>2. \A q \in Writer : h[q] # Idle => h[q].op # "delete"
  BY <1>1 DEF LifecycleInv, DeletesAlone
<1>3. /\ Enter(p, "trust", "publish", drones[h[p].arg], h[p].arg)
      /\ UNCHANGED missions /\ UNCHANGED repos
  BY DEF TrustMark, outboxVars
<1> QED
  BY <1>1, <1>2, <1>3, EnterKeepsLifecycle DEF ControlTypeOK

LEMMA DronesKeepLifecycle ==
  ASSUME "delete" \in Alone,
         LifecycleInv, ControlTypeOK, NEW d \in Dev, DroneActs(d) \/ DroneSends(d)
  PROVE  LifecycleInv'
<1>1. CASE \E p \in Writer : DroneTrusts(p, d)
  <2>1. PICK p \in Writer : DroneTrusts(p, d)
    BY <1>1
  <2>2. MayStart(p, "trust")
    BY <2>1 DEF DroneTrusts
  <2> QED
    BY <2>1, <2>2, StartsAlone, TrustStartKeepsLifecycle DEF ControlTypeOK
<1>2. CASE DroneJoins(d) \/ DroneLeaves(d) \/ DroneSends(d)
  <2>1. UNCHANGED h /\ UNCHANGED missions /\ UNCHANGED repos
    BY <1>2 DEF DroneJoins, DroneLeaves, DroneSends, DroneReports, DroneForgets,
       MissionState, MissionStateUnknown, Arrives, memory, outboxVars
  <2> QED
    BY <2>1 DEF LifecycleInv, DeletesAlone, CreatorOwnsSlug, Creating, MissionsHaveRepos,
       Removing, HeldIsRegistered
<1> QED
  BY <1>1, <1>2 DEF DroneActs

LEMMA NextKeepsLifecycle ==
  ASSUME "delete" \in Alone, "reinit" \notin Faults,
         LifecycleInv, ControlTypeOK, [MissionNext]_missionVars
  PROVE  LifecycleInv'
<1>1. CASE \E p \in Writer : Ask(p)
  BY <1>1, AskKeepsLifecycle
<1>2. ASSUME NEW p \in Writer, Handle(p), ~TrustPanics(p)
      PROVE  LifecycleInv'
  BY <1>2, PublishKeepsLifecycle, CreateRepoKeepsLifecycle, CreateUndoKeepsLifecycle,
     CreateRegisterKeepsLifecycle, DeleteKeepsLifecycle, OtherHandlersKeepLifecycle,
     TrustMarkKeepsLifecycle
  DEF Handle
<1>3. CASE \E d \in Dev : DroneActs(d) \/ DroneSends(d)
  BY <1>3, DronesKeepLifecycle
<1>4. CASE Crash \/ \E p \in Writer : TrustPanics(p)
  BY <1>4, DeathKeepsLifecycle DEF Crash, TrustPanics
<1>5. CASE Restart \/ UNCHANGED missionVars
  <2>1. UNCHANGED h /\ UNCHANGED missions /\ UNCHANGED repos
    BY <1>5 DEF Restart, memory, outboxVars, missionVars
  <2> QED
    BY <2>1 DEF LifecycleInv, DeletesAlone, CreatorOwnsSlug, Creating, MissionsHaveRepos,
       Removing, HeldIsRegistered
<1> QED
  BY <1>1, <1>2, <1>3, <1>4, <1>5 DEF MissionNext

------------------------------------------------------------------------------
(* The index and the rosters *)

\* The devices of the rosters stay, and so do the index and the missions.
LEMMA SameIndex ==
  ASSUME IndexNamesRoster, ControlTypeOK, UNCHANGED missions, UNCHANGED drones,
         \A m \in Address : DeviceIn(m) \subseteq DeviceIn(m)'
  PROVE  IndexNamesRoster'
<1>1. \A d \in Dev : drones[d] # NoSlug => missions[drones[d]] \in Address
  BY DEF IndexNamesRoster, ControlTypeOK, MemoryTypeOK
<1> QED
  BY <1>1 DEF IndexNamesRoster

\* A Drone takes the place of one of the same device.
LEMMA ReplaceKeepsDevices ==
  ASSUME MemoryTypeOK, NEW m \in Address, NEW e \in roster[m], NEW x, x.dev = e.dev,
         Replace(m, e, x)
  PROVE  \A n \in Address : DeviceIn(n) \subseteq DeviceIn(n)'
<1>1. \A n \in Address : roster'[n] = IF n = m THEN (roster[m] \ {e}) \cup {x} ELSE roster[n]
  BY DEF Replace, MemoryTypeOK
<1> QED
  BY <1>1 DEF DeviceIn

LEMMA AssignKeepsIndex ==
  ASSUME IndexNamesRoster, LifecycleInv, ControlTypeOK, NEW p \in Writer, AssignRegister(p)
  PROVE  IndexNamesRoster'
<1>1. PICK s \in Slug, m \in Address, d \in Dev :
        h[p] # Idle /\ s = h[p].slug /\ m = h[p].mission /\ d = h[p].arg
  BY Busy, HandlerFields DEF AssignRegister, At, ControlTypeOK
<1>2. missions[s] = m
  BY <1>1 DEF LifecycleInv, HeldIsRegistered, Address
<1>3. PICK e : e.dev = d /\ roster' = [roster EXCEPT ![m] = @ \cup {e}]
  BY <1>1 DEF AssignRegister
<1>4. drones' = [drones EXCEPT ![d] = s] /\ UNCHANGED missions
  BY <1>1 DEF AssignRegister
<1>5. /\ \A n \in Address : DeviceIn(n) \subseteq DeviceIn(n)'
      /\ d \in DeviceIn(m)'
  <2>1. \A n \in Address : roster'[n] = IF n = m THEN roster[m] \cup {e} ELSE roster[n]
    BY <1>3 DEF ControlTypeOK, MemoryTypeOK
  <2> QED
    BY <1>3, <2>1 DEF DeviceIn
<1>6. \A c \in Dev : drones'[c] = IF c = d THEN s ELSE drones[c]
  BY <1>4 DEF ControlTypeOK, MemoryTypeOK
<1>7. \A c \in Dev : drones[c] # NoSlug => missions[drones[c]] \in Address
  BY DEF IndexNamesRoster, ControlTypeOK, MemoryTypeOK
<1>8. m # 0
  BY DEF Address
<1>9. SUFFICES ASSUME NEW c \in Dev, drones'[c] # NoSlug
               PROVE  missions'[drones'[c]] # 0 /\ c \in DeviceIn(missions[drones[c]])'
  BY DEF IndexNamesRoster
<1>10. CASE c = d
  BY <1>2, <1>4, <1>5, <1>6, <1>8, <1>10 DEF DeviceIn
<1>11. CASE c # d
  BY <1>4, <1>5, <1>6, <1>7, <1>9, <1>11 DEF IndexNamesRoster, DeviceIn
<1> QED
  BY <1>10, <1>11

LEMMA RemoveKeepsIndex ==
  ASSUME IndexNamesRoster, ControlTypeOK, NEW p \in Writer, RemoveForget(p)
  PROVE  IndexNamesRoster'
<1> DEFINE m == h[p].mission
           d == h[p].arg
<1>1. /\ roster' = [roster EXCEPT ![m] = {e \in roster[m] : e.dev # d}]
      /\ drones' = [drones EXCEPT ![d] = NoSlug]
      /\ UNCHANGED missions
  BY DEF RemoveForget
<1>2. \A n \in Address : \A c \in Dev :
        c # d /\ c \in DeviceIn(n) => c \in DeviceIn(n)'
  <2>1. \A n \in Address :
          roster'[n] = IF n = m THEN {e \in roster[m] : e.dev # d} ELSE roster[n]
    BY <1>1 DEF ControlTypeOK, MemoryTypeOK
  <2> HIDE DEF m, d
  <2> QED
    BY <2>1 DEF DeviceIn
<1>3. \A c \in Dev : drones'[c] = IF c = d THEN NoSlug ELSE drones[c]
  BY <1>1 DEF ControlTypeOK, MemoryTypeOK
<1> HIDE DEF m, d
<1>4. \A c \in Dev : drones[c] # NoSlug => missions[drones[c]] \in Address
  BY DEF IndexNamesRoster, ControlTypeOK, MemoryTypeOK
<1> QED
  BY <1>1, <1>2, <1>3, <1>4 DEF IndexNamesRoster

\* A mission goes with every index entry that names it, as all those drones
\* are on its list.
LEMMA DeleteKeepsIndex ==
  ASSUME IndexNamesRoster, LifecycleInv, ControlTypeOK, NEW p \in Writer, DeleteForget(p)
  PROVE  IndexNamesRoster'
<1> DEFINE s == h[p].slug
           m == h[p].mission
<1>1. h[p] # Idle /\ s \in Slug /\ m \in Address
  BY Busy, HandlerFields DEF DeleteForget, At, ControlTypeOK
<1>2. missions[s] = m
  BY <1>1 DEF LifecycleInv, HeldIsRegistered, Address
<1>3. /\ drones' = [d \in Dev |-> IF d \in DeviceIn(m) THEN NoSlug ELSE drones[d]]
      /\ missions' = [missions EXCEPT ![s] = 0]
      /\ UNCHANGED roster
  BY DEF DeleteForget
<1> HIDE DEF s, m
<1>4. \A n : DeviceIn(n)' = DeviceIn(n)
  BY <1>3 DEF DeviceIn
<1>5. \A t \in Slug : t # s => missions'[t] = missions[t]
  BY <1>3 DEF ControlTypeOK, MemoryTypeOK
<1>6. drones \in [Dev -> Slug \cup {NoSlug}]
  BY DEF ControlTypeOK, MemoryTypeOK
<1> QED
  BY <1>1, <1>2, <1>3, <1>4, <1>5, <1>6 DEF IndexNamesRoster

LEMMA CreateKeepsIndex ==
  ASSUME IndexNamesRoster, LifecycleInv, ControlTypeOK, NEW p \in Writer, CreateRegister(p)
  PROVE  IndexNamesRoster'
<1> DEFINE s == h[p].slug
<1>1. s \in Slug /\ Creating(p, s)
  BY Busy, HandlerFields DEF CreateRegister, At, ControlTypeOK, Creating
<1>2. missions[s] = 0
  BY <1>1 DEF LifecycleInv, CreatorOwnsSlug
<1>3. /\ missions' = [missions EXCEPT ![s] = heap']
      /\ UNCHANGED roster /\ UNCHANGED drones
  BY DEF CreateRegister
<1> HIDE DEF s
<1>4. \A n : DeviceIn(n)' = DeviceIn(n)
  BY <1>3 DEF DeviceIn
<1>5. \A t \in Slug : t # s => missions'[t] = missions[t]
  BY <1>3 DEF ControlTypeOK, MemoryTypeOK
<1>6. drones \in [Dev -> Slug \cup {NoSlug}]
  BY DEF ControlTypeOK, MemoryTypeOK
<1> QED
  BY <1>1, <1>2, <1>3, <1>4, <1>5, <1>6 DEF IndexNamesRoster

\* Trust and state events change Drones, never which devices are listed.
LEMMA EventsKeepIndex ==
  ASSUME IndexNamesRoster, ControlTypeOK,
         \/ \E p \in Writer : TrustMark(p)
         \/ \E d \in Dev, r \in Slug \cup {NoSlug} : MissionState(d, r)
  PROVE  IndexNamesRoster'
<1>1. UNCHANGED missions /\ UNCHANGED drones
  BY DEF TrustMark, MissionState, Arrives
<1>2. CASE UNCHANGED roster
  BY <1>1, <1>2, SameIndex DEF DeviceIn
<1>3. CASE \E m \in Address : \E e \in roster[m] : \E x : x.dev = e.dev /\ Replace(m, e, x)
  BY <1>1, <1>3, ReplaceKeepsDevices, SameIndex DEF ControlTypeOK
<1>4. ASSUME NEW p \in Writer, TrustMark(p)
      PROVE  IndexNamesRoster'
  <2> DEFINE d == h[p].arg
             m == missions[drones[d]]
  <2>1. h[p] # Idle /\ d \in Dev
    BY <1>4, Busy, HandlerFields DEF TrustMark, TrustsBegin, At, ControlTypeOK
  <2>2. m \in Address
    BY <1>4, <2>1 DEF TrustMark, ControlTypeOK, MemoryTypeOK
  <2>3. ASSUME NEW e \in roster[m], First(m, d, e),
               Replace(m, e, [ref |-> e.ref, dev |-> d, trusted |-> TRUE, status |-> "unknown"])
        PROVE  IndexNamesRoster'
    <3> DEFINE x == [ref |-> e.ref, dev |-> d, trusted |-> TRUE, status |-> "unknown"]
    <3>1. x.dev = e.dev
      BY <2>3 DEF First
    <3> HIDE DEF x
    <3> QED
      BY <1>3, <2>2, <2>3, <3>1 DEF x
  <2> QED
    BY <1>2, <1>4, <2>3 DEF TrustMark
<1>5. ASSUME NEW d \in Dev, NEW r \in Slug \cup {NoSlug}, MissionState(d, r)
      PROVE  IndexNamesRoster'
  <2>1. PICK s \in Slug :
          /\ missions[s] # 0
          /\ \E e \in roster[missions[s]] :
               /\ First(missions[s], d, e)
               /\ \/ \E y : Replace(missions[s], e,
                              [ref |-> e.ref, dev |-> d, trusted |-> e.trusted, status |-> y])
                  \/ UNCHANGED roster
    BY <1>5 DEF MissionState
  <2> DEFINE m == missions[s]
  <2>2. m \in Address
    BY <2>1 DEF ControlTypeOK, MemoryTypeOK
  <2>3. ASSUME NEW e \in roster[m], First(m, d, e), NEW y,
               Replace(m, e, [ref |-> e.ref, dev |-> d, trusted |-> e.trusted, status |-> y])
        PROVE  IndexNamesRoster'
    <3> DEFINE x == [ref |-> e.ref, dev |-> d, trusted |-> e.trusted, status |-> y]
    <3>1. x.dev = e.dev
      BY <2>3 DEF First
    <3> HIDE DEF x
    <3> QED
      BY <1>3, <2>2, <2>3, <3>1 DEF x
  <2> QED
    BY <1>2, <2>1, <2>3
<1> QED
  BY <1>4, <1>5

\* No other step touches the missions, the index or the rosters.
LEMMA OthersKeepIndex ==
  ASSUME IndexNamesRoster, ControlTypeOK,
         UNCHANGED missions, UNCHANGED drones, UNCHANGED roster
  PROVE  IndexNamesRoster'
  BY SameIndex DEF DeviceIn

\* A trust event finds its mission, so it does not panic.
LEMMA NoPanic ==
  ASSUME IndexNamesRoster, ControlTypeOK, NEW p \in Writer
  PROVE  ~TrustPanics(p)
<1> SUFFICES ASSUME TrustPanics(p)  PROVE FALSE
  OBVIOUS
<1>1. h[p] # Idle /\ h[p].arg \in Dev
  BY Busy, HandlerFields DEF TrustPanics, TrustsBegin, At, ControlTypeOK
<1> QED
  BY <1>1 DEF TrustPanics, IndexNamesRoster

LEMMA HandleKeepsIndex ==
  ASSUME IndexNamesRoster, LifecycleInv, ControlTypeOK, NEW p \in Writer, Handle(p)
  PROVE  IndexNamesRoster' /\ process' = process
<1>1. process' = process
  BY NoPanic DEF Handle, Publish, PublishClone, PublishCommit, PublishPush, PublishError,
     CreateRepo, CreateUndo, CreateRegister, DeleteMissionRepo, DeleteForget, AssignSend,
     AssignRegister, RemoveSend, RemoveForget, TaskNotify, TaskRegister, TrustUnassigned,
     TrustAgain, TrustMark, TrustJoin
<1>2. CASE CreateRegister(p) \/ DeleteForget(p) \/ AssignRegister(p) \/ RemoveForget(p)
             \/ TrustMark(p)
  BY <1>1, <1>2, CreateKeepsIndex, DeleteKeepsIndex, AssignKeepsIndex, RemoveKeepsIndex,
     EventsKeepIndex
<1>3. CASE UNCHANGED missions /\ UNCHANGED drones /\ UNCHANGED roster
  BY <1>1, <1>3, OthersKeepIndex
<1> QED
  BY <1>2, <1>3, NoPanic
  DEF Handle, Publish, PublishClone, PublishCommit, PublishPush, PublishError, CreateRepo,
     CreateUndo, DeleteMissionRepo, AssignSend, RemoveSend, TaskNotify, TaskRegister,
     TrustUnassigned, TrustAgain, TrustJoin, memory

\* What carries the proofs below from one step to the next.
SafeInv ==
  ControlTypeOK /\ LifecycleInv /\ IndexNamesRoster /\ NeverPanics

LEMMA InitSafe == MissionInit => SafeInv
<1> SUFFICES ASSUME MissionInit  PROVE SafeInv
  OBVIOUS
<1>1. ControlTypeOK
  BY InitTypes
<1>2. LifecycleInv
  BY DEF MissionInit, LifecycleInv, DeletesAlone, CreatorOwnsSlug, Creating,
     MissionsHaveRepos, HeldIsRegistered
<1>3. IndexNamesRoster /\ NeverPanics
  BY DEF MissionInit, IndexNamesRoster, NeverPanics
<1> QED
  BY <1>1, <1>2, <1>3 DEF SafeInv

LEMMA NextSafe ==
  ASSUME "delete" \in Alone, "reinit" \notin Faults
  PROVE  SafeInv /\ [MissionNext]_missionVars => SafeInv'
<1> SUFFICES ASSUME SafeInv, [MissionNext]_missionVars
             PROVE  SafeInv'
  OBVIOUS
<1>1. ControlTypeOK' /\ LifecycleInv'
  BY NextKeepsTypes, NextKeepsLifecycle DEF SafeInv
<1>2. CASE \E p \in Writer : Handle(p)
  BY <1>1, <1>2, HandleKeepsIndex DEF SafeInv, NeverPanics
<1>3. CASE \E p \in Writer : Ask(p)
  <2>1. UNCHANGED missions /\ UNCHANGED drones /\ UNCHANGED roster /\ UNCHANGED process
    BY <1>3 DEF Ask, CreateMission, DeleteMission, AssignDrone, RemoveDrone, AddTask, Request,
       memory
  <2> QED
    BY <1>1, <2>1, OthersKeepIndex DEF SafeInv, NeverPanics
<1>4. ASSUME NEW d \in Dev, DroneActs(d) \/ DroneSends(d)
      PROVE  SafeInv'
  <2>1. UNCHANGED missions /\ UNCHANGED drones /\ UNCHANGED process
    BY <1>4 DEF DroneActs, DroneTrusts, DroneJoins, DroneLeaves, DroneSends, DroneReports,
       DroneForgets, MissionState, MissionStateUnknown, Arrives, memory
  <2>2. UNCHANGED roster \/ \E r \in Slug \cup {NoSlug} : MissionState(d, r)
    BY <1>4 DEF DroneActs, DroneTrusts, DroneJoins, DroneLeaves, DroneSends, DroneReports,
       DroneForgets, MissionStateUnknown, memory
  <2> QED
    BY <1>1, <2>1, <2>2, OthersKeepIndex, EventsKeepIndex DEF SafeInv, NeverPanics
<1>5. CASE Crash
  <2>1. (\A d \in Dev : drones'[d] = NoSlug) /\ process' = "crashed"
    BY <1>5 DEF Crash, LoseMemory
  <2> QED
    BY <1>1, <2>1 DEF SafeInv, IndexNamesRoster, NeverPanics
<1>6. CASE Restart \/ UNCHANGED missionVars
  <2>1. /\ UNCHANGED missions /\ UNCHANGED drones /\ UNCHANGED roster
        /\ process' = process \/ process' = "up"
    BY <1>6 DEF Restart, memory, missionVars
  <2> QED
    BY <1>1, <2>1, OthersKeepIndex DEF SafeInv, NeverPanics
<1> QED
  BY <1>2, <1>3, <1>4, <1>5, <1>6 DEF MissionNext

\* Requests for any drones and missions may overlap, and calls may fail: as
\* long as deletions are made alone and the git server makes no repository
\* twice, the index never names a mission that is gone or does not list the
\* drone.
THEOREM IndexAlwaysNamesRoster ==
  ASSUME "delete" \in Alone, "reinit" \notin Faults
  PROVE  MissionSpec => []IndexNamesRoster
<1>1. MissionInit => SafeInv
  BY InitSafe
<1>2. SafeInv /\ [MissionNext]_missionVars => SafeInv'
  BY NextSafe
<1>3. SafeInv => IndexNamesRoster
  BY DEF SafeInv
<1> QED
  BY <1>1, <1>2, <1>3, PTL DEF MissionSpec

\* Under the same assumptions no trust event, however late, repeated or
\* overlapped by requests, brings mission-control down.
THEOREM TrustNeverPanics ==
  ASSUME "delete" \in Alone, "reinit" \notin Faults
  PROVE  MissionSpec => []NeverPanics
<1>1. MissionInit => SafeInv
  BY InitSafe
<1>2. SafeInv /\ [MissionNext]_missionVars => SafeInv'
  BY NextSafe
<1>3. SafeInv => NeverPanics
  BY DEF SafeInv
<1> QED
  BY <1>1, <1>2, <1>3, PTL DEF MissionSpec

\* A step of a handler that leaves the outbox, the missions and the backlog
\* alone, if the handler has no working copy, goes neither to the publication
\* of a new mission nor on from it, and does not end a deletion.
LEMMA MoveKeepsHistory ==
  ASSUME HistoryInv, HandlersTypeOK, NEW p \in Writer, NEW x,
         h' = [h EXCEPT ![p] = x],
         UNCHANGED outboxVars, UNCHANGED missions, UNCHANGED backlog,
         clone[p] = NoClone,
         \A s : ~Removing(p, s),
         x # Idle /\ x.op = "create" => x.at \notin {"publish", "published"},
         x # Idle /\ x.op = "task" /\ x.at # "publish" =>
           /\ h[p] # Idle /\ h[p].op = "task" /\ h[p].at # "publish"
           /\ x.slug = h[p].slug /\ x.arg = h[p].arg
  PROVE  HistoryInv'
<1>1. \A q \in Writer : h'[q] = IF q = p THEN x ELSE h[q]
  BY DEF HandlersTypeOK
<1>2. UNCHANGED clone /\ UNCHANGED main
  BY DEF outboxVars
<1>3. CloneServesHandler'
  BY <1>1, <1>2 DEF HistoryInv, CloneServesHandler, Announcement
<1>4. CreatedIsEmpty'
  BY <1>1, <1>2 DEF HistoryInv, CreatedIsEmpty, Creating
<1>5. ConfigComesFirst'
  <2>1. \A q \in Writer : \A s : Removing(q, s) => Removing(q, s)'
    BY <1>1 DEF Removing
  <2>2. \A q \in Writer : \A s :
          (Creating(q, s) /\ h[q].at = "published")' => Creating(q, s) /\ h[q].at = "published"
    BY <1>1 DEF Creating
  <2> QED
    BY <1>2, <2>1, <2>2 DEF HistoryInv, ConfigComesFirst, StartsWithConfig
<1>6. PushedBeforeListed'
  BY <1>1, <1>2 DEF HistoryInv, PushedBeforeListed, Carries
<1>7. ListedIsCarried'
  <2>1. \A q \in Writer : \A s : Removing(q, s) => Removing(q, s)'
    BY <1>1 DEF Removing
  <2> QED
    BY <1>2, <2>1 DEF HistoryInv, ListedIsCarried, Carries
<1> QED
  BY <1>3, <1>4, <1>5, <1>6, <1>7 DEF HistoryInv

\* An idle goroutine, or one that is past its publication, has no working copy.
LEMMA NothingInHand ==
  ASSUME HistoryInv, NEW p \in Writer, h[p] = Idle \/ h[p].at # "publish"
  PROVE  clone[p] = NoClone
  BY DEF HistoryInv, CloneServesHandler

\* Handlers start with nothing published.
LEMMA AskKeepsHistory ==
  ASSUME HistoryInv, HandlersTypeOK, NEW p \in Writer, Ask(p)
  PROVE  HistoryInv'
<1>1. ASSUME NEW op, NEW at, NEW s, NEW a, Request(p, op, at, s, a),
             op = "create" => at = "begin",
             op = "task" => at = "publish"
      PROVE  HistoryInv'
  <2> DEFINE x == [op |-> op, at |-> at, slug |-> s, mission |-> missions[s], arg |-> a]
  <2>1. /\ h[p] = Idle /\ h' = [h EXCEPT ![p] = x]
        /\ UNCHANGED outboxVars /\ UNCHANGED missions /\ UNCHANGED backlog
    BY <1>1 DEF Request, MayStart, Enter, memory
  <2>2. x.op = op /\ x.at = at
    OBVIOUS
  <2> HIDE DEF x
  <2>3. \A t : ~Removing(p, t)
    BY <2>1 DEF Removing
  <2> QED
    BY <1>1, <2>1, <2>2, <2>3, NothingInHand, MoveKeepsHistory
<1>2. PICK s \in Slug :
        \/ CreateMission(p, s) \/ DeleteMission(p, s)
        \/ \E d \in Dev : AssignDrone(p, s, d) \/ RemoveDrone(p, s, d)
        \/ \E t \in Task : AddTask(p, s, t)
  BY DEF Ask
<1> QED
  BY <1>1, <1>2 DEF CreateMission, DeleteMission, AssignDrone, RemoveDrone, AddTask

\* A handler that goes on from a call other than a publication, or ends.
LEMMA GoOnKeepsHistory ==
  ASSUME HistoryInv, HandlersTypeOK, NEW p \in Writer, h[p] # Idle,
         clone[p] = NoClone,
         UNCHANGED outboxVars, UNCHANGED missions, UNCHANGED backlog,
         h[p].op # "delete",
         \/ Done(p)
         \/ \E at : Goto(p, at) /\ (h[p].op = "create" => at = "undo")
                                /\ (h[p].op = "task" => h[p].at # "publish")
  PROVE  HistoryInv'
<1>1. \A s : ~Removing(p, s)
  BY DEF Removing
<1>2. CASE Done(p)
  BY <1>1, <1>2, MoveKeepsHistory DEF Done
<1>3. ASSUME NEW at, Goto(p, at), h[p].op = "create" => at = "undo",
             h[p].op = "task" => h[p].at # "publish"
      PROVE  HistoryInv'
  <2> DEFINE x == [op |-> h[p].op, at |-> at, slug |-> h[p].slug,
                   mission |-> h[p].mission, arg |-> h[p].arg]
  <2>1. h' = [h EXCEPT ![p] = x]
    BY <1>3 DEF Goto
  <2>2. x.op = h[p].op /\ x.at = at /\ x.slug = h[p].slug /\ x.arg = h[p].arg
    OBVIOUS
  <2> HIDE DEF x
  <2> QED
    BY <1>1, <1>3, <2>1, <2>2, MoveKeepsHistory
<1> QED
  BY <1>2, <1>3

LEMMA OtherHandlersKeepHistory ==
  ASSUME HistoryInv, ControlTypeOK, NEW p \in Writer,
         \/ AssignSend(p) \/ AssignRegister(p) \/ RemoveSend(p) \/ RemoveForget(p)
         \/ TaskNotify(p) \/ TrustUnassigned(p) \/ TrustAgain(p) \/ TrustJoin(p)
  PROVE  HistoryInv'
<1>1. /\ h[p] # Idle /\ h[p].op \in {"assign", "remove", "task", "trust"}
      /\ h[p].at \in {"begin", "published", "finish"}
      /\ UNCHANGED outboxVars /\ UNCHANGED missions /\ UNCHANGED backlog
  BY DEF AssignSend, AssignRegister, RemoveSend, RemoveForget, TaskNotify,
     TrustUnassigned, TrustAgain, TrustJoin, TrustsBegin, At, memory
<1>2. Done(p) \/ Goto(p, "finish")
  BY DEF AssignSend, AssignRegister, RemoveSend, RemoveForget, TaskNotify,
     TrustUnassigned, TrustAgain, TrustJoin
<1> QED
  BY <1>1, <1>2, NothingInHand, GoOnKeepsHistory DEF ControlTypeOK

LEMMA TrustMarkKeepsHistory ==
  ASSUME HistoryInv, ControlTypeOK, NEW p \in Writer, TrustMark(p)
  PROVE  HistoryInv'
<1>1. /\ h[p] # Idle /\ h[p].op = "trust" /\ h[p].at = "begin"
      /\ UNCHANGED outboxVars /\ UNCHANGED missions /\ UNCHANGED backlog
  BY DEF TrustMark, TrustsBegin, At
<1> DEFINE d == h[p].arg
           x == [op |-> "trust", at |-> "publish", slug |-> drones[d],
                 mission |-> missions[drones[d]], arg |-> d]
<1>2. h' = [h EXCEPT ![p] = x] /\ x.op = "trust"
  BY DEF TrustMark, Enter
<1> HIDE DEF x
<1>3. \A s : ~Removing(p, s)
  BY <1>1 DEF Removing
<1> QED
  BY <1>1, <1>2, <1>3, NothingInHand, MoveKeepsHistory DEF ControlTypeOK

\* A task is listed once its handler has pushed it.
LEMMA TaskRegisterKeepsHistory ==
  ASSUME HistoryInv, ControlTypeOK, NEW p \in Writer, TaskRegister(p)
  PROVE  HistoryInv'
<1> DEFINE s == h[p].slug
           t == h[p].arg
<1>1. h[p] # Idle /\ h[p].op = "task" /\ h[p].at = "finish" /\ s \in Slug
  BY Busy, HandlerFields DEF TaskRegister, At, ControlTypeOK
<1>2. Carries(s, t)
  BY <1>1 DEF HistoryInv, PushedBeforeListed
<1>3. /\ backlog' = [backlog EXCEPT ![s] = @ \cup {t}] /\ Done(p)
      /\ UNCHANGED clone /\ UNCHANGED main /\ UNCHANGED missions
  BY DEF TaskRegister, outboxVars
<1>4. \A q \in Writer : h'[q] = IF q = p THEN Idle ELSE h[q]
  BY <1>3 DEF Done, ControlTypeOK, HandlersTypeOK
<1>5. \A r \in Slug : backlog'[r] = IF r = s THEN backlog[s] \cup {t} ELSE backlog[r]
  BY <1>1, <1>3 DEF ControlTypeOK, MemoryTypeOK
<1>6. \A q \in Writer : \A r : Removing(q, r) <=> Removing(q, r)'
  BY <1>1, <1>4 DEF Removing
<1> HIDE DEF s, t
<1>7. CloneServesHandler' /\ CreatedIsEmpty'
  BY <1>1, <1>3, <1>4
  DEF HistoryInv, CloneServesHandler, Announcement, CreatedIsEmpty, Creating
<1>8. ConfigComesFirst'
  BY <1>1, <1>3, <1>4, <1>6 DEF HistoryInv, ConfigComesFirst, StartsWithConfig, Creating
<1>9. PushedBeforeListed'
  BY <1>3, <1>4 DEF HistoryInv, PushedBeforeListed, Carries
<1>10. ListedIsCarried'
  BY <1>2, <1>3, <1>5, <1>6 DEF HistoryInv, ListedIsCarried, Carries
<1> QED
  BY <1>7, <1>8, <1>9, <1>10 DEF HistoryInv

\* The repository that a creation makes is new, and empty.
LEMMA CreateRepoKeepsHistory ==
  ASSUME "reinit" \notin Faults,
         HistoryInv, LifecycleInv, OutboxInv, ControlTypeOK, NEW p \in Writer, CreateRepo(p)
  PROVE  HistoryInv'
<1> DEFINE s == h[p].slug
<1>1. /\ h[p] # Idle /\ h[p].op = "create" /\ h[p].at = "begin" /\ s \in Slug
      /\ HandlersTypeOK /\ UNCHANGED missions /\ UNCHANGED backlog
  BY Busy, HandlerFields DEF CreateRepo, At, ControlTypeOK, memory
<1>2. CASE Done(p) /\ UNCHANGED outboxVars
  BY <1>1, <1>2, NothingInHand, GoOnKeepsHistory
<1>3. CASE InitBareRepo(s) /\ Goto(p, "publish")
  <2> DEFINE x == [op |-> h[p].op, at |-> "publish", slug |-> s,
                   mission |-> h[p].mission, arg |-> h[p].arg]
  <2>1. \A q \in Writer : h'[q] = IF q = p THEN x ELSE h[q]
    BY <1>1, <1>3 DEF Goto, HandlersTypeOK
  <2>2. x # Idle /\ x.op = "create" /\ x.at = "publish" /\ x.slug = s
    BY <1>1 DEF Idle
  <2>3. UNCHANGED clone /\ UNCHANGED main /\ main[s] = << >>
    BY <1>1, <1>3 DEF InitBareRepo, OutboxInv, NothingOutsideRepos
  <2>4. clone[p] = NoClone
    BY <1>1, NothingInHand
  <2> HIDE DEF x, s
  <2>5. \A q \in Writer : \A r : Removing(q, r) <=> Removing(q, r)'
    BY <1>1, <2>1, <2>2 DEF Removing
  <2>6. CloneServesHandler'
    BY <2>1, <2>3, <2>4 DEF HistoryInv, CloneServesHandler, Announcement
  <2>7. CreatedIsEmpty'
    BY <2>1, <2>2, <2>3 DEF HistoryInv, CreatedIsEmpty, Creating
  <2>8. ConfigComesFirst'
    BY <1>1, <2>1, <2>2, <2>3, <2>5
    DEF HistoryInv, ConfigComesFirst, StartsWithConfig, Creating
  <2>9. PushedBeforeListed'
    BY <2>1, <2>2, <2>3 DEF HistoryInv, PushedBeforeListed, Carries
  <2>10. ListedIsCarried'
    BY <1>1, <2>3, <2>5 DEF HistoryInv, ListedIsCarried, Carries
  <2> QED
    BY <2>6, <2>7, <2>8, <2>9, <2>10 DEF HistoryInv
<1> QED
  BY <1>2, <1>3 DEF CreateRepo

\* The repository that a failed creation removes is nobody else's.
LEMMA CreateUndoKeepsHistory ==
  ASSUME HistoryInv, LifecycleInv, OutboxInv, ControlTypeOK, NEW p \in Writer, CreateUndo(p)
  PROVE  HistoryInv'
<1> DEFINE s == h[p].slug
<1>1. /\ h[p] # Idle /\ h[p].op = "create" /\ h[p].at = "undo" /\ s \in Slug
      /\ Done(p) /\ HandlersTypeOK /\ UNCHANGED missions /\ UNCHANGED backlog
  BY Busy, HandlerFields DEF CreateUndo, At, ControlTypeOK, memory
<1>2. CASE UNCHANGED outboxVars
  BY <1>1, <1>2, NothingInHand, GoOnKeepsHistory
<1>3. CASE DeleteRepo(s)
  <2>1. missions[s] = 0 /\ \A q \in Writer : Creating(q, s) => q = p
    BY <1>1 DEF LifecycleInv, CreatorOwnsSlug, Creating
  <2>2. /\ UNCHANGED clone
        /\ \A r \in Slug : r # s => main'[r] = main[r]
    BY <1>3 DEF DeleteRepo, OutboxInv, OutboxTypeOK
  <2>3. \A q \in Writer : h'[q] = IF q = p THEN Idle ELSE h[q]
    BY <1>1 DEF Done, HandlersTypeOK
  <2>4. clone[p] = NoClone
    BY <1>1, NothingInHand
  <2>5. \A q \in Writer : h[q] # Idle /\ h[q].op = "task" => h[q].slug \in Slug /\ h[q].slug # s
    <3>1. SUFFICES ASSUME NEW q \in Writer, h[q] # Idle, h[q].op = "task"
                   PROVE  h[q].slug \in Slug /\ h[q].slug # s
      OBVIOUS
    <3>2. h[q].slug \in Slug /\ h[q].mission # 0
      BY <1>1, <3>1, Busy, HandlerFields DEF Address
    <3> QED
      BY <2>1, <3>1, <3>2 DEF LifecycleInv, HeldIsRegistered
  <2> HIDE DEF s
  <2>6. \A q \in Writer : \A r : Removing(q, r) <=> Removing(q, r)'
    BY <1>1, <2>3 DEF Removing
  <2>7. CloneServesHandler'
    BY <2>2, <2>3, <2>4 DEF HistoryInv, CloneServesHandler, Announcement
  <2>8. CreatedIsEmpty'
    BY <2>1, <2>2, <2>3 DEF HistoryInv, CreatedIsEmpty, Creating
  <2>9. ConfigComesFirst'
    BY <1>1, <2>1, <2>2, <2>3, <2>6
    DEF HistoryInv, ConfigComesFirst, StartsWithConfig, Creating
  <2>10. PushedBeforeListed'
    BY <2>2, <2>3, <2>5 DEF HistoryInv, PushedBeforeListed, Carries
  <2>11. ListedIsCarried'
    BY <1>1, <2>1, <2>2, <2>6 DEF HistoryInv, ListedIsCarried, Carries
  <2> QED
    BY <2>7, <2>8, <2>9, <2>10, <2>11 DEF HistoryInv
<1> QED
  BY <1>2, <1>3 DEF CreateUndo, s

\* A mission is registered with its config.yaml pushed and an empty backlog.
LEMMA CreateRegisterKeepsHistory ==
  ASSUME HistoryInv, ControlTypeOK, NEW p \in Writer, CreateRegister(p)
  PROVE  HistoryInv'
<1> DEFINE s == h[p].slug
<1>1. /\ h[p] # Idle /\ h[p].op = "create" /\ h[p].at = "published" /\ s \in Slug
      /\ HandlersTypeOK /\ UNCHANGED main /\ UNCHANGED clone
      /\ missions' = [missions EXCEPT ![s] = heap']
      /\ backlog' = [backlog EXCEPT ![s] = {}] /\ Done(p)
  BY Busy, HandlerFields DEF CreateRegister, At, ControlTypeOK, outboxVars
<1>2. StartsWithConfig(s)
  BY <1>1 DEF HistoryInv, ConfigComesFirst, Creating
<1>3. \A q \in Writer : h'[q] = IF q = p THEN Idle ELSE h[q]
  BY <1>1 DEF Done, HandlersTypeOK
<1>4. \A r \in Slug : /\ r # s => missions'[r] = missions[r] /\ backlog'[r] = backlog[r]
                      /\ backlog'[s] = {}
  BY <1>1 DEF ControlTypeOK, MemoryTypeOK
<1>5. \A q \in Writer : \A r : Removing(q, r) <=> Removing(q, r)'
  BY <1>1, <1>3 DEF Removing
<1> HIDE DEF s
<1>6. CloneServesHandler' /\ CreatedIsEmpty'
  BY <1>1, <1>3, NothingInHand
  DEF HistoryInv, CloneServesHandler, Announcement, CreatedIsEmpty, Creating
<1>7. ConfigComesFirst'
  BY <1>1, <1>2, <1>3, <1>4, <1>5
  DEF HistoryInv, ConfigComesFirst, StartsWithConfig, Creating
<1>8. PushedBeforeListed'
  BY <1>1, <1>3 DEF HistoryInv, PushedBeforeListed, Carries
<1>9. ListedIsCarried'
  BY <1>1, <1>4, <1>5 DEF HistoryInv, ListedIsCarried, Carries
<1> QED
  BY <1>6, <1>7, <1>8, <1>9 DEF HistoryInv

\* While a mission is deleted nobody publishes.
LEMMA DeleteKeepsHistory ==
  ASSUME HistoryInv, LifecycleInv, OutboxInv, ControlTypeOK, NEW p \in Writer,
         DeleteMissionRepo(p) \/ DeleteForget(p)
  PROVE  HistoryInv'
<1>1. PICK s \in Slug :
      /\ h[p] # Idle /\ h[p].op = "delete" /\ h[p].at # "publish" /\ h[p].slug = s
      /\ HandlersTypeOK /\ UNCHANGED backlog /\ UNCHANGED clone
  BY Busy, HandlerFields DEF DeleteMissionRepo, DeleteForget, At, ControlTypeOK, memory,
     DeleteRepo, outboxVars
<1>2. \A q \in Writer : q # p => h[q] = Idle
  BY <1>1 DEF LifecycleInv, DeletesAlone
<1>3. \A q \in Writer : clone[q] = NoClone
  BY <1>1, <1>2, NothingInHand
<1>4. /\ \A r \in Slug : r # s => main'[r] = main[r] /\ missions'[r] = missions[r]
      /\ \/ Removing(p, s)'
         \/ missions'[s] = 0
      /\ \A q \in Writer : h'[q] # Idle => h'[q].op = "delete"
  <2>1. CASE DeleteMissionRepo(p)
    <3> DEFINE x == [op |-> h[p].op, at |-> "finish", slug |-> s,
                     mission |-> h[p].mission, arg |-> h[p].arg]
    <3>1. h' = [h EXCEPT ![p] = x] /\ UNCHANGED missions
      BY <1>1, <2>1 DEF DeleteMissionRepo, Goto, memory
    <3>2. x # Idle /\ x.op = "delete" /\ x.at = "finish" /\ x.slug = s
      BY <1>1 DEF Idle
    <3>3. \A r \in Slug : r # s => main'[r] = main[r]
      BY <1>1, <2>1 DEF DeleteMissionRepo, DeleteRepo, outboxVars, OutboxInv, OutboxTypeOK
    <3>4. \A q \in Writer : h'[q] = IF q = p THEN x ELSE h[q]
      BY <1>1, <3>1 DEF HandlersTypeOK
    <3> HIDE DEF x
    <3> QED
      BY <1>2, <3>1, <3>2, <3>3, <3>4 DEF Removing
  <2>2. CASE DeleteForget(p)
    <3>1. /\ h' = [h EXCEPT ![p] = Idle] /\ UNCHANGED main
          /\ missions' = [missions EXCEPT ![s] = 0]
      BY <1>1, <2>2 DEF DeleteForget, Done, outboxVars
    <3>2. \A q \in Writer : h'[q] = IF q = p THEN Idle ELSE h[q]
      BY <1>1, <3>1 DEF HandlersTypeOK
    <3>3. \A r \in Slug : missions'[r] = IF r = s THEN 0 ELSE missions[r]
      BY <3>1 DEF ControlTypeOK, MemoryTypeOK
    <3> QED
      BY <1>2, <3>1, <3>2, <3>3
  <2> QED
    BY <2>1, <2>2
<1>5. \A r \in Slug : r # s => \A q \in Writer : ~Removing(q, r)
  BY <1>1, <1>2 DEF Removing
<1>6. CloneServesHandler' /\ CreatedIsEmpty' /\ PushedBeforeListed'
  BY <1>1, <1>3, <1>4 DEF CloneServesHandler, CreatedIsEmpty, Creating, PushedBeforeListed
<1>7. ConfigComesFirst'
  BY <1>1, <1>4, <1>5 DEF HistoryInv, ConfigComesFirst, StartsWithConfig, Creating
<1>8. ListedIsCarried'
  BY <1>1, <1>4, <1>5 DEF HistoryInv, ListedIsCarried, Carries
<1> QED
  BY <1>6, <1>7, <1>8 DEF HistoryInv

\* A process that is gone holds nothing.
LEMMA DeathKeepsHistory ==
  ASSUME LoseMemory
  PROVE  HistoryInv'
<1>1. /\ \A q \in Writer : h'[q] = Idle /\ clone'[q] = NoClone
      /\ \A s \in Slug : missions'[s] = 0
  BY DEF LoseMemory, LoseClones
<1> QED
  BY <1>1 DEF HistoryInv, CloneServesHandler, CreatedIsEmpty, ConfigComesFirst, Creating,
     PushedBeforeListed, ListedIsCarried

\* A publisher other than a creation serves a mission that is registered.
LEMMA ServesRegistered ==
  ASSUME LifecycleInv, HandlersTypeOK, NEW p \in Writer, h[p] # Idle, h[p].at = "publish",
         h[p].op # "create"
  PROVE  missions[h[p].slug] # 0
<1>1. h[p].mission # 0
  BY Busy, HandlerFields DEF Address
<1> QED
  BY <1>1 DEF LifecycleInv, HeldIsRegistered

\* What is in a log stays there, and its first commit stays the first, when a
\* commit is appended.
LEMMA AppendKeepsStart ==
  ASSUME NEW log \in Seq(Commit), NEW c \in Commit
  PROVE  /\ Len(Append(log, c)) > 0
         /\ Len(log) > 0 => Append(log, c)[1] = log[1]
         /\ log = << >> => Append(log, c)[1] = c
         /\ \A m : (\E i \in DOMAIN log : log[i].msg = m) =>
                   \E i \in DOMAIN Append(log, c) : Append(log, c)[i].msg = m
         /\ \E i \in DOMAIN Append(log, c) : Append(log, c)[i].msg = c.msg
<1>1. /\ Len(log) \in Nat /\ Len(Append(log, c)) = Len(log) + 1
      /\ DOMAIN log = 1..Len(log) /\ DOMAIN Append(log, c) = 1..(Len(log) + 1)
      /\ \A i \in DOMAIN log : Append(log, c)[i] = log[i]
      /\ Append(log, c)[Len(log) + 1] = c
  BY AppendKeeps
<1>2. Len(log) > 0 => 1 \in DOMAIN log
  BY <1>1
<1>3. log = << >> => Len(log) = 0
  OBVIOUS
<1>4. \A i \in DOMAIN log : i \in DOMAIN Append(log, c)
  BY <1>1
<1>5. Len(log) + 1 \in DOMAIN Append(log, c)
  BY <1>1
<1> QED
  BY <1>1, <1>2, <1>3, <1>4, <1>5

\* An accepted push, whatever the caller makes of it, appends to the mission's
\* own repository what the handler has to announce.
LEMMA PushAnnounces ==
  ASSUME HistoryInv, OutboxInv, ControlTypeOK, NEW p \in Writer, GitPush(p) \/ GitPushUncleaned(p)
  PROVE  \E s \in Slug, c \in Commit :
           /\ h[p] # Idle /\ s = h[p].slug /\ s \in repos
           /\ main[s] \in Seq(Commit)
           /\ c.msg = Announcement(h[p])
           /\ \A t \in Slug : main'[t] = IF t = s THEN Append(main[s], c) ELSE main[t]
           /\ \A q \in Writer : clone'[q] = IF q = p THEN NoClone ELSE clone[q]
<1>1. /\ clone[p].stage = "committed" /\ FastForward(p) /\ main' = PushedMain(p)
      /\ clone' = [clone EXCEPT ![p] = NoClone]
  BY DEF GitPush, GitPushUncleaned
<1>2. clone[p] # NoClone
  BY <1>1 DEF NoClone
<1>3. h[p] # Idle /\ clone[p].slug = h[p].slug /\ clone[p].msg = Announcement(h[p])
  BY <1>2 DEF HistoryInv, CloneServesHandler
<1>4. PICK s \in Slug, c \in Commit :
        /\ s = clone[p].slug /\ s \in repos /\ c = Committed(p)
        /\ PushedMain(p) = [main EXCEPT ![s] = Append(main[s], c)]
  BY <1>1, PushExtendsMain
<1>5. c.msg = Announcement(h[p])
  BY <1>3, <1>4 DEF Committed
<1>6. main \in [Slug -> Seq(Commit)] /\ clone \in [Writer -> {NoClone} \cup Clones]
  BY DEF OutboxInv, OutboxTypeOK
<1>7. \A t \in Slug : main'[t] = IF t = s THEN Append(main[s], c) ELSE main[t]
  BY <1>1, <1>4, <1>6
<1>8. \A q \in Writer : clone'[q] = IF q = p THEN NoClone ELSE clone[q]
  BY <1>1, <1>6
<1> QED
  BY <1>3, <1>4, <1>5, <1>6, <1>7, <1>8

\* The handler that pushed goes on to what comes after its publication, or
\* ends; a creation may have to undo it.
LEMMA PushKeepsHistory ==
  ASSUME HistoryInv, LifecycleInv, OutboxInv, ControlTypeOK, NEW p \in Writer,
         Publishing(p), GitPush(p) \/ GitPushUncleaned(p),
         Goto(p, "published") \/ (h[p].op = "create" /\ Goto(p, "undo")) \/ Done(p),
         UNCHANGED missions, UNCHANGED backlog
  PROVE  HistoryInv'
<1>1. PICK s \in Slug, c \in Commit :
        /\ h[p] # Idle /\ s = h[p].slug /\ s \in repos
        /\ main[s] \in Seq(Commit)
        /\ c.msg = Announcement(h[p])
        /\ \A t \in Slug : main'[t] = IF t = s THEN Append(main[s], c) ELSE main[t]
        /\ \A q \in Writer : clone'[q] = IF q = p THEN NoClone ELSE clone[q]
  BY PushAnnounces
<1>2. HandlersTypeOK /\ h[p] \in Handler /\ h[p].at = "publish"
  BY <1>1, Busy DEF ControlTypeOK, Publishing
<1>3. PICK x :
        /\ h' = [h EXCEPT ![p] = x]
        /\ \/ x = Idle
           \/ /\ x # Idle /\ x.op = h[p].op /\ x.slug = s /\ x.arg = h[p].arg
              /\ x.at \in {"published", "undo"}
  <2>1. CASE Done(p)
    BY <2>1 DEF Done
  <2>2. ASSUME NEW at \in {"published", "undo"}, Goto(p, at)
        PROVE  \E y : /\ h' = [h EXCEPT ![p] = y]
                      /\ y # Idle /\ y.op = h[p].op /\ y.slug = s /\ y.arg = h[p].arg
                      /\ y.at \in {"published", "undo"}
    <3> DEFINE y == [op |-> h[p].op, at |-> at, slug |-> h[p].slug,
                     mission |-> h[p].mission, arg |-> h[p].arg]
    <3>1. h' = [h EXCEPT ![p] = y]
      BY <2>2 DEF Goto
    <3>2. /\ y # Idle /\ y.op = h[p].op /\ y.slug = s /\ y.arg = h[p].arg
          /\ y.at \in {"published", "undo"}
      BY <1>1 DEF Idle
    <3> HIDE DEF y
    <3> QED
      BY <3>1, <3>2
  <2> QED
    BY <2>1, <2>2
<1>4. \A q \in Writer : h'[q] = IF q = p THEN x ELSE h[q]
  BY <1>2, <1>3 DEF HandlersTypeOK
<1>5. \A q \in Writer : \A r : Removing(q, r) <=> Removing(q, r)'
  BY <1>2, <1>3, <1>4 DEF Removing
<1>5a. /\ \A m : (\E i \in DOMAIN main[s] : main[s][i].msg = m) =>
                 \E i \in DOMAIN main'[s] : main'[s][i].msg = m
       /\ \E i \in DOMAIN main'[s] : main'[s][i].msg = c.msg
  <2>1. PICK log \in Seq(Commit) : log = main[s]
    BY <1>1
  <2>2. main'[s] = Append(log, c)
    BY <1>1, <2>1
  <2>3. /\ \A m : (\E i \in DOMAIN log : log[i].msg = m) =>
                   \E i \in DOMAIN Append(log, c) : Append(log, c)[i].msg = m
        /\ \E i \in DOMAIN Append(log, c) : Append(log, c)[i].msg = c.msg
    BY AppendKeepsStart, Zenon
  <2> QED
    BY <2>1, <2>2, <2>3, Zenon
<1>6. /\ \A t \in Slug : StartsWithConfig(t) => StartsWithConfig(t)'
      /\ \A t \in Slug : \A k : Carries(t, k) => Carries(t, k)'
  <2>1. SUFFICES ASSUME NEW t \in Slug
                 PROVE  /\ StartsWithConfig(t) => StartsWithConfig(t)'
                        /\ \A k : Carries(t, k) => Carries(t, k)'
    OBVIOUS
  <2>2. CASE t = s
    <3>1. main'[t] = Append(main[s], c)
      BY <1>1, <2>2
    <3>2. StartsWithConfig(t) => StartsWithConfig(t)'
      BY <1>1, <2>2, <3>1, AppendKeepsStart DEF StartsWithConfig
    <3>3. \A m : (\E i \in DOMAIN main[t] : main[t][i].msg = m) =>
                 \E i \in DOMAIN main'[t] : main'[t][i].msg = m
      BY <1>5a, <2>2
    <3>4. \A k : Carries(t, k) => Carries(t, k)'
      BY <3>3 DEF Carries
    <3> QED
      BY <3>2, <3>4
  <2>3. CASE t # s
    <3>1. main'[t] = main[t]
      BY <1>1, <2>3
    <3> QED
      BY <3>1 DEF StartsWithConfig, Carries
  <2> QED
    BY <2>2, <2>3
<1>7. h[p].op = "create" => StartsWithConfig(s)'
  <2>1. SUFFICES ASSUME h[p].op = "create"  PROVE StartsWithConfig(s)'
    OBVIOUS
  <2>2. main[s] = << >>
    BY <1>1, <1>2, <2>1 DEF HistoryInv, CreatedIsEmpty, Creating
  <2>3. c.msg = Config
    BY <1>1, <2>1 DEF Announcement
  <2> QED
    BY <1>1, <2>2, <2>3, AppendKeepsStart DEF StartsWithConfig
<1>8. ASSUME NEW k, h[p].op = "task", h[p].arg = k
      PROVE  Carries(s, k)'
  <2>1. c.msg = [type |-> "task", name |-> k]
    BY <1>1, <1>8 DEF Announcement
  <2> QED
    BY <1>5a, <2>1 DEF Carries
<1>9. CloneServesHandler'
  BY <1>1, <1>4 DEF HistoryInv, CloneServesHandler, Announcement
<1>10. CreatedIsEmpty'
  <2>1. SUFFICES ASSUME NEW q \in Writer, NEW r \in Slug, q # p, Creating(q, r),
                        h[q].at = "publish"
                 PROVE  r # s
    BY <1>1, <1>3, <1>4 DEF HistoryInv, CreatedIsEmpty, Creating
  <2>2. missions[r] = 0 /\ \A w \in Writer : Creating(w, r) => w = q
    BY <2>1 DEF LifecycleInv, CreatorOwnsSlug
  <2>3. CASE h[p].op = "create"
    BY <1>1, <1>2, <2>1, <2>2, <2>3 DEF Creating
  <2>4. CASE h[p].op # "create"
    BY <1>1, <1>2, <2>2, <2>4, ServesRegistered
  <2> QED
    BY <2>3, <2>4
<1>11. ConfigComesFirst'
  BY <1>1, <1>3, <1>4, <1>5, <1>6, <1>7 DEF HistoryInv, ConfigComesFirst, Creating
<1>12. PushedBeforeListed'
  <2>1. SUFFICES ASSUME NEW q \in Writer, NEW r, NEW k,
                        h'[q] # Idle, h'[q].op = "task", h'[q].at # "publish",
                        h'[q].slug = r, h'[q].arg = k
                 PROVE  Carries(r, k)'
    BY DEF PushedBeforeListed
  <2>2. CASE q = p
    BY <1>3, <1>4, <1>8, <2>1, <2>2
  <2>3. CASE q # p
    <3>1. h[q] # Idle /\ h[q].op = "task" /\ h[q].at # "publish" /\ h[q].slug = r /\ h[q].arg = k
      BY <1>4, <2>1, <2>3
    <3>2. r \in Slug
      BY <1>2, <3>1, Busy, HandlerFields
    <3> QED
      BY <1>6, <3>1, <3>2 DEF HistoryInv, PushedBeforeListed
  <2> QED
    BY <2>2, <2>3
<1>13. ListedIsCarried'
  BY <1>5, <1>6 DEF HistoryInv, ListedIsCarried
<1> QED
  BY <1>9, <1>10, <1>11, <1>12, <1>13 DEF HistoryInv

LEMMA PublishKeepsHistory ==
  ASSUME HistoryInv, LifecycleInv, OutboxInv, ControlTypeOK, NEW p \in Writer, Publish(p)
  PROVE  HistoryInv'
<1>1. /\ Publishing(p) /\ HandlersTypeOK /\ h[p] # Idle /\ h[p].at = "publish"
      /\ UNCHANGED missions /\ UNCHANGED backlog
  BY DEF Publish, PublishClone, PublishCommit, PublishPush, PublishError, Publishing,
     ControlTypeOK, memory
<1>2. h[p].op # "delete"
  BY <1>1, Busy, HandlerFields
<1>3. clone \in [Writer -> {NoClone} \cup Clones]
  BY DEF OutboxInv, OutboxTypeOK
<1>4. ASSUME UNCHANGED h, UNCHANGED main, NEW y, clone' = [clone EXCEPT ![p] = y],
             y.slug = h[p].slug, y.msg = Announcement(h[p])
      PROVE  HistoryInv'
  <2>1. \A q \in Writer : clone'[q] = IF q = p THEN y ELSE clone[q]
    BY <1>3, <1>4
  <2>2. CloneServesHandler'
    BY <1>1, <1>4, <2>1 DEF HistoryInv, CloneServesHandler, Announcement
  <2> QED
    BY <1>1, <1>4, <2>2 DEF HistoryInv, CreatedIsEmpty, ConfigComesFirst, StartsWithConfig,
       Creating, Removing, PushedBeforeListed, ListedIsCarried, Carries
<1>5. CASE PublishClone(p)
  <2> DEFINE y == [stage |-> "cloned", slug |-> h[p].slug, base |-> main[h[p].slug],
                   msg |-> Announcement(h[p]), at |-> 0]
  <2>1. /\ UNCHANGED h /\ UNCHANGED main /\ clone' = [clone EXCEPT ![p] = y]
        /\ y.slug = h[p].slug /\ y.msg = Announcement(h[p])
    BY <1>5 DEF PublishClone, GitClone
  <2> HIDE DEF y
  <2> QED
    BY <1>4, <2>1
<1>6. CASE PublishCommit(p)
  <2> DEFINE y == [stage |-> "committed", slug |-> clone[p].slug,
                   base |-> clone[p].base, msg |-> clone[p].msg, at |-> clock']
  <2>1. /\ clone[p].stage = "cloned" /\ UNCHANGED h /\ UNCHANGED main
        /\ clone' = [clone EXCEPT ![p] = y]
        /\ y.slug = clone[p].slug /\ y.msg = clone[p].msg
    BY <1>6 DEF PublishCommit, GitCommit
  <2> HIDE DEF y
  <2>2. clone[p] # NoClone
    BY <2>1 DEF NoClone
  <2>3. clone[p].slug = h[p].slug /\ clone[p].msg = Announcement(h[p])
    BY <2>2 DEF HistoryInv, CloneServesHandler
  <2> QED
    BY <1>4, <2>1, <2>3
<1>7. CASE PublishPush(p)
  BY <1>1, <1>7, PushKeepsHistory DEF PublishPush
<1>8. CASE PublishError(p)
  <2>1. (h[p].op = "create" /\ Goto(p, "undo")) \/ (h[p].op # "create" /\ Done(p))
    BY <1>8 DEF PublishError
  <2>2. CASE GitPushUncleaned(p)
    BY <1>1, <2>1, <2>2, PushKeepsHistory
  <2>3. CASE clone[p] = NoClone /\ UNCHANGED outboxVars
    BY <1>1, <1>2, <2>1, <2>3, GoOnKeepsHistory
  <2>4. CASE GitRefused(p) \/ GitFault(p)
    <3>1. /\ clone' = [clone EXCEPT ![p] = NoClone] /\ UNCHANGED main
      BY <2>4 DEF GitRefused, GitFault
    <3>2. PICK x : /\ h' = [h EXCEPT ![p] = x]
                   /\ x = Idle \/ (x.op = "create" /\ x.at = "undo")
      BY <2>1 DEF Goto, Done
    <3>3. \A q \in Writer : h'[q] = IF q = p THEN x ELSE h[q]
      BY <1>1, <3>2 DEF HandlersTypeOK
    <3>3a. \A q \in Writer : clone'[q] = IF q = p THEN NoClone ELSE clone[q]
      BY <1>3, <3>1
    <3>4. \A q \in Writer : \A r : Removing(q, r) <=> Removing(q, r)'
      BY <1>1, <1>2, <3>2, <3>3 DEF Removing
    <3>5. CloneServesHandler'
      BY <3>3, <3>3a DEF HistoryInv, CloneServesHandler, Announcement
    <3>6. CreatedIsEmpty'
      BY <3>1, <3>2, <3>3 DEF HistoryInv, CreatedIsEmpty, Creating
    <3>7. ConfigComesFirst'
      BY <1>1, <3>1, <3>2, <3>3, <3>4
      DEF HistoryInv, ConfigComesFirst, StartsWithConfig, Creating
    <3>8. PushedBeforeListed'
      BY <3>1, <3>2, <3>3 DEF HistoryInv, PushedBeforeListed, Carries
    <3>9. ListedIsCarried'
      BY <1>1, <3>1, <3>4 DEF HistoryInv, ListedIsCarried, Carries
    <3> QED
      BY <3>5, <3>6, <3>7, <3>8, <3>9 DEF HistoryInv
  <2> QED
    BY <1>8, <2>2, <2>3, <2>4 DEF PublishError
<1> QED
  BY <1>5, <1>6, <1>7, <1>8 DEF Publish

\* A trust event starts with nothing published, and a drone's other doings
\* leave the outbox and the handlers alone.
LEMMA DronesKeepHistory ==
  ASSUME HistoryInv, ControlTypeOK, NEW d \in Dev, DroneActs(d) \/ DroneSends(d)
  PROVE  HistoryInv'
<1>1. ASSUME NEW p \in Writer, DroneTrusts(p, d)
      PROVE  HistoryInv'
  <2> DEFINE x == [op |-> "trust", at |-> "begin", slug |-> NoSlug, mission |-> 0, arg |-> d]
  <2>1. /\ h[p] = Idle /\ h' = [h EXCEPT ![p] = x] /\ x.op = "trust"
        /\ UNCHANGED outboxVars /\ UNCHANGED missions /\ UNCHANGED backlog
    BY <1>1 DEF DroneTrusts, MayStart, memory
  <2>2. \A s : ~Removing(p, s)
    BY <2>1 DEF Removing
  <2> HIDE DEF x
  <2> QED
    BY <2>1, <2>2, NothingInHand, MoveKeepsHistory DEF ControlTypeOK
<1>2. CASE DroneJoins(d) \/ DroneLeaves(d) \/ DroneSends(d)
  <2>1. UNCHANGED h /\ UNCHANGED missions /\ UNCHANGED backlog /\ UNCHANGED outboxVars
    BY <1>2 DEF DroneJoins, DroneLeaves, DroneSends, DroneReports, DroneForgets,
       MissionState, MissionStateUnknown, Arrives, memory
  <2> QED
    BY <2>1 DEF HistoryInv, CloneServesHandler, CreatedIsEmpty, ConfigComesFirst,
       StartsWithConfig, Creating, Removing, PushedBeforeListed, ListedIsCarried, Carries,
       Announcement, outboxVars
<1> QED
  BY <1>1, <1>2 DEF DroneActs

LEMMA NextKeepsHistory ==
  ASSUME "reinit" \notin Faults,
         HistoryInv, LifecycleInv, OutboxInv, ControlTypeOK, [MissionNext]_missionVars
  PROVE  HistoryInv'
<1>1. CASE \E p \in Writer : Ask(p)
  BY <1>1, AskKeepsHistory DEF ControlTypeOK
<1>2. ASSUME NEW p \in Writer, Handle(p), ~TrustPanics(p)
      PROVE  HistoryInv'
  BY <1>2, PublishKeepsHistory, CreateRepoKeepsHistory, CreateUndoKeepsHistory,
     CreateRegisterKeepsHistory, DeleteKeepsHistory, OtherHandlersKeepHistory,
     TaskRegisterKeepsHistory, TrustMarkKeepsHistory
  DEF Handle
<1>3. CASE \E d \in Dev : DroneActs(d) \/ DroneSends(d)
  BY <1>3, DronesKeepHistory
<1>4. CASE Crash \/ \E p \in Writer : TrustPanics(p)
  BY <1>4, DeathKeepsHistory DEF Crash, TrustPanics
<1>5. CASE Restart \/ UNCHANGED missionVars
  <2>1. UNCHANGED h /\ UNCHANGED missions /\ UNCHANGED backlog /\ UNCHANGED outboxVars
    BY <1>5 DEF Restart, memory, missionVars
  <2> QED
    BY <2>1 DEF HistoryInv, CloneServesHandler, CreatedIsEmpty, ConfigComesFirst,
       StartsWithConfig, Creating, Removing, PushedBeforeListed, ListedIsCarried, Carries,
       Announcement, outboxVars
<1> QED
  BY <1>1, <1>2, <1>3, <1>4, <1>5 DEF MissionNext

\* The repositories' contents agree with the handlers in every state.
LEMMA HistoryInvariant ==
  ASSUME "delete" \in Alone, "reinit" \notin Faults
  PROVE  MissionSpec => [](SafeInv /\ OutboxInv /\ HistoryInv)
<1> DEFINE Inv == SafeInv /\ OutboxInv /\ HistoryInv
<1>1. MissionInit => Inv
  <2>1. MissionInit => HistoryInv
    BY DEF MissionInit, OutboxInit, HistoryInv, CloneServesHandler, CreatedIsEmpty, Creating,
       ConfigComesFirst, PushedBeforeListed, ListedIsCarried
  <2> QED
    BY <2>1, InitSafe, OutboxInitInv DEF MissionInit
<1>2. Inv /\ [MissionNext]_missionVars => Inv'
  <2> SUFFICES ASSUME Inv, [MissionNext]_missionVars
               PROVE  Inv'
    OBVIOUS
  <2>1. ControlTypeOK /\ LifecycleInv
    BY DEF SafeInv
  <2>2. OutboxInv'
    BY <2>1, StepIsOutboxStep, OutboxNextInv
  <2> QED
    BY <2>1, <2>2, NextSafe, NextKeepsHistory
<1> QED
  BY <1>1, <1>2, PTL DEF MissionSpec

\* A mission that is found has its repository, with config.yaml for first
\* commit, whatever publications, creations and failures overlap, unless it is
\* being deleted.
THEOREM RegisteredAlwaysHasRepo ==
  ASSUME "delete" \in Alone, "reinit" \notin Faults
  PROVE  MissionSpec => []RegisteredHasRepo
<1>1. SafeInv /\ HistoryInv => RegisteredHasRepo
  BY DEF SafeInv, LifecycleInv, MissionsHaveRepos, HistoryInv, ConfigComesFirst,
     StartsWithConfig, Removing, RegisteredHasRepo, Deleting
<1> QED
  BY <1>1, HistoryInvariant, PTL

\* Every task that is listed for a mission is in the outbox of the mission's
\* own repository, whatever other requests for the mission overlap or fail.
THEOREM BacklogStaysPublished ==
  ASSUME "delete" \in Alone, "reinit" \notin Faults
  PROVE  MissionSpec => []BacklogIsPublished
<1>1. HistoryInv => BacklogIsPublished
  BY DEF HistoryInv, ListedIsCarried, Carries, BacklogIsPublished, Removing, Deleting
<1> QED
  BY <1>1, HistoryInvariant, PTL

------------------------------------------------------------------------------
(* No repository is left over *)

\* A handler that begins, goes on or ends, keeps a repository it has made and
\* starts no deletion past its first step.
LEMMA MoveKeepsOwned ==
  ASSUME OwnedInv, HandlersTypeOK, NEW p \in Writer, NEW x, h' = [h EXCEPT ![p] = x],
         UNCHANGED repos, UNCHANGED missions, UNCHANGED process,
         \A s : Creating(p, s) =>
           x # Idle /\ x.op = "create" /\ x.at # "begin" /\ x.slug = s,
         x # Idle /\ x.op = "delete" => x.at # "finish"
  PROVE  OwnedInv'
<1>1. \A q \in Writer : h'[q] = IF q = p THEN x ELSE h[q]
  BY DEF HandlersTypeOK
<1>2. \A q \in Writer : \A s : Creating(q, s) => Creating(q, s)'
  BY <1>1 DEF Creating
<1>3. \A q \in Writer : \A s : Removing(q, s)' => Removing(q, s)
  BY <1>1 DEF Removing
<1> QED
  BY <1>2, <1>3 DEF OwnedInv

LEMMA AskKeepsOwned ==
  ASSUME OwnedInv, HandlersTypeOK, NEW p \in Writer, Ask(p)
  PROVE  OwnedInv'
<1>1. ASSUME NEW op, NEW at, NEW s, NEW a, Request(p, op, at, s, a),
             op = "delete" => at = "begin"
      PROVE  OwnedInv'
  <2> DEFINE x == [op |-> op, at |-> at, slug |-> s, mission |-> missions[s], arg |-> a]
  <2>1. /\ h[p] = Idle /\ h' = [h EXCEPT ![p] = x]
        /\ UNCHANGED repos /\ UNCHANGED missions /\ UNCHANGED process
    BY <1>1 DEF Request, MayStart, Enter, memory, outboxVars
  <2>2. x.op = op /\ x.at = at
    OBVIOUS
  <2>3. \A t : ~Creating(p, t)
    BY <2>1 DEF Creating
  <2> HIDE DEF x
  <2> QED
    BY <1>1, <2>1, <2>2, <2>3, MoveKeepsOwned
<1>2. PICK s \in Slug :
        \/ CreateMission(p, s) \/ DeleteMission(p, s)
        \/ \E d \in Dev : AssignDrone(p, s, d) \/ RemoveDrone(p, s, d)
        \/ \E t \in Task : AddTask(p, s, t)
  BY DEF Ask
<1> QED
  BY <1>1, <1>2 DEF CreateMission, DeleteMission, AssignDrone, RemoveDrone, AddTask

\* A handler that goes on or ends; a creation past its first step goes on.
LEMMA GoOnKeepsOwned ==
  ASSUME OwnedInv, HandlersTypeOK, NEW p \in Writer, h[p] # Idle,
         h[p].op # "delete",
         UNCHANGED repos, UNCHANGED missions, UNCHANGED process,
         \/ Done(p) /\ (h[p].op = "create" => h[p].at = "begin")
         \/ \E at : Goto(p, at) /\ at # "begin"
  PROVE  OwnedInv'
<1>1. CASE Done(p) /\ (h[p].op = "create" => h[p].at = "begin")
  <2>1. \A s : ~Creating(p, s)
    BY <1>1 DEF Creating
  <2> QED
    BY <1>1, <2>1, MoveKeepsOwned DEF Done
<1>2. ASSUME NEW at, Goto(p, at), at # "begin"
      PROVE  OwnedInv'
  <2> DEFINE x == [op |-> h[p].op, at |-> at, slug |-> h[p].slug,
                   mission |-> h[p].mission, arg |-> h[p].arg]
  <2>1. h' = [h EXCEPT ![p] = x]
    BY <1>2 DEF Goto
  <2>2. x # Idle /\ x.op = h[p].op /\ x.at = at /\ x.slug = h[p].slug
    BY DEF Idle
  <2> HIDE DEF x
  <2>3. \A s : Creating(p, s) => x.op = "create" /\ x.slug = s
    BY <2>2 DEF Creating
  <2> QED
    BY <1>2, <2>1, <2>2, <2>3, MoveKeepsOwned
<1> QED
  BY <1>1, <1>2

LEMMA PublishKeepsOwned ==
  ASSUME OwnedInv, ControlTypeOK, NEW p \in Writer, Publish(p)
  PROVE  OwnedInv'
<1>1. /\ HandlersTypeOK /\ h[p] # Idle /\ h[p].at = "publish"
      /\ UNCHANGED missions /\ UNCHANGED process
  BY DEF Publish, PublishClone, PublishCommit, PublishPush, PublishError, Publishing,
     ControlTypeOK, memory
<1>2. h[p].op # "delete"
  BY <1>1, Busy, HandlerFields
<1>3. UNCHANGED repos
  BY DEF Publish, PublishClone, PublishCommit, PublishPush, PublishError, GitClone, GitCommit,
     GitPush, GitPushUncleaned, GitRefused, GitFault, outboxVars
<1>4. CASE UNCHANGED h
  BY <1>1, <1>3, <1>4 DEF OwnedInv, Creating, Removing
<1>5. CASE Goto(p, "published") \/ Goto(p, "undo")
  BY <1>1, <1>2, <1>3, <1>5, GoOnKeepsOwned
<1>6. CASE h[p].op # "create" /\ Done(p)
  BY <1>1, <1>2, <1>3, <1>6, GoOnKeepsOwned
<1> QED
  BY <1>4, <1>5, <1>6 DEF Publish, PublishClone, PublishCommit, PublishPush, PublishError

LEMMA CreateKeepsOwned ==
  ASSUME "reinit" \notin Faults, "delete" \notin Faults,
         OwnedInv, LifecycleInv, ControlTypeOK, OutboxTypeOK, NEW p \in Writer,
         CreateRepo(p) \/ CreateUndo(p) \/ CreateRegister(p)
  PROVE  OwnedInv'
<1>1. PICK s \in Slug :
        /\ h[p] # Idle /\ h[p].op = "create" /\ h[p].slug = s
        /\ HandlersTypeOK /\ UNCHANGED process
  BY Busy, HandlerFields DEF CreateRepo, CreateUndo, CreateRegister, At, ControlTypeOK
<1>2. \A q \in Writer : \A r : ~Removing(q, r)
  BY <1>1 DEF LifecycleInv, DeletesAlone, Removing
<1>3. CASE CreateRepo(p) /\ Done(p) /\ UNCHANGED outboxVars
  <2>1. h[p].at = "begin" /\ UNCHANGED repos /\ UNCHANGED missions
    BY <1>3 DEF CreateRepo, At, memory, outboxVars
  <2> QED
    BY <1>1, <1>3, <2>1, GoOnKeepsOwned
<1>4. CASE CreateRepo(p) /\ InitBareRepo(s) /\ Goto(p, "publish")
  <2> DEFINE x == [op |-> h[p].op, at |-> "publish", slug |-> h[p].slug,
                   mission |-> h[p].mission, arg |-> h[p].arg]
  <2>1. /\ h[p].at = "begin" /\ UNCHANGED missions /\ repos' = repos \cup {s}
        /\ h' = [h EXCEPT ![p] = x]
    BY <1>4 DEF CreateRepo, At, memory, InitBareRepo, Goto
  <2>2. x # Idle /\ x.op = "create" /\ x.at = "publish" /\ x.slug = s
    BY <1>1 DEF Idle
  <2> HIDE DEF x
  <2>3. \A q \in Writer : h'[q] = IF q = p THEN x ELSE h[q]
    BY <1>1, <2>1 DEF HandlersTypeOK
  <2>4. /\ \A q \in Writer : \A r : Creating(q, r) => Creating(q, r)'
        /\ Creating(p, s)'
    BY <2>1, <2>2, <2>3 DEF Creating
  <2>5. \A q \in Writer : \A r : ~Removing(q, r)'
    BY <1>2, <2>2, <2>3 DEF Removing
  <2> QED
    BY <1>1, <2>1, <2>4, <2>5 DEF OwnedInv
<1>5. CASE CreateUndo(p) \/ CreateRegister(p)
  <2>1. /\ Done(p) /\ h' = [h EXCEPT ![p] = Idle]
        /\ \A r \in repos' : r \in repos /\ (r # s \/ missions'[s] # 0)
        /\ \A r \in Slug : r # s => missions'[r] = missions[r]
    <3>1. CASE CreateUndo(p)
      BY <1>1, <3>1 DEF CreateUndo, Done, DeleteRepo, outboxVars, memory
    <3>2. CASE CreateRegister(p)
      <4>1. /\ missions' = [missions EXCEPT ![s] = heap'] /\ UNCHANGED repos /\ Done(p)
            /\ Allocate
        BY <1>1, <3>2 DEF CreateRegister, outboxVars
      <4>2. heap' # 0
        BY <4>1, AllocateAddress DEF ControlTypeOK, Address
      <4> QED
        BY <4>1, <4>2 DEF ControlTypeOK, MemoryTypeOK, Done
    <3> QED
      BY <1>5, <3>1, <3>2
  <2>2. \A q \in Writer : h'[q] = IF q = p THEN Idle ELSE h[q]
    BY <1>1, <2>1 DEF HandlersTypeOK
  <2>3. \A q \in Writer : \A r : Creating(q, r) => Creating(q, r)' \/ r = s
    BY <1>1, <2>2 DEF Creating
  <2>4. \A q \in Writer : \A r : ~Removing(q, r)'
    BY <1>2, <2>2 DEF Removing
  <2>5. \A r \in repos' : r \in Slug
    BY <2>1 DEF OutboxTypeOK
  <2>6. \A r \in repos' : missions'[r] # 0 \/ \E q \in Writer : Creating(q, r)'
    BY <2>1, <2>3, <2>5 DEF OwnedInv
  <2> QED
    BY <1>1, <2>4, <2>6 DEF OwnedInv
<1> QED
  BY <1>1, <1>3, <1>4, <1>5 DEF CreateRepo

\* A mission that is deleted has lost its repository when it goes, and nobody
\* creates one meanwhile.
LEMMA DeleteKeepsOwned ==
  ASSUME "delete" \notin Faults,
         OwnedInv, LifecycleInv, ControlTypeOK, OutboxTypeOK, NEW p \in Writer,
         DeleteMissionRepo(p) \/ DeleteForget(p)
  PROVE  OwnedInv'
<1>1. PICK s \in Slug :
        /\ h[p] # Idle /\ h[p].op = "delete" /\ h[p].slug = s
        /\ HandlersTypeOK /\ UNCHANGED process
  BY Busy, HandlerFields DEF DeleteMissionRepo, DeleteForget, At, ControlTypeOK
<1>2. \A q \in Writer : q # p => h[q] = Idle
  BY <1>1 DEF LifecycleInv, DeletesAlone
<1>3. \A r \in repos : r \in Slug /\ missions[r] # 0
  BY <1>1, <1>2 DEF OwnedInv, Creating, OutboxTypeOK
<1>4. CASE DeleteMissionRepo(p)
  <2> DEFINE x == [op |-> h[p].op, at |-> "finish", slug |-> h[p].slug,
                   mission |-> h[p].mission, arg |-> h[p].arg]
  <2>1. /\ h' = [h EXCEPT ![p] = x] /\ UNCHANGED missions /\ repos' = repos \ {s}
    BY <1>1, <1>4 DEF DeleteMissionRepo, Goto, memory, DeleteRepo, outboxVars
  <2>2. x.slug = s
    BY <1>1
  <2> HIDE DEF x
  <2>3. \A q \in Writer : h'[q] = IF q = p THEN x ELSE h[q]
    BY <1>1, <2>1 DEF HandlersTypeOK
  <2>4. \A q \in Writer : \A r : Removing(q, r)' => r = s
    BY <1>2, <2>2, <2>3 DEF Removing
  <2> QED
    BY <1>1, <1>3, <2>1, <2>4 DEF OwnedInv
<1>5. CASE DeleteForget(p)
  <2>1. /\ h' = [h EXCEPT ![p] = Idle] /\ missions' = [missions EXCEPT ![s] = 0]
        /\ UNCHANGED repos /\ h[p].at = "finish"
    BY <1>1, <1>5 DEF DeleteForget, Done, At, outboxVars
  <2>2. s \notin repos
    BY <1>1, <2>1 DEF OwnedInv, Removing
  <2>3. \A q \in Writer : h'[q] = Idle
    BY <1>1, <1>2, <2>1 DEF HandlersTypeOK
  <2>4. \A r \in repos : missions'[r] = missions[r]
    BY <1>3, <2>1, <2>2 DEF ControlTypeOK, MemoryTypeOK
  <2> QED
    BY <1>1, <1>3, <2>1, <2>3, <2>4 DEF OwnedInv, Removing
<1> QED
  BY <1>4, <1>5

LEMMA OtherHandlersKeepOwned ==
  ASSUME OwnedInv, ControlTypeOK, NEW p \in Writer,
         \/ AssignSend(p) \/ AssignRegister(p) \/ RemoveSend(p) \/ RemoveForget(p)
         \/ TaskNotify(p) \/ TaskRegister(p)
         \/ TrustUnassigned(p) \/ TrustAgain(p) \/ TrustJoin(p) \/ TrustMark(p)
  PROVE  OwnedInv'
<1>1. /\ h[p] # Idle /\ h[p].op \in {"assign", "remove", "task", "trust"}
      /\ UNCHANGED repos /\ UNCHANGED missions /\ UNCHANGED process
  BY DEF AssignSend, AssignRegister, RemoveSend, RemoveForget, TaskNotify, TaskRegister,
     TrustUnassigned, TrustAgain, TrustJoin, TrustMark, TrustsBegin, At, memory, outboxVars
<1>2. CASE Done(p) \/ Goto(p, "finish")
  BY <1>1, <1>2, GoOnKeepsOwned DEF ControlTypeOK
<1>3. CASE TrustMark(p)
  <2> DEFINE d == h[p].arg
             x == [op |-> "trust", at |-> "publish", slug |-> drones[d],
                   mission |-> missions[drones[d]], arg |-> d]
  <2>1. h' = [h EXCEPT ![p] = x] /\ x.op = "trust"
    BY <1>3 DEF TrustMark, Enter
  <2>2. \A s : ~Creating(p, s)
    BY <1>1 DEF Creating
  <2> HIDE DEF x
  <2> QED
    BY <1>1, <2>1, <2>2, MoveKeepsOwned DEF ControlTypeOK
<1> QED
  BY <1>2, <1>3 DEF AssignSend, AssignRegister, RemoveSend, RemoveForget, TaskNotify,
     TaskRegister, TrustUnassigned, TrustAgain, TrustJoin

LEMMA DronesKeepOwned ==
  ASSUME OwnedInv, ControlTypeOK, NEW d \in Dev, DroneActs(d) \/ DroneSends(d)
  PROVE  OwnedInv'
<1>1. ASSUME NEW p \in Writer, DroneTrusts(p, d)
      PROVE  OwnedInv'
  <2> DEFINE x == [op |-> "trust", at |-> "begin", slug |-> NoSlug, mission |-> 0, arg |-> d]
  <2>1. /\ h[p] = Idle /\ h' = [h EXCEPT ![p] = x] /\ x.op = "trust"
        /\ UNCHANGED repos /\ UNCHANGED missions /\ UNCHANGED process
    BY <1>1 DEF DroneTrusts, MayStart, memory, outboxVars
  <2>2. \A s : ~Creating(p, s)
    BY <2>1 DEF Creating
  <2> HIDE DEF x
  <2> QED
    BY <2>1, <2>2, MoveKeepsOwned DEF ControlTypeOK
<1>2. CASE DroneJoins(d) \/ DroneLeaves(d) \/ DroneSends(d)
  <2>1. UNCHANGED h /\ UNCHANGED missions /\ UNCHANGED repos /\ UNCHANGED process
    BY <1>2 DEF DroneJoins, DroneLeaves, DroneSends, DroneReports, DroneForgets,
       MissionState, MissionStateUnknown, Arrives, memory, outboxVars
  <2> QED
    BY <2>1 DEF OwnedInv, Creating, Removing
<1> QED
  BY <1>1, <1>2 DEF DroneActs

LEMMA NextKeepsOwned ==
  ASSUME "reinit" \notin Faults, "delete" \notin Faults, "crash" \notin Faults,
         OwnedInv, SafeInv, OutboxInv, [MissionNext]_missionVars
  PROVE  OwnedInv'
<1> USE DEF SafeInv, OutboxInv
<1>1. CASE \E p \in Writer : Ask(p)
  BY <1>1, AskKeepsOwned DEF ControlTypeOK
<1>2. ASSUME NEW p \in Writer, Handle(p)
      PROVE  OwnedInv'
  BY <1>2, NoPanic, PublishKeepsOwned, CreateKeepsOwned, DeleteKeepsOwned,
     OtherHandlersKeepOwned
  DEF Handle
<1>3. CASE \E d \in Dev : DroneActs(d) \/ DroneSends(d)
  BY <1>3, DronesKeepOwned
<1>4. CASE Restart \/ UNCHANGED missionVars
  <2>1. /\ UNCHANGED h /\ UNCHANGED missions /\ UNCHANGED repos
        /\ process' = process \/ process' = "up"
    BY <1>4 DEF Restart, memory, outboxVars, missionVars
  <2> QED
    BY <2>1 DEF OwnedInv, Creating, Removing
<1> QED
  BY <1>1, <1>2, <1>3, <1>4 DEF MissionNext, Crash

\* Where the git server removes what it is asked to remove, and makes no
\* repository twice, and the process lives on, no failure of git, of a
\* creation or of MQTT leaves a repository behind without a mission.
THEOREM NeverOrphanRepo ==
  ASSUME "delete" \in Alone,
         "reinit" \notin Faults, "delete" \notin Faults, "crash" \notin Faults
  PROVE  MissionSpec => []NoOrphanRepo
<1> DEFINE Inv == SafeInv /\ OutboxInv /\ HistoryInv
<1>1. MissionSpec => []Inv
  BY HistoryInvariant
<1>2. MissionInit => OwnedInv
  BY DEF MissionInit, OutboxInit, OwnedInv, Removing
<1>3. OwnedInv /\ Inv /\ [MissionNext]_missionVars => OwnedInv'
  BY NextKeepsOwned
<1>4. OwnedInv => NoOrphanRepo
  BY DEF OwnedInv, NoOrphanRepo, Creating
<1> QED
  BY <1>1, <1>2, <1>3, <1>4, PTL DEF MissionSpec
=============================================================================
