----------------------- MODULE MissionOneByOneProofs -----------------------
(***************************************************************************)
(* Proofs about MissionControl and MissionEvents where requests are made   *)
(* one at a time, for any sets of slugs, drones, tasks and goroutines and  *)
(* any bounds.                                                             *)
(*                                                                         *)
(* First, drones are in one mission and the index knows which: requests    *)
(* about drones, and deletions, are made while nothing else runs.  Second, *)
(* the outbox of a mission tells who is in it, where no two handlers       *)
(* overlap and neither git nor MQTT fails.  Third, MissionEvents adds      *)
(* announcements to this and changes nothing of it.  Fourth, what a user   *)
(* is shown is true.                                                       *)
(***************************************************************************)
EXTENDS MissionEvents, MissionControlProofs

------------------------------------------------------------------------------
(* One at a time: a drone is in one mission *)

\* What a drone's event does to a roster: a Drone takes the place of one of
\* the same device.
LEMMA EventsReplace ==
  ASSUME ControlTypeOK,
         \/ \E p \in Writer : TrustMark(p)
         \/ \E d \in Dev, r \in Slug \cup {NoSlug} : MissionState(d, r)
  PROVE  \/ UNCHANGED roster
         \/ \E m \in Address : \E e \in roster[m] : \E x : x.dev = e.dev /\ Replace(m, e, x)
<1>1. ASSUME NEW m \in Address, NEW d \in Dev, NEW e \in roster[m], First(m, d, e),
             NEW ref, NEW trusted, NEW stat,
             Replace(m, e, [ref |-> ref, dev |-> d, trusted |-> trusted, status |-> stat])
      PROVE  \E n \in Address : \E f \in roster[n] : \E x : x.dev = f.dev /\ Replace(n, f, x)
  <2> DEFINE x == [ref |-> ref, dev |-> d, trusted |-> trusted, status |-> stat]
  <2>1. x.dev = e.dev
    BY <1>1 DEF First
  <2> HIDE DEF x
  <2> QED
    BY <1>1, <2>1 DEF x
<1>2. ASSUME NEW p \in Writer, TrustMark(p), ~UNCHANGED roster
      PROVE  \E n \in Address : \E f \in roster[n] : \E x : x.dev = f.dev /\ Replace(n, f, x)
  <2>1. h[p] # Idle /\ h[p].arg \in Dev
    BY <1>2, Busy, HandlerFields DEF TrustMark, TrustsBegin, At, ControlTypeOK
  <2>2. missions[drones[h[p].arg]] \in Address
    BY <1>2, <2>1 DEF TrustMark, ControlTypeOK, MemoryTypeOK
  <2> QED
    BY <1>1, <1>2, <2>1, <2>2 DEF TrustMark
<1>3. ASSUME NEW d \in Dev, NEW r \in Slug \cup {NoSlug}, MissionState(d, r), ~UNCHANGED roster
      PROVE  \E n \in Address : \E f \in roster[n] : \E x : x.dev = f.dev /\ Replace(n, f, x)
  <2>1. PICK s \in Slug :
          /\ missions[s] # 0
          /\ \E e \in roster[missions[s]] :
               /\ First(missions[s], d, e)
               /\ \E y : Replace(missions[s], e,
                              [ref |-> e.ref, dev |-> d, trusted |-> e.trusted, status |-> y])
    BY <1>3 DEF MissionState
  <2>2. missions[s] \in Address
    BY <2>1 DEF ControlTypeOK, MemoryTypeOK
  <2> QED
    BY <1>1, <2>1, <2>2
<1> QED
  BY <1>2, <1>3

\* Addresses are given out once: to the mission created, and to the Drone put
\* on the roster of a mission that is there.
LEMMA CreateKeepsApart ==
  ASSUME AddressesApart, ControlTypeOK, NEW p \in Writer, CreateRegister(p)
  PROVE  AddressesApart'
<1> DEFINE s == h[p].slug
<1>1. h[p] # Idle /\ h[p].op = "create" /\ s \in Slug
  BY Busy, HandlerFields DEF CreateRegister, At, ControlTypeOK
<1>2. heap \in Nat /\ heap' = heap + 1 /\ UNCHANGED roster
  BY DEF CreateRegister, Allocate, ControlTypeOK, MemoryTypeOK
<1>3. \A r \in Slug : missions'[r] = IF r = s THEN heap' ELSE missions[r]
  BY <1>1 DEF CreateRegister, ControlTypeOK, MemoryTypeOK
<1>4. \A r \in Slug : missions[r] \in Nat
  BY DEF ControlTypeOK, MemoryTypeOK, Address
<1> HIDE DEF s
<1>5. \A r \in Slug : missions'[r] <= heap'
  BY <1>2, <1>3, <1>4 DEF AddressesApart
<1>6. \A m \in Address : m > heap' => roster'[m] = {}
  BY <1>2 DEF AddressesApart, Address
<1>7. \A r, t \in Slug : missions'[r] # 0 /\ missions'[r] = missions'[t] => r = t
  BY <1>2, <1>3, <1>4 DEF AddressesApart
<1> QED
  BY <1>5, <1>6, <1>7 DEF AddressesApart

LEMMA AssignKeepsApart ==
  ASSUME AddressesApart, ControlTypeOK, NEW p \in Writer, AssignRegister(p),
         missions[h[p].slug] = h[p].mission
  PROVE  AddressesApart'
<1> DEFINE m == h[p].mission
<1>1. h[p] # Idle /\ h[p].op = "assign" /\ h[p].slug \in Slug /\ m \in Address
  BY Busy, HandlerFields DEF AssignRegister, At, ControlTypeOK
<1>2. heap \in Nat /\ heap' = heap + 1 /\ UNCHANGED missions
  <2>1. Allocate /\ UNCHANGED missions
    BY DEF AssignRegister
  <2> QED
    BY <2>1 DEF Allocate, ControlTypeOK, MemoryTypeOK
<1>3. \A n \in Address : n # m => roster'[n] = roster[n]
  BY DEF AssignRegister, ControlTypeOK, MemoryTypeOK
<1>4. m <= heap
  BY <1>1 DEF AddressesApart
<1>5. \A r \in Slug : missions[r] \in Nat
  BY DEF ControlTypeOK, MemoryTypeOK, Address
<1> HIDE DEF m
<1>6. \A n \in Address : n > heap' => roster'[n] = {}
  BY <1>1, <1>2, <1>3, <1>4 DEF AddressesApart, Address
<1>7. \A r \in Slug : missions'[r] <= heap'
  BY <1>2, <1>5 DEF AddressesApart
<1> QED
  BY <1>2, <1>6, <1>7 DEF AddressesApart

\* Nothing else gives out an address or lengthens a roster.
LEMMA OthersKeepApart ==
  ASSUME AddressesApart, UNCHANGED heap,
         \A s \in Slug : missions'[s] \in {0, missions[s]},
         \A m \in Address : roster[m] = {} => roster'[m] = {},
         heap \in Nat
  PROVE  AddressesApart'
  BY DEF AddressesApart

LEMMA NextKeepsApart ==
  ASSUME AddressesApart, ControlTypeOK, MissionNext,
         \A p \in Writer : AssignRegister(p) => missions[h[p].slug] = h[p].mission
  PROVE  AddressesApart'
<1>1. heap \in Nat
  BY DEF ControlTypeOK, MemoryTypeOK
<1>2. CASE \E p \in Writer : CreateRegister(p) \/ AssignRegister(p)
  BY <1>2, CreateKeepsApart, AssignKeepsApart
<1>3. CASE UNCHANGED missions /\ UNCHANGED roster /\ UNCHANGED heap
  BY <1>1, <1>3, OthersKeepApart
<1>4. CASE LoseMemory /\ UNCHANGED heap
  BY <1>1, <1>4, OthersKeepApart DEF LoseMemory
<1>5. ASSUME NEW p \in Writer, DeleteForget(p)
      PROVE  AddressesApart'
  <2>1. \A s \in Slug : missions'[s] \in {0, missions[s]}
    BY <1>5 DEF DeleteForget, ControlTypeOK, MemoryTypeOK
  <2> QED
    BY <1>1, <1>5, <2>1, OthersKeepApart DEF DeleteForget
<1>6. ASSUME NEW p \in Writer, RemoveForget(p)
      PROVE  AddressesApart'
  <2>1. \A m \in Address : roster'[m] \subseteq roster[m]
    BY <1>6 DEF RemoveForget, ControlTypeOK, MemoryTypeOK
  <2> QED
    BY <1>1, <1>6, <2>1, OthersKeepApart DEF RemoveForget
<1>7. CASE \/ \E p \in Writer : TrustMark(p)
           \/ \E d \in Dev, r \in Slug \cup {NoSlug} : MissionState(d, r)
  <2>1. UNCHANGED missions /\ UNCHANGED heap
    BY <1>7 DEF TrustMark, MissionState, Arrives
  <2>2. \A m \in Address : roster[m] = {} => roster'[m] = {}
    <3>1. ASSUME NEW n \in Address, NEW e \in roster[n], NEW x, Replace(n, e, x),
                 NEW m \in Address, roster[m] = {}
          PROVE  roster'[m] = {}
      BY <3>1 DEF Replace, ControlTypeOK, MemoryTypeOK
    <3> QED
      BY <1>7, <3>1, EventsReplace
  <2> QED
    BY <1>1, <2>1, <2>2, OthersKeepApart
<1>8. CASE \E p \in Writer : Ask(p)
  BY <1>3, <1>8 DEF Ask, CreateMission, DeleteMission, AssignDrone, RemoveDrone, AddTask,
     Request, memory
<1>9. CASE \E p \in Writer : Handle(p)
  BY <1>2, <1>3, <1>4, <1>5, <1>6, <1>7, <1>9
  DEF Handle, Publish, PublishClone, PublishCommit, PublishPush, PublishError, CreateRepo,
     CreateUndo, DeleteMissionRepo, AssignSend, RemoveSend, TaskNotify, TaskRegister,
     TrustUnassigned, TrustPanics, TrustAgain, TrustJoin, memory
<1>10. CASE \E d \in Dev : DroneActs(d) \/ DroneSends(d)
  BY <1>3, <1>7, <1>10 DEF DroneActs, DroneTrusts, DroneJoins, DroneLeaves, DroneSends,
     DroneReports, DroneForgets, MissionStateUnknown, Arrives, memory
<1>11. CASE Crash \/ Restart
  BY <1>3, <1>4, <1>11 DEF Crash, Restart, memory
<1> QED
  BY <1>8, <1>9, <1>10, <1>11 DEF MissionNext

\* A handler ends, or goes on with the same request; only the start of another
\* can bring two of them together.
LEMMA MoveKeepsAlone ==
  ASSUME ExclusiveAlone, HandlersTypeOK, NEW p \in Writer, NEW x,
         h' = [h EXCEPT ![p] = x],
         \/ x = Idle
         \/ h[p] # Idle /\ x.op = h[p].op
         \/ \A q \in Writer : h[q] # Idle => h[q].op \notin Exclusive /\ x.op \notin Exclusive
  PROVE  ExclusiveAlone'
<1>1. \A q \in Writer : h'[q] = IF q = p THEN x ELSE h[q]
  BY DEF HandlersTypeOK
<1> QED
  BY <1>1 DEF ExclusiveAlone

\* What an exclusive handler looked up is current still when it goes on, and
\* no other handler moves while there is one.
LEMMA MoveKeepsCurrent ==
  ASSUME ExclusiveAlone, ExclusiveCurrent, HandlersTypeOK, NEW p \in Writer, NEW x,
         h' = [h EXCEPT ![p] = x], h[p] # Idle,
         \/ x = Idle
         \/ h[p].op \notin Exclusive /\ x.op = h[p].op
         \/ /\ x.op = h[p].op /\ x.slug = h[p].slug /\ x.mission = h[p].mission
            /\ x.arg = h[p].arg /\ UNCHANGED missions /\ UNCHANGED drones
  PROVE  ExclusiveCurrent'
<1>1. \A q \in Writer : h'[q] = IF q = p THEN x ELSE h[q]
  BY DEF HandlersTypeOK
<1>2. \A q \in Writer : h[q] # Idle /\ h[q].op \in Exclusive => q = p
  BY DEF ExclusiveAlone
<1>3. CASE x = Idle
  BY <1>1, <1>2, <1>3 DEF ExclusiveCurrent
<1>4. CASE h[p].op \notin Exclusive /\ x.op = h[p].op
  BY <1>1, <1>2, <1>4 DEF ExclusiveCurrent
<1>5. CASE /\ x.op = h[p].op /\ x.slug = h[p].slug /\ x.mission = h[p].mission
           /\ x.arg = h[p].arg /\ UNCHANGED missions /\ UNCHANGED drones
  BY <1>1, <1>2, <1>5 DEF ExclusiveCurrent
<1> QED
  BY <1>3, <1>4, <1>5

RosterInv == NoneListedTwice /\ ListedIsIndexed

\* A request that may start finds no exclusive one running, and is alone if it
\* is exclusive itself; what it looked up is current.
LEMMA AskKeepsOneByOne ==
  ASSUME Exclusive \subseteq Alone, RemovalsNameMission,
         OneByOneInv, HandlersTypeOK, NEW p \in Writer, Ask(p)
  PROVE  OneByOneInv'
<1>1. ASSUME NEW op, NEW at, NEW s \in Slug, NEW a, Request(p, op, at, s, a),
             op = "assign" => drones[a] = NoSlug,
             op = "remove" => drones[a] = s
      PROVE  OneByOneInv'
  <2> DEFINE x == [op |-> op, at |-> at, slug |-> s, mission |-> missions[s], arg |-> a]
  <2>1. /\ MayStart(p, op) /\ h' = [h EXCEPT ![p] = x]
        /\ UNCHANGED missions /\ UNCHANGED roster /\ UNCHANGED drones /\ UNCHANGED heap
    BY <1>1 DEF Request, Enter, memory
  <2>2. x.op = op /\ x.slug = s /\ x.mission = missions[s] /\ x.arg = a
    OBVIOUS
  <2> HIDE DEF x
  <2>3. \A q \in Writer : h[q] # Idle => h[q].op \notin Exclusive /\ op \notin Exclusive
    BY <2>1 DEF MayStart
  <2>4. ExclusiveAlone'
    BY <2>1, <2>2, <2>3, MoveKeepsAlone DEF OneByOneInv
  <2>5. \A q \in Writer : h'[q] = IF q = p THEN x ELSE h[q]
    BY <2>1 DEF HandlersTypeOK
  <2>6. ExclusiveCurrent'
    BY <1>1, <2>1, <2>2, <2>3, <2>5 DEF ExclusiveCurrent
  <2> QED
    BY <2>1, <2>4, <2>6
    DEF OneByOneInv, AddressesApart, NoneListedTwice, ListedIsIndexed, Members
<1>2. PICK s \in Slug :
        \/ CreateMission(p, s) \/ DeleteMission(p, s)
        \/ \E d \in Dev : AssignDrone(p, s, d) \/ RemoveDrone(p, s, d)
        \/ \E t \in Task : AddTask(p, s, t)
  BY DEF Ask
<1> QED
  BY <1>1, <1>2
  DEF CreateMission, DeleteMission, AssignDrone, RemoveDrone, AddTask, RemovalsNameMission

\* The mission created gets an address of its own, whose roster is empty.
LEMMA CreateKeepsRosters ==
  ASSUME AddressesApart, RosterInv, ControlTypeOK, NEW p \in Writer, CreateRegister(p)
  PROVE  RosterInv'
<1> DEFINE s == h[p].slug
<1>1. h[p] # Idle /\ h[p].op = "create" /\ s \in Slug
  BY Busy, HandlerFields DEF CreateRegister, At, ControlTypeOK
<1>2. /\ heap \in Nat /\ heap' = heap + 1 /\ heap' \in Address
      /\ UNCHANGED roster /\ UNCHANGED drones
  BY MissionAssumption DEF CreateRegister, Allocate, Address, ControlTypeOK, MemoryTypeOK
<1>3. \A r \in Slug : missions'[r] = IF r = s THEN heap' ELSE missions[r]
  BY <1>1 DEF CreateRegister, ControlTypeOK, MemoryTypeOK
<1>4. \A r \in Slug : missions[r] \in Nat
  BY DEF ControlTypeOK, MemoryTypeOK, Address
<1> HIDE DEF s
<1>5. roster[heap'] = {}
  BY <1>2 DEF AddressesApart
<1>7. NoneListedTwice'
  BY <1>2 DEF RosterInv, NoneListedTwice
<1>8. ListedIsIndexed'
  BY <1>2, <1>3, <1>5 DEF RosterInv, ListedIsIndexed, Members
<1> QED
  BY <1>7, <1>8 DEF RosterInv

\* The drones of the mission deleted are in no other.
LEMMA DeleteKeepsRosters ==
  ASSUME RosterInv, ExclusiveCurrent, ControlTypeOK, NEW p \in Writer, DeleteForget(p)
  PROVE  RosterInv'
<1> DEFINE s == h[p].slug
           m == h[p].mission
<1>1. h[p] # Idle /\ h[p].op = "delete" /\ s \in Slug /\ m \in Address
  BY Busy, HandlerFields DEF DeleteForget, At, ControlTypeOK
<1>2. missions[s] = m
  BY <1>1 DEF ExclusiveCurrent, Exclusive
<1>3. /\ UNCHANGED roster /\ UNCHANGED heap
      /\ \A d \in Dev : drones'[d] = IF d \in DeviceIn(m) THEN NoSlug ELSE drones[d]
      /\ \A r \in Slug : missions'[r] = IF r = s THEN 0 ELSE missions[r]
  BY <1>1 DEF DeleteForget, ControlTypeOK, MemoryTypeOK
<1>4. \A n \in Address : \A e \in roster[n] : e.dev \in Dev
  BY DEF ControlTypeOK, MemoryTypeOK, Drone
<1>5. heap \in Nat /\ \A r \in Slug : missions[r] # 0 => missions[r] \in Address
  BY DEF ControlTypeOK, MemoryTypeOK
<1>6. m # 0
  BY <1>1 DEF Address
<1> HIDE DEF s, m
<1>8. NoneListedTwice'
  BY <1>3 DEF RosterInv, NoneListedTwice
<1>9. ListedIsIndexed'
  <2>1. SUFFICES ASSUME NEW r \in Slug, r # s, missions[r] # 0, NEW e \in roster[missions[r]]
                 PROVE  drones'[e.dev] = r
    BY <1>3 DEF ListedIsIndexed, Members
  <2>2. drones[e.dev] = r /\ e.dev \in Dev
    BY <1>4, <1>5, <2>1 DEF RosterInv, ListedIsIndexed, Members
  <2>3. \A f \in roster[m] : drones[f.dev] = s
    BY <1>1, <1>2, <1>6 DEF RosterInv, ListedIsIndexed, Members
  <2>4. e.dev \notin DeviceIn(m)
    BY <2>1, <2>2, <2>3 DEF DeviceIn
  <2> QED
    BY <1>3, <2>2, <2>4
<1> QED
  BY <1>8, <1>9 DEF RosterInv

\* The drone assigned was in no mission.
LEMMA AssignKeepsRosters ==
  ASSUME AddressesApart, RosterInv, ExclusiveCurrent, ControlTypeOK, NEW p \in Writer,
         AssignRegister(p)
  PROVE  RosterInv'
<1> DEFINE s == h[p].slug
           m == h[p].mission
           d == h[p].arg
           x == [ref |-> heap', dev |-> d, trusted |-> FALSE, status |-> ""]
<1>1. h[p] # Idle /\ h[p].op = "assign" /\ s \in Slug /\ m \in Address /\ d \in Dev
  BY Busy, HandlerFields DEF AssignRegister, At, ControlTypeOK
<1>2. missions[s] = m /\ drones[d] = NoSlug
  BY <1>1 DEF ExclusiveCurrent, Exclusive
<1>3. /\ heap \in Nat /\ heap' = heap + 1 /\ heap' \in Address /\ UNCHANGED missions
      /\ \A n \in Address : roster'[n] = IF n = m THEN roster[m] \cup {x} ELSE roster[n]
      /\ \A c \in Dev : drones'[c] = IF c = d THEN s ELSE drones[c]
  <2>1. heap \in Nat /\ heap' = heap + 1 /\ heap' \in Address /\ UNCHANGED missions
    <3>1. Allocate /\ UNCHANGED missions
      BY DEF AssignRegister
    <3> QED
      BY <3>1, MissionAssumption DEF Allocate, Address, ControlTypeOK, MemoryTypeOK
  <2>2. \A c \in Dev : drones'[c] = IF c = d THEN s ELSE drones[c]
    BY DEF AssignRegister, ControlTypeOK, MemoryTypeOK
  <2>3. roster' = [roster EXCEPT ![m] = @ \cup {x}]
    BY DEF AssignRegister
  <2> HIDE DEF x, m
  <2>4. \A n \in Address : roster'[n] = IF n = m THEN roster[m] \cup {x} ELSE roster[n]
    BY <2>3 DEF ControlTypeOK, MemoryTypeOK
  <2> QED
    BY <2>1, <2>2, <2>4
<1>4. \A n \in Address : \A e \in roster[n] : e.dev \in Dev
  BY DEF ControlTypeOK, MemoryTypeOK, Drone
<1>5. \A r \in Slug : missions[r] # 0 => missions[r] \in Address
  BY DEF ControlTypeOK, MemoryTypeOK
<1>6. m # 0 /\ m <= heap
  BY <1>1, <1>2 DEF AddressesApart, Address
<1>7. x.dev = d
  OBVIOUS
<1> HIDE DEF s, m, d, x
<1>8. \A r \in Slug : missions[r] # 0 => \A e \in roster[missions[r]] : e.dev # d
  BY <1>2, MissionAssumption DEF RosterInv, ListedIsIndexed, Members
<1>10. NoneListedTwice'
  <2>1. \A e \in roster[m] : e.dev # d
    BY <1>1, <1>2, <1>6, <1>8
  <2>2. \A e, f \in roster[m] \cup {x} : e.dev = f.dev => e = f
    BY <1>1, <1>7, <2>1 DEF RosterInv, NoneListedTwice
  <2> QED
    BY <1>3, <2>2 DEF RosterInv, NoneListedTwice
<1>11. ListedIsIndexed'
  <2>1. SUFFICES ASSUME NEW r \in Slug, missions[r] # 0, NEW e \in roster'[missions[r]]
                 PROVE  drones'[e.dev] = r
    BY <1>3 DEF ListedIsIndexed, Members
  <2>2. CASE e \in roster[missions[r]]
    <3>1. drones[e.dev] = r /\ e.dev \in Dev /\ e.dev # d
      BY <1>4, <1>5, <1>8, <2>1, <2>2 DEF RosterInv, ListedIsIndexed, Members
    <3> QED
      BY <1>3, <3>1
  <2>3. CASE e \notin roster[missions[r]]
    <3>1. missions[r] = m /\ e = x
      BY <1>3, <1>5, <2>1, <2>3
    <3>2. r = s
      BY <1>1, <1>2, <1>6, <3>1 DEF AddressesApart
    <3> QED
      BY <1>1, <1>3, <1>7, <3>1, <3>2
  <2> QED
    BY <2>2, <2>3
<1> QED
  BY <1>10, <1>11 DEF RosterInv

\* The drone removed was listed by its mission alone.
LEMMA RemoveKeepsRosters ==
  ASSUME RosterInv, ExclusiveCurrent, ControlTypeOK, NEW p \in Writer, RemoveForget(p)
  PROVE  RosterInv'
<1> DEFINE s == h[p].slug
           m == h[p].mission
           d == h[p].arg
<1>1. h[p] # Idle /\ h[p].op = "remove" /\ s \in Slug /\ m \in Address /\ d \in Dev
  BY Busy, HandlerFields DEF RemoveForget, At, ControlTypeOK
<1>2. missions[s] = m /\ drones[d] = s
  BY <1>1 DEF ExclusiveCurrent, Exclusive
<1>3. /\ UNCHANGED heap /\ UNCHANGED missions
      /\ \A n \in Address :
           roster'[n] = IF n = m THEN {e \in roster[m] : e.dev # d} ELSE roster[n]
      /\ \A c \in Dev : drones'[c] = IF c = d THEN NoSlug ELSE drones[c]
  BY <1>1 DEF RemoveForget, ControlTypeOK, MemoryTypeOK
<1>4. \A n \in Address : \A e \in roster[n] : e.dev \in Dev
  BY DEF ControlTypeOK, MemoryTypeOK, Drone
<1>5. \A r \in Slug : missions[r] # 0 => missions[r] \in Address
  BY DEF ControlTypeOK, MemoryTypeOK
<1> HIDE DEF s, m, d
<1>7. NoneListedTwice'
  BY <1>3 DEF RosterInv, NoneListedTwice
<1>8. ListedIsIndexed'
  <2>1. SUFFICES ASSUME NEW r \in Slug, missions[r] # 0, NEW e \in roster'[missions[r]]
                 PROVE  drones'[e.dev] = r
    BY <1>3 DEF ListedIsIndexed, Members
  <2>2. e \in roster[missions[r]] /\ (missions[r] = m => e.dev # d)
    BY <1>3, <1>5, <2>1
  <2>3. drones[e.dev] = r /\ e.dev \in Dev
    BY <1>4, <1>5, <2>1, <2>2 DEF RosterInv, ListedIsIndexed, Members
  <2>4. e.dev # d
    BY <1>2, <2>2, <2>3
  <2> QED
    BY <1>3, <2>3, <2>4
<1> QED
  BY <1>7, <1>8 DEF RosterInv

\* The drones' events change what is known of a drone, never where it is.
LEMMA EventsKeepRosters ==
  ASSUME RosterInv, ControlTypeOK,
         \/ \E p \in Writer : TrustMark(p)
         \/ \E d \in Dev, r \in Slug \cup {NoSlug} : MissionState(d, r)
  PROVE  RosterInv'
<1>1. UNCHANGED missions /\ UNCHANGED drones /\ UNCHANGED heap
  BY DEF TrustMark, MissionState, Arrives
<1>2. CASE UNCHANGED roster
  BY <1>1, <1>2 DEF RosterInv, NoneListedTwice, ListedIsIndexed, Members
<1>3. ASSUME NEW m \in Address, NEW e \in roster[m], NEW x, x.dev = e.dev, Replace(m, e, x)
      PROVE  RosterInv'
  <2>1. \A n \in Address :
          roster'[n] = IF n = m THEN (roster[m] \ {e}) \cup {x} ELSE roster[n]
    BY <1>3 DEF Replace, ControlTypeOK, MemoryTypeOK
  <2>3. NoneListedTwice'
    <3>1. \A f \in roster[m] : f.dev = e.dev => f = e
      BY <1>3 DEF RosterInv, NoneListedTwice
    <3>2. \A f, g \in (roster[m] \ {e}) \cup {x} : f.dev = g.dev => f = g
      BY <1>3, <3>1 DEF RosterInv, NoneListedTwice
    <3> QED
      BY <2>1, <3>2 DEF RosterInv, NoneListedTwice
  <2>4. \A r \in Slug : missions[r] # 0 => missions[r] \in Address
    BY DEF ControlTypeOK, MemoryTypeOK
  <2>5. ListedIsIndexed'
    BY <1>1, <1>3, <2>1, <2>4 DEF RosterInv, ListedIsIndexed, Members
  <2> QED
    BY <2>3, <2>5 DEF RosterInv
<1> QED
  BY <1>2, <1>3, EventsReplace

\* A handler that ends or goes on with its request.
LEMMA HandleMoves ==
  ASSUME HandlersTypeOK, NEW p \in Writer, Handle(p), ~TrustPanics(p)
  PROVE  /\ h[p] # Idle
         /\ \/ UNCHANGED h
            \/ \E x : /\ h' = [h EXCEPT ![p] = x]
                      /\ \/ x = Idle
                         \/ h[p].op = "trust" /\ x.op = "trust"
                         \/ /\ x.op = h[p].op /\ x.slug = h[p].slug
                            /\ x.mission = h[p].mission /\ x.arg = h[p].arg
<1>1. h[p] # Idle
  BY DEF Handle, Publish, PublishClone, PublishCommit, PublishPush, PublishError, Publishing,
     CreateRepo, CreateUndo, CreateRegister, DeleteMissionRepo, DeleteForget, AssignSend,
     AssignRegister, RemoveSend, RemoveForget, TaskNotify, TaskRegister, TrustUnassigned,
     TrustAgain, TrustMark, TrustJoin, TrustsBegin, At
<1>2. UNCHANGED h \/ Done(p) \/ (\E at : Goto(p, at)) \/ TrustMark(p)
  BY DEF Handle, Publish, PublishClone, PublishCommit, PublishPush, PublishError,
     CreateRepo, CreateUndo, CreateRegister, DeleteMissionRepo, DeleteForget, AssignSend,
     AssignRegister, RemoveSend, RemoveForget, TaskNotify, TaskRegister, TrustUnassigned,
     TrustAgain, TrustJoin
<1>3. ASSUME NEW at, Goto(p, at)
      PROVE  \E x : /\ h' = [h EXCEPT ![p] = x]
                    /\ x.op = h[p].op /\ x.slug = h[p].slug
                    /\ x.mission = h[p].mission /\ x.arg = h[p].arg
  <2> DEFINE x == [op |-> h[p].op, at |-> at, slug |-> h[p].slug,
                   mission |-> h[p].mission, arg |-> h[p].arg]
  <2>1. h' = [h EXCEPT ![p] = x]
    BY <1>3 DEF Goto
  <2>2. /\ x.op = h[p].op /\ x.slug = h[p].slug
        /\ x.mission = h[p].mission /\ x.arg = h[p].arg
    OBVIOUS
  <2> HIDE DEF x
  <2> QED
    BY <2>1, <2>2
<1>4. ASSUME TrustMark(p)
      PROVE  h[p].op = "trust" /\ \E x : h' = [h EXCEPT ![p] = x] /\ x.op = "trust"
  <2> DEFINE x == [op |-> "trust", at |-> "publish", slug |-> drones[h[p].arg],
                   mission |-> missions[drones[h[p].arg]], arg |-> h[p].arg]
  <2>1. h[p].op = "trust" /\ h' = [h EXCEPT ![p] = x]
    BY <1>4 DEF TrustMark, TrustsBegin, At, Enter
  <2>2. x.op = "trust"
    OBVIOUS
  <2> HIDE DEF x
  <2> QED
    BY <2>1, <2>2
<1>5. CASE Done(p)
  BY <1>1, <1>5 DEF Done
<1> QED
  BY <1>1, <1>2, <1>3, <1>4, <1>5

LEMMA HandleKeepsRosters ==
  ASSUME AddressesApart, RosterInv, ExclusiveCurrent, ControlTypeOK, NEW p \in Writer,
         Handle(p), ~TrustPanics(p)
  PROVE  RosterInv'
<1>1. CASE CreateRegister(p) \/ DeleteForget(p) \/ AssignRegister(p) \/ RemoveForget(p)
  BY <1>1, CreateKeepsRosters, DeleteKeepsRosters, AssignKeepsRosters, RemoveKeepsRosters
<1>2. CASE TrustMark(p)
  BY <1>2, EventsKeepRosters
<1>3. CASE UNCHANGED missions /\ UNCHANGED drones /\ UNCHANGED roster
  BY <1>3 DEF RosterInv, NoneListedTwice, ListedIsIndexed, Members
<1> QED
  BY <1>1, <1>2, <1>3
  DEF Handle, Publish, PublishClone, PublishCommit, PublishPush, PublishError,
     CreateRepo, CreateUndo, DeleteMissionRepo, AssignSend, RemoveSend, TaskNotify,
     TaskRegister, TrustUnassigned, TrustAgain, TrustJoin, memory

LEMMA HandleKeepsOneByOne ==
  ASSUME OneByOneInv, ControlTypeOK, NEW p \in Writer, Handle(p), ~TrustPanics(p)
  PROVE  ExclusiveAlone' /\ ExclusiveCurrent' /\ RosterInv'
<1>1. HandlersTypeOK /\ ExclusiveAlone /\ ExclusiveCurrent
  BY DEF ControlTypeOK, OneByOneInv
<1>2. RosterInv'
  BY HandleKeepsRosters DEF OneByOneInv, RosterInv
<1>3. ExclusiveAlone' /\ ExclusiveCurrent'
  <2>1. CASE h' = [h EXCEPT ![p] = Idle]
    BY <1>1, <2>1, HandleMoves, MoveKeepsAlone, MoveKeepsCurrent
  <2>2. CASE UNCHANGED missions /\ UNCHANGED drones
    <3>1. CASE UNCHANGED h
      BY <1>1, <2>2, <3>1 DEF ExclusiveAlone, ExclusiveCurrent
    <3>2. ASSUME NEW x, h' = [h EXCEPT ![p] = x],
                 \/ h[p].op = "trust" /\ x.op = "trust"
                 \/ /\ x.op = h[p].op /\ x.slug = h[p].slug
                    /\ x.mission = h[p].mission /\ x.arg = h[p].arg
          PROVE  ExclusiveAlone' /\ ExclusiveCurrent'
      <4>1. h[p] # Idle /\ x.op = h[p].op
        <5>1. h[p] # Idle
          BY <1>1, HandleMoves
        <5> QED
          BY <3>2, <5>1
      <4>2. ExclusiveAlone'
        BY <1>1, <3>2, <4>1, MoveKeepsAlone
      <4>3. ExclusiveCurrent'
        BY <1>1, <2>2, <3>2, <4>1, MoveKeepsCurrent DEF Exclusive
      <4> QED
        BY <4>2, <4>3
    <3> QED
      BY <1>1, <2>1, <3>1, <3>2, HandleMoves
  <2> QED
    BY <2>1, <2>2
    DEF Handle, Publish, PublishClone, PublishCommit, PublishPush, PublishError, CreateRepo,
       CreateUndo, CreateRegister, DeleteMissionRepo, DeleteForget, AssignSend, AssignRegister,
       RemoveSend, RemoveForget, TaskNotify, TaskRegister, TrustUnassigned, TrustAgain,
       TrustMark, TrustJoin, memory, Done
<1> QED
  BY <1>2, <1>3

LEMMA DronesKeepOneByOne ==
  ASSUME Exclusive \subseteq Alone,
         OneByOneInv, ControlTypeOK, NEW d \in Dev, DroneActs(d) \/ DroneSends(d)
  PROVE  ExclusiveAlone' /\ ExclusiveCurrent' /\ RosterInv'
<1>1. UNCHANGED missions /\ UNCHANGED drones
  BY DEF DroneActs, DroneTrusts, DroneJoins, DroneLeaves, DroneSends, DroneReports,
     DroneForgets, MissionState, MissionStateUnknown, Arrives, memory
<1>2. RosterInv'
  <2>1. CASE UNCHANGED roster
    BY <1>1, <2>1
    DEF OneByOneInv, RosterInv, NoneListedTwice, ListedIsIndexed, Members
  <2>2. CASE \E r \in Slug \cup {NoSlug} : MissionState(d, r)
    BY <2>2, EventsKeepRosters DEF OneByOneInv, RosterInv
  <2> QED
    BY <2>1, <2>2 DEF DroneActs, DroneTrusts, DroneJoins, DroneLeaves, DroneSends,
       DroneReports, DroneForgets, MissionStateUnknown, Arrives, memory
<1>3. ASSUME NEW p \in Writer, DroneTrusts(p, d)
      PROVE  ExclusiveAlone' /\ ExclusiveCurrent'
  <2> DEFINE x == [op |-> "trust", at |-> "begin", slug |-> NoSlug, mission |-> 0, arg |-> d]
  <2>1. MayStart(p, "trust") /\ h' = [h EXCEPT ![p] = x]
    BY <1>3 DEF DroneTrusts
  <2>1a. x.op = "trust"
    OBVIOUS
  <2> HIDE DEF x
  <2>2. \A q \in Writer : h[q] # Idle => h[q].op \notin Exclusive
    BY <2>1 DEF MayStart
  <2>3. \A q \in Writer : h'[q] = IF q = p THEN x ELSE h[q]
    BY <2>1 DEF ControlTypeOK, HandlersTypeOK
  <2> QED
    BY <2>1a, <2>2, <2>3 DEF ExclusiveAlone, ExclusiveCurrent, Exclusive
<1>4. UNCHANGED h => ExclusiveAlone' /\ ExclusiveCurrent'
  BY <1>1 DEF OneByOneInv, ExclusiveAlone, ExclusiveCurrent
<1>5. ExclusiveAlone' /\ ExclusiveCurrent'
  BY <1>3, <1>4 DEF DroneActs, DroneJoins, DroneLeaves, DroneSends, DroneReports,
     DroneForgets, MissionState, MissionStateUnknown, Arrives
<1> QED
  BY <1>2, <1>5

LEMMA DeathKeepsOneByOne ==
  ASSUME OneByOneInv, LoseMemory, UNCHANGED heap, ControlTypeOK
  PROVE  OneByOneInv'
<1>1. /\ \A q \in Writer : h'[q] = Idle
      /\ \A s \in Slug : missions'[s] = 0
      /\ \A m \in Address : roster'[m] = {}
  BY DEF LoseMemory
<1>2. heap \in Nat /\ heap' = heap
  BY DEF ControlTypeOK, MemoryTypeOK
<1> QED
  BY <1>1, <1>2 DEF OneByOneInv, ExclusiveAlone, ExclusiveCurrent, AddressesApart,
     NoneListedTwice, ListedIsIndexed, Members

LEMMA NextKeepsOneByOne ==
  ASSUME Exclusive \subseteq Alone, RemovalsNameMission,
         OneByOneInv, ControlTypeOK, MissionNext
  PROVE  OneByOneInv'
<1>1. CASE \E p \in Writer : Ask(p)
  BY <1>1, AskKeepsOneByOne DEF ControlTypeOK
<1>2. CASE \E p \in Writer : TrustPanics(p)
  BY <1>2, DeathKeepsOneByOne DEF TrustPanics
<1>2a. AddressesApart'
  <2>1. \A p \in Writer : AssignRegister(p) => missions[h[p].slug] = h[p].mission
    BY DEF AssignRegister, At, OneByOneInv, ExclusiveCurrent, Exclusive
  <2> QED
    BY <2>1, NextKeepsApart DEF OneByOneInv
<1>3. CASE \E p \in Writer : Handle(p) /\ ~TrustPanics(p)
  BY <1>2a, <1>3, HandleKeepsOneByOne DEF OneByOneInv, RosterInv
<1>4. CASE \E d \in Dev : DroneActs(d) \/ DroneSends(d)
  BY <1>2a, <1>4, DronesKeepOneByOne DEF OneByOneInv, RosterInv
<1>5. CASE Crash
  BY <1>5, DeathKeepsOneByOne DEF Crash
<1>6. CASE Restart
  BY <1>6 DEF Restart, memory, OneByOneInv, ExclusiveAlone, ExclusiveCurrent, AddressesApart,
     NoneListedTwice, ListedIsIndexed, Members
<1> QED
  BY <1>1, <1>2, <1>3, <1>4, <1>5, <1>6 DEF MissionNext

LEMMA OneByOneInvariant ==
  ASSUME Exclusive \subseteq Alone
  PROVE  MissionSpec /\ [][RemovalsNameMission]_missionVars => []OneByOneInv
<1>1. MissionInit => OneByOneInv
  BY DEF MissionInit, OneByOneInv, ExclusiveAlone, ExclusiveCurrent, AddressesApart,
     NoneListedTwice, ListedIsIndexed, Members
<1>2. OneByOneInv /\ ControlTypeOK /\ [MissionNext]_missionVars
      /\ [RemovalsNameMission]_missionVars => OneByOneInv'
  <2>1. CASE UNCHANGED missionVars
    BY <2>1 DEF missionVars, memory, OneByOneInv, ExclusiveAlone, ExclusiveCurrent,
       AddressesApart, NoneListedTwice, ListedIsIndexed, Members
  <2> QED
    BY <2>1, NextKeepsOneByOne
<1>3. MissionSpec => []ControlTypeOK
  BY ControlTypeCorrect
<1> QED
  BY <1>1, <1>2, <1>3, PTL DEF MissionSpec

\* Where there is one mission, there is no other to remove a drone from.
LEMMA OneMissionIsNamed ==
  ASSUME \A s, t \in Slug : s = t
  PROVE  MissionSpec => [][RemovalsNameMission]_missionVars
<1>1. ASSUME ControlTypeOK PROVE RemovalsNameMission
  BY <1>1 DEF RemovalsNameMission, RemoveDrone, ControlTypeOK, MemoryTypeOK
<1> QED  BY <1>1, ControlTypeCorrect, PTL

\* A drone that a mission lists is known to be assigned to it, where requests
\* about drones and deletions are made one at a time and a drone is removed
\* from the mission it is in.
THEOREM ListedAlwaysIndexed ==
  ASSUME Exclusive \subseteq Alone
  PROVE  MissionSpec /\ [][RemovalsNameMission]_missionVars => []ListedIsIndexed
<1>1. OneByOneInv => ListedIsIndexed
  BY DEF OneByOneInv
<1> QED
  BY <1>1, OneByOneInvariant, PTL

\* And it is listed by that mission alone, once.
THEOREM AlwaysOneMissionPerDrone ==
  ASSUME Exclusive \subseteq Alone
  PROVE  MissionSpec /\ [][RemovalsNameMission]_missionVars => []OneMissionPerDrone
<1>1. OneByOneInv /\ ControlTypeOK => OneMissionPerDrone
  <2>1. SUFFICES ASSUME OneByOneInv, ControlTypeOK, NEW s \in Slug, NEW t \in Slug,
                        NEW e \in Members(s), NEW f \in Members(t), e.dev = f.dev
                 PROVE  s = t /\ e = f
    BY DEF OneMissionPerDrone
  <2>2. s = t
    BY <2>1 DEF OneByOneInv, ListedIsIndexed
  <2>3. missions[s] \in Address /\ e \in roster[missions[s]] /\ f \in roster[missions[s]]
    BY <2>1, <2>2 DEF Members, ControlTypeOK, MemoryTypeOK
  <2> QED
    BY <2>1, <2>2, <2>3 DEF OneByOneInv, NoneListedTwice
<1> QED
  BY <1>1, OneByOneInvariant, ControlTypeCorrect, PTL

------------------------------------------------------------------------------
(* One at a time, without failures: the outbox tells the rosters *)

\* The last word on a drone in a log that is extended is that of the commit
\* appended, if it is about the drone, and the one there was otherwise.
LEMMA AppendSpeaks ==
  ASSUME NEW log \in Seq(Commit), NEW c \in Commit, NEW d,
         About(log, d) # {} =>
           \E i \in About(log, d) : \A j \in About(log, d) : j <= i
  PROVE  /\ About(Append(log, c), d) # {} =>
              \E i \in About(Append(log, c), d) : \A j \in About(Append(log, c), d) : j <= i
         /\ c.msg \in [type: {"trust", "remove"}, name: {d}] =>
              LastWordIn(Append(log, c), d) = c.msg.type
         /\ c.msg \notin [type: {"trust", "remove"}, name: {d}] =>
              LastWordIn(Append(log, c), d) = LastWordIn(log, d)
<1> DEFINE longer == Append(log, c)
           words == [type: {"trust", "remove"}, name: {d}]
<1>1. /\ Len(log) \in Nat
      /\ DOMAIN log = 1..Len(log) /\ DOMAIN longer = 1..(Len(log) + 1)
      /\ \A i \in DOMAIN log : longer[i] = log[i]
      /\ longer[Len(log) + 1] = c
  BY AppendKeeps
<1> HIDE DEF longer, words
<1>2. PICK n \in Nat : n = Len(log)
  BY <1>1
<1>3. CASE c.msg \in words
  <2>1. n + 1 \in About(longer, d) /\ \A j \in About(longer, d) : j <= n + 1
    BY <1>1, <1>2, <1>3 DEF About, words
  <2>2. \A i \in About(longer, d) : (\A j \in About(longer, d) : j <= i) => i = n + 1
    <3>1. \A i \in About(longer, d) : i \in 1..(n + 1)
      BY <1>1, <1>2 DEF About
    <3> QED
      BY <1>2, <2>1, <3>1
  <2>3. LastIn(longer, d) = n + 1
    BY <2>1, <2>2 DEF LastIn
  <2>4. LastWordIn(longer, d) = c.msg.type
    BY <1>1, <1>2, <2>1, <2>3 DEF LastWordIn
  <2> QED
    BY <1>3, <2>1, <2>4 DEF longer, words
<1>4. CASE c.msg \notin words
  <2>1. About(longer, d) = About(log, d)
    <3>1. \A i \in DOMAIN longer :
            longer[i].msg \in words <=> i \in DOMAIN log /\ log[i].msg \in words
      BY <1>1, <1>2, <1>4
    <3>2. DOMAIN log \subseteq DOMAIN longer
      BY <1>1, <1>2
    <3> QED
      BY <3>1, <3>2 DEF About, words
  <2>2. LastIn(longer, d) = LastIn(log, d)
    BY <2>1 DEF LastIn
  <2>3. CASE About(log, d) = {}
    BY <1>4, <2>1, <2>3 DEF LastWordIn, longer, words
  <2>4. CASE About(log, d) # {}
    <3>1. LastIn(log, d) \in About(log, d)
      BY <2>4 DEF LastIn
    <3>2. LastIn(log, d) \in DOMAIN log
      BY <3>1 DEF About
    <3>3. longer[LastIn(log, d)] = log[LastIn(log, d)]
      BY <1>1, <3>2
    <3>4. LastWordIn(longer, d) = LastWordIn(log, d)
      BY <2>1, <2>2, <3>3 DEF LastWordIn
    <3> QED
      BY <1>4, <2>1, <2>4, <3>4 DEF longer, words
  <2> QED
    BY <2>3, <2>4
<1> QED
  BY <1>3, <1>4 DEF words

LEMMA EmptyIsSilent ==
  ASSUME NEW d
  PROVE  About(<< >>, d) = {} /\ LastWordIn(<< >>, d) = "remove"
  BY DEF About, LastWordIn

\* Where the outbox and a roster may differ, and where a mission is yet to be
\* registered.
AboutToTrust(x) == x # Idle /\ x.op = "trust" /\ x.at = "publish"
HasRemoved(x) == x # Idle /\ x.op = "remove" /\ x.at # "publish"
HasConfig(x) == x # Idle /\ x.op = "create" /\ x.at = "published"

\* A handler that is alone goes on without a word about a drone.
LEMMA SilentMove ==
  ASSUME TellsInv, HandlersTypeOK, NEW p \in Writer, NEW x,
         h' = [h EXCEPT ![p] = x], \A q \in Writer : q # p => h[q] = Idle,
         UNCHANGED missions, UNCHANGED roster, UNCHANGED heap, UNCHANGED main,
         clone[p] = NoClone, clone' = clone,
         \A s : Removing(p, s) => Removing(p, s)',
         ~AboutToTrust(h[p]), ~AboutToTrust(x), ~HasConfig(x),
         \/ ~HasRemoved(h[p]) /\ ~HasRemoved(x)
         \/ HasRemoved(h[p]) /\ HasRemoved(x) /\ x.slug = h[p].slug /\ x.arg = h[p].arg
  PROVE  TellsInv'
<1>1. \A q \in Writer : h'[q] = IF q = p THEN x ELSE Idle
  BY DEF HandlersTypeOK
<1>2. AllAlone' /\ AddressesApart' /\ CloneIsCurrent' /\ HasLast'
  BY <1>1 DEF TellsInv, AllAlone, AddressesApart, CloneIsCurrent, HasLast
<1>3. InStep'
  <2>1. SUFFICES ASSUME NEW s \in Slug, NEW d \in Dev, missions[s] # 0,
                        ~\E q \in Writer : Removing(q, s)'
                 PROVE  /\ Announcing(s, d)' => TrustedIn(s, d)'
                        /\ Withdrawn(s, d)' => LastWord(s, d)' # "trust"
                        /\ ~Announcing(s, d)' /\ ~Withdrawn(s, d)' =>
                             (LastWord(s, d)' = "trust" <=> TrustedIn(s, d)')
    BY DEF InStep
  <2>2. ~\E q \in Writer : Removing(q, s)
    BY <2>1 DEF Removing
  <2>3. ~Announcing(s, d) /\ ~Announcing(s, d)'
    BY <1>1 DEF Announcing, AboutToTrust
  <2>4. Withdrawn(s, d)' <=> Withdrawn(s, d)
    BY <1>1 DEF Withdrawn, HasRemoved
  <2>5. (TrustedIn(s, d)' <=> TrustedIn(s, d)) /\ LastWord(s, d)' = LastWord(s, d)
    BY DEF TrustedIn, Members, LastWord
  <2> QED
    BY <2>1, <2>2, <2>3, <2>4, <2>5 DEF TellsInv, InStep
<1>4. StartsSilent'
  BY <1>1 DEF StartsSilent, Creating, HasConfig
<1> QED
  BY <1>2, <1>3, <1>4 DEF TellsInv

\* While a handler runs, every other goroutine is idle and has no working copy.
LEMMA AloneAtWork ==
  ASSUME TellsInv, HistoryInv, NEW p \in Writer, h[p] # Idle
  PROVE  \A q \in Writer : q # p => h[q] = Idle /\ clone[q] = NoClone
  BY DEF TellsInv, AllAlone, HistoryInv, CloneServesHandler

\* Handlers start while nothing else runs, with nothing said.
LEMMA StartTells ==
  ASSUME TellsInv, HistoryInv, HandlersTypeOK, NEW p \in Writer, NEW x,
         \A q \in Writer : h[q] = Idle,
         h' = [h EXCEPT ![p] = x], x # Idle,
         x.op = "trust" => x.at = "begin",
         x.op = "remove" => x.at = "publish",
         x.op = "create" => x.at = "begin",
         UNCHANGED missions, UNCHANGED roster, UNCHANGED heap, UNCHANGED main,
         UNCHANGED clone
  PROVE  TellsInv'
<1>1. clone[p] = NoClone
  BY DEF HistoryInv, CloneServesHandler
<1>2. \A s : ~Removing(p, s)
  BY DEF Removing
<1> QED
  BY <1>1, <1>2, SilentMove DEF AboutToTrust, HasRemoved, HasConfig

OneAtATime == {"create", "delete", "assign", "remove", "task", "trust"} \subseteq Alone

LEMMA StartsQuiet ==
  ASSUME OneAtATime, NEW p \in Writer, NEW op, MayStart(p, op),
         op \in {"create", "delete", "assign", "remove", "task", "trust"}
  PROVE  \A q \in Writer : h[q] = Idle
  BY DEF MayStart, OneAtATime

LEMMA AskTells ==
  ASSUME OneAtATime, TellsInv, HistoryInv, HandlersTypeOK, NEW p \in Writer, Ask(p)
  PROVE  TellsInv'
<1>1. ASSUME NEW op \in {"create", "delete", "assign", "remove", "task"}, NEW at, NEW s, NEW a,
             Request(p, op, at, s, a),
             op = "remove" => at = "publish",
             op = "create" => at = "begin"
      PROVE  TellsInv'
  <2> DEFINE x == [op |-> op, at |-> at, slug |-> s, mission |-> missions[s], arg |-> a]
  <2>1. /\ MayStart(p, op) /\ h' = [h EXCEPT ![p] = x]
        /\ UNCHANGED missions /\ UNCHANGED roster /\ UNCHANGED heap
        /\ UNCHANGED main /\ UNCHANGED clone
    BY <1>1 DEF Request, Enter, memory, outboxVars
  <2>2. x # Idle /\ x.op = op /\ x.at = at
    BY DEF Idle
  <2> HIDE DEF x
  <2>3. \A q \in Writer : h[q] = Idle
    BY <2>1, StartsQuiet
  <2> QED
    BY <1>1, <2>1, <2>2, <2>3, StartTells
<1>2. PICK s \in Slug :
        \/ CreateMission(p, s) \/ DeleteMission(p, s)
        \/ \E d \in Dev : AssignDrone(p, s, d) \/ RemoveDrone(p, s, d)
        \/ \E t \in Task : AddTask(p, s, t)
  BY DEF Ask
<1> QED
  BY <1>1, <1>2 DEF CreateMission, DeleteMission, AssignDrone, RemoveDrone, AddTask

\* A commit is about a drone exactly if its handler trusts or removes it.
LEMMA AnnouncesDrone ==
  ASSUME NEW x \in Handler, x.at = "publish", NEW d \in Dev
  PROVE  /\ Announcement(x) \in [type: {"trust", "remove"}, name: {d}] <=>
              x.op \in {"trust", "remove"} /\ x.arg = d
         /\ x.op \in {"trust", "remove"} => Announcement(x).type = x.op
<1>1. CASE x.op = "create"
  <2>1. [type: {"trust", "remove"}, name: {d}] \subseteq Outgoing
    BY DEF Outgoing
  <2>2. Config \notin [type: {"trust", "remove"}, name: {d}]
    BY <2>1, MissionAssumption, OutboxAssumption
  <2> QED
    BY <1>1, <2>2 DEF Announcement
<1>2. CASE x.op # "create"
  BY <1>2 DEF Announcement
<1> QED
  BY <1>1, <1>2

\* The push of a handler that is alone is what brings the outbox in step with
\* a drone just trusted, and ahead of the removal of one.
LEMMA PushTells ==
  ASSUME TellsInv, SafeInv, OutboxInv, HistoryInv, NEW p \in Writer, PublishPush(p)
  PROVE  TellsInv'
<1>1. PICK s \in Slug, c \in Commit :
        /\ h[p] # Idle /\ s = h[p].slug /\ s \in repos
        /\ main[s] \in Seq(Commit)
        /\ c.msg = Announcement(h[p])
        /\ \A t \in Slug : main'[t] = IF t = s THEN Append(main[s], c) ELSE main[t]
        /\ \A q \in Writer : clone'[q] = IF q = p THEN NoClone ELSE clone[q]
  BY PushAnnounces DEF PublishPush, SafeInv
<1>2. /\ HandlersTypeOK /\ h[p] \in Handler /\ h[p].at = "publish"
      /\ UNCHANGED missions /\ UNCHANGED roster /\ UNCHANGED heap
  BY <1>1, Busy DEF SafeInv, ControlTypeOK, PublishPush, Publishing, memory
<1>3. \A q \in Writer : q # p => h[q] = Idle /\ clone[q] = NoClone
  BY <1>1, AloneAtWork
<1>4. PICK x :
        /\ h' = [h EXCEPT ![p] = x]
        /\ x # Idle /\ x.op = h[p].op /\ x.slug = s /\ x.arg = h[p].arg /\ x.at = "published"
  <2> DEFINE y == [op |-> h[p].op, at |-> "published", slug |-> h[p].slug,
                   mission |-> h[p].mission, arg |-> h[p].arg]
  <2>1. h' = [h EXCEPT ![p] = y]
    BY DEF PublishPush, Goto
  <2>2. y # Idle /\ y.op = h[p].op /\ y.slug = s /\ y.arg = h[p].arg /\ y.at = "published"
    BY <1>1 DEF Idle
  <2> HIDE DEF y
  <2> QED
    BY <2>1, <2>2
<1>5. \A q \in Writer : h'[q] = IF q = p THEN x ELSE Idle
  BY <1>2, <1>3, <1>4 DEF HandlersTypeOK
<1>6. h[p].op # "delete"
  BY <1>2, HandlerFields
<1>7. \A q \in Writer : \A t : ~Removing(q, t)
  BY <1>3, <1>6 DEF Removing
<1> DEFINE mine(d) == h[p].op \in {"trust", "remove"} /\ h[p].arg = d
<1>8. \A d \in Dev :
        /\ About(main'[s], d) # {} =>
             \E i \in About(main'[s], d) : \A j \in About(main'[s], d) : j <= i
        /\ mine(d) => LastWord(s, d)' = h[p].op
        /\ ~mine(d) => LastWord(s, d)' = LastWord(s, d)
  <2>1. SUFFICES ASSUME NEW d \in Dev
                 PROVE  /\ About(main'[s], d) # {} =>
                             \E i \in About(main'[s], d) : \A j \in About(main'[s], d) : j <= i
                        /\ mine(d) => LastWord(s, d)' = h[p].op
                        /\ ~mine(d) => LastWord(s, d)' = LastWord(s, d)
    OBVIOUS
  <2>2. PICK log \in Seq(Commit) : log = main[s]
    BY <1>1
  <2>3. main'[s] = Append(log, c)
    BY <1>1, <2>2
  <2>4. About(log, d) # {} => \E i \in About(log, d) : \A j \in About(log, d) : j <= i
    BY <2>2 DEF TellsInv, HasLast
  <2>5. /\ c.msg \in [type: {"trust", "remove"}, name: {d}] <=> mine(d)
        /\ mine(d) => c.msg.type = h[p].op
    BY <1>1, <1>2, AnnouncesDrone
  <2>6. LastWord(s, d) = LastWordIn(log, d) /\ LastWord(s, d)' = LastWordIn(Append(log, c), d)
    BY <2>2, <2>3 DEF LastWord
  <2> HIDE DEF mine
  <2> QED
    BY <2>3, <2>4, <2>5, <2>6, AppendSpeaks
<1>9. \A t \in Slug : t # s => main'[t] = main[t] /\ \A d : LastWord(t, d)' = LastWord(t, d)
  BY <1>1 DEF LastWord
<1>10. AllAlone' /\ AddressesApart' /\ CloneIsCurrent' /\ HasLast'
  <2>1. HasLast'
    BY <1>8, <1>9 DEF TellsInv, HasLast
  <2> QED
    BY <1>1, <1>2, <1>3, <1>5, <2>1
    DEF TellsInv, AllAlone, AddressesApart, CloneIsCurrent
<1>11. InStep'
  <2>1. SUFFICES ASSUME NEW t \in Slug, NEW d \in Dev, missions[t] # 0
                 PROVE  /\ Announcing(t, d)' => TrustedIn(t, d)'
                        /\ Withdrawn(t, d)' => LastWord(t, d)' # "trust"
                        /\ ~Announcing(t, d)' /\ ~Withdrawn(t, d)' =>
                             (LastWord(t, d)' = "trust" <=> TrustedIn(t, d)')
    BY <1>2 DEF InStep
  <2>2. /\ Announcing(t, d) => TrustedIn(t, d)
        /\ ~Announcing(t, d) /\ ~Withdrawn(t, d) =>
             (LastWord(t, d) = "trust" <=> TrustedIn(t, d))
    BY <1>7, <2>1 DEF TellsInv, InStep
  <2>3. TrustedIn(t, d)' <=> TrustedIn(t, d)
    BY <1>2 DEF TrustedIn, Members
  <2>4. /\ ~Announcing(t, d)' /\ ~Withdrawn(t, d)
        /\ Announcing(t, d) <=> h[p].op = "trust" /\ t = s /\ h[p].arg = d
        /\ Withdrawn(t, d)' <=> h[p].op = "remove" /\ t = s /\ h[p].arg = d
    <3>1. ~Announcing(t, d)'
      BY <1>4, <1>5 DEF Announcing
    <3>2. ~Withdrawn(t, d)
      BY <1>2, <1>3 DEF Withdrawn
    <3>3. Announcing(t, d) <=> h[p].op = "trust" /\ t = s /\ h[p].arg = d
      BY <1>1, <1>2, <1>3 DEF Announcing
    <3>4. Withdrawn(t, d)' <=> h[p].op = "remove" /\ t = s /\ h[p].arg = d
      BY <1>4, <1>5 DEF Withdrawn
    <3> QED
      BY <3>1, <3>2, <3>3, <3>4
  <2> QED
    BY <1>8, <1>9, <2>2, <2>3, <2>4
<1>12. StartsSilent'
  <2>1. SUFFICES ASSUME h[p].op = "create", NEW d \in Dev
                 PROVE  LastWord(s, d)' # "trust"
    BY <1>4, <1>5 DEF StartsSilent, Creating
  <2>2. main[s] = << >>
    BY <1>1, <1>2, <2>1 DEF HistoryInv, CreatedIsEmpty, Creating
  <2>3. LastWord(s, d) = "remove"
    BY <2>2, EmptyIsSilent DEF LastWord
  <2> QED
    BY <1>8, <2>1, <2>3
<1> QED
  BY <1>10, <1>11, <1>12 DEF TellsInv

\* Nor can the publication of a handler that is alone fail by itself.
LEMMA NoPublishError ==
  ASSUME "git" \notin Faults, "rm" \notin Faults,
         TellsInv, SafeInv, OutboxInv, HistoryInv, NEW p \in Writer
  PROVE  ~PublishError(p)
<1>1. SUFFICES ASSUME PublishError(p)  PROVE FALSE
  OBVIOUS
<1>2. h[p] # Idle /\ h[p].at = "publish" /\ h[p] \in Handler
  BY <1>1, Busy DEF PublishError, Publishing, SafeInv, ControlTypeOK
<1>3. h[p].slug \in repos
  <2>1. CASE h[p].op = "create"
    <3>1. h[p].slug \in Slug
      BY <1>2, <2>1, HandlerFields
    <3> QED
      BY <1>2, <2>1, <3>1 DEF SafeInv, LifecycleInv, CreatorOwnsSlug, Creating
  <2>2. CASE h[p].op # "create"
    <3>1. h[p].slug \in Slug /\ h[p].op # "delete"
      BY <1>2, <2>2, HandlerFields
    <3>2. missions[h[p].slug] # 0
      BY <1>2, <2>2, ServesRegistered DEF SafeInv, ControlTypeOK
    <3>3. \A q \in Writer : \A t : ~Removing(q, t)
      BY <1>2, <3>1 DEF TellsInv, AllAlone, Removing
    <3> QED
      BY <3>1, <3>2, <3>3 DEF SafeInv, LifecycleInv, MissionsHaveRepos
  <2> QED
    BY <2>1, <2>2
<1>4. ~GitPushUncleaned(p) /\ ~GitFault(p)
  BY DEF GitPushUncleaned, GitFault
<1>5. ~GitRefused(p)
  <2>1. SUFFICES ASSUME GitRefused(p)  PROVE FALSE
    OBVIOUS
  <2>2. clone[p] # NoClone
    BY <2>1 DEF GitRefused, NoClone
  <2>3. clone[p].slug = h[p].slug /\ clone[p].base = main[clone[p].slug]
    BY <2>2 DEF HistoryInv, CloneServesHandler, TellsInv, CloneIsCurrent
  <2> QED
    BY <1>3, <2>1, <2>3 DEF GitRefused, FastForward
<1> QED
  BY <1>1, <1>3, <1>4, <1>5 DEF PublishError

\* A step of no handler that leaves the outbox and the drones' trust alone.
LEMMA SameStory ==
  ASSUME TellsInv, UNCHANGED main, UNCHANGED h, UNCHANGED missions,
         AddressesApart', CloneIsCurrent',
         \A s \in Slug, d \in Dev : TrustedIn(s, d)' <=> TrustedIn(s, d)
  PROVE  TellsInv'
<1>1. AllAlone' /\ HasLast'
  BY DEF TellsInv, AllAlone, HasLast
<1>2. InStep'
  <2>1. SUFFICES ASSUME NEW s \in Slug, NEW d \in Dev, missions[s] # 0,
                        ~\E q \in Writer : Removing(q, s)
                 PROVE  /\ Announcing(s, d)' => TrustedIn(s, d)'
                        /\ Withdrawn(s, d)' => LastWord(s, d)' # "trust"
                        /\ ~Announcing(s, d)' /\ ~Withdrawn(s, d)' =>
                             (LastWord(s, d)' = "trust" <=> TrustedIn(s, d)')
    BY DEF InStep, Removing
  <2>2. /\ Announcing(s, d)' <=> Announcing(s, d)
        /\ Withdrawn(s, d)' <=> Withdrawn(s, d)
        /\ LastWord(s, d)' = LastWord(s, d)
    BY DEF Announcing, Withdrawn, LastWord
  <2>3. TrustedIn(s, d)' <=> TrustedIn(s, d)
    OBVIOUS
  <2> QED
    BY <2>1, <2>2, <2>3 DEF TellsInv, InStep
<1>3. StartsSilent'
  BY DEF TellsInv, StartsSilent, Creating, LastWord
<1> QED
  BY <1>1, <1>2, <1>3 DEF TellsInv

\* A clone is made of what main is, and nobody else pushes meanwhile.
LEMMA CloneTells ==
  ASSUME TellsInv, OutboxInv, NEW p \in Writer, PublishClone(p) \/ PublishCommit(p)
  PROVE  TellsInv'
<1>1. /\ UNCHANGED main /\ UNCHANGED h /\ UNCHANGED missions /\ UNCHANGED roster
      /\ UNCHANGED heap
  BY DEF PublishClone, PublishCommit, GitClone, GitCommit, memory
<1>1a. AddressesApart' /\ \A s \in Slug, d \in Dev : TrustedIn(s, d)' <=> TrustedIn(s, d)
  BY <1>1 DEF TellsInv, AddressesApart, TrustedIn, Members
<1>2. clone \in [Writer -> {NoClone} \cup Clones]
  BY DEF OutboxInv, OutboxTypeOK
<1>3. ASSUME NEW y, clone' = [clone EXCEPT ![p] = y], y.base = main[y.slug]
      PROVE  CloneIsCurrent'
  <2>1. \A q \in Writer : clone'[q] = IF q = p THEN y ELSE clone[q]
    BY <1>2, <1>3
  <2> QED
    BY <1>1, <1>3, <2>1 DEF TellsInv, CloneIsCurrent
<1>4. CASE PublishClone(p)
  <2> DEFINE y == [stage |-> "cloned", slug |-> h[p].slug, base |-> main[h[p].slug],
                   msg |-> Announcement(h[p]), at |-> 0]
  <2>1. clone' = [clone EXCEPT ![p] = y]
    BY <1>4 DEF PublishClone, GitClone
  <2>2. y.base = main[y.slug]
    OBVIOUS
  <2> HIDE DEF y
  <2>3. CloneIsCurrent'
    BY <1>3, <2>1, <2>2
  <2> QED
    BY <1>1, <1>1a, <2>3, SameStory
<1>5. CASE PublishCommit(p)
  <2> DEFINE y == [stage |-> "committed", slug |-> clone[p].slug,
                   base |-> clone[p].base, msg |-> clone[p].msg, at |-> clock']
  <2>1. clone' = [clone EXCEPT ![p] = y] /\ clone[p].stage = "cloned"
    BY <1>5 DEF PublishCommit, GitCommit
  <2>2. clone[p] # NoClone
    BY <2>1 DEF NoClone
  <2>3. y.base = main[y.slug]
    BY <2>2 DEF TellsInv, CloneIsCurrent
  <2> HIDE DEF y
  <2>4. CloneIsCurrent'
    BY <1>3, <2>1, <2>3
  <2> QED
    BY <1>1, <1>1a, <2>4, SameStory
<1> QED
  BY <1>4, <1>5

\* What holds of a mission and a drone with which the only handler at work has
\* no business.
LEMMA QuietBefore ==
  ASSUME TellsInv, NEW p \in Writer, \A q \in Writer : q # p => h[q] = Idle,
         ~AboutToTrust(h[p]), NEW s \in Slug, NEW d \in Dev, missions[s] # 0,
         ~(HasRemoved(h[p]) /\ h[p].slug = s /\ h[p].arg = d), ~Removing(p, s)
  PROVE  LastWord(s, d) = "trust" <=> TrustedIn(s, d)
<1>1. ~Announcing(s, d) /\ ~Withdrawn(s, d) /\ ~\E q \in Writer : Removing(q, s)
  BY DEF Announcing, Withdrawn, AboutToTrust, HasRemoved, Removing
<1> QED
  BY <1>1 DEF TellsInv, InStep

\* When the last handler ends, the two stories have to agree.
LEMMA EndTells ==
  ASSUME \A q \in Writer : h'[q] = Idle, \A q \in Writer : clone'[q] = NoClone,
         AddressesApart', HasLast',
         \A s \in Slug, d \in Dev : missions'[s] # 0 =>
           (LastWord(s, d)' = "trust" <=> TrustedIn(s, d)')
  PROVE  TellsInv'
<1>1. AllAlone' /\ CloneIsCurrent' /\ StartsSilent'
  BY DEF AllAlone, CloneIsCurrent, StartsSilent, Creating
<1>2. InStep'
  <2>1. SUFFICES ASSUME NEW s \in Slug, NEW d \in Dev, missions'[s] # 0
                 PROVE  /\ Announcing(s, d)' => TrustedIn(s, d)'
                        /\ Withdrawn(s, d)' => LastWord(s, d)' # "trust"
                        /\ ~Announcing(s, d)' /\ ~Withdrawn(s, d)' =>
                             (LastWord(s, d)' = "trust" <=> TrustedIn(s, d)')
    BY DEF InStep
  <2>2. ~Announcing(s, d)' /\ ~Withdrawn(s, d)'
    BY DEF Announcing, Withdrawn
  <2>3. LastWord(s, d)' = "trust" <=> TrustedIn(s, d)'
    BY <2>1
  <2> QED
    BY <2>2, <2>3
<1> QED
  BY <1>1, <1>2 DEF TellsInv

\* A handler that ends, alone, leaves nobody at work.
LEMMA EndsQuietly ==
  ASSUME TellsInv, HistoryInv, HandlersTypeOK, NEW p \in Writer, h[p] # Idle,
         h[p].at # "publish", Done(p), UNCHANGED clone
  PROVE  /\ \A q \in Writer : q # p => h[q] = Idle
         /\ \A q \in Writer : h'[q] = Idle
         /\ \A q \in Writer : clone'[q] = NoClone
  BY AloneAtWork, NothingInHand DEF Done, HandlersTypeOK

\* A handler goes on or ends, the outbox, the missions and the rosters being
\* as they were.
LEMMA GoOnTells ==
  ASSUME TellsInv, HistoryInv, HandlersTypeOK, NEW p \in Writer, h[p] # Idle,
         h[p].at # "publish",
         UNCHANGED missions, UNCHANGED roster, UNCHANGED heap, UNCHANGED main,
         UNCHANGED clone,
         \/ Done(p) /\ h[p].op \notin {"remove", "delete"}
         \/ \E at : /\ Goto(p, at)
                    /\ h[p].op = "trust" => at # "publish"
                    /\ h[p].op = "remove" => at # "publish"
                    /\ h[p].op = "create" => at # "published"
                    /\ h[p].op = "delete" => at = "finish"
  PROVE  TellsInv'
<1>1. \A q \in Writer : q # p => h[q] = Idle
  BY AloneAtWork
<1>2. clone[p] = NoClone
  BY NothingInHand
<1>3. CASE Done(p) /\ h[p].op \notin {"remove", "delete"}
  <2>1. \A s : ~Removing(p, s)
    BY <1>3 DEF Removing
  <2>2. h' = [h EXCEPT ![p] = Idle]
    BY <1>3 DEF Done
  <2>3. ~AboutToTrust(h[p]) /\ ~HasRemoved(h[p])
    BY <1>3 DEF AboutToTrust, HasRemoved
  <2>4. ~AboutToTrust(Idle) /\ ~HasRemoved(Idle) /\ ~HasConfig(Idle)
    BY DEF AboutToTrust, HasRemoved, HasConfig
  <2> QED
    BY <1>1, <1>2, <2>1, <2>2, <2>3, <2>4, SilentMove
<1>4. ASSUME NEW at, Goto(p, at),
             h[p].op = "trust" => at # "publish",
             h[p].op = "remove" => at # "publish",
             h[p].op = "create" => at # "published",
             h[p].op = "delete" => at = "finish"
      PROVE  TellsInv'
  <2> DEFINE x == [op |-> h[p].op, at |-> at, slug |-> h[p].slug,
                   mission |-> h[p].mission, arg |-> h[p].arg]
  <2>1. h' = [h EXCEPT ![p] = x]
    BY <1>4 DEF Goto
  <2>2. /\ x # Idle /\ x.op = h[p].op /\ x.at = at /\ x.slug = h[p].slug
        /\ x.arg = h[p].arg
    BY DEF Idle
  <2> HIDE DEF x
  <2>3. \A s : Removing(p, s) => Removing(p, s)'
    BY <1>4, <2>1, <2>2 DEF Removing, HandlersTypeOK
  <2>4. ~AboutToTrust(h[p]) /\ ~AboutToTrust(x) /\ ~HasConfig(x)
    BY <1>4, <2>2 DEF AboutToTrust, HasConfig
  <2>5. \/ ~HasRemoved(h[p]) /\ ~HasRemoved(x)
        \/ HasRemoved(h[p]) /\ HasRemoved(x) /\ x.slug = h[p].slug /\ x.arg = h[p].arg
    BY <1>4, <2>2 DEF HasRemoved
  <2> QED
    BY <1>1, <1>2, <2>1, <2>3, <2>4, <2>5, SilentMove
<1> QED
  BY <1>3, <1>4

LEMMA SmallStepsTell ==
  ASSUME "mqtt" \notin Faults, "reinit" \notin Faults,
         TellsInv, HistoryInv, ControlTypeOK, NEW p \in Writer,
         \/ CreateRepo(p) \/ AssignSend(p) \/ RemoveSend(p) \/ TaskNotify(p)
         \/ TaskRegister(p) \/ TrustUnassigned(p) \/ TrustAgain(p) \/ TrustJoin(p)
         \/ CreateUndo(p) /\ UNCHANGED outboxVars
         \/ DeleteMissionRepo(p) /\ UNCHANGED outboxVars
  PROVE  TellsInv'
<1>1. /\ h[p] # Idle /\ h[p].at # "publish" /\ HandlersTypeOK
      /\ UNCHANGED missions /\ UNCHANGED roster /\ UNCHANGED heap
      /\ UNCHANGED main /\ UNCHANGED clone
  BY DEF CreateRepo, InitBareRepo, AssignSend, RemoveSend, TaskNotify, TaskRegister,
     TrustUnassigned, TrustAgain, TrustJoin, TrustsBegin, CreateUndo, DeleteMissionRepo, At,
     ControlTypeOK, memory, outboxVars
<1>2. CASE CreateRepo(p) \/ CreateUndo(p)
  BY <1>1, <1>2, GoOnTells DEF CreateRepo, CreateUndo, At
<1>3. CASE AssignSend(p) \/ TaskNotify(p) \/ TaskRegister(p)
  BY <1>1, <1>3, GoOnTells DEF AssignSend, TaskNotify, TaskRegister, At
<1>4. CASE RemoveSend(p)
  <2>1. Goto(p, "finish")
    BY <1>4 DEF RemoveSend, SendCommand
  <2> QED
    BY <1>1, <1>4, <2>1, GoOnTells DEF RemoveSend, At
<1>5. CASE TrustUnassigned(p) \/ TrustAgain(p) \/ TrustJoin(p)
  BY <1>1, <1>5, GoOnTells DEF TrustUnassigned, TrustAgain, TrustJoin, TrustsBegin, At
<1>6. CASE DeleteMissionRepo(p)
  BY <1>1, <1>6, GoOnTells DEF DeleteMissionRepo, At
<1> QED
  BY <1>2, <1>3, <1>4, <1>5, <1>6

\* With its repository a mission loses its outbox: it is being deleted, or was
\* never registered.
LEMMA RepoGoneTells ==
  ASSUME TellsInv, SafeInv, OutboxInv, HistoryInv, NEW p \in Writer,
         CreateUndo(p) \/ DeleteMissionRepo(p), DeleteRepo(h[p].slug)
  PROVE  TellsInv'
<1>1. PICK s \in Slug :
        /\ h[p] # Idle /\ h[p].slug = s /\ h[p].at # "publish"
        /\ h[p].op \in {"create", "delete"} /\ HandlersTypeOK
        /\ UNCHANGED missions /\ UNCHANGED roster /\ UNCHANGED heap /\ UNCHANGED clone
  BY Busy, HandlerFields DEF CreateUndo, DeleteMissionRepo, DeleteRepo, At, memory,
     SafeInv, ControlTypeOK
<1>2. \A q \in Writer : q # p => h[q] = Idle
  BY <1>1, AloneAtWork
<1>3. \A q \in Writer : clone'[q] = NoClone
  BY <1>1, AloneAtWork, NothingInHand
<1>4. \A t \in Slug : main'[t] = IF t = s THEN << >> ELSE main[t]
  BY <1>1 DEF DeleteRepo, OutboxInv, OutboxTypeOK
<1>5. AddressesApart'
  BY <1>1 DEF TellsInv, AddressesApart
<1>6. HasLast'
  BY <1>4, EmptyIsSilent DEF TellsInv, HasLast
<1>7. \A t \in Slug, d \in Dev : missions[t] # 0 /\ t # s =>
        (LastWord(t, d)' = "trust" <=> TrustedIn(t, d)')
  <2>1. SUFFICES ASSUME NEW t \in Slug, NEW d \in Dev, missions[t] # 0, t # s
                 PROVE  LastWord(t, d)' = "trust" <=> TrustedIn(t, d)'
    OBVIOUS
  <2>2. ~AboutToTrust(h[p]) /\ ~HasRemoved(h[p]) /\ ~Removing(p, t)
    BY <1>1, <2>1 DEF AboutToTrust, HasRemoved, Removing
  <2>3. LastWord(t, d) = "trust" <=> TrustedIn(t, d)
    BY <1>2, <2>1, <2>2, QuietBefore
  <2>4. LastWord(t, d)' = LastWord(t, d) /\ (TrustedIn(t, d)' <=> TrustedIn(t, d))
    BY <1>1, <1>4, <2>1 DEF LastWord, TrustedIn, Members
  <2> QED
    BY <2>3, <2>4
<1>8. CASE CreateUndo(p)
  <2>1. missions[s] = 0
    BY <1>1, <1>8 DEF CreateUndo, At, SafeInv, LifecycleInv, CreatorOwnsSlug, Creating
  <2>2. \A q \in Writer : h'[q] = Idle
    BY <1>1, <1>2, <1>8 DEF CreateUndo, Done, HandlersTypeOK
  <2> QED
    BY <1>1, <1>3, <1>5, <1>6, <1>7, <2>1, <2>2, EndTells
<1>9. CASE DeleteMissionRepo(p)
  <2> DEFINE x == [op |-> h[p].op, at |-> "finish", slug |-> h[p].slug,
                   mission |-> h[p].mission, arg |-> h[p].arg]
  <2>1. h' = [h EXCEPT ![p] = x]
    BY <1>9 DEF DeleteMissionRepo, Goto
  <2>2. x # Idle /\ x.op = "delete" /\ x.at = "finish" /\ x.slug = s
    BY <1>1, <1>9 DEF Idle, DeleteMissionRepo, At
  <2> HIDE DEF x
  <2>3. \A q \in Writer : h'[q] = IF q = p THEN x ELSE Idle
    BY <1>1, <1>2, <2>1 DEF HandlersTypeOK
  <2>4. AllAlone' /\ CloneIsCurrent' /\ StartsSilent'
    BY <1>3, <2>2, <2>3 DEF AllAlone, CloneIsCurrent, StartsSilent, Creating
  <2>5. InStep'
    <3>1. SUFFICES ASSUME NEW t \in Slug, NEW d \in Dev, missions[t] # 0,
                          ~\E q \in Writer : Removing(q, t)'
                   PROVE  /\ Announcing(t, d)' => TrustedIn(t, d)'
                          /\ Withdrawn(t, d)' => LastWord(t, d)' # "trust"
                          /\ ~Announcing(t, d)' /\ ~Withdrawn(t, d)' =>
                               (LastWord(t, d)' = "trust" <=> TrustedIn(t, d)')
      BY <1>1 DEF InStep
    <3>2. t # s
      BY <2>2, <2>3, <3>1 DEF Removing
    <3>3. ~Announcing(t, d)' /\ ~Withdrawn(t, d)'
      BY <2>2, <2>3 DEF Announcing, Withdrawn
    <3>4. LastWord(t, d)' = "trust" <=> TrustedIn(t, d)'
      BY <1>7, <3>1, <3>2
    <3> QED
      BY <3>3, <3>4
  <2> QED
    BY <1>5, <1>6, <2>4, <2>5 DEF TellsInv
<1> QED
  BY <1>8, <1>9

\* The steps by which a request takes effect in memory.
LEMMA RegisterTells ==
  ASSUME TellsInv, SafeInv, HistoryInv, AddressesApart', NEW p \in Writer,
         \/ CreateRegister(p) \/ DeleteForget(p) \/ AssignRegister(p) \/ RemoveForget(p)
  PROVE  TellsInv'
<1> DEFINE s == h[p].slug
           m == h[p].mission
<1>1. /\ h[p] # Idle /\ h[p].at # "publish" /\ h[p].op # "trust" /\ s \in Slug
      /\ HandlersTypeOK /\ MemoryTypeOK /\ Done(p)
      /\ UNCHANGED clone /\ UNCHANGED main
  BY Busy, HandlerFields DEF CreateRegister, DeleteForget, AssignRegister, RemoveForget, At,
     SafeInv, ControlTypeOK, outboxVars
<1>2. /\ \A q \in Writer : q # p => h[q] = Idle
      /\ \A q \in Writer : h'[q] = Idle
      /\ \A q \in Writer : clone'[q] = NoClone
  BY <1>1, EndsQuietly
<1>3. HasLast'
  BY <1>1 DEF TellsInv, HasLast
<1>5. ~AboutToTrust(h[p])
  BY <1>1 DEF AboutToTrust
<1>6. \A n \in Slug : missions[n] # 0 => missions[n] \in Address
  BY <1>1 DEF MemoryTypeOK
<1>7. ASSUME NEW t \in Slug, NEW d \in Dev, missions'[t] # 0
      PROVE  LastWord(t, d) = "trust" <=> TrustedIn(t, d)'
  <2>1. CASE CreateRegister(p)
    <3>1. missions' = [missions EXCEPT ![s] = heap'] /\ UNCHANGED roster /\ h[p].op = "create"
      BY <2>1 DEF CreateRegister, At
    <3>2. CASE t = s
      <4>1. missions'[s] = heap' /\ roster[heap'] = {} /\ missions'[s] # 0
        <5>1. heap \in Nat /\ heap' = heap + 1 /\ heap' \in Address
          <6>1. Allocate
            BY <2>1 DEF CreateRegister
          <6> QED
            BY <1>1, <6>1, MissionAssumption DEF Allocate, Address, MemoryTypeOK
        <5>2. roster[heap'] = {}
          BY <5>1 DEF TellsInv, AddressesApart
        <5> QED
          BY <1>1, <1>7, <3>1, <3>2, <5>2 DEF MemoryTypeOK
      <4>2. ~TrustedIn(t, d)'
        <5>1. missions'[t] = heap' /\ roster'[heap'] = {}
          BY <3>1, <3>2, <4>1
        <5> QED
          BY <5>1 DEF TrustedIn, Members
      <4>3. Creating(p, t) /\ h[p].at = "published"
        BY <1>1, <2>1, <3>2 DEF CreateRegister, At, Creating
      <4>4. LastWord(t, d) # "trust"
        BY <4>3 DEF TellsInv, StartsSilent
      <4> QED
        BY <3>2, <4>2, <4>4
    <3>3. CASE t # s
      <4>1. missions'[t] = missions[t]
        BY <1>1, <3>1, <3>3 DEF MemoryTypeOK
      <4>2. LastWord(t, d) = "trust" <=> TrustedIn(t, d)
        BY <1>2, <1>5, <1>7, <3>1, <4>1, QuietBefore DEF HasRemoved, Removing
      <4> QED
        BY <3>1, <4>1, <4>2 DEF TrustedIn, Members
    <3> QED
      BY <3>2, <3>3
  <2>2. CASE DeleteForget(p)
    <3>1. missions' = [missions EXCEPT ![s] = 0] /\ UNCHANGED roster /\ h[p].op = "delete"
      BY <2>2 DEF DeleteForget, At
    <3>2. t # s /\ missions'[t] = missions[t]
      BY <1>1, <1>7, <3>1 DEF MemoryTypeOK
    <3>3. ~HasRemoved(h[p]) /\ ~Removing(p, t)
      BY <3>1, <3>2 DEF HasRemoved, Removing
    <3>4. LastWord(t, d) = "trust" <=> TrustedIn(t, d)
      BY <1>2, <1>5, <1>7, <3>2, <3>3, QuietBefore
    <3> QED
      BY <3>1, <3>2, <3>4 DEF TrustedIn, Members
  <2>3. CASE AssignRegister(p)
    <3> DEFINE x == [ref |-> heap', dev |-> h[p].arg, trusted |-> FALSE, status |-> ""]
    <3>1. roster' = [roster EXCEPT ![m] = @ \cup {x}] /\ UNCHANGED missions
      BY <2>3 DEF AssignRegister
    <3>2. h[p].op = "assign" /\ x.trusted = FALSE
      BY <2>3 DEF AssignRegister, At
    <3> HIDE DEF x, m
    <3>3. \A n \in Address : roster'[n] = IF n = m THEN roster[m] \cup {x} ELSE roster[n]
      BY <1>1, <3>1 DEF MemoryTypeOK
    <3>4. TrustedIn(t, d)' <=> TrustedIn(t, d)
      BY <1>6, <1>7, <3>1, <3>2, <3>3 DEF TrustedIn, Members
    <3>5. ~HasRemoved(h[p]) /\ ~Removing(p, t)
      BY <3>2 DEF HasRemoved, Removing
    <3> QED
      BY <1>2, <1>5, <1>7, <3>1, <3>4, <3>5, QuietBefore
  <2>4. CASE RemoveForget(p)
    <3>1. /\ roster' = [roster EXCEPT ![m] = {e \in @ : e.dev # h[p].arg}]
          /\ UNCHANGED missions /\ h[p].op = "remove" /\ h[p].at = "finish"
      BY <2>4 DEF RemoveForget, At
    <3>2. h[p].arg \in Dev /\ m \in Address /\ missions[s] = m /\ m # 0
      <4>1. m \in Address /\ h[p].arg \in Dev
        BY <1>1, <3>1, Busy, HandlerFields
      <4> QED
        BY <1>1, <4>1 DEF SafeInv, LifecycleInv, HeldIsRegistered, Address
    <3>3. \A n \in Address :
            roster'[n] = IF n = m THEN {e \in roster[m] : e.dev # h[p].arg} ELSE roster[n]
      BY <1>1, <3>1 DEF MemoryTypeOK
    <3>4. ~Removing(p, t)
      BY <3>1 DEF Removing
    <3> HIDE DEF m, s
    <3>5. CASE t = s /\ d = h[p].arg
      <4>1. Withdrawn(t, d) /\ ~\E q \in Writer : Removing(q, t)
        BY <1>1, <1>2, <3>1, <3>5 DEF Withdrawn, Removing, s
      <4>2. LastWord(t, d) # "trust"
        BY <1>7, <3>1, <4>1 DEF TellsInv, InStep
      <4>3. missions'[t] = m /\ \A e \in roster'[m] : e.dev # d
        <5>1. missions'[t] = m
          BY <3>1, <3>2, <3>5
        <5>2. roster'[m] = {e \in roster[m] : e.dev # h[p].arg}
          BY <3>2, <3>3
        <5> QED
          BY <3>5, <5>1, <5>2
      <4>4. ~TrustedIn(t, d)'
        <5>1. PICK n : n = m
          OBVIOUS
        <5>2. missions'[t] = n /\ \A e \in roster'[n] : e.dev # d
          BY <4>3, <5>1
        <5> QED
          BY <5>2 DEF TrustedIn, Members
      <4> QED
        BY <4>2, <4>4
    <3>6. CASE ~(t = s /\ d = h[p].arg)
      <4>1. LastWord(t, d) = "trust" <=> TrustedIn(t, d)
        BY <1>2, <1>5, <1>7, <3>1, <3>4, <3>6, QuietBefore DEF s
      <4>2. missions[t] = m => t = s
        BY <1>1, <3>2 DEF TellsInv, AddressesApart
      <4>3. TrustedIn(t, d)' <=> TrustedIn(t, d)
        BY <1>6, <1>7, <3>1, <3>3, <3>6, <4>2 DEF TrustedIn, Members
      <4> QED
        BY <4>1, <4>3
    <3> QED
      BY <3>5, <3>6
  <2> QED
    BY <2>1, <2>2, <2>3, <2>4
<1>8. \A t \in Slug, d \in Dev : missions'[t] # 0 =>
        (LastWord(t, d)' = "trust" <=> TrustedIn(t, d)')
  <2> HIDE DEF s, m
  <2>1. SUFFICES ASSUME NEW t \in Slug, NEW d \in Dev, missions'[t] # 0
                 PROVE  LastWord(t, d)' = "trust" <=> TrustedIn(t, d)'
    OBVIOUS
  <2>2. LastWord(t, d) = "trust" <=> TrustedIn(t, d)'
    BY <1>7, <2>1
  <2>3. LastWord(t, d)' = LastWord(t, d)
    BY <1>1 DEF LastWord
  <2> QED
    BY <2>2, <2>3
<1> QED
  BY <1>2, <1>3, <1>8, EndTells

\* A drone is trusted in its mission before that is published.
LEMMA TrustMarkTells ==
  ASSUME TellsInv, SafeInv, HistoryInv, AddressesApart', NEW p \in Writer, TrustMark(p)
  PROVE  TellsInv'
<1>1. PICK d \in Dev : h[p] # Idle /\ h[p].arg = d /\ h[p].op = "trust" /\ h[p].at = "begin"
  BY Busy, HandlerFields DEF TrustMark, TrustsBegin, At, SafeInv, ControlTypeOK
<1>2. PICK s \in Slug, m \in Address :
        drones[d] = s /\ missions[s] = m /\ m # 0 /\ d \in DeviceIn(m)
  <2>1. drones[d] # NoSlug
    BY <1>1 DEF TrustMark
  <2>2. missions[drones[d]] # 0 /\ d \in DeviceIn(missions[drones[d]])
    BY <2>1 DEF SafeInv, IndexNamesRoster
  <2>3. drones[d] \in Slug /\ missions[drones[d]] \in Address
    BY <2>1, <2>2 DEF SafeInv, ControlTypeOK, MemoryTypeOK
  <2> QED
    BY <2>2, <2>3
<1>3. HandlersTypeOK /\ MemoryTypeOK
  BY DEF SafeInv, ControlTypeOK
<1>4. PICK e \in roster[m] : \E y : e.dev = d /\ y.dev = d /\ y.trusted /\ Replace(m, e, y)
  <2>1. PICK e \in roster[m] :
          First(m, d, e) /\ Replace(m, e, [ref |-> e.ref, dev |-> d,
                                          trusted |-> TRUE, status |-> "unknown"])
    BY <1>1, <1>2 DEF TrustMark
  <2> DEFINE x == [ref |-> e.ref, dev |-> d, trusted |-> TRUE, status |-> "unknown"]
  <2>2. x.dev = d /\ x.trusted /\ e.dev = d
    BY <2>1 DEF First
  <2> HIDE DEF x
  <2> QED
    BY <2>1, <2>2 DEF x
<1>4a. PICK x : e.dev = d /\ x.dev = d /\ x.trusted /\ Replace(m, e, x)
  BY <1>4
<1>5. PICK y : /\ h' = [h EXCEPT ![p] = y]
               /\ y # Idle /\ y.op = "trust" /\ y.at = "publish" /\ y.slug = s /\ y.arg = d
  <2> DEFINE y == [op |-> "trust", at |-> "publish", slug |-> s,
                   mission |-> missions[s], arg |-> d]
  <2>1. h' = [h EXCEPT ![p] = y]
    BY <1>1, <1>2 DEF TrustMark, Enter
  <2>2. y # Idle /\ y.op = "trust" /\ y.at = "publish" /\ y.slug = s /\ y.arg = d
    BY DEF Idle
  <2> HIDE DEF y
  <2> QED
    BY <2>1, <2>2
<1>6. /\ UNCHANGED missions /\ UNCHANGED main /\ UNCHANGED clone
      /\ \A n \in Address : roster'[n] = IF n = m THEN (roster[m] \ {e}) \cup {x} ELSE roster[n]
  BY <1>2, <1>3, <1>4a DEF TrustMark, outboxVars, Replace, MemoryTypeOK
<1>7. /\ \A q \in Writer : q # p => h[q] = Idle
      /\ \A q \in Writer : clone[q] = NoClone
      /\ \A q \in Writer : h'[q] = IF q = p THEN y ELSE Idle
  BY <1>1, <1>3, <1>5, AloneAtWork, NothingInHand DEF HandlersTypeOK
<1>8. AllAlone' /\ CloneIsCurrent' /\ StartsSilent' /\ HasLast'
  <2>1. AllAlone' /\ CloneIsCurrent'
    BY <1>6, <1>7 DEF AllAlone, CloneIsCurrent
  <2>2. StartsSilent'
    BY <1>5, <1>7 DEF StartsSilent, Creating
  <2>3. HasLast'
    BY <1>6 DEF TellsInv, HasLast
  <2> QED
    BY <2>1, <2>2, <2>3
<1>9. InStep'
  <2>1. SUFFICES ASSUME NEW t \in Slug, NEW c \in Dev, missions[t] # 0
                 PROVE  /\ Announcing(t, c)' => TrustedIn(t, c)'
                        /\ Withdrawn(t, c)' => LastWord(t, c)' # "trust"
                        /\ ~Announcing(t, c)' /\ ~Withdrawn(t, c)' =>
                             (LastWord(t, c)' = "trust" <=> TrustedIn(t, c)')
    BY <1>6 DEF InStep
  <2>2. (Announcing(t, c)' <=> t = s /\ c = d) /\ ~Withdrawn(t, c)'
    BY <1>5, <1>7 DEF Announcing, Withdrawn
  <2>3. CASE t = s /\ c = d
    <3>1. TrustedIn(t, c)'
      BY <1>2, <1>4a, <1>6, <2>3 DEF TrustedIn, Members
    <3> QED
      BY <2>2, <2>3, <3>1
  <2>4. CASE ~(t = s /\ c = d)
    <3>1. ~AboutToTrust(h[p]) /\ ~HasRemoved(h[p]) /\ ~Removing(p, t)
      BY <1>1 DEF AboutToTrust, HasRemoved, Removing
    <3>2. LastWord(t, c) = "trust" <=> TrustedIn(t, c)
      BY <1>7, <2>1, <3>1, QuietBefore
    <3>3. missions[t] = m => t = s
      BY <1>2 DEF TellsInv, AddressesApart
    <3>4. missions[t] \in Address
      BY <1>3, <2>1 DEF MemoryTypeOK
    <3>5. TrustedIn(t, c)' <=> TrustedIn(t, c)
      BY <1>4a, <1>6, <2>1, <2>4, <3>3, <3>4 DEF TrustedIn, Members
    <3>6. LastWord(t, c)' = LastWord(t, c)
      BY <1>6 DEF LastWord
    <3> QED
      BY <2>2, <2>4, <3>2, <3>5, <3>6
  <2> QED
    BY <2>3, <2>4
<1> QED
  BY <1>8, <1>9 DEF TellsInv

\* A mission-state event changes a drone's status, not its trust.
LEMMA StateKeepsTrust ==
  ASSUME ControlTypeOK, NEW d \in Dev, NEW r, MissionState(d, r)
  PROVE  /\ UNCHANGED missions
         /\ \A s \in Slug, c \in Dev : TrustedIn(s, c)' <=> TrustedIn(s, c)
<1>1. UNCHANGED missions
  BY DEF MissionState, Arrives
<1>2. CASE UNCHANGED roster
  BY <1>1, <1>2 DEF TrustedIn, Members
<1>3. ASSUME NEW m \in Address, NEW e \in roster[m], NEW x, x.dev = e.dev,
             x.trusted = e.trusted, Replace(m, e, x)
      PROVE  \A s \in Slug, c \in Dev : TrustedIn(s, c)' <=> TrustedIn(s, c)
  <2>1. \A n \in Address : roster'[n] = IF n = m THEN (roster[m] \ {e}) \cup {x} ELSE roster[n]
    BY <1>3 DEF Replace, ControlTypeOK, MemoryTypeOK
  <2>2. \A s \in Slug : missions[s] # 0 => missions[s] \in Address
    BY DEF ControlTypeOK, MemoryTypeOK
  <2>3. SUFFICES ASSUME NEW s \in Slug, NEW c \in Dev
                 PROVE  TrustedIn(s, c)' <=> TrustedIn(s, c)
    OBVIOUS
  <2> QED
    BY <1>1, <1>3, <2>1, <2>2 DEF TrustedIn, Members
<1>4. PICK s \in Slug :
        /\ missions[s] # 0
        /\ \E e \in roster[missions[s]] :
             /\ First(missions[s], d, e)
             /\ \/ \E y : Replace(missions[s], e,
                            [ref |-> e.ref, dev |-> d, trusted |-> e.trusted, status |-> y])
                \/ UNCHANGED roster
  BY DEF MissionState
<1>5. PICK m \in Address : m = missions[s]
  BY <1>4 DEF ControlTypeOK, MemoryTypeOK
<1>6. ASSUME NEW e \in roster[m], First(m, d, e), NEW y,
             Replace(m, e, [ref |-> e.ref, dev |-> d, trusted |-> e.trusted, status |-> y])
      PROVE  \A t \in Slug, c \in Dev : TrustedIn(t, c)' <=> TrustedIn(t, c)
  <2> DEFINE x == [ref |-> e.ref, dev |-> d, trusted |-> e.trusted, status |-> y]
  <2>1. x.dev = e.dev /\ x.trusted = e.trusted
    BY <1>6 DEF First
  <2> HIDE DEF x
  <2> QED
    BY <1>3, <1>6, <2>1 DEF x
<1> QED
  BY <1>1, <1>2, <1>4, <1>5, <1>6

LEMMA DronesTell ==
  ASSUME OneAtATime, TellsInv, HistoryInv, ControlTypeOK, AddressesApart',
         NEW d \in Dev, DroneActs(d) \/ DroneSends(d)
  PROVE  TellsInv'
<1>1. ASSUME NEW p \in Writer, DroneTrusts(p, d)
      PROVE  TellsInv'
  <2> DEFINE x == [op |-> "trust", at |-> "begin", slug |-> NoSlug, mission |-> 0, arg |-> d]
  <2>1. /\ MayStart(p, "trust") /\ h' = [h EXCEPT ![p] = x]
        /\ UNCHANGED missions /\ UNCHANGED roster /\ UNCHANGED heap
        /\ UNCHANGED main /\ UNCHANGED clone /\ HandlersTypeOK
    BY <1>1 DEF DroneTrusts, memory, outboxVars, ControlTypeOK
  <2>2. x # Idle /\ x.op = "trust" /\ x.at = "begin"
    BY DEF Idle
  <2> HIDE DEF x
  <2>3. \A q \in Writer : h[q] = Idle
    BY <2>1, StartsQuiet
  <2> QED
    BY <2>1, <2>2, <2>3, StartTells
<1>2. CASE DroneJoins(d) \/ DroneLeaves(d) \/ DroneSends(d)
  <2>1. UNCHANGED main /\ UNCHANGED h /\ UNCHANGED missions /\ UNCHANGED clone
    BY <1>2 DEF DroneJoins, DroneLeaves, DroneSends, DroneReports, DroneForgets,
       MissionState, MissionStateUnknown, Arrives, memory, outboxVars
  <2>2. CloneIsCurrent'
    BY <2>1 DEF TellsInv, CloneIsCurrent
  <2>3. \A s \in Slug, c \in Dev : TrustedIn(s, c)' <=> TrustedIn(s, c)
    <3>1. CASE UNCHANGED roster
      BY <2>1, <3>1 DEF TrustedIn, Members
    <3>2. CASE \E r : MissionState(d, r)
      BY <3>2, StateKeepsTrust
    <3> QED
      BY <1>2, <3>1, <3>2 DEF DroneJoins, DroneLeaves, DroneSends, DroneReports,
         DroneForgets, MissionStateUnknown, Arrives, memory
  <2> QED
    BY <2>1, <2>2, <2>3, SameStory
<1> QED
  BY <1>1, <1>2 DEF DroneActs

LEMMA HandleTells ==
  ASSUME "git" \notin Faults, "rm" \notin Faults, "mqtt" \notin Faults, "reinit" \notin Faults,
         TellsInv, SafeInv, OutboxInv, HistoryInv, AddressesApart',
         NEW p \in Writer, Handle(p)
  PROVE  TellsInv'
<1>1. ~TrustPanics(p) /\ ControlTypeOK
  BY NoPanic DEF SafeInv
<1>2. CASE Publish(p)
  BY <1>2, CloneTells, PushTells, NoPublishError DEF Publish
<1>3. CASE CreateUndo(p) \/ DeleteMissionRepo(p)
  BY <1>1, <1>3, RepoGoneTells, SmallStepsTell DEF CreateUndo, DeleteMissionRepo
<1>4. CASE TrustMark(p)
  BY <1>4, TrustMarkTells
<1>5. CASE \/ CreateRegister(p) \/ DeleteForget(p) \/ AssignRegister(p) \/ RemoveForget(p)
  BY <1>5, RegisterTells
<1> QED
  BY <1>1, <1>2, <1>3, <1>4, <1>5, SmallStepsTell DEF Handle

LEMMA NextTells ==
  ASSUME OneAtATime,
         "git" \notin Faults, "rm" \notin Faults, "mqtt" \notin Faults, "reinit" \notin Faults,
         TellsInv, SafeInv, OutboxInv, HistoryInv, MissionNext
  PROVE  TellsInv'
<1>1. ControlTypeOK /\ HandlersTypeOK
  BY DEF SafeInv, ControlTypeOK
<1>2. AddressesApart'
  <2>1. \A p \in Writer : AssignRegister(p) => missions[h[p].slug] = h[p].mission
    <3>1. SUFFICES ASSUME NEW p \in Writer, AssignRegister(p)
                   PROVE  missions[h[p].slug] = h[p].mission
      OBVIOUS
    <3>2. h[p] # Idle /\ h[p].op = "assign"
      BY <3>1 DEF AssignRegister, At
    <3>3. h[p].mission # 0
      BY <1>1, <3>2, Busy, HandlerFields DEF Address
    <3> QED
      BY <3>2, <3>3 DEF SafeInv, LifecycleInv, HeldIsRegistered
  <2> QED
    BY <1>1, <2>1, NextKeepsApart DEF TellsInv
<1>3. CASE \E p \in Writer : Ask(p)
  BY <1>1, <1>3, AskTells
<1>4. CASE \E p \in Writer : Handle(p)
  BY <1>2, <1>4, HandleTells
<1>5. CASE \E d \in Dev : DroneActs(d) \/ DroneSends(d)
  BY <1>1, <1>2, <1>5, DronesTell
<1>6. CASE Crash
  <2>1. /\ \A q \in Writer : h'[q] = Idle /\ clone'[q] = NoClone
        /\ \A s \in Slug : missions'[s] = 0
        /\ UNCHANGED main
    BY <1>6 DEF Crash, LoseMemory, LoseClones
  <2>2. HasLast'
    BY <2>1 DEF TellsInv, HasLast
  <2> QED
    BY <1>2, <2>1, <2>2, EndTells
<1>7. CASE Restart
  <2>1. /\ UNCHANGED main /\ UNCHANGED h /\ UNCHANGED missions /\ UNCHANGED clone
        /\ UNCHANGED roster
    BY <1>7 DEF Restart, memory, outboxVars
  <2> QED
    BY <1>2, <2>1, SameStory DEF TellsInv, CloneIsCurrent, TrustedIn, Members
<1> QED
  BY <1>3, <1>4, <1>5, <1>6, <1>7 DEF MissionNext

LEMMA TellsInvariant ==
  ASSUME OneAtATime,
         "git" \notin Faults, "rm" \notin Faults, "mqtt" \notin Faults, "reinit" \notin Faults
  PROVE  MissionSpec => []TellsInv
<1> DEFINE Inv == SafeInv /\ OutboxInv /\ HistoryInv
<1>1. "delete" \in Alone
  BY DEF OneAtATime
<1>2. MissionSpec => []Inv
  BY <1>1, HistoryInvariant
<1>3. MissionInit => TellsInv
  <2>1. SUFFICES ASSUME MissionInit  PROVE TellsInv
    OBVIOUS
  <2>2. /\ \A q \in Writer : h[q] = Idle /\ clone[q] = NoClone
        /\ \A s \in Slug : missions[s] = 0 /\ main[s] = << >>
        /\ \A m \in Address : roster[m] = {}
        /\ heap = 0
    BY <2>1 DEF MissionInit, OutboxInit
  <2>3. AllAlone /\ AddressesApart /\ CloneIsCurrent /\ InStep /\ StartsSilent
    BY <2>2 DEF AllAlone, AddressesApart, CloneIsCurrent, InStep, StartsSilent, Creating
  <2>4. HasLast
    BY <2>2, EmptyIsSilent DEF HasLast
  <2> QED
    BY <2>3, <2>4 DEF TellsInv
<1>4. TellsInv /\ Inv /\ [MissionNext]_missionVars => TellsInv'
  <2>1. SUFFICES ASSUME TellsInv, Inv, UNCHANGED missionVars  PROVE TellsInv'
    BY NextTells
  <2>2. /\ UNCHANGED main /\ UNCHANGED h /\ UNCHANGED missions /\ UNCHANGED clone
        /\ UNCHANGED roster /\ UNCHANGED heap
    BY <2>1 DEF missionVars, memory, outboxVars
  <2> QED
    BY <2>1, <2>2, SameStory DEF TellsInv, CloneIsCurrent, AddressesApart, TrustedIn, Members
<1> QED
  BY <1>2, <1>3, <1>4, PTL DEF MissionSpec

\* Where no two handlers overlap and neither git nor MQTT fails, the drones of
\* a mission that are trusted are those of which its outbox last said so, once
\* the handlers are done, crashes of the process and failures of the git
\* server to make or remove a repository included.
THEOREM OutboxAlwaysTellsRoster ==
  ASSUME OneAtATime,
         "git" \notin Faults, "rm" \notin Faults, "mqtt" \notin Faults, "reinit" \notin Faults
  PROVE  MissionSpec => []OutboxTellsRoster
<1>1. TellsInv => OutboxTellsRoster
  <2>1. SUFFICES ASSUME TellsInv, Quiet, NEW s \in Slug, NEW d \in Dev, missions[s] # 0
                 PROVE  LastWord(s, d) = "trust" <=> TrustedIn(s, d)
    BY DEF OutboxTellsRoster
  <2>2. ~Announcing(s, d) /\ ~Withdrawn(s, d) /\ ~\E q \in Writer : Removing(q, s)
    BY <2>1 DEF Quiet, Announcing, Withdrawn, Removing
  <2> QED
    BY <2>1, <2>2 DEF TellsInv, InStep
<1> QED
  BY <1>1, TellsInvariant, PTL

------------------------------------------------------------------------------
(* mission-control goes on underneath *)

\* Announcements and plans watch the handlers and never change what they do.
LEMMA StepIsMissionStep ==
  [EventsNext]_watchedVars => [MissionNext]_missionVars
<1> SUFFICES ASSUME [EventsNext]_watchedVars
             PROVE  [MissionNext]_missionVars
  OBVIOUS
<1>1. ASSUME NEW p \in Writer, AskAndTell(p) \/ HandleAndTell(p)
      PROVE  MissionNext
  BY <1>1 DEF AskAndTell, HandleAndTell, MissionNext
<1>2. ASSUME NEW d \in Dev, DroneActsAndTells(d)
      PROVE  MissionNext
  BY <1>2 DEF DroneActsAndTells, MissionNext
<1>3. ASSUME NEW d \in Dev,
             \/ DronePlans(d) \/ FlightPlan(d)
             \/ \E plan \in Plan : MissionPlan(d, plan) \/ MissionPlanOfNobody(d, plan)
      PROVE  UNCHANGED missionVars
  BY <1>3 DEF DronePlans, FlightPlan, MissionPlan, MissionPlanOfNobody
<1>4. CASE PublishesEvents
  BY <1>4 DEF PublishesEvents, PublishEvent
<1>5. CASE UNCHANGED watchedVars
  BY <1>5 DEF watchedVars
<1> QED
  BY <1>1, <1>2, <1>3, <1>4, <1>5 DEF EventsNext

\* So everything proved of the handlers holds while they are watched.
THEOREM EventsImplementMission == EventsSpec => MissionSpec
<1>1. EventsInit => MissionInit
  BY DEF EventsInit
<1> QED
  BY <1>1, StepIsMissionStep, PTL DEF EventsSpec, MissionSpec

------------------------------------------------------------------------------
(* Types *)

\* EventsTypeOK without what the handlers keep.
WatchTypeOK ==
  /\ status \in [Slug -> [Task -> SUBSET Progress]]
  /\ plans \in [Dev -> SUBSET Plan]
  /\ pending \in Seq(Event) /\ Len(pending) <= MaxPending
  /\ view \subseteq Fact
  /\ overtaken \in BOOLEAN

\* What an event carries, by its type.
LEMMA EventFields ==
  ASSUME NEW e \in Event
  PROVE  /\ e.slug \in Slug
         /\ e.type \in {"assign", "remove", "trust", "mission-plan", "flight-plan"} => e.arg \in Dev
         /\ e.type = "task" => e.arg \in Task
         /\ e.type = "mission-plan" => e.plan \in Plan
         /\ e.type \in {"create", "delete", "assign", "remove", "trust", "task",
                        "mission-plan", "flight-plan"}
  BY DEF Event

\* An event that is announced waits behind the others.
LEMMA AnnounceKeepsTypes ==
  ASSUME WatchTypeOK, NEW type, NEW s, NEW a, NEW plan,
         [type |-> type, slug |-> s, arg |-> a, plan |-> plan] \in Event,
         Announce(type, s, a, plan)
  PROVE  pending' \in Seq(Event) /\ Len(pending') <= MaxPending
<1> DEFINE e == [type |-> type, slug |-> s, arg |-> a, plan |-> plan]
<1>1. e \in Event /\ pending' = Append(pending, e) /\ Len(pending) < MaxPending
  BY DEF Announce
<1> HIDE DEF e
<1>2. PICK log \in Seq(Event) : log = pending
  BY DEF WatchTypeOK
<1>3. Append(log, e) \in Seq(Event) /\ Len(Append(log, e)) = Len(log) + 1 /\ Len(log) \in Nat
  BY <1>1
<1> QED
  BY <1>1, <1>2, <1>3, EventsAssumption

LEMMA HandleKeepsWatchTypes ==
  ASSUME WatchTypeOK, ControlTypeOK, NEW p \in Writer, HandleAndTell(p)
  PROVE  WatchTypeOK'
<1>1. CASE ~AtEnd(p)
  BY <1>1 DEF HandleAndTell, Silent, WatchTypeOK
<1>2. CASE AtEnd(p)
  <2>1. h[p] # Idle /\ h[p] \in Handler
    BY <1>2, Busy DEF AtEnd, ControlTypeOK
  <2>2. PICK op, s, t : op = h[p].op /\ s = h[p].slug /\ t = h[p].arg
    OBVIOUS
  <2>3. /\ op \in {"create", "delete", "assign", "remove", "task", "trust"}
        /\ s \in Slug
        /\ op \in {"create", "delete"} => t = NoSlug
        /\ op \in {"assign", "remove", "trust"} => t \in Dev
        /\ op = "task" => t \in Task
    BY <1>2, <2>1, <2>2, HandlerFields DEF AtEnd
  <2>4. [type |-> op, slug |-> s, arg |-> t, plan |-> NoPlan] \in Event
    BY <2>3 DEF Event
  <2>5. Announce(op, s, t, NoPlan) /\ UNCHANGED plans
    BY <1>2, <2>2 DEF HandleAndTell
  <2>6. \/ status' = [status EXCEPT ![s] = [u \in Task |-> {}]]
        \/ op = "task" /\ status' = [status EXCEPT ![s][t] = @ \cup {"in-progress"}]
        \/ UNCHANGED status
    BY <2>2 DEF HandleAndTell
  <2>7. status' \in [Slug -> [Task -> SUBSET Progress]]
    BY <2>3, <2>6, EventsAssumption DEF WatchTypeOK
  <2>8. pending' \in Seq(Event) /\ Len(pending') <= MaxPending
    BY <2>4, <2>5, AnnounceKeepsTypes
  <2> QED
    BY <2>5, <2>7, <2>8 DEF Announce, WatchTypeOK
<1> QED
  BY <1>1, <1>2

\* What a drone planned becomes the status of the items it names.
LEMMA PlansKeepWatchTypes ==
  ASSUME WatchTypeOK, NEW d \in Dev,
         \/ DronePlans(d) \/ FlightPlan(d)
         \/ \E plan \in Plan : MissionPlan(d, plan) \/ MissionPlanOfNobody(d, plan)
  PROVE  WatchTypeOK'
<1>1. CASE DronePlans(d)
  <2>1. PICK plan \in [Pulled(link[d]) -> Progress] :
          plans' = [plans EXCEPT ![d] = @ \cup {plan}]
    BY <1>1 DEF DronePlans
  <2>2. plan \in Plan
    BY DEF Pulled, Plan
  <2> QED
    BY <1>1, <2>1, <2>2 DEF DronePlans, WatchTypeOK
<1>2. CASE FlightPlan(d)
  <2>1. PICK s \in Slug : Announce("flight-plan", s, d, NoPlan)
    BY <1>2 DEF FlightPlan, Resolved
  <2>2. [type |-> "flight-plan", slug |-> s, arg |-> d, plan |-> NoPlan] \in Event
    BY DEF Event
  <2>3. pending' \in Seq(Event) /\ Len(pending') <= MaxPending
    BY <2>1, <2>2, AnnounceKeepsTypes
  <2> QED
    BY <1>2, <2>1, <2>3 DEF FlightPlan, Announce, WatchTypeOK
<1>3. ASSUME NEW plan \in Plan, MissionPlan(d, plan)
      PROVE  WatchTypeOK'
  <2>1. PICK s \in Slug :
          /\ status' = [status EXCEPT ![s] = [t \in Task |->
               IF t \in DOMAIN plan /\ @[t] # {} THEN {plan[t]} ELSE @[t]]]
          /\ Announce("mission-plan", s, d, plan)
    BY <1>3 DEF MissionPlan, Resolved
  <2>2. [type |-> "mission-plan", slug |-> s, arg |-> d, plan |-> plan] \in Event
    BY DEF Event
  <2>3. pending' \in Seq(Event) /\ Len(pending') <= MaxPending
    BY <2>1, <2>2, AnnounceKeepsTypes
  <2>4. \A t \in DOMAIN plan : plan[t] \in Progress
    BY DEF Plan
  <2>5. status' \in [Slug -> [Task -> SUBSET Progress]]
    BY <2>1, <2>4 DEF WatchTypeOK
  <2>6. plans' \in [Dev -> SUBSET Plan]
    BY <1>3 DEF MissionPlan, WatchTypeOK
  <2> QED
    BY <2>1, <2>3, <2>5, <2>6 DEF Announce, WatchTypeOK
<1>4. ASSUME NEW plan \in Plan, MissionPlanOfNobody(d, plan)
      PROVE  WatchTypeOK'
  BY <1>4 DEF MissionPlanOfNobody, Silent, WatchTypeOK
<1> QED
  BY <1>1, <1>2, <1>3, <1>4

\* What a user shows after an event are facts still.
LEMMA ShownIsFacts ==
  ASSUME NEW w \in SUBSET Fact, NEW e \in Event
  PROVE  Shown(w, e) \subseteq Fact
<1> DEFINE s == e.slug
           d == e.arg
<1>1. /\ Told(s, "mission", NoSlug, "there") \subseteq Fact
      /\ d \in Dev => /\ Told(s, "drone", d, "assigned") \subseteq Fact
                      /\ Told(s, "drone", d, "trusted") \subseteq Fact
      /\ d \in Task => Told(s, "item", d, "in-progress") \subseteq Fact
  BY EventFields, EventsAssumption DEF Told, Fact
<1>2. \A f \in Fact : f.kind = "item" /\ f.of \in DOMAIN e.plan /\ e.type = "mission-plan" =>
        [f EXCEPT !.is = e.plan[f.of]] \in Fact
  <2>1. SUFFICES ASSUME NEW f \in Fact, f.kind = "item", f.of \in DOMAIN e.plan,
                        e.type = "mission-plan"
                 PROVE  [f EXCEPT !.is = e.plan[f.of]] \in Fact
    OBVIOUS
  <2>2. f \in [slug: Slug, kind: {"item"}, of: Task, is: Progress]
    BY <2>1 DEF Fact
  <2>3. PICK x \in Progress : x = e.plan[f.of]
    BY <2>1, EventFields DEF Plan
  <2>4. [f EXCEPT !.is = x] \in [slug: Slug, kind: {"item"}, of: Task, is: Progress]
    BY <2>2
  <2> QED
    BY <2>3, <2>4 DEF Fact
<1>3. e.type \in {"create", "delete", "assign", "remove", "trust", "task",
                  "mission-plan", "flight-plan"}
  BY EventFields
<1> HIDE DEF s, d
<1>4. CASE e.type \in {"create", "delete", "flight-plan"}
  BY <1>1, <1>4 DEF Shown, s
<1>5. CASE e.type \in {"assign", "trust", "remove"}
  BY <1>1, <1>5, EventFields DEF Shown, s, d
<1>6. CASE e.type = "task"
  BY <1>1, <1>6, EventFields DEF Shown, s, d
<1>7. CASE e.type = "mission-plan"
  BY <1>2, <1>7 DEF Shown
<1> QED
  BY <1>3, <1>4, <1>5, <1>6, <1>7

\* A sequence without its i-th element.
LEMMA WithoutOne ==
  ASSUME NEW S, NEW q \in Seq(S), NEW i \in DOMAIN q
  PROVE  /\ SubSeq(q, 1, i - 1) \o SubSeq(q, i + 1, Len(q)) \in Seq(S)
         /\ Len(SubSeq(q, 1, i - 1) \o SubSeq(q, i + 1, Len(q))) = Len(q) - 1
<1>1. i \in 1..Len(q) /\ Len(q) \in Nat
  OBVIOUS
<1>2. SubSeq(q, 1, i - 1) \in Seq(S) /\ Len(SubSeq(q, 1, i - 1)) = i - 1
  BY <1>1
<1>3. SubSeq(q, i + 1, Len(q)) \in Seq(S) /\ Len(SubSeq(q, i + 1, Len(q))) = Len(q) - i
  BY <1>1
<1>4. PICK a \in Seq(S), b \in Seq(S) :
        /\ a = SubSeq(q, 1, i - 1) /\ b = SubSeq(q, i + 1, Len(q))
        /\ Len(a) = i - 1 /\ Len(b) = Len(q) - i
  BY <1>2, <1>3
<1>5. a \o b \in Seq(S) /\ Len(a \o b) = Len(a) + Len(b)
  OBVIOUS
<1>6. Len(a \o b) = Len(q) - 1
  <2>1. PICK n \in Nat : n = Len(q) /\ i \in 1..n
    BY <1>1
  <2>2. PICK k : k = Len(a \o b) /\ k = (i - 1) + (n - i)
    BY <1>4, <1>5, <2>1, Zenon
  <2>3. k = n - 1
    BY <2>1, <2>2
  <2> QED
    BY <2>1, <2>2, <2>3, Zenon
<1> QED
  BY <1>4, <1>5, <1>6, Zenon

LEMMA PublishKeepsWatchTypes ==
  ASSUME WatchTypeOK, PublishesEvents
  PROVE  WatchTypeOK'
<1>1. PICK i \in DOMAIN pending :
        /\ pending' = SubSeq(pending, 1, i - 1) \o SubSeq(pending, i + 1, Len(pending))
        /\ overtaken' \in BOOLEAN
        /\ view' = {} \/ view' = Shown(view, pending[i])
        /\ UNCHANGED status /\ UNCHANGED plans
  <2>1. PICK i \in 1..MaxPending : PublishEvent(i)
    BY DEF PublishesEvents
  <2>2. overtaken' \in BOOLEAN
    BY <2>1, Zenon DEF PublishEvent, WatchTypeOK
  <2>3. view' = {} \/ view' = Shown(view, pending[i])
    BY <2>1 DEF PublishEvent
  <2> QED
    BY <2>1, <2>2, <2>3 DEF PublishEvent
<1>2. PICK log \in Seq(Event) : log = pending /\ i \in DOMAIN log /\ Len(log) <= MaxPending
  BY <1>1 DEF WatchTypeOK
<1>3. log[i] \in Event
  BY <1>2
<1>4. view' \subseteq Fact
  BY <1>1, <1>2, <1>3, ShownIsFacts DEF WatchTypeOK
<1>5. pending' \in Seq(Event) /\ Len(pending') = Len(log) - 1
  BY <1>1, <1>2, WithoutOne
<1>6. Len(pending') <= MaxPending
  <2>1. Len(log) \in Nat
    OBVIOUS
  <2> QED
    BY <1>2, <1>5, <2>1, EventsAssumption
<1> QED
  BY <1>1, <1>4, <1>5, <1>6 DEF WatchTypeOK

LEMMA NextKeepsWatchTypes ==
  ControlTypeOK /\ WatchTypeOK /\ [EventsNext]_watchedVars => WatchTypeOK'
<1> SUFFICES ASSUME ControlTypeOK, WatchTypeOK, [EventsNext]_watchedVars
             PROVE  WatchTypeOK'
  OBVIOUS
<1>1. CASE \/ \E p \in Writer : AskAndTell(p)
           \/ \E d \in Dev : DroneActsAndTells(d)
           \/ UNCHANGED watchedVars
  BY <1>1 DEF AskAndTell, DroneActsAndTells, watchedVars, eventVars, WatchTypeOK
<1>2. CASE \E p \in Writer : HandleAndTell(p)
  BY <1>2, HandleKeepsWatchTypes
<1>3. ASSUME NEW d \in Dev,
             \/ DronePlans(d) \/ FlightPlan(d)
             \/ \E plan \in Plan : MissionPlan(d, plan) \/ MissionPlanOfNobody(d, plan)
      PROVE  WatchTypeOK'
  BY <1>3, PlansKeepWatchTypes
<1>4. CASE PublishesEvents
  BY <1>4, PublishKeepsWatchTypes
<1> QED
  BY <1>1, <1>2, <1>3, <1>4 DEF EventsNext

\* Events are announced with what their type calls for, and a user shows
\* facts only.
THEOREM EventsTypeCorrect == EventsSpec => []EventsTypeOK
<1>1. EventsInit => WatchTypeOK
  <2> SUFFICES ASSUME EventsInit  PROVE WatchTypeOK
    OBVIOUS
  <2>1. pending \in Seq(Event) /\ Len(pending) = 0
    BY DEF EventsInit
  <2>2. overtaken \in BOOLEAN
    BY Zenon DEF EventsInit
  <2>3. /\ status \in [Slug -> [Task -> SUBSET Progress]]
        /\ plans \in [Dev -> SUBSET Plan] /\ view \subseteq Fact
    BY DEF EventsInit
  <2>4. Len(pending) <= MaxPending
    BY <2>1, EventsAssumption
  <2> QED
    BY <2>1, <2>2, <2>3, <2>4 DEF WatchTypeOK
<1>2. ControlTypeOK /\ WatchTypeOK /\ [EventsNext]_watchedVars => WatchTypeOK'
  BY NextKeepsWatchTypes
<1>3. MissionTypeOK /\ WatchTypeOK => EventsTypeOK
  BY DEF EventsTypeOK, WatchTypeOK
<1>4. EventsSpec => MissionSpec
  BY EventsImplementMission
<1> QED
  BY <1>1, <1>2, <1>3, <1>4, ControlTypeCorrect, MissionTypeCorrect, PTL DEF EventsSpec

------------------------------------------------------------------------------
(* What a user is shown is true: events that wait *)

\* What e makes of what is shown of mission s.
Heard(w, e, s) == IF e.slug = s /\ Matters(e) THEN Shown(w, e) ELSE w

\* V is what is shown of mission s from now on, first a and finally b, as the
\* events of log are published in their order.
Trail(V, log, a, b, s) ==
  /\ V \in [1..(Len(log) + 1) -> SUBSET Fact]
  /\ V[1] = a
  /\ \A j \in 1..Len(log) : V[j + 1] = Heard(V[j], log[j], s)
  /\ V[Len(log) + 1] = b

LEMMA HeardIsFacts ==
  ASSUME NEW w \in SUBSET Fact, NEW e \in Event, NEW s
  PROVE  Heard(w, e, s) \in SUBSET Fact
BY ShownIsFacts DEF Heard

\* One more event waits.
LEMMA TrailAppend ==
  ASSUME NEW log \in Seq(Event), NEW e \in Event, NEW s, NEW a, NEW b, NEW V,
         Trail(V, log, a, b, s)
  PROVE  \E W : Trail(W, Append(log, e), a, Heard(b, e, s), s)
<1>1. PICK n \in Nat : n = Len(log)
  OBVIOUS
<1>2. PICK c \in SUBSET Fact : c = Heard(b, e, s)
  BY <1>1, HeardIsFacts DEF Trail
<1>3. PICK q : q = Append(log, e)
  OBVIOUS
<1>4. Len(q) = n + 1 /\ q[n + 1] = e /\ \A j \in 1..n : q[j] = log[j]
  BY <1>1, <1>3
<1> DEFINE W == [j \in 1..(n + 2) |-> IF j <= n + 1 THEN V[j] ELSE c]
<1>5. W \in [1..(Len(q) + 1) -> SUBSET Fact] /\ W[1] = a /\ W[Len(q) + 1] = c
  BY <1>1, <1>2, <1>4 DEF Trail
<1>6. ASSUME NEW j \in 1..Len(q) PROVE W[j + 1] = Heard(W[j], q[j], s)
  <2>1. CASE j <= n
    BY <1>1, <1>4, <2>1 DEF Trail
  <2>2. CASE j = n + 1
    BY <1>1, <1>2, <1>4, <2>2 DEF Trail
  <2> QED  BY <1>4, <2>1, <2>2
<1>7. Trail(W, q, a, c, s)
  BY <1>5, <1>6 DEF Trail
<1> QED  BY <1>2, <1>3, <1>7

\* An event that leaves no older one of its mission behind may go first: those
\* it goes ahead of change other missions, if any.
LEMMA TrailDrop ==
  ASSUME NEW log \in Seq(Event), NEW i \in DOMAIN log, NEW s, NEW a, NEW b, NEW V,
         Trail(V, log, a, b, s),
         \A j \in 1..(i - 1) :
           ~(Matters(log[i]) /\ Matters(log[j]) /\ log[j].slug = log[i].slug)
  PROVE  \E W : Trail(W, SubSeq(log, 1, i - 1) \o SubSeq(log, i + 1, Len(log)),
                      Heard(a, log[i], s), b, s)
<1>1. PICK n \in Nat : n = Len(log)
  OBVIOUS
<1>2. i \in 1..n
  BY <1>1
<1>3. PICK e \in Event : e = log[i]
  OBVIOUS
<1>4. PICK q \in Seq(Event) : q = SubSeq(log, 1, i - 1) \o SubSeq(log, i + 1, Len(log))
  BY WithoutOne
<1>5. Len(q) = n - 1
  BY <1>1, <1>4, WithoutOne
<1>6. \A j \in 1..(n - 1) : q[j] = IF j < i THEN log[j] ELSE log[j + 1]
  <2>1. /\ SubSeq(log, 1, i - 1) \in Seq(Event) /\ Len(SubSeq(log, 1, i - 1)) = i - 1
        /\ \A j \in 1..(i - 1) : SubSeq(log, 1, i - 1)[j] = log[j]
    BY <1>1, <1>2
  <2>2. /\ SubSeq(log, i + 1, n) \in Seq(Event) /\ Len(SubSeq(log, i + 1, n)) = n - i
        /\ \A j \in 1..(n - i) : SubSeq(log, i + 1, n)[j] = log[i + j]
    BY <1>1, <1>2
  <2>3. PICK x \in Seq(Event), y \in Seq(Event) :
          /\ x = SubSeq(log, 1, i - 1) /\ y = SubSeq(log, i + 1, n)
          /\ Len(x) = i - 1 /\ Len(y) = n - i
    BY <2>1, <2>2
  <2>4. q = x \o y
    BY <1>1, <1>4, <2>3
  <2>5. ASSUME NEW j \in 1..(n - 1), j < i PROVE q[j] = log[j]
    <3>1. j \in 1..Len(x)
      BY <1>2, <2>3, <2>5
    <3>2. (x \o y)[j] = x[j]
      BY <3>1
    <3>3. j \in 1..(i - 1)
      BY <1>2, <2>5
    <3> QED  BY <2>1, <2>3, <2>4, <3>2, <3>3
  <2>6. ASSUME NEW j \in 1..(n - 1), ~(j < i) PROVE q[j] = log[j + 1]
    <3>1. PICK k \in 1..(n - i) : j = k + (i - 1)
      <4>1. j - (i - 1) \in 1..(n - i)
        BY <1>2, <2>6
      <4> QED  BY <1>2, <4>1
    <3>2. j = k + Len(x) /\ k \in 1..Len(y)
      BY <2>3, <3>1, Zenon
    <3>3. (x \o y)[j] = y[k]
      BY <3>2
    <3>4. y[k] = log[i + k]
      BY <2>2, <2>3, <3>1, Zenon
    <3>5. i + k = j + 1
      BY <1>2, <3>1
    <3> QED  BY <2>4, <3>3, <3>4, <3>5
  <2> QED  BY <2>5, <2>6
<1> DEFINE W == [j \in 1..n |-> IF j <= i THEN Heard(V[j], e, s) ELSE V[j + 1]]
<1>7. /\ V \in [1..(n + 1) -> SUBSET Fact] /\ V[1] = a /\ V[n + 1] = b
      /\ \A j \in 1..n : V[j + 1] = Heard(V[j], log[j], s)
  BY <1>1 DEF Trail
<1>8. W \in [1..(Len(q) + 1) -> SUBSET Fact]
  BY <1>2, <1>5, <1>7, HeardIsFacts
<1>9. W[1] = Heard(a, e, s)
  BY <1>2, <1>7
<1>10. W[Len(q) + 1] = b
  BY <1>2, <1>3, <1>5, <1>7
<1>11. ASSUME NEW j \in 1..Len(q) PROVE W[j + 1] = Heard(W[j], q[j], s)
  <2>1. CASE j < i
    <3>1. q[j] = log[j] /\ W[j] = Heard(V[j], e, s) /\ W[j + 1] = Heard(V[j + 1], e, s)
      BY <1>2, <1>5, <1>6, <2>1
    <3>2. V[j + 1] = Heard(V[j], log[j], s)
      BY <1>2, <1>7, <2>1
    <3>3. ~(Matters(e) /\ Matters(log[j]) /\ log[j].slug = e.slug)
      BY <1>2, <1>3, <2>1
    <3> QED  BY <3>1, <3>2, <3>3 DEF Heard
  <2>2. CASE j = i
    <3>1. q[j] = log[j + 1] /\ W[j] = V[j + 1] /\ W[j + 1] = V[j + 2]
      BY <1>2, <1>3, <1>5, <1>6, <1>7, <2>2
    <3> QED  BY <1>2, <1>5, <1>7, <2>2, <3>1
  <2>3. CASE j > i
    <3>1. q[j] = log[j + 1] /\ W[j] = V[j + 1] /\ W[j + 1] = V[j + 2]
      BY <1>2, <1>5, <1>6, <2>3
    <3> QED  BY <1>2, <1>5, <1>7, <2>3, <3>1
  <2> QED  BY <1>2, <1>5, <2>1, <2>2, <2>3
<1>12. Trail(W, q, Heard(a, e, s), b, s)
  BY <1>8, <1>9, <1>10, <1>11 DEF Trail
<1> QED  BY <1>3, <1>4, <1>12

\* What is shown of a mission depends on nothing else that is shown.
LEMMA HeardIsOf ==
  ASSUME NEW w \in SUBSET Fact, NEW e \in Event, NEW s \in Slug
  PROVE  Of(Shown(w, e), s) = Heard(Of(w, s), e, s)
<1>1. PICK t, d, plan : t \in Slug /\ t = e.slug /\ d = e.arg /\ plan = e.plan
  BY EventFields
<1>5. CASE e.type = "mission-plan"
  <2> DEFINE New(f) == IF f.slug = t /\ f.kind = "item" /\ f.of \in DOMAIN plan
                       THEN [f EXCEPT !.is = plan[f.of]] ELSE f
  <2>1. \A f \in Fact : New(f).slug = f.slug
    BY DEF Fact
  <2>2. \A v \in SUBSET Fact : Shown(v, e) = {New(f) : f \in v}
    BY <1>1, <1>5 DEF Shown
  <2>3. \A f \in Fact : f.slug # t => New(f) = f
    OBVIOUS
  <2> HIDE DEF New
  <2>4. Of({New(f) : f \in w}, s) = {New(f) : f \in Of(w, s)}
    BY <2>1 DEF Of
  <2>5. Of(w, s) \in SUBSET Fact
    BY DEF Of
  <2>6. s # t => {New(f) : f \in Of(w, s)} = Of(w, s)
    BY <2>3 DEF Of
  <2> QED  BY <1>1, <1>5, <2>2, <2>4, <2>5, <2>6 DEF Heard, Matters
<1>6. CASE e.type \in {"create", "delete", "flight-plan"}
  <2>1. \A f \in Told(t, "mission", NoSlug, "there") : f.slug = t
    BY DEF Told
  <2> QED  BY <1>1, <1>6, <2>1 DEF Heard, Matters, Shown, Of
<1>7. CASE e.type \in {"assign", "remove", "trust", "task"}
  <2>1. \A k, x, y : \A f \in Told(t, k, x, y) : f.slug = t
    BY DEF Told
  <2> QED  BY <1>1, <1>7, <2>1 DEF Heard, Matters, Shown, Of, OfDrone
<1> QED  BY <1>5, <1>6, <1>7, EventFields

------------------------------------------------------------------------------
(* What a user is shown is true: what has been announced *)

\* A drone just marked as trusted whose mission's outbox is not pushed or
\* whose event is not announced yet.
TrustingNow(x, s, d) ==
  /\ x # Idle /\ x.op = "trust" /\ x.at \in {"publish", "published"}
  /\ x.slug = s /\ x.arg = d

Trusting(s, d) == \E p \in Writer : TrustingNow(h[p], s, d)

\* The truth, as far as it has been announced.
Announced ==
  {f \in Fact :
     /\ missions[f.slug] # 0
     /\ f.kind = "drone" => \E e \in Members(f.slug) :
          /\ e.dev = f.of
          /\ f.is = IF e.trusted /\ ~Trusting(f.slug, f.of) THEN "trusted" ELSE "assigned"
     /\ f.kind = "item" => f.is \in status[f.slug][f.of]}

JustTrusted == \A s \in Slug, d \in Dev : Trusting(s, d) => TrustedIn(s, d)

\* The events that wait lead from what is shown to what has been announced.
Leads(s) == \E V : Trail(V, pending, Of(view, s), Of(Announced, s), s)
AllLead == \A s \in Slug : Leads(s)

\* Nothing is announced, and nothing becomes known.
LEMMA SilentLeads ==
  ASSUME AllLead, UNCHANGED pending, UNCHANGED view,
         \A s \in Slug : Of(Announced, s)' = Of(Announced, s)
  PROVE  AllLead'
BY DEF AllLead, Leads

\* A change is announced as it is made.
LEMMA AnnounceLeads ==
  ASSUME AllLead, WatchTypeOK, NEW e \in Event, pending' = Append(pending, e), UNCHANGED view,
         \A s \in Slug : Of(Announced, s)' = Heard(Of(Announced, s), e, s)
  PROVE  AllLead'
<1> SUFFICES ASSUME NEW s \in Slug PROVE Leads(s)'
  BY DEF AllLead
<1>1. PICK log, a, b :
        log \in Seq(Event) /\ log = pending /\ a = Of(view, s) /\ b = Of(Announced, s)
  BY DEF WatchTypeOK
<1>2. PICK V : Trail(V, log, a, b, s)
  BY <1>1 DEF AllLead, Leads
<1>3. PICK W : Trail(W, Append(log, e), a, Heard(b, e, s), s)
  BY <1>1, <1>2, TrailAppend
<1>4. /\ pending' = Append(log, e) /\ Of(view, s)' = a
      /\ Of(Announced, s)' = Heard(b, e, s)
  BY <1>1
<1> QED  BY <1>3, <1>4 DEF Leads

\* An event is published that overtakes none of its mission.
LEMMA PublishLeads ==
  ASSUME AllLead, WatchTypeOK, NEW i \in DOMAIN pending,
         pending' = SubSeq(pending, 1, i - 1) \o SubSeq(pending, i + 1, Len(pending)),
         view' = Shown(view, pending[i]),
         \A j \in 1..(i - 1) :
           ~(Matters(pending[i]) /\ Matters(pending[j]) /\ pending[j].slug = pending[i].slug),
         \A s \in Slug : Of(Announced, s)' = Of(Announced, s)
  PROVE  AllLead'
<1> SUFFICES ASSUME NEW s \in Slug PROVE Leads(s)'
  BY DEF AllLead
<1>1. PICK log, a, b : /\ log \in Seq(Event) /\ log = pending /\ i \in DOMAIN log
                       /\ a = Of(view, s) /\ b = Of(Announced, s)
  BY DEF WatchTypeOK
<1>2. PICK V : Trail(V, log, a, b, s)
  BY <1>1 DEF AllLead, Leads
<1>3. PICK e \in Event : e = log[i]
  BY <1>1
<1>4. Of(Shown(view, e), s) = Heard(a, e, s)
  BY <1>1, HeardIsOf DEF WatchTypeOK
<1>5. \A j \in 1..(i - 1) :
        ~(Matters(log[i]) /\ Matters(log[j]) /\ log[j].slug = log[i].slug)
  BY <1>1
<1>6. PICK W : Trail(W, SubSeq(log, 1, i - 1) \o SubSeq(log, i + 1, Len(log)),
                     Heard(a, log[i], s), b, s)
  BY <1>1, <1>2, <1>5, TrailDrop
<1>7. /\ pending' = SubSeq(log, 1, i - 1) \o SubSeq(log, i + 1, Len(log))
      /\ Of(view, s)' = Heard(a, log[i], s) /\ Of(Announced, s)' = b
  BY <1>1, <1>3, <1>4
<1> QED  BY <1>6, <1>7 DEF Leads

------------------------------------------------------------------------------
(* What a user is shown is true: the handlers *)

LEMMA FactForms ==
  ASSUME NEW f \in Fact
  PROVE  \/ f = [slug |-> f.slug, kind |-> "mission", of |-> NoSlug, is |-> "there"]
         \/ /\ f = [slug |-> f.slug, kind |-> "drone", of |-> f.of, is |-> f.is]
            /\ f.of \in Dev /\ f.is \in {"assigned", "trusted"}
         \/ /\ f = [slug |-> f.slug, kind |-> "item", of |-> f.of, is |-> f.is]
            /\ f.of \in Task /\ f.is \in Progress
BY DEF Fact

\* A mission that is the same and as far announced looks the same.
LEMMA SameSlug ==
  ASSUME NEW s \in Slug, missions'[s] = missions[s],
         missions[s] # 0 => roster'[missions[s]] = roster[missions[s]],
         status'[s] = status[s],
         \A d \in Dev : Trusting(s, d)' <=> Trusting(s, d)
  PROVE  Of(Announced, s)' = Of(Announced, s)
<1>1. Members(s)' = Members(s)
  BY DEF Members
<1>2. SUFFICES ASSUME NEW f \in Fact, f.slug = s
               PROVE  (f \in Announced)' <=> f \in Announced
  BY DEF Of, Announced
<1>3. f.kind = "drone" => f.of \in Dev
  BY FactForms
<1> QED  BY <1>1, <1>2, <1>3 DEF Announced

\* What a handler that ends says.
EventOf(p) == [type |-> h[p].op, slug |-> h[p].slug, arg |-> h[p].arg, plan |-> NoPlan]

LEMMA CreateIsHeard ==
  ASSUME SafeInv, AddressesApart, NEW p \in Writer, CreateRegister(p),
         \A q \in Writer : h[q] = Idle \/ q = p, WatchTypeOK,
         status' = [status EXCEPT ![h[p].slug] = [u \in Task |-> {}]]
  PROVE  \A s \in Slug : Of(Announced, s)' = Heard(Of(Announced, s), EventOf(p), s)
<1>1. /\ h[p] # Idle /\ h[p].op = "create" /\ Done(p) /\ UNCHANGED roster
      /\ heap < MaxRequests /\ missions' = [missions EXCEPT ![h[p].slug] = heap + 1]
  BY DEF CreateRegister, At, Allocate
<1>2. h[p].slug \in Slug /\ h \in [Writer -> {Idle} \cup Handler]
  BY <1>1, Busy, HandlerFields DEF SafeInv, ControlTypeOK, HandlersTypeOK
<1>3. PICK t, e : t = h[p].slug /\ e = EventOf(p)
  OBVIOUS
<1>4. e.type = "create" /\ e.slug = t /\ t \in Slug
  BY <1>1, <1>2, <1>3 DEF EventOf
<1>5. \A s, d : ~Trusting(s, d) /\ ~Trusting(s, d)'
  BY <1>1, <1>2 DEF Trusting, TrustingNow, Done, Idle
<1>6. /\ heap \in Nat /\ missions \in [Slug -> Address \cup {0}] /\ heap + 1 \in Address
      /\ roster \in [Address -> SUBSET Drone]
  BY <1>1, MissionAssumption DEF SafeInv, ControlTypeOK, MemoryTypeOK, Address
<1>7. ASSUME NEW s \in Slug, s # t
      PROVE  Of(Announced, s)' = Heard(Of(Announced, s), e, s)
  <2>1. missions'[s] = missions[s] /\ status'[s] = status[s]
    BY <1>1, <1>3, <1>6, <1>7 DEF WatchTypeOK
  <2>2. Of(Announced, s)' = Of(Announced, s)
    BY <1>1, <1>5, <2>1, SameSlug
  <2> QED  BY <1>4, <1>7, <2>2 DEF Heard
<1>8. Of(Announced, t)' = Heard(Of(Announced, t), e, t)
  <2>1. missions'[t] = heap + 1 /\ missions'[t] # 0 /\ roster'[heap + 1] = {}
    BY <1>1, <1>3, <1>4, <1>6 DEF AddressesApart
  <2>2. Members(t)' = {}
    BY <2>1 DEF Members
  <2>3. \A u \in Task : status'[t][u] = {}
    BY <1>3, <1>4 DEF WatchTypeOK
  <2>4. Told(t, "mission", NoSlug, "there") \subseteq Fact
    BY <1>4 DEF Told, Fact
  <2>5. Of(Announced, t)' = Told(t, "mission", NoSlug, "there")
    <3>1. ASSUME NEW f \in Fact, f.slug = t
          PROVE  (f \in Announced)' <=> f \in Told(t, "mission", NoSlug, "there")
      <4>1. (f \in Announced)' <=> f.kind = "mission"
        BY <2>1, <2>2, <2>3, <3>1, FactForms DEF Announced
      <4> QED  BY <3>1, <4>1, FactForms DEF Told
    <3>2. \A f \in Told(t, "mission", NoSlug, "there") : f.slug = t
      BY DEF Told
    <3> QED  BY <2>4, <3>1, <3>2 DEF Of, Announced
  <2>6. Heard(Of(Announced, t), e, t) = Told(t, "mission", NoSlug, "there")
    BY <1>4 DEF Heard, Matters, Shown, Of
  <2> QED  BY <2>5, <2>6
<1> QED  BY <1>3, <1>7, <1>8

LEMMA DeleteIsHeard ==
  ASSUME SafeInv, NEW p \in Writer, DeleteForget(p), WatchTypeOK, UNCHANGED status,
         \A q \in Writer : h[q] = Idle \/ q = p
  PROVE  \A s \in Slug : Of(Announced, s)' = Heard(Of(Announced, s), EventOf(p), s)
<1>1. /\ h[p] # Idle /\ h[p].op = "delete" /\ Done(p) /\ UNCHANGED roster
      /\ missions' = [missions EXCEPT ![h[p].slug] = 0]
  BY DEF DeleteForget, At
<1>2. h[p].slug \in Slug /\ h \in [Writer -> {Idle} \cup Handler]
  BY <1>1, Busy, HandlerFields DEF SafeInv, ControlTypeOK, HandlersTypeOK
<1>3. PICK t, e : t = h[p].slug /\ e = EventOf(p)
  OBVIOUS
<1>4. e.type = "delete" /\ e.slug = t /\ t \in Slug
  BY <1>1, <1>2, <1>3 DEF EventOf
<1>5. \A s, d : ~Trusting(s, d) /\ ~Trusting(s, d)'
  BY <1>1, <1>2 DEF Trusting, TrustingNow, Done, Idle
<1>6. missions \in [Slug -> Address \cup {0}]
  BY DEF SafeInv, ControlTypeOK, MemoryTypeOK
<1>7. ASSUME NEW s \in Slug, s # t
      PROVE  Of(Announced, s)' = Heard(Of(Announced, s), e, s)
  <2>1. missions'[s] = missions[s]
    BY <1>1, <1>3, <1>6, <1>7
  <2>2. Of(Announced, s)' = Of(Announced, s)
    BY <1>1, <1>5, <2>1, SameSlug
  <2> QED  BY <1>4, <1>7, <2>2 DEF Heard
<1>8. Of(Announced, t)' = Heard(Of(Announced, t), e, t)
  <2>1. missions'[t] = 0
    BY <1>1, <1>3, <1>4, <1>6
  <2>2. Of(Announced, t)' = {}
    BY <2>1 DEF Of, Announced
  <2>3. Heard(Of(Announced, t), e, t) = {}
    BY <1>4 DEF Heard, Matters, Shown, Of
  <2> QED  BY <2>2, <2>3
<1> QED  BY <1>3, <1>7, <1>8

\* The roster that a handler changes is its mission's and no other's.
LEMMA OtherRosters ==
  ASSUME SafeInv, AddressesApart, NEW p \in Writer, h[p] # Idle,
         h[p].op \in {"assign", "remove"}, UNCHANGED missions, NEW x,
         roster' = [roster EXCEPT ![h[p].mission] = x]
  PROVE  /\ h[p].slug \in Slug /\ h[p].mission \in Address
         /\ missions[h[p].slug] = h[p].mission
         /\ roster \in [Address -> SUBSET Drone]
         /\ \A s \in Slug : s # h[p].slug /\ missions[s] # 0 =>
              roster'[missions[s]] = roster[missions[s]]
<1>1. /\ missions \in [Slug -> Address \cup {0}] /\ roster \in [Address -> SUBSET Drone]
  BY DEF SafeInv, ControlTypeOK, MemoryTypeOK
<1>2. h[p].slug \in Slug /\ h[p].mission \in Address
  BY Busy, HandlerFields DEF SafeInv, ControlTypeOK
<1>3. missions[h[p].slug] = h[p].mission
  BY <1>2, MissionAssumption DEF SafeInv, LifecycleInv, HeldIsRegistered, Address
<1> QED  BY <1>1, <1>2, <1>3 DEF AddressesApart

LEMMA AssignIsHeard ==
  ASSUME SafeInv, AddressesApart, NEW p \in Writer, AssignRegister(p),
         UNCHANGED status, \A q \in Writer : h[q] = Idle \/ q = p
  PROVE  \A s \in Slug : Of(Announced, s)' = Heard(Of(Announced, s), EventOf(p), s)
<1>1. /\ h[p] # Idle /\ h[p].op = "assign" /\ Done(p) /\ UNCHANGED missions
  BY DEF AssignRegister, At
<1>2. /\ h[p].slug \in Slug /\ h[p].arg \in Dev
      /\ h \in [Writer -> {Idle} \cup Handler]
  BY <1>1, Busy, HandlerFields DEF SafeInv, ControlTypeOK, HandlersTypeOK
<1>3. PICK t, d, m, e :
        t = h[p].slug /\ d = h[p].arg /\ m = h[p].mission /\ e = EventOf(p)
  OBVIOUS
<1>4. e.type = "assign" /\ e.slug = t /\ e.arg = d /\ t \in Slug /\ d \in Dev
  BY <1>1, <1>2, <1>3 DEF EventOf
<1>5. \A s, c : ~Trusting(s, c) /\ ~Trusting(s, c)'
  BY <1>1, <1>2 DEF Trusting, TrustingNow, Done, Idle
<1>6. PICK x : /\ x.dev = d /\ x.trusted = FALSE
               /\ roster' = [roster EXCEPT ![m] = roster[m] \cup {x}]
  BY <1>3 DEF AssignRegister
<1>7. /\ m \in Address /\ missions[t] = m /\ roster \in [Address -> SUBSET Drone]
      /\ \A s \in Slug : s # t /\ missions[s] # 0 => roster'[missions[s]] = roster[missions[s]]
  BY <1>1, <1>3, <1>6, OtherRosters
<1>8. ASSUME NEW s \in Slug, s # t
      PROVE  Of(Announced, s)' = Heard(Of(Announced, s), e, s)
  <2>1. Of(Announced, s)' = Of(Announced, s)
    BY <1>1, <1>5, <1>7, <1>8, SameSlug
  <2> QED  BY <1>4, <1>8, <2>1 DEF Heard
<1>9. Of(Announced, t)' = Heard(Of(Announced, t), e, t)
  <2>1. Members(t)' = Members(t) \cup {x} /\ missions[t] # 0 /\ missions'[t] # 0
    BY <1>1, <1>6, <1>7, MissionAssumption DEF Members, Address
  <2>2. Told(t, "drone", d, "assigned") \subseteq Fact
    BY <1>4 DEF Told, Fact
  <2>3. ASSUME NEW f \in Fact, f.slug = t
        PROVE  (f \in Announced)' <=> f \in Announced \/ f \in Told(t, "drone", d, "assigned")
    <3>1. CASE f.kind # "drone"
      BY <1>1, <2>1, <2>3, <3>1 DEF Announced, Told
    <3>2. CASE f.kind = "drone"
      <4>1. f = [slug |-> t, kind |-> "drone", of |-> f.of, is |-> f.is]
        BY <2>3, <3>2, FactForms
      <4>2. f \in Told(t, "drone", d, "assigned") <=> f.of = d /\ f.is = "assigned"
        BY <4>1 DEF Told
      <4>3. f \in Announced <=> \E y \in Members(t) :
              y.dev = f.of /\ f.is = IF y.trusted THEN "trusted" ELSE "assigned"
        BY <1>5, <2>1, <2>3, <3>2 DEF Announced
      <4>4. (f \in Announced)' <=> \E y \in Members(t)' :
              y.dev = f.of /\ f.is = IF y.trusted THEN "trusted" ELSE "assigned"
        BY <1>5, <2>1, <2>3, <3>2 DEF Announced
      <4> QED  BY <1>6, <2>1, <4>2, <4>3, <4>4
    <3> QED  BY <3>1, <3>2
  <2>4. \A f \in Told(t, "drone", d, "assigned") : f.slug = t
    BY DEF Told
  <2>5. Of(Announced, t)' = Of(Announced, t) \cup Told(t, "drone", d, "assigned")
    BY <2>2, <2>3, <2>4 DEF Of, Announced
  <2> QED  BY <1>4, <2>5 DEF Heard, Matters, Shown
<1> QED  BY <1>3, <1>8, <1>9

LEMMA RemoveIsHeard ==
  ASSUME SafeInv, AddressesApart, NEW p \in Writer, RemoveForget(p),
         UNCHANGED status, \A q \in Writer : h[q] = Idle \/ q = p
  PROVE  \A s \in Slug : Of(Announced, s)' = Heard(Of(Announced, s), EventOf(p), s)
<1>1. /\ h[p] # Idle /\ h[p].op = "remove" /\ Done(p) /\ UNCHANGED missions
  BY DEF RemoveForget, At
<1>2. /\ h[p].slug \in Slug /\ h[p].arg \in Dev
      /\ h \in [Writer -> {Idle} \cup Handler]
  BY <1>1, Busy, HandlerFields DEF SafeInv, ControlTypeOK, HandlersTypeOK
<1>3. PICK t, d, m, e :
        t = h[p].slug /\ d = h[p].arg /\ m = h[p].mission /\ e = EventOf(p)
  OBVIOUS
<1>4. e.type = "remove" /\ e.slug = t /\ e.arg = d /\ t \in Slug /\ d \in Dev
  BY <1>1, <1>2, <1>3 DEF EventOf
<1>5. \A s, c : ~Trusting(s, c) /\ ~Trusting(s, c)'
  BY <1>1, <1>2 DEF Trusting, TrustingNow, Done, Idle
<1>6. roster' = [roster EXCEPT ![m] = {x \in roster[m] : x.dev # d}]
  BY <1>3 DEF RemoveForget
<1>7. /\ m \in Address /\ missions[t] = m /\ roster \in [Address -> SUBSET Drone]
      /\ \A s \in Slug : s # t /\ missions[s] # 0 => roster'[missions[s]] = roster[missions[s]]
  BY <1>1, <1>3, <1>6, OtherRosters
<1>8. ASSUME NEW s \in Slug, s # t
      PROVE  Of(Announced, s)' = Heard(Of(Announced, s), e, s)
  <2>1. Of(Announced, s)' = Of(Announced, s)
    BY <1>1, <1>5, <1>7, <1>8, SameSlug
  <2> QED  BY <1>4, <1>8, <2>1 DEF Heard
<1>9. Of(Announced, t)' = Heard(Of(Announced, t), e, t)
  <2>1. Members(t)' = {x \in Members(t) : x.dev # d} /\ missions[t] # 0 /\ missions'[t] # 0
    BY <1>1, <1>6, <1>7, MissionAssumption DEF Members, Address
  <2>2. ASSUME NEW f \in Fact, f.slug = t
        PROVE  (f \in Announced)' <=> f \in Announced /\ ~(f.kind = "drone" /\ f.of = d)
    <3>1. CASE f.kind # "drone"
      BY <1>1, <2>1, <2>2, <3>1 DEF Announced
    <3>2. CASE f.kind = "drone"
      <4>1. f \in Announced <=> \E y \in Members(t) :
              y.dev = f.of /\ f.is = IF y.trusted THEN "trusted" ELSE "assigned"
        BY <1>5, <2>1, <2>2, <3>2 DEF Announced
      <4>2. (f \in Announced)' <=> \E y \in Members(t)' :
              y.dev = f.of /\ f.is = IF y.trusted THEN "trusted" ELSE "assigned"
        BY <1>5, <2>1, <2>2, <3>2 DEF Announced
      <4> QED  BY <2>1, <3>2, <4>1, <4>2
    <3> QED  BY <3>1, <3>2
  <2>3. Of(Announced, t)' = Of(Announced, t) \ OfDrone(Of(Announced, t), t, d)
    BY <2>2 DEF Of, OfDrone, Announced
  <2> QED  BY <1>4, <2>3 DEF Heard, Matters, Shown
<1> QED  BY <1>3, <1>8, <1>9

LEMMA TaskIsHeard ==
  ASSUME SafeInv, NEW p \in Writer, TaskRegister(p), WatchTypeOK,
         status' = [status EXCEPT ![h[p].slug][h[p].arg] = @ \cup {"in-progress"}],
         \A q \in Writer : h[q] = Idle \/ q = p
  PROVE  \A s \in Slug : Of(Announced, s)' = Heard(Of(Announced, s), EventOf(p), s)
<1>1. /\ h[p] # Idle /\ h[p].op = "task" /\ Done(p) /\ UNCHANGED missions /\ UNCHANGED roster
  BY DEF TaskRegister, At
<1>2. /\ h[p].slug \in Slug /\ h[p].arg \in Task /\ missions[h[p].slug] # 0
      /\ h \in [Writer -> {Idle} \cup Handler]
  <2>1. h[p].mission \in Address /\ h[p].slug \in Slug /\ h[p].arg \in Task
    BY <1>1, Busy, HandlerFields DEF SafeInv, ControlTypeOK
  <2> QED
    BY <1>1, <2>1, MissionAssumption
       DEF SafeInv, ControlTypeOK, HandlersTypeOK, LifecycleInv, HeldIsRegistered, Address
<1>3. PICK t, u, e : t = h[p].slug /\ u = h[p].arg /\ e = EventOf(p)
  OBVIOUS
<1>4. e.type = "task" /\ e.slug = t /\ e.arg = u /\ t \in Slug /\ u \in Task /\ missions[t] # 0
  BY <1>1, <1>2, <1>3 DEF EventOf
<1>5. \A s, d : ~Trusting(s, d) /\ ~Trusting(s, d)'
  BY <1>1, <1>2 DEF Trusting, TrustingNow, Done, Idle
<1>6. /\ status' = [status EXCEPT ![t][u] = status[t][u] \cup {"in-progress"}]
      /\ status \in [Slug -> [Task -> SUBSET Progress]]
  BY <1>3 DEF WatchTypeOK
<1>7. ASSUME NEW s \in Slug, s # t
      PROVE  Of(Announced, s)' = Heard(Of(Announced, s), e, s)
  <2>1. Of(Announced, s)' = Of(Announced, s)
    BY <1>1, <1>5, <1>6, <1>7, SameSlug
  <2> QED  BY <1>4, <1>7, <2>1 DEF Heard
<1>8. Of(Announced, t)' = Heard(Of(Announced, t), e, t)
  <2>1. Members(t)' = Members(t) /\ missions'[t] # 0
    BY <1>1, <1>4 DEF Members
  <2>2. Told(t, "item", u, "in-progress") \subseteq Fact
    BY <1>4, EventsAssumption DEF Told, Fact
  <2>3. ASSUME NEW f \in Fact, f.slug = t
        PROVE  (f \in Announced)' <=>
                 f \in Announced \/ f \in Told(t, "item", u, "in-progress")
    <3>1. CASE f.kind # "item"
      BY <1>4, <1>5, <2>1, <2>3, <3>1 DEF Announced, Told
    <3>2. CASE f.kind = "item"
      <4>1. f = [slug |-> t, kind |-> "item", of |-> f.of, is |-> f.is] /\ f.of \in Task
        BY <2>3, <3>2, FactForms
      <4>2. f \in Told(t, "item", u, "in-progress") <=> f.of = u /\ f.is = "in-progress"
        BY <4>1 DEF Told
      <4>3. /\ f \in Announced <=> f.is \in status[t][f.of]
            /\ (f \in Announced)' <=> f.is \in status'[t][f.of]
        BY <1>4, <2>1, <2>3, <3>2 DEF Announced
      <4> QED  BY <1>4, <1>6, <4>1, <4>2, <4>3
    <3> QED  BY <3>1, <3>2
  <2>4. \A f \in Told(t, "item", u, "in-progress") : f.slug = t
    BY DEF Told
  <2>5. Of(Announced, t)' = Of(Announced, t) \cup Told(t, "item", u, "in-progress")
    BY <2>2, <2>3, <2>4 DEF Of, Announced
  <2> QED  BY <1>4, <2>5 DEF Heard, Matters, Shown
<1> QED  BY <1>3, <1>7, <1>8

\* The drone the handler has marked is the only one of its device there, and
\* is shown as assigned until now.
LEMMA TrustIsHeard ==
  ASSUME SafeInv, NoneListedTwice, JustTrusted, NEW p \in Writer, TrustJoin(p),
         UNCHANGED status, \A q \in Writer : h[q] = Idle \/ q = p
  PROVE  \A s \in Slug : Of(Announced, s)' = Heard(Of(Announced, s), EventOf(p), s)
<1>1. /\ h[p] # Idle /\ h[p].op = "trust" /\ h[p].at = "published" /\ Done(p)
      /\ UNCHANGED missions /\ UNCHANGED roster
  BY DEF TrustJoin, At, memory
<1>2. /\ h[p].slug \in Slug /\ h[p].arg \in Dev /\ missions[h[p].slug] \in Address
      /\ h \in [Writer -> {Idle} \cup Handler]
  <2>1. h[p].mission \in Address /\ h[p].slug \in Slug /\ h[p].arg \in Dev
    BY <1>1, Busy, HandlerFields DEF SafeInv, ControlTypeOK
  <2> QED
    BY <1>1, <2>1, MissionAssumption
       DEF SafeInv, ControlTypeOK, HandlersTypeOK, LifecycleInv, HeldIsRegistered, Address
<1>3. PICK t, d, e : t = h[p].slug /\ d = h[p].arg /\ e = EventOf(p)
  OBVIOUS
<1>4. /\ e.type = "trust" /\ e.slug = t /\ e.arg = d
      /\ t \in Slug /\ d \in Dev /\ missions[t] \in Address /\ missions[t] # 0
  BY <1>1, <1>2, <1>3, MissionAssumption DEF EventOf, Address
<1>5. \A s, c : ~Trusting(s, c)' /\ (Trusting(s, c) <=> s = t /\ c = d)
  BY <1>1, <1>2, <1>3 DEF Trusting, TrustingNow, Done, Idle
<1>6. ASSUME NEW s \in Slug, s # t
      PROVE  Of(Announced, s)' = Heard(Of(Announced, s), e, s)
  <2>1. Of(Announced, s)' = Of(Announced, s)
    BY <1>1, <1>5, <1>6, SameSlug
  <2> QED  BY <1>4, <1>6, <2>1 DEF Heard
<1>7. Of(Announced, t)' = Heard(Of(Announced, t), e, t)
  <2>1. Members(t)' = Members(t) /\ missions'[t] # 0
    BY <1>1, <1>4 DEF Members
  <2>2. Told(t, "drone", d, "trusted") \subseteq Fact
    BY <1>4 DEF Told, Fact
  <2>3. PICK x \in Members(t) : x.dev = d /\ x.trusted
    BY <1>4, <1>5 DEF JustTrusted, TrustedIn
  <2>4. \A y \in Members(t) : y.dev = d => y = x
    BY <1>4, <2>3 DEF NoneListedTwice, Members
  <2>5. ASSUME NEW f \in Fact, f.slug = t
        PROVE  (f \in Announced)' <=> \/ f \in Announced /\ ~(f.kind = "drone" /\ f.of = d)
                                      \/ f \in Told(t, "drone", d, "trusted")
    <3>1. CASE f.kind # "drone"
      BY <1>1, <1>4, <2>1, <2>5, <3>1 DEF Announced, Told
    <3>2. CASE f.kind = "drone"
      <4>1. f = [slug |-> t, kind |-> "drone", of |-> f.of, is |-> f.is]
        BY <2>5, <3>2, FactForms
      <4>2. f \in Told(t, "drone", d, "trusted") <=> f.of = d /\ f.is = "trusted"
        BY <4>1 DEF Told
      <4>3. f \in Announced <=> \E y \in Members(t) :
              y.dev = f.of /\ f.is = IF y.trusted /\ f.of # d THEN "trusted" ELSE "assigned"
        BY <1>4, <1>5, <2>5, <3>2 DEF Announced
      <4>4. (f \in Announced)' <=> \E y \in Members(t) :
              y.dev = f.of /\ f.is = IF y.trusted THEN "trusted" ELSE "assigned"
        BY <1>5, <2>1, <2>5, <3>2 DEF Announced
      <4> QED  BY <2>3, <2>4, <3>2, <4>2, <4>3, <4>4
    <3> QED  BY <3>1, <3>2
  <2>6. \A f \in Told(t, "drone", d, "trusted") : f.slug = t
    BY DEF Told
  <2>7. Of(Announced, t)' = (Of(Announced, t) \ OfDrone(Of(Announced, t), t, d))
                            \cup Told(t, "drone", d, "trusted")
    BY <2>2, <2>5, <2>6 DEF Of, OfDrone, Announced
  <2> QED  BY <1>4, <2>7 DEF Heard, Matters, Shown
<1> QED  BY <1>3, <1>6, <1>7

\* A plan gives new statuses to items that are shown already, and to no other.
LEMMA PlanIsHeard ==
  ASSUME WatchTypeOK, UNCHANGED missionVars, NEW t \in Slug, missions[t] # 0,
         NEW plan \in Plan, NEW e, e.type = "mission-plan", e.slug = t, e.plan = plan,
         status' = [status EXCEPT ![t] = [u \in Task |->
           IF u \in DOMAIN plan /\ @[u] # {} THEN {plan[u]} ELSE @[u]]]
  PROVE  \A s \in Slug : Of(Announced, s)' = Heard(Of(Announced, s), e, s)
<1>1. UNCHANGED missions /\ UNCHANGED roster /\ UNCHANGED h
  BY DEF missionVars, memory
<1>2. \A s, d : Trusting(s, d)' <=> Trusting(s, d)
  BY <1>1 DEF Trusting
<1>3. status \in [Slug -> [Task -> SUBSET Progress]]
  BY DEF WatchTypeOK
<1>4. ASSUME NEW s \in Slug, s # t
      PROVE  Of(Announced, s)' = Heard(Of(Announced, s), e, s)
  <2>1. status'[s] = status[s]
    BY <1>3, <1>4
  <2>2. Of(Announced, s)' = Of(Announced, s)
    BY <1>1, <1>2, <2>1, SameSlug
  <2> QED  BY <1>4, <2>2 DEF Heard
<1>5. \A u \in Task : status'[t][u] =
        IF u \in DOMAIN plan /\ status[t][u] # {} THEN {plan[u]} ELSE status[t][u]
  BY <1>3
<1>6. Of(Announced, t)' = Heard(Of(Announced, t), e, t)
  <2> DEFINE New(f) == IF f.slug = t /\ f.kind = "item" /\ f.of \in DOMAIN plan
                       THEN [f EXCEPT !.is = plan[f.of]] ELSE f
  <2>1. Heard(Of(Announced, t), e, t) = {New(f) : f \in Of(Announced, t)}
    BY DEF Heard, Matters, Shown
  <2>2. Members(t)' = Members(t) /\ missions'[t] # 0
    BY <1>1 DEF Members
  <2>3. ASSUME NEW g \in Fact, g.slug = t, g.kind = "item", g.of \in DOMAIN plan
        PROVE  /\ New(g) = [slug |-> t, kind |-> "item", of |-> g.of, is |-> plan[g.of]]
               /\ New(g) \in Fact
    <3>1. /\ g = [slug |-> t, kind |-> "item", of |-> g.of, is |-> g.is]
          /\ g.of \in Task /\ g.is \in Progress
      BY <2>3, FactForms
    <3>2. plan[g.of] \in Progress
      BY <2>3 DEF Plan
    <3>3. New(g) = [slug |-> t, kind |-> "item", of |-> g.of, is |-> plan[g.of]]
      BY <2>3, <3>1
    <3>4. [slug |-> t, kind |-> "item", of |-> g.of, is |-> plan[g.of]] \in Fact
      BY <3>1, <3>2 DEF Fact
    <3> QED  BY <3>3, <3>4
  <2>4. \A g \in Fact : g.slug = t /\ ~(g.kind = "item" /\ g.of \in DOMAIN plan) => New(g) = g
    OBVIOUS
  <2> HIDE DEF New
  <2>5. ASSUME NEW f \in Fact, f.slug = t, ~(f.kind = "item" /\ f.of \in DOMAIN plan)
        PROVE  (f \in Announced)' <=> \E g \in Of(Announced, t) : f = New(g)
    <3>1. (f \in Announced)' <=> f \in Announced
      <4>1. f.kind = "item" => f.of \in Task
        BY FactForms
      <4> QED  BY <1>2, <1>5, <2>2, <2>5, <4>1 DEF Announced
    <3>2. f \in Announced => \E g \in Of(Announced, t) : f = New(g)
      BY <2>4, <2>5 DEF Of
    <3>3. ASSUME NEW g \in Of(Announced, t), f = New(g) PROVE f \in Announced
      <4>1. g \in Fact /\ g.slug = t /\ g \in Announced
        BY DEF Of, Announced
      <4> QED  BY <2>3, <2>4, <2>5, <3>3, <4>1
    <3> QED  BY <3>1, <3>2, <3>3
  <2>6. ASSUME NEW f \in Fact, f.slug = t, f.kind = "item", f.of \in DOMAIN plan
        PROVE  (f \in Announced)' <=> \E g \in Of(Announced, t) : f = New(g)
    <3>1. /\ f = [slug |-> t, kind |-> "item", of |-> f.of, is |-> f.is]
          /\ f.of \in Task /\ f.is \in Progress
      BY <2>6, FactForms
    <3>2. (f \in Announced)' <=> status[t][f.of] # {} /\ f.is = plan[f.of]
      <4>1. (f \in Announced)' <=> f.is \in status'[t][f.of]
        BY <2>2, <2>6 DEF Announced
      <4>2. status'[t][f.of] = IF status[t][f.of] # {} THEN {plan[f.of]} ELSE {}
        BY <1>5, <2>6, <3>1
      <4> QED  BY <4>1, <4>2
    <3>3. ASSUME status[t][f.of] # {}, f.is = plan[f.of]
          PROVE  \E g \in Of(Announced, t) : f = New(g)
      <4>1. PICK y \in Progress : y \in status[t][f.of]
        BY <1>3, <3>1, <3>3
      <4>2. PICK g : g = [slug |-> t, kind |-> "item", of |-> f.of, is |-> y]
        OBVIOUS
      <4>3. g \in Fact /\ g.slug = t /\ g.kind = "item" /\ g.of = f.of /\ g.is = y
        BY <3>1, <4>2 DEF Fact
      <4>4. g \in Of(Announced, t)
        BY <4>1, <4>3 DEF Of, Announced
      <4> QED  BY <2>3, <2>6, <3>1, <3>3, <4>3, <4>4
    <3>4. ASSUME NEW g \in Of(Announced, t), f = New(g)
          PROVE  status[t][f.of] # {} /\ f.is = plan[f.of]
      <4>1. g \in Fact /\ g.slug = t /\ g \in Announced
        BY DEF Of, Announced
      <4>2. g.kind = "item" /\ g.of \in DOMAIN plan
        BY <2>4, <2>6, <3>4, <4>1
      <4>3. f = [slug |-> t, kind |-> "item", of |-> g.of, is |-> plan[g.of]]
        BY <2>3, <3>4, <4>1, <4>2
      <4>4. g.is \in status[t][g.of]
        BY <4>1, <4>2 DEF Announced
      <4> QED  BY <4>3, <4>4
    <3> QED  BY <3>2, <3>3, <3>4
  <2>7. \A g \in Of(Announced, t) : New(g) \in Fact /\ New(g).slug = t
    <3>1. SUFFICES ASSUME NEW g \in Fact, g.slug = t PROVE New(g) \in Fact /\ New(g).slug = t
      BY DEF Of, Announced
    <3>2. CASE g.kind = "item" /\ g.of \in DOMAIN plan
      BY <2>3, <3>1, <3>2
    <3> QED  BY <2>4, <3>1, <3>2
  <2>8. Of(Announced, t)' = {New(f) : f \in Of(Announced, t)}
    <3>1. \A f : f \in Of(Announced, t)' <=> f \in Fact /\ f.slug = t /\ (f \in Announced)'
      BY DEF Of, Announced
    <3>2. \A f \in Fact : f.slug = t =>
            ((f \in Announced)' <=> \E g \in Of(Announced, t) : f = New(g))
      BY <2>5, <2>6
    <3> QED  BY <2>7, <3>1, <3>2
  <2> QED  BY <2>1, <2>8
<1> QED  BY <1>4, <1>6

\* Marked as trusted, a drone goes on to be shown as assigned.
LEMMA MarkIsSilent ==
  ASSUME SafeInv, AddressesApart, NoneListedTwice, NEW p \in Writer, TrustMark(p),
         UNCHANGED status, \A q \in Writer : h[q] = Idle \/ q = p
  PROVE  JustTrusted' /\ \A s \in Slug : Of(Announced, s)' = Of(Announced, s)
<1>1. h[p] # Idle /\ h[p].op = "trust" /\ h[p].at = "begin" /\ UNCHANGED missions
  BY DEF TrustMark, TrustsBegin, At
<1>2. PICK d, t, m : d = h[p].arg /\ t = drones[d] /\ m = missions[t]
  OBVIOUS
<1>3. /\ t # NoSlug /\ m # 0 /\ Enter(p, "trust", "publish", t, d)
      /\ \/ \E e \in roster[m] :
              /\ First(m, d, e) /\ ~e.trusted
              /\ Replace(m, e, [ref |-> e.ref, dev |-> d,
                                trusted |-> TRUE, status |-> "unknown"])
         \/ d \notin DeviceIn(m) /\ UNCHANGED roster
  BY <1>2 DEF TrustMark
<1>4. /\ d \in Dev /\ h \in [Writer -> {Idle} \cup Handler]
      /\ drones \in [Dev -> Slug \cup {NoSlug}]
      /\ missions \in [Slug -> Address \cup {0}] /\ roster \in [Address -> SUBSET Drone]
  BY <1>1, <1>2, Busy, HandlerFields DEF SafeInv, ControlTypeOK, HandlersTypeOK, MemoryTypeOK
<1>5. t \in Slug /\ m \in Address /\ missions[t] = m
  BY <1>2, <1>3, <1>4
<1>6. d \in DeviceIn(m)
  BY <1>2, <1>3, <1>4 DEF SafeInv, IndexNamesRoster
<1>7. PICK e, x :
        /\ e \in roster[m] /\ e.dev = d /\ ~e.trusted /\ x.dev = d /\ x.trusted = TRUE
        /\ roster' = [roster EXCEPT ![m] = (roster[m] \ {e}) \cup {x}]
  BY <1>3, <1>6 DEF First, Replace
<1>8. \A y \in roster[m] : y.dev = d => y = e
  BY <1>5, <1>7 DEF NoneListedTwice
<1>9. \A s, c : ~Trusting(s, c) /\ (Trusting(s, c)' <=> s = t /\ c = d)
  BY <1>1, <1>3, <1>4 DEF Trusting, TrustingNow, Enter, Idle
<1>10. Members(t) = roster[m] /\ Members(t)' = (roster[m] \ {e}) \cup {x}
  BY <1>1, <1>3, <1>4, <1>5, <1>7 DEF Members
<1>11. JustTrusted'
  BY <1>7, <1>9, <1>10 DEF JustTrusted, TrustedIn
<1>12. ASSUME NEW s \in Slug, s # t PROVE Of(Announced, s)' = Of(Announced, s)
  <2>1. missions[s] # 0 => roster'[missions[s]] = roster[missions[s]]
    BY <1>4, <1>5, <1>7, <1>12 DEF AddressesApart
  <2> QED  BY <1>1, <1>9, <1>12, <2>1, SameSlug
<1>13. Of(Announced, t)' = Of(Announced, t)
  <2>1. SUFFICES ASSUME NEW f \in Fact, f.slug = t
                 PROVE  (f \in Announced)' <=> f \in Announced
    BY DEF Of, Announced
  <2>2. CASE f.kind # "drone"
    BY <1>1, <2>1, <2>2 DEF Announced
  <2>3. CASE f.kind = "drone"
    <3>1. f \in Announced <=> \E y \in Members(t) :
            y.dev = f.of /\ f.is = IF y.trusted THEN "trusted" ELSE "assigned"
      BY <1>3, <1>5, <1>9, <2>1, <2>3 DEF Announced
    <3>2. (f \in Announced)' <=> \E y \in Members(t)' :
            y.dev = f.of /\ f.is = IF y.trusted /\ f.of # d THEN "trusted" ELSE "assigned"
      BY <1>1, <1>3, <1>5, <1>9, <2>1, <2>3 DEF Announced
    <3>3. CASE f.of = d
      BY <1>7, <1>8, <1>10, <3>1, <3>2, <3>3
    <3>4. CASE f.of # d
      BY <1>7, <1>10, <3>1, <3>2, <3>4
    <3> QED  BY <3>3, <3>4
  <2> QED  BY <2>2, <2>3
<1> QED  BY <1>11, <1>12, <1>13

\* Steps that neither change what there is nor what is to be announced.
LEMMA NothingNew ==
  ASSUME JustTrusted, UNCHANGED missions, UNCHANGED roster, UNCHANGED status,
         \A q \in Writer : \A s, d :
           TrustingNow(h[q], s, d)' <=> TrustingNow(h[q], s, d)
  PROVE  JustTrusted' /\ \A s \in Slug : Of(Announced, s)' = Of(Announced, s)
<1>1. \A s, d : Trusting(s, d)' <=> Trusting(s, d)
  BY DEF Trusting
<1>2. \A s, d : TrustedIn(s, d)' <=> TrustedIn(s, d)
  BY DEF TrustedIn, Members
<1> QED  BY <1>1, <1>2, SameSlug DEF JustTrusted

LEMMA OthersAreSilent ==
  ASSUME HandlersTypeOK, JustTrusted, NEW p \in Writer, Handle(p), ~AtEnd(p), UNCHANGED status,
         ~PublishError(p), ~TrustPanics(p), ~TrustMark(p)
  PROVE  JustTrusted' /\ \A s \in Slug : Of(Announced, s)' = Of(Announced, s)
<1>t. h \in [Writer -> {Idle} \cup Handler]
  BY DEF HandlersTypeOK
<1>1. \/ PublishClone(p) \/ PublishCommit(p) \/ PublishPush(p)
      \/ CreateRepo(p) \/ CreateUndo(p) \/ DeleteMissionRepo(p)
      \/ AssignSend(p) \/ RemoveSend(p) \/ TaskNotify(p)
      \/ TrustUnassigned(p) \/ TrustAgain(p)
  BY DEF Handle, Publish, AtEnd, At, CreateRegister, DeleteForget, AssignRegister, RemoveForget,
     TaskRegister, TrustJoin
<1>2. UNCHANGED missions /\ UNCHANGED roster
  BY <1>1 DEF PublishClone, PublishCommit, PublishPush, CreateRepo, CreateUndo,
     DeleteMissionRepo, AssignSend, RemoveSend, TaskNotify, TrustUnassigned, TrustAgain, memory
<1>3. \/ UNCHANGED h
      \/ Done(p) /\ (h[p].op # "trust" \/ h[p].at = "begin")
      \/ \E at : Goto(p, at) /\ h[p].op # "trust"
      \/ Goto(p, "published") /\ h[p].at = "publish"
  <2>1. CASE PublishClone(p) \/ PublishCommit(p) \/ PublishPush(p)
    BY <2>1 DEF PublishClone, PublishCommit, PublishPush, Publishing
  <2>2. CASE CreateRepo(p) \/ CreateUndo(p) \/ DeleteMissionRepo(p) \/ TaskNotify(p)
    BY <2>2 DEF CreateRepo, CreateUndo, DeleteMissionRepo, TaskNotify, At
  <2>3. CASE AssignSend(p) \/ RemoveSend(p)
    BY <2>3 DEF AssignSend, RemoveSend, At
  <2>4. CASE TrustUnassigned(p) \/ TrustAgain(p)
    BY <2>4 DEF TrustUnassigned, TrustAgain, TrustsBegin, At
  <2> QED  BY <1>1, <2>1, <2>2, <2>3, <2>4
<1>4. h[p] # Idle
  BY <1>1 DEF PublishClone, PublishCommit, PublishPush, Publishing, CreateRepo, CreateUndo,
     DeleteMissionRepo, AssignSend, RemoveSend, TaskNotify, TrustUnassigned, TrustAgain,
     TrustsBegin, At
<1>5. ASSUME NEW q \in Writer, NEW s, NEW d
      PROVE  TrustingNow(h[q], s, d)' <=> TrustingNow(h[q], s, d)
  <2>1. CASE q # p
    <3>1. h'[q] = h[q]
      BY <1>t, <1>3, <2>1 DEF Done, Goto
    <3> QED  BY <3>1 DEF TrustingNow
  <2>2. CASE q = p
    BY <1>t, <1>3, <1>4, <2>2 DEF Done, Goto, TrustingNow, Idle
  <2> QED  BY <2>1, <2>2
<1> QED  BY <1>2, <1>5, NothingNew

------------------------------------------------------------------------------
(* What a user is shown is true: every step *)

ViewInv == JustTrusted /\ (overtaken = FALSE => AllLead)

\* A step that is not announced, and changes nothing to be announced.
LEMMA SilentStep ==
  ASSUME ViewInv, Silent, JustTrusted',
         \A s \in Slug : Of(Announced, s)' = Of(Announced, s)
  PROVE  ViewInv'
<1>1. UNCHANGED pending /\ UNCHANGED view /\ overtaken' = overtaken
  BY Zenon DEF Silent
<1> QED  BY <1>1, SilentLeads DEF ViewInv

\* A step that is announced, by the event that changes what is shown as it
\* changed what there is.
LEMMA AnnouncedStep ==
  ASSUME ViewInv, WatchTypeOK, NEW type, NEW s, NEW a, NEW plan, NEW e \in Event,
         e = [type |-> type, slug |-> s, arg |-> a, plan |-> plan],
         Announce(type, s, a, plan), JustTrusted',
         \A t \in Slug : Of(Announced, t)' = Heard(Of(Announced, t), e, t)
  PROVE  ViewInv'
<1>1. pending' = Append(pending, e) /\ UNCHANGED view /\ overtaken' = overtaken
  BY Zenon DEF Announce
<1> QED  BY <1>1, AnnounceLeads DEF ViewInv

\* What the handler that runs alone does at its end.
LEMMA EndStep ==
  ASSUME TellsInv, SafeInv, OutboxInv, HistoryInv, OneByOneInv, WatchTypeOK, ViewInv,
         NEW p \in Writer, HandleAndTell(p), AtEnd(p)
  PROVE  ViewInv'
<1>1. h[p] # Idle /\ h[p] \in Handler /\ h \in [Writer -> {Idle} \cup Handler]
  BY Busy DEF AtEnd, SafeInv, ControlTypeOK, HandlersTypeOK
<1>2. \A q \in Writer : h[q] = Idle \/ q = p
  BY <1>1, AloneAtWork
<1>3. AddressesApart /\ NoneListedTwice /\ JustTrusted
  BY DEF OneByOneInv, ViewInv
<1>4. Announce(h[p].op, h[p].slug, h[p].arg, NoPlan)
  BY DEF HandleAndTell
<1>5. EventOf(p) \in Event
  BY <1>1, HandlerFields DEF AtEnd, EventOf, Event
<1>6. \/ h[p].op = "create" /\ CreateRegister(p)
      \/ h[p].op = "delete" /\ DeleteForget(p)
      \/ h[p].op = "assign" /\ AssignRegister(p)
      \/ h[p].op = "remove" /\ RemoveForget(p)
      \/ h[p].op = "task" /\ TaskRegister(p)
      \/ h[p].op = "trust" /\ TrustJoin(p)
  <2>1. h[p].at # "publish" /\ h[p].at # "begin" /\ h[p].at # "undo"
    BY DEF AtEnd
  <2>2. ~Publish(p)
    BY <2>1 DEF Publish, PublishClone, PublishCommit, PublishPush, PublishError, Publishing
  <2>3. /\ ~CreateRepo(p) /\ ~CreateUndo(p) /\ ~DeleteMissionRepo(p)
        /\ ~AssignSend(p) /\ ~RemoveSend(p) /\ ~TaskNotify(p)
        /\ ~TrustUnassigned(p) /\ ~TrustPanics(p) /\ ~TrustAgain(p) /\ ~TrustMark(p)
    BY <2>1 DEF AtEnd, CreateRepo, CreateUndo, DeleteMissionRepo, AssignSend, RemoveSend,
       TaskNotify, TrustUnassigned, TrustPanics, TrustAgain, TrustMark, TrustsBegin, At
  <2>4. Handle(p)
    BY DEF HandleAndTell
  <2> QED
    BY <2>2, <2>3, <2>4 DEF Handle, CreateRegister, DeleteForget, AssignRegister, RemoveForget,
       TaskRegister, TrustJoin, At
<1>7. Done(p)
  BY <1>6 DEF CreateRegister, DeleteForget, AssignRegister, RemoveForget, TaskRegister, TrustJoin
<1>8. JustTrusted'
  <2>1. \A q \in Writer : h'[q] = Idle
    BY <1>1, <1>2, <1>7 DEF Done
  <2> QED  BY <2>1 DEF JustTrusted, Trusting, TrustingNow
<1>9. /\ h[p].op = "create" => status' = [status EXCEPT ![h[p].slug] = [u \in Task |-> {}]]
      /\ h[p].op = "task" =>
           status' = [status EXCEPT ![h[p].slug][h[p].arg] = @ \cup {"in-progress"}]
      /\ h[p].op \notin {"create", "task"} => UNCHANGED status
  BY DEF HandleAndTell
<1>10. \A s \in Slug : Of(Announced, s)' = Heard(Of(Announced, s), EventOf(p), s)
  BY <1>2, <1>3, <1>6, <1>9, CreateIsHeard, DeleteIsHeard, AssignIsHeard, RemoveIsHeard,
     TaskIsHeard, TrustIsHeard
<1> QED
  BY <1>4, <1>5, <1>8, <1>10, AnnouncedStep DEF EventOf

\* Requests and trust events that arrive change nothing yet.
LEMMA StartStep ==
  ASSUME HandlersTypeOK, ViewInv, UNCHANGED eventVars,
         \/ \E p \in Writer : Ask(p)
         \/ \E d \in Dev : DroneActs(d)
  PROVE  ViewInv'
<1>1. UNCHANGED missions /\ UNCHANGED roster
  BY DEF Ask, CreateMission, DeleteMission, AssignDrone, RemoveDrone, AddTask, Request,
     DroneActs, DroneTrusts, DroneJoins, DroneLeaves, memory
<1> DEFINE Same == \A q \in Writer : \A s, d :
                     TrustingNow(h[q], s, d)' <=> TrustingNow(h[q], s, d)
<1>2. ASSUME NEW p \in Writer, NEW x, h[p] = Idle, h' = [h EXCEPT ![p] = x],
             x.op # "trust" \/ x.at = "begin"
      PROVE  Same
  <2>1. SUFFICES ASSUME NEW q \in Writer, NEW s, NEW d
                 PROVE  TrustingNow(h[q], s, d)' <=> TrustingNow(h[q], s, d)
    OBVIOUS
  <2>2. h'[q] = IF q = p THEN x ELSE h[q]
    BY <1>2 DEF HandlersTypeOK
  <2> QED  BY <1>2, <2>2 DEF TrustingNow
<1>3. Same
  <2>1. ASSUME NEW p \in Writer, NEW op \in {"create", "delete", "assign", "remove", "task"},
               NEW at, NEW s, NEW a, Request(p, op, at, s, a)
        PROVE  Same
    <3> DEFINE x == [op |-> op, at |-> at, slug |-> s, mission |-> missions[s], arg |-> a]
    <3>1. h[p] = Idle /\ h' = [h EXCEPT ![p] = x] /\ x.op # "trust"
      BY <2>1 DEF Request, MayStart, Enter
    <3> HIDE DEF x, Same
    <3> QED  BY <1>2, <3>1
  <2>2. ASSUME NEW p \in Writer, Ask(p) PROVE Same
    <3>1. PICK s \in Slug :
            \/ CreateMission(p, s) \/ DeleteMission(p, s)
            \/ \E d \in Dev : AssignDrone(p, s, d) \/ RemoveDrone(p, s, d)
            \/ \E t \in Task : AddTask(p, s, t)
      BY <2>2 DEF Ask
    <3> HIDE DEF Same
    <3> QED
      BY <2>1, <3>1 DEF CreateMission, DeleteMission, AssignDrone, RemoveDrone, AddTask
  <2>3. ASSUME NEW p \in Writer, NEW d \in Dev, DroneTrusts(p, d) PROVE Same
    <3> DEFINE x == [op |-> "trust", at |-> "begin", slug |-> NoSlug, mission |-> 0, arg |-> d]
    <3>1. h[p] = Idle /\ h' = [h EXCEPT ![p] = x] /\ x.at = "begin"
      BY <2>3 DEF DroneTrusts, MayStart
    <3> HIDE DEF x, Same
    <3> QED  BY <1>2, <3>1
  <2>4. ASSUME NEW d \in Dev, DroneJoins(d) \/ DroneLeaves(d) PROVE Same
    BY <2>4 DEF DroneJoins, DroneLeaves, TrustingNow
  <2> HIDE DEF Same
  <2> QED  BY <2>2, <2>3, <2>4 DEF DroneActs
<1>4. JustTrusted' /\ \A s \in Slug : Of(Announced, s)' = Of(Announced, s)
  BY <1>1, <1>3, NothingNew DEF ViewInv, eventVars
<1>5. Silent
  BY Zenon DEF Silent, eventVars
<1> QED  BY <1>4, <1>5, SilentStep

\* The drones' plans.
LEMMA PlanStep ==
  ASSUME WatchTypeOK, ViewInv, NEW d \in Dev,
         \/ DronePlans(d) \/ FlightPlan(d)
         \/ \E plan \in Plan : MissionPlan(d, plan) \/ MissionPlanOfNobody(d, plan)
  PROVE  ViewInv'
<1>1. UNCHANGED missionVars
  BY DEF DronePlans, FlightPlan, MissionPlan, MissionPlanOfNobody
<1>2. JustTrusted' /\ (UNCHANGED status => \A s \in Slug : Of(Announced, s)' = Of(Announced, s))
  <2>1. UNCHANGED missions /\ UNCHANGED roster /\ UNCHANGED h
    BY <1>1 DEF missionVars, memory
  <2>2. \A q \in Writer : \A s, c : TrustingNow(h[q], s, c)' <=> TrustingNow(h[q], s, c)
    BY <2>1
  <2>3. JustTrusted'
    BY <2>1 DEF ViewInv, JustTrusted, Trusting, TrustedIn, Members
  <2> QED  BY <2>1, <2>2, <2>3, NothingNew DEF ViewInv
<1>3. CASE DronePlans(d)
  <2>1. Silent /\ UNCHANGED status
    BY <1>3, Zenon DEF DronePlans, Silent
  <2> QED  BY <1>2, <2>1, SilentStep
<1>4. ASSUME NEW plan \in Plan, MissionPlanOfNobody(d, plan) PROVE ViewInv'
  <2>1. Silent /\ UNCHANGED status
    BY <1>4, Zenon DEF MissionPlanOfNobody
  <2> QED  BY <1>2, <2>1, SilentStep
<1>5. CASE FlightPlan(d)
  <2>1. PICK s \in Slug : Announce("flight-plan", s, d, NoPlan)
    BY <1>5 DEF FlightPlan, Resolved
  <2>2. PICK e : e = [type |-> "flight-plan", slug |-> s, arg |-> d, plan |-> NoPlan]
    OBVIOUS
  <2>3. e \in Event
    BY <2>2 DEF Event
  <2>4. ASSUME NEW t \in Slug PROVE Of(Announced, t)' = Heard(Of(Announced, t), e, t)
    BY <1>2, <1>5, <2>2 DEF FlightPlan, Heard, Matters
  <2> QED  BY <1>2, <2>1, <2>2, <2>3, <2>4, AnnouncedStep
<1>6. ASSUME NEW plan \in Plan, MissionPlan(d, plan) PROVE ViewInv'
  <2>1. PICK s \in Slug :
          /\ missions[s] # 0
          /\ status' = [status EXCEPT ![s] = [t \in Task |->
               IF t \in DOMAIN plan /\ @[t] # {} THEN {plan[t]} ELSE @[t]]]
          /\ Announce("mission-plan", s, d, plan)
    BY <1>6 DEF MissionPlan, Resolved, Members
  <2>2. PICK e : e = [type |-> "mission-plan", slug |-> s, arg |-> d, plan |-> plan]
    OBVIOUS
  <2>3. e \in Event
    BY <2>2 DEF Event
  <2>4. \A t \in Slug : Of(Announced, t)' = Heard(Of(Announced, t), e, t)
    BY <1>1, <2>1, <2>2, PlanIsHeard
  <2> QED  BY <1>2, <2>1, <2>2, <2>3, <2>4, AnnouncedStep
<1> QED  BY <1>3, <1>4, <1>5, <1>6

LEMMA PublishStep ==
  ASSUME WatchTypeOK, ViewInv, PublishesEvents
  PROVE  ViewInv'
<1>1. PICK i : PublishEvent(i)
  BY DEF PublishesEvents
<1>2. UNCHANGED missionVars /\ UNCHANGED status /\ i \in DOMAIN pending
  BY <1>1 DEF PublishEvent
<1>3. JustTrusted' /\ \A s \in Slug : Of(Announced, s)' = Of(Announced, s)
  <2>1. UNCHANGED missions /\ UNCHANGED roster /\ UNCHANGED h
    BY <1>2 DEF missionVars, memory
  <2> QED  BY <1>2, <2>1, NothingNew DEF ViewInv
<1>4. ASSUME overtaken' = FALSE PROVE AllLead'
  <2>1. /\ overtaken = FALSE
        /\ \A j \in 1..(i - 1) :
             ~(Matters(pending[i]) /\ Matters(pending[j]) /\ pending[j].slug = pending[i].slug)
    BY <1>1, <1>4, Zenon DEF PublishEvent, WatchTypeOK
  <2>2. view' = Shown(view, pending[i])
    BY <1>1, <1>4, Zenon DEF PublishEvent
  <2>3. pending' = SubSeq(pending, 1, i - 1) \o SubSeq(pending, i + 1, Len(pending))
    BY <1>1 DEF PublishEvent
  <2> QED  BY <1>2, <1>3, <2>1, <2>2, <2>3, PublishLeads DEF ViewInv
<1> QED  BY <1>3, <1>4 DEF ViewInv

LEMMA HandleStep ==
  ASSUME "git" \notin Faults, "rm" \notin Faults,
         TellsInv, SafeInv, OutboxInv, HistoryInv, OneByOneInv, WatchTypeOK, ViewInv,
         NEW p \in Writer, HandleAndTell(p)
  PROVE  ViewInv'
<1>1. CASE AtEnd(p)
  BY <1>1, EndStep
<1>2. CASE ~AtEnd(p)
  <2>1. Handle(p) /\ Silent /\ UNCHANGED status
    BY <1>2 DEF HandleAndTell
  <2>2. ~PublishError(p) /\ ~TrustPanics(p)
    BY NoPublishError, NoPanic DEF SafeInv
  <2>3. CASE TrustMark(p)
    <3>1. h[p] # Idle
      BY <2>3 DEF TrustMark, TrustsBegin, At
    <3>2. \A q \in Writer : h[q] = Idle \/ q = p
      BY <3>1, AloneAtWork
    <3> QED
      BY <2>1, <2>3, <3>2, MarkIsSilent, SilentStep DEF OneByOneInv
  <2>4. CASE ~TrustMark(p)
    BY <1>2, <2>1, <2>2, <2>4, OthersAreSilent, SilentStep DEF ViewInv, SafeInv, ControlTypeOK
  <2> QED  BY <2>3, <2>4
<1> QED  BY <1>1, <1>2

LEMMA NextKeepsView ==
  ASSUME "git" \notin Faults, "rm" \notin Faults,
         TellsInv, SafeInv, OutboxInv, HistoryInv, OneByOneInv, WatchTypeOK, ViewInv,
         [EventsNext]_watchedVars
  PROVE  ViewInv'
<1>1. CASE \E p \in Writer : HandleAndTell(p)
  BY <1>1, HandleStep
<1>2. CASE \/ \E p \in Writer : AskAndTell(p)
           \/ \E d \in Dev : DroneActsAndTells(d)
  BY <1>2, StartStep DEF AskAndTell, DroneActsAndTells, SafeInv, ControlTypeOK
<1>3. ASSUME NEW d \in Dev,
             \/ DronePlans(d) \/ FlightPlan(d)
             \/ \E plan \in Plan : MissionPlan(d, plan) \/ MissionPlanOfNobody(d, plan)
      PROVE  ViewInv'
  BY <1>3, PlanStep
<1>4. CASE PublishesEvents
  BY <1>4, PublishStep
<1>5. CASE UNCHANGED watchedVars
  <2>1. /\ UNCHANGED missions /\ UNCHANGED roster /\ UNCHANGED h /\ UNCHANGED status
        /\ UNCHANGED missionVars
    BY <1>5 DEF watchedVars, eventVars, missionVars, memory
  <2>2. Silent
    BY <1>5, Zenon DEF watchedVars, eventVars, Silent
  <2>3. JustTrusted' /\ \A s \in Slug : Of(Announced, s)' = Of(Announced, s)
    BY <2>1, NothingNew DEF ViewInv
  <2> QED  BY <2>2, <2>3, SilentStep
<1> QED
  BY <1>1, <1>2, <1>3, <1>4, <1>5 DEF EventsNext

\* Where handlers run one at a time, git does not fail and a drone is removed
\* from the mission it is in: however events wait and overtake those of other
\* missions, and whatever drones plan in between, a user who was told the events
\* of each mission in their order is shown what there is.
THEOREM ViewStaysTrue ==
  ASSUME OneAtATime, "git" \notin Faults, "rm" \notin Faults, "reinit" \notin Faults
  PROVE  EventsSpec /\ [][RemovalsNameMission]_missionVars => []ViewIsTrueUnlessOvertaken
<1> DEFINE Inv == TellsInv /\ SafeInv /\ OutboxInv /\ HistoryInv /\ OneByOneInv /\ WatchTypeOK
<1>1. EventsSpec /\ [][RemovalsNameMission]_missionVars => []Inv
  <2>1. "delete" \in Alone /\ Exclusive \subseteq Alone
    BY DEF OneAtATime, Exclusive
  <2>2. MissionSpec => [](SafeInv /\ OutboxInv /\ HistoryInv)
    BY <2>1, HistoryInvariant
  <2>3. MissionSpec => []TellsInv
    BY TellsInvariant, EventsAssumption
  <2>4. MissionSpec /\ [][RemovalsNameMission]_missionVars => []OneByOneInv
    BY <2>1, OneByOneInvariant
  <2>5. EventsTypeOK => WatchTypeOK
    BY DEF EventsTypeOK, WatchTypeOK
  <2> QED
    BY <2>2, <2>3, <2>4, <2>5, EventsTypeCorrect, EventsImplementMission, PTL
<1>2. EventsInit => ViewInv
  <2>1. SUFFICES ASSUME EventsInit PROVE ViewInv
    OBVIOUS
  <2>2. /\ \A q \in Writer : h[q] = Idle
        /\ \A s \in Slug : missions[s] = 0
        /\ pending = << >> /\ view = {}
    BY <2>1 DEF EventsInit, MissionInit
  <2>3. JustTrusted
    BY <2>2 DEF JustTrusted, Trusting, TrustingNow
  <2>4. ASSUME NEW s \in Slug PROVE Leads(s)
    <3> DEFINE V == [i \in 1..1 |-> {}]
    <3>1. Of(view, s) = {} /\ Of(Announced, s) = {}
      BY <2>2 DEF Of, Announced
    <3>2. V \in [1..(0 + 1) -> SUBSET Fact] /\ V[1] = {}
      OBVIOUS
    <3>3. Len(<< >>) = 0
      OBVIOUS
    <3>4. Trail(V, << >>, {}, {}, s)
      BY <3>2, <3>3 DEF Trail
    <3> QED  BY <2>2, <3>1, <3>4 DEF Leads
  <2> QED  BY <2>3, <2>4 DEF ViewInv, AllLead
<1>3. Inv /\ ViewInv /\ [EventsNext]_watchedVars => ViewInv'
  BY NextKeepsView
<1>4. Inv /\ ViewInv => ViewIsTrueUnlessOvertaken
  <2>1. SUFFICES ASSUME Inv, ViewInv, Quiet, pending = << >>, ~overtaken
                 PROVE  view = Truth
    BY DEF ViewIsTrueUnlessOvertaken
  <2>2. overtaken = FALSE
    BY <2>1, Zenon DEF WatchTypeOK
  <2>3. \A s, d : ~Trusting(s, d)
    BY <2>1 DEF Quiet, Trusting, TrustingNow
  <2>4. Announced = Truth
    BY <2>3 DEF Announced, Truth
  <2>5. ASSUME NEW s \in Slug PROVE Of(view, s) = Of(Truth, s)
    <3>1. PICK V : Trail(V, << >>, Of(view, s), Of(Truth, s), s)
      BY <2>1, <2>2, <2>4 DEF ViewInv, AllLead, Leads
    <3>2. Len(<< >>) = 0
      OBVIOUS
    <3> QED  BY <3>1, <3>2 DEF Trail
  <2>6. view \subseteq Fact /\ Truth \subseteq Fact /\ \A f \in Fact : f.slug \in Slug
    BY <2>1 DEF WatchTypeOK, Truth, Fact
  <2> QED  BY <2>5, <2>6 DEF Of
<1> QED
  BY <1>1, <1>2, <1>3, <1>4, PTL DEF EventsSpec
============================================================================
