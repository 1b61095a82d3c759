----------------------------- MODULE MissionEvents -----------------------------
(***************************************************************************)
(* What mission-control tells a user who watches, next to what it has.     *)
(* A handler that has changed the maps announces it, in a goroutine that   *)
(* only publishes this one event: whichever of these gets the mutex first  *)
(* is heard first.  From there on the user's websocket is a feed without   *)
(* gaps (EventFeed, which WebsocketFanout implements).  The user applies   *)
(* each event to what it shows.                                            *)
(*                                                                         *)
(* Also here: the drones' mission-plan and flight-plan events, each in a   *)
(* goroutine of its own, without a sequence number and without the mission *)
(* they are about.  mission-state events are left out: of the statuses     *)
(* they set only "failed" is announced, so that no user could keep track;  *)
(* and so are crashes, which end the feed.                                 *)
(***************************************************************************)
EXTENDS MissionControl

CONSTANTS
  Progress,     \* statuses a drone may report of a backlog item
  MaxPending    \* bound: announcements not published yet

\* A handler that cannot send join-mission announces nothing: not modelled.
ASSUME EventsAssumption ==
  /\ "in-progress" \in Progress
  /\ "mqtt" \notin Faults
  /\ MaxPending \in Nat

VARIABLES
  status,       \* status[s][t]: statuses of the items of id t in backlog[s]
  plans,        \* plans[d]: mission plans on their way from drone d
  pending,      \* events handed to go publishMessage, in that order
  view,         \* what the user has been told that still holds
  overtaken     \* history: an event was published before an older one of its mission

eventVars == <<status, plans, pending, view, overtaken>>
watchedVars == <<missionVars, eventVars>>

\* A plan gives the status of some tasks.
Plan == UNION {[T -> Progress] : T \in SUBSET Task}
NoPlan == [t \in {} |-> "in-progress"]

Event ==
  [type: {"create", "delete"}, slug: Slug, arg: {NoSlug}, plan: {NoPlan}] \cup
  [type: {"assign", "remove", "trust", "flight-plan"}, slug: Slug, arg: Dev,
   plan: {NoPlan}] \cup
  [type: {"task"}, slug: Slug, arg: Task, plan: {NoPlan}] \cup
  [type: {"mission-plan"}, slug: Slug, arg: Dev, plan: Plan]

\* What a user may know of a mission.
Fact ==
  [slug: Slug, kind: {"mission"}, of: {NoSlug}, is: {"there"}] \cup
  [slug: Slug, kind: {"drone"}, of: Dev, is: {"assigned", "trusted"}] \cup
  [slug: Slug, kind: {"item"}, of: Task, is: Progress]

EventsTypeOK ==
  /\ MissionTypeOK
  /\ status \in [Slug -> [Task -> SUBSET Progress]]
  /\ plans \in [Dev -> SUBSET Plan]
  /\ pending \in Seq(Event) /\ Len(pending) <= MaxPending
  /\ view \subseteq Fact
  /\ overtaken \in BOOLEAN

EventsInit ==
  /\ MissionInit
  /\ status = [s \in Slug |-> [t \in Task |-> {}]]
  /\ plans = [d \in Dev |-> {}]
  /\ pending = << >>
  /\ view = {}
  /\ overtaken = FALSE

------------------------------------------------------------------------------
(* Announcing *)

Announce(type, s, a, plan) ==
  /\ Len(pending) < MaxPending
  /\ pending' = Append(pending, [type |-> type, slug |-> s, arg |-> a, plan |-> plan])
  /\ UNCHANGED <<view, overtaken>>

Silent == UNCHANGED <<pending, view, overtaken>>

\* What a handler does after its last blocking call ends with an event.
AtEnd(p) ==
  /\ h[p] # Idle
  /\ \/ h[p].at = "finish"
     \/ h[p].at = "published" /\ h[p].op \in {"create", "trust"}

HandleAndTell(p) ==
  /\ Handle(p)
  /\ IF AtEnd(p) THEN Announce(h[p].op, h[p].slug, h[p].arg, NoPlan) ELSE Silent
  /\ UNCHANGED plans
  /\ LET s == h[p].slug
         t == h[p].arg
     IN  status' =
           IF AtEnd(p) /\ h[p].op = "create"
           THEN [status EXCEPT ![s] = [u \in Task |-> {}]]
           ELSE IF AtEnd(p) /\ h[p].op = "task"
           THEN [status EXCEPT ![s][t] = @ \cup {"in-progress"}]
           ELSE status

AskAndTell(p) == Ask(p) /\ UNCHANGED eventVars

DroneActsAndTells(d) == DroneActs(d) /\ UNCHANGED eventVars

------------------------------------------------------------------------------
(* handleMissionPlanEvent and handleFlightPlanEvent *)

\* A drone plans for the tasks in its clone of the mission's repository.
Pulled(s) ==
  {t \in Task : \E i \in DOMAIN main[s] : main[s][i].msg = [type |-> "task", name |-> t]}

DronePlans(d) ==
  /\ "plan" \in Ops
  /\ link[d] # NoSlug
  /\ \E plan \in [Pulled(link[d]) -> Progress] :
       plans' = [plans EXCEPT ![d] = @ \cup {plan}]
  /\ UNCHANGED <<missionVars, status, pending, view, overtaken>>

\* resolveMissionSlug: any mission with a Drone of the device.
Resolved(d) == {s \in Slug : \E e \in Members(s) : e.dev = d}

\* Mutant: the statuses are stored and nobody is told.
PlanUntold(d, plan) ==
  /\ process = "up"
  /\ plan \in plans[d]
  /\ plans' = [plans EXCEPT ![d] = @ \ {plan}]
  /\ \E s \in Resolved(d) :
       status' = [status EXCEPT ![s] = [t \in Task |->
         IF t \in DOMAIN plan /\ @[t] # {} THEN {plan[t]} ELSE @[t]]]
  /\ Silent
  /\ UNCHANGED missionVars

\* Items that are not in the backlog (yet) get no status.
MissionPlan(d, plan) ==
  /\ process = "up"
  /\ plan \in plans[d]
  /\ plans' = [plans EXCEPT ![d] = @ \ {plan}]
  /\ \E s \in Resolved(d) :
       /\ status' = [status EXCEPT ![s] = [t \in Task |->
            IF t \in DOMAIN plan /\ @[t] # {} THEN {plan[t]} ELSE @[t]]]
       /\ Announce("mission-plan", s, d, plan)
  /\ UNCHANGED missionVars

MissionPlanOfNobody(d, plan) ==
  /\ process = "up"
  /\ plan \in plans[d] /\ Resolved(d) = {}
  /\ plans' = [plans EXCEPT ![d] = @ \ {plan}]
  /\ Silent
  /\ UNCHANGED <<missionVars, status>>

\* Mutant: a drone in no mission is not told from one in a mission.
FlightPlanOfAnybody(d) ==
  /\ process = "up"
  /\ "flight" \in Ops
  /\ \E s \in IF Resolved(d) = {} THEN {NoSlug} ELSE Resolved(d) :
       Announce("flight-plan", s, d, NoPlan)
  /\ UNCHANGED <<missionVars, status, plans>>

\* Passed on as it is.
FlightPlan(d) ==
  /\ process = "up"
  /\ "flight" \in Ops
  /\ \E s \in Resolved(d) : Announce("flight-plan", s, d, NoPlan)
  /\ UNCHANGED <<missionVars, status, plans>>

------------------------------------------------------------------------------
(* Publishing, and what the user makes of it *)

Of(w, s) == {f \in w : f.slug = s}

OfDrone(w, s, d) == {f \in Of(w, s) : f.kind = "drone" /\ f.of = d}

Told(s, kind, of, is) == {[slug |-> s, kind |-> kind, of |-> of, is |-> is]}

\* Who is shown w, and is told e, is shown this.
Shown(w, e) ==
  LET s == e.slug IN
  CASE e.type = "create" -> (w \ Of(w, s)) \cup Told(s, "mission", NoSlug, "there")
    [] e.type = "delete" -> w \ Of(w, s)
    [] e.type = "assign" -> w \cup Told(s, "drone", e.arg, "assigned")
    [] e.type = "trust" ->
         (w \ OfDrone(w, s, e.arg)) \cup Told(s, "drone", e.arg, "trusted")
    [] e.type = "remove" -> w \ OfDrone(w, s, e.arg)
    [] e.type = "task" -> w \cup Told(s, "item", e.arg, "in-progress")
    [] e.type = "mission-plan" ->
         {IF f.slug = s /\ f.kind = "item" /\ f.of \in DOMAIN e.plan
          THEN [f EXCEPT !.is = e.plan[f.of]] ELSE f : f \in w}
    [] OTHER -> w

Matters(e) == e.type # "flight-plan"

\* The i-th waiting goroutine gets the mutex.  Who was told things in the wrong
\* order is not followed any further.
PublishEvent(i) ==
  /\ i \in DOMAIN pending
  /\ pending' = SubSeq(pending, 1, i - 1) \o SubSeq(pending, i + 1, Len(pending))
  /\ overtaken' = (overtaken \/ \E j \in 1..(i - 1) :
       /\ Matters(pending[i]) /\ Matters(pending[j])
       /\ pending[j].slug = pending[i].slug)
  /\ view' = IF overtaken' THEN {} ELSE Shown(view, pending[i])
  /\ UNCHANGED <<missionVars, status, plans>>

------------------------------------------------------------------------------
PublishesEvents == \E i \in 1..MaxPending : PublishEvent(i)

EventsNext ==
  \/ \E p \in Writer : AskAndTell(p) \/ HandleAndTell(p)
  \/ \E d \in Dev :
       \/ DroneActsAndTells(d) \/ DronePlans(d) \/ FlightPlan(d)
       \/ \E plan \in Plan : MissionPlan(d, plan) \/ MissionPlanOfNobody(d, plan)
  \/ PublishesEvents

EventsSpec == EventsInit /\ [][EventsNext]_watchedVars

\* As FairMissionSpec, and every started goroutine gets to publish.  Handlers
\* have strong fairness since the bound on announcements, which the code does
\* not have, may stop them again and again.
FairEventsSpec ==
  /\ EventsSpec
  /\ \A p \in Writer : SF_watchedVars(HandleAndTell(p))
  /\ \A d \in Dev : SF_watchedVars(DroneActsAndTells(d))
  /\ WF_watchedVars(PublishesEvents)

------------------------------------------------------------------------------
(* Properties *)

\* What a user should be shown.
Truth ==
  {f \in Fact :
     /\ missions[f.slug] # 0
     /\ f.kind = "drone" => \E e \in Members(f.slug) :
          e.dev = f.of /\ f.is = IF e.trusted THEN "trusted" ELSE "assigned"
     /\ f.kind = "item" => f.is \in status[f.slug][f.of]}

\* Every change to missions, rosters, trust and items is announced, once and
\* for the mission it is a change of: when nothing is going on, who has been
\* told everything is shown what there is, unless an announcement overtook an
\* older one of its mission.
ViewIsTrueUnlessOvertaken ==
  Quiet /\ pending = << >> /\ ~overtaken => view = Truth
============================================================================
