------------------------------ MODULE GitOutbox ------------------------------
(***************************************************************************)
(* The git repositories of the missions, as mission-control uses them.     *)
(* Every goroutine that publishes clones repositories/<slug>.git to a      *)
(* directory of its own, commits one message there and pushes; nothing     *)
(* serialises two publishers of a mission, nor a publisher and the removal *)
(* of its repository.  git refuses a push whose parent is no longer the    *)
(* head of main, and nobody retries.                                       *)
(*                                                                         *)
(* MissionControl extends this module: its handlers' git steps are the     *)
(* actions below.                                                          *)
(***************************************************************************)
EXTENDS Naturals, Sequences

CONSTANTS
  Slug,        \* mission slugs; a mission's repository is named after its slug
  Writer,      \* the goroutines of mission-control that may publish
  Message,     \* what is appended to cloud/outbox.log
  Config,      \* the initial commit, config.yaml
  Faults,      \* the external operations that may fail in a run
  MaxCommits   \* bound: local commits ever made

ASSUME OutboxAssumption ==
  /\ Config \notin Message
  /\ MaxCommits \in Nat

VARIABLES
  repos,       \* the slugs whose bare repository exists on disk
  main,        \* main[s]: commits on branch main of repository s
  clone,       \* clone[w]: the working copy of a publishing goroutine
  clock,       \* last time stamp taken; each commit takes a later one
  acked        \* history: acked[s], commits whose publisher returned nil

outboxVars == <<repos, main, clone, clock, acked>>

Payload == Message \cup {Config}
Commit == [msg: Payload, at: Nat]

NoClone == [stage |-> "none"]
Clones ==
  [stage: {"cloned", "committed"}, slug: Slug, base: Seq(Commit), msg: Payload, at: Nat]

OutboxTypeOK ==
  /\ repos \subseteq Slug
  /\ main \in [Slug -> Seq(Commit)]
  /\ clone \in [Writer -> {NoClone} \cup Clones]
  /\ clock \in 0..MaxCommits
  /\ acked \in [Slug -> SUBSET Commit]

OutboxInit ==
  /\ repos = {}
  /\ main = [s \in Slug |-> << >>]
  /\ clone = [w \in Writer |-> NoClone]
  /\ clock = 0
  /\ acked = [s \in Slug |-> {}]

------------------------------------------------------------------------------
(* The steps of a publication.  The two functions that publish differ only *)
(* in the message and in what their callers do on an error.                *)

InitBareRepo(s) ==
  /\ s \notin repos
  /\ repos' = repos \cup {s}
  /\ UNCHANGED <<main, clone, clock, acked>>

\* Mutant: the directory is left where it was.
KeepHistory(s) ==
  /\ s \in repos
  /\ repos' = repos \ {s}
  /\ UNCHANGED <<main, clone, clock, acked>>

DeleteRepo(s) ==
  /\ s \in repos
  /\ repos' = repos \ {s}
  /\ main' = [main EXCEPT ![s] = << >>]
  /\ acked' = [acked EXCEPT ![s] = {}]
  /\ UNCHANGED <<clone, clock>>

GitClone(w, s, m) ==
  /\ clone[w] = NoClone
  /\ s \in repos
  /\ clone' = [clone EXCEPT ![w] =
       [stage |-> "cloned", slug |-> s, base |-> main[s], msg |-> m, at |-> 0]]
  /\ UNCHANGED <<repos, main, clock, acked>>

\* Mutant: the line carries no time of its own.
CommitUnstamped(w) ==
  /\ clone[w].stage = "cloned"
  /\ clone' = [clone EXCEPT ![w] = [@ EXCEPT !.stage = "committed"]]
  /\ UNCHANGED <<repos, main, clock, acked>>

\* The message is stamped, appended to the outbox file and committed locally.
GitCommit(w) ==
  /\ clone[w].stage = "cloned"
  /\ clock < MaxCommits
  /\ clock' = clock + 1
  /\ clone' = [clone EXCEPT ![w] = [stage |-> "committed", slug |-> @.slug,
                                     base |-> @.base, msg |-> @.msg, at |-> clock']]
  /\ UNCHANGED <<repos, main, acked>>

\* Mutant: git push --force.
ForcePush(w) == clone[w].slug \in repos

\* git accepts the push only as a fast-forward of the repository's main.
FastForward(w) ==
  /\ clone[w].slug \in repos
  /\ main[clone[w].slug] = clone[w].base

Committed(w) == [msg |-> clone[w].msg, at |-> clone[w].at]

PushedMain(w) ==
  [main EXCEPT ![clone[w].slug] = Append(clone[w].base, Committed(w))]

GitPush(w) ==
  /\ clone[w].stage = "committed"
  /\ FastForward(w)
  /\ main' = PushedMain(w)
  /\ acked' = [acked EXCEPT ![clone[w].slug] = @ \cup {Committed(w)}]
  /\ clone' = [clone EXCEPT ![w] = NoClone]
  /\ UNCHANGED <<repos, clock>>

\* rm -rf of the working copy fails after the push: the caller gets an error.
GitPushUncleaned(w) ==
  /\ "rm" \in Faults
  /\ clone[w].stage = "committed"
  /\ FastForward(w)
  /\ main' = PushedMain(w)
  /\ clone' = [clone EXCEPT ![w] = NoClone]
  /\ UNCHANGED <<repos, clock, acked>>

\* The publication fails before anything reached the repository.
GitRefused(w) ==
  /\ clone[w].stage = "committed"
  /\ ~FastForward(w)
  /\ clone' = [clone EXCEPT ![w] = NoClone]
  /\ UNCHANGED <<repos, main, clock, acked>>

GitFault(w) ==
  /\ "git" \in Faults
  /\ clone[w] # NoClone
  /\ clone' = [clone EXCEPT ![w] = NoClone]
  /\ UNCHANGED <<repos, main, clock, acked>>

\* The process dies: the repositories are on disk, what was in hand is lost.
LoseClones ==
  /\ clone' = [w \in Writer |-> NoClone]
  /\ UNCHANGED <<repos, main, clock, acked>>

OutboxNext ==
  \/ LoseClones
  \/ \E s \in Slug : InitBareRepo(s) \/ DeleteRepo(s)
  \/ \E w \in Writer :
       \/ \E s \in Slug, m \in Payload : GitClone(w, s, m)
       \/ GitCommit(w)
       \/ GitPush(w)
       \/ GitPushUncleaned(w)
       \/ GitRefused(w)
       \/ GitFault(w)

OutboxSpec == OutboxInit /\ [][OutboxNext]_outboxVars

------------------------------------------------------------------------------
(* Properties *)

InLog(c, log) == \E i \in DOMAIN log : log[i] = c

\* publishGitMessage returned nil for a commit: it is on main for as long as
\* the repository exists, whatever other goroutines clone and push meanwhile.
AckedIsInLog ==
  \A s \in Slug : \A c \in acked[s] : InLog(c, main[s])

Ordered(log) == \A i, j \in DOMAIN log : i < j => log[i].at < log[j].at

\* The time stamps of the outbox lines, taken from the clock long before the
\* push, rise along main: drones can read outbox.log as a history.
LogInTimeOrder == \A s \in Slug : Ordered(main[s])

\* A step never takes anything off a repository that stays: main grows by
\* commits at its end, so a drone's own clone can always be fast-forwarded.
AppendOnly ==
  [][\A s \in repos \cap repos' :
       /\ Len(main[s]) <= Len(main'[s])
       /\ SubSeq(main'[s], 1, Len(main[s])) = main[s]]_outboxVars

\* The strengthening the proofs need: stamps in hand are never ahead of the
\* clock, and a commit is stamped later than everything its clone held.
Before(log, t) == \A i \in DOMAIN log : log[i].at < t

StampsBehindClock ==
  /\ \A s \in Slug : Before(main[s], clock + 1)
  /\ \A w \in Writer : clone[w] # NoClone =>
       /\ Before(clone[w].base, clock + 1)
       /\ clone[w].stage = "committed" =>
            clone[w].at <= clock /\ Before(clone[w].base, clone[w].at)

NothingOutsideRepos ==
  \A s \in Slug \ repos : main[s] = << >> /\ acked[s] = {}

OutboxInv ==
  /\ OutboxTypeOK
  /\ StampsBehindClock
  /\ NothingOutsideRepos
  /\ LogInTimeOrder
  /\ AckedIsInLog

Log == INSTANCE OutboxLog WITH Stamp <- 0..MaxCommits

\* The clone/commit/push protocol is, to its callers, an atomic append.
ImplementsLog == Log!LogSpec
==============================================================================
