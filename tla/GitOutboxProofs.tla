--------------------------- MODULE GitOutboxProofs ---------------------------
(***************************************************************************)
(* Proofs about GitOutbox, for any set of slugs, goroutines and messages   *)
(* and any bound on the commits.  One invariant carries all of them: the   *)
(* stamp of a commit in hand is later than everything in the clone it was  *)
(* made in, and a push is accepted only if main still is that clone.       *)
(***************************************************************************)
EXTENDS GitOutbox, TLAPS

------------------------------------------------------------------------------
(* Appending one commit to a log *)

\* Appending an element to a sequence keeps every earlier element in place.
LEMMA AppendKeeps ==
  ASSUME NEW S, NEW log \in Seq(S), NEW c \in S
  PROVE  /\ Append(log, c) \in Seq(S)
         /\ Len(Append(log, c)) = Len(log) + 1
         /\ DOMAIN log = 1..Len(log)
         /\ DOMAIN Append(log, c) = 1..(Len(log) + 1)
         /\ \A i \in DOMAIN log : Append(log, c)[i] = log[i]
         /\ Append(log, c)[Len(log) + 1] = c
  OBVIOUS

\* A commit stamped after a time-ordered log extends it in time order.
LEMMA AppendOrdered ==
  ASSUME NEW log \in Seq(Commit), NEW c \in Commit,
         Ordered(log), Before(log, c.at)
  PROVE  Ordered(Append(log, c))
<1>1. SUFFICES ASSUME NEW i \in DOMAIN Append(log, c), NEW j \in DOMAIN Append(log, c), i < j
               PROVE  Append(log, c)[i].at < Append(log, c)[j].at
  BY DEF Ordered
<1>2. i \in DOMAIN log
  BY AppendKeeps, <1>1
<1>3. CASE j \in DOMAIN log
  BY <1>1, <1>2, <1>3, AppendKeeps DEF Ordered
<1>4. CASE j = Len(log) + 1
  BY <1>2, <1>4, AppendKeeps DEF Before
<1> QED
  BY <1>1, <1>3, <1>4, AppendKeeps

\* What is in a log before a later time stays so when a commit of before
\* that time is appended.
LEMMA AppendBefore ==
  ASSUME NEW log \in Seq(Commit), NEW c \in Commit, NEW t \in Nat,
         Before(log, t), c.at < t
  PROVE  Before(Append(log, c), t)
  BY AppendKeeps DEF Before

\* A log before some time is before every later one.
LEMMA BeforeLater ==
  ASSUME NEW log \in Seq(Commit), NEW t \in Nat, NEW u \in Nat, t <= u, Before(log, t)
  PROVE  Before(log, u)
<1>1. SUFFICES ASSUME NEW i \in DOMAIN log  PROVE log[i].at < u
  BY DEF Before
<1>2. log[i] \in Commit
  OBVIOUS
<1>3. log[i].at \in Nat
  BY <1>2 DEF Commit
<1> QED
  BY <1>3 DEF Before

\* Nothing drops out of a log when a commit is appended to it.
LEMMA AppendInLog ==
  ASSUME NEW log \in Seq(Commit), NEW c \in Commit
  PROVE  /\ InLog(c, Append(log, c))
         /\ \A d : InLog(d, log) => InLog(d, Append(log, c))
  BY AppendKeeps DEF InLog

------------------------------------------------------------------------------
(* The inductive invariant *)

LEMMA OutboxInitInv == OutboxInit => OutboxInv
  BY OutboxAssumption
  DEF OutboxInit, OutboxInv, OutboxTypeOK, StampsBehindClock, NothingOutsideRepos,
      LogInTimeOrder, AckedIsInLog, Before, Ordered, InLog, NoClone, Clones, Commit, Payload

\* What a goroutine that may push holds: a commit of its own, stamped after
\* all that its clone had and not after the clock.
LEMMA HeldCommit ==
  ASSUME OutboxInv, NEW w \in Writer, clone[w].stage = "committed"
  PROVE  /\ clone[w] \in Clones
         /\ Committed(w) \in Commit
         /\ Committed(w).at <= clock
         /\ Before(clone[w].base, Committed(w).at)
<1>1. clone[w] # NoClone
  BY DEF NoClone
<1>2. clone[w] \in Clones
  BY <1>1 DEF OutboxInv, OutboxTypeOK
<1> QED
  BY <1>1, <1>2 DEF OutboxInv, StampsBehindClock, Committed, Clones, Commit

\* An accepted push, acknowledged to its caller or not, appends the commit in
\* hand to main: the log stays ordered, behind the clock and complete.
LEMMA PushExtendsMain ==
  ASSUME OutboxInv, NEW w \in Writer, clone[w].stage = "committed", FastForward(w)
  PROVE  LET s == clone[w].slug
             c == Committed(w)
         IN  /\ s \in Slug /\ s \in repos
             /\ c \in Commit
             /\ PushedMain(w) = [main EXCEPT ![s] = Append(main[s], c)]
             /\ Append(main[s], c) \in Seq(Commit)
             /\ Ordered(Append(main[s], c))
             /\ Before(Append(main[s], c), clock + 1)
             /\ InLog(c, Append(main[s], c))
             /\ \A d : InLog(d, main[s]) => InLog(d, Append(main[s], c))
<1> DEFINE s == clone[w].slug
           c == Committed(w)
<1>1. /\ clone[w] \in Clones /\ c \in Commit /\ c.at <= clock
      /\ Before(clone[w].base, c.at)
  BY HeldCommit
<1>2. s \in Slug /\ s \in repos /\ clone[w].base = main[s]
  BY <1>1 DEF FastForward, Clones
<1>3. main[s] \in Seq(Commit) /\ Ordered(main[s]) /\ Before(main[s], clock + 1)
  BY <1>2 DEF OutboxInv, OutboxTypeOK, LogInTimeOrder, StampsBehindClock
<1>4. clock \in Nat /\ c.at < clock + 1
  BY <1>1, OutboxAssumption DEF OutboxInv, OutboxTypeOK, Commit
<1>5. Ordered(Append(main[s], c))
  <2>1. Before(main[s], c.at)
    BY <1>1, <1>2
  <2> HIDE DEF s, c
  <2> QED
    BY <1>1, <1>3, <2>1, AppendOrdered
<1>6. Before(Append(main[s], c), clock + 1)
  <2> HIDE DEF s, c
  <2> QED
    BY <1>1, <1>3, <1>4, AppendBefore
<1>7. /\ InLog(c, Append(main[s], c))
      /\ \A d : InLog(d, main[s]) => InLog(d, Append(main[s], c))
  <2> HIDE DEF s, c
  <2> QED
    BY <1>1, <1>3, AppendInLog
<1>8. Append(main[s], c) \in Seq(Commit)
  <2> HIDE DEF s, c
  <2> QED
    BY <1>1, <1>3
<1> QED
  BY <1>1, <1>2, <1>5, <1>6, <1>7, <1>8 DEF PushedMain

\* Creating a repository starts an empty log, and removing one empties it.
LEMMA RepositoryStepsKeepInv ==
  ASSUME OutboxInv, NEW s \in Slug, InitBareRepo(s) \/ DeleteRepo(s)
  PROVE  OutboxInv'
<1>1. CASE InitBareRepo(s)
  BY <1>1 DEF InitBareRepo, OutboxInv, OutboxTypeOK, StampsBehindClock,
     NothingOutsideRepos, LogInTimeOrder, AckedIsInLog
<1>2. CASE DeleteRepo(s)
  <2>1. OutboxTypeOK'
    BY <1>2 DEF DeleteRepo, OutboxInv, OutboxTypeOK
  <2>2. \A t \in Slug : /\ t = s => main'[t] = << >> /\ acked'[t] = {}
                        /\ t # s => main'[t] = main[t] /\ acked'[t] = acked[t]
    BY <1>2 DEF DeleteRepo, OutboxInv, OutboxTypeOK
  <2>3. StampsBehindClock'
    BY <1>2, <2>2 DEF DeleteRepo, OutboxInv, StampsBehindClock, Before
  <2>4. NothingOutsideRepos'
    BY <1>2, <2>2 DEF DeleteRepo, OutboxInv, NothingOutsideRepos
  <2>5. LogInTimeOrder'
    BY <2>2 DEF OutboxInv, LogInTimeOrder, Ordered
  <2>6. AckedIsInLog'
    BY <2>2 DEF OutboxInv, AckedIsInLog
  <2> QED
    BY <2>1, <2>3, <2>4, <2>5, <2>6 DEF OutboxInv
<1> QED
  BY <1>1, <1>2

\* A clone holds what main holds, so it is behind the clock as main is.
LEMMA CloneKeepsInv ==
  ASSUME OutboxInv, NEW w \in Writer, NEW s \in Slug, NEW m \in Payload, GitClone(w, s, m)
  PROVE  OutboxInv'
<1> DEFINE c == [stage |-> "cloned", slug |-> s, base |-> main[s], msg |-> m, at |-> 0]
<1>1. c \in Clones /\ Before(main[s], clock + 1)
  BY DEF Clones, OutboxInv, OutboxTypeOK, StampsBehindClock
<1>2. /\ clone' = [clone EXCEPT ![w] = c]
      /\ UNCHANGED <<repos, main, clock, acked>>
  BY DEF GitClone
<1>3. OutboxTypeOK'
  BY <1>1, <1>2 DEF OutboxInv, OutboxTypeOK
<1>4. StampsBehindClock'
  <2>1. \A v \in Writer : clone'[v] = IF v = w THEN c ELSE clone[v]
    BY <1>2 DEF OutboxInv, OutboxTypeOK
  <2>2. c.stage # "committed" /\ c.base = main[s]
    OBVIOUS
  <2> HIDE DEF c
  <2> QED
    BY <1>1, <1>2, <2>1, <2>2 DEF OutboxInv, StampsBehindClock
<1> QED
  BY <1>2, <1>3, <1>4 DEF OutboxInv, NothingOutsideRepos, LogInTimeOrder, AckedIsInLog

\* A commit takes a stamp later than the clone it is made in, and moves the
\* clock to it.
LEMMA CommitKeepsInv ==
  ASSUME OutboxInv, NEW w \in Writer, GitCommit(w)
  PROVE  OutboxInv'
<1>1. clone[w] \in Clones /\ clone[w] # NoClone
  BY DEF GitCommit, OutboxInv, OutboxTypeOK, NoClone
<1>2. /\ clock \in Nat /\ clock' = clock + 1 /\ clock' \in 0..MaxCommits
      /\ UNCHANGED <<repos, main, acked>>
  BY OutboxAssumption DEF GitCommit, OutboxInv, OutboxTypeOK
<1>3. \A log \in Seq(Commit) : Before(log, clock + 1) => Before(log, clock' + 1)
  BY <1>2, BeforeLater
<1>4. \A v \in Writer : v # w => clone'[v] = clone[v]
  BY DEF GitCommit, OutboxInv, OutboxTypeOK
<1>5. /\ clone'[w] \in Clones
      /\ clone'[w].base = clone[w].base /\ clone'[w].at = clock'
  BY <1>1, <1>2 DEF GitCommit, OutboxInv, OutboxTypeOK, Clones
<1>6. OutboxTypeOK'
  BY <1>2, <1>5 DEF GitCommit, OutboxInv, OutboxTypeOK
<1>7. StampsBehindClock'
  <2>1. \A s \in Slug : Before(main'[s], clock' + 1)
    BY <1>2, <1>3 DEF OutboxInv, OutboxTypeOK, StampsBehindClock
  <2>2. ASSUME NEW v \in Writer, clone'[v] # NoClone
        PROVE  /\ Before(clone'[v].base, clock' + 1)
               /\ clone'[v].stage = "committed" =>
                    clone'[v].at <= clock' /\ Before(clone'[v].base, clone'[v].at)
    <3>1. CASE v = w
      <4>1. Before(clone[w].base, clock') /\ clone[w].base \in Seq(Commit)
        BY <1>1, <1>2 DEF OutboxInv, StampsBehindClock, Clones
      <4>2. Before(clone[w].base, clock' + 1)
        BY <4>1, <1>2, <1>3
      <4> QED
        BY <3>1, <4>1, <4>2, <1>2, <1>5
    <3>2. CASE v # w
      <4>1. clone'[v] = clone[v] /\ clone[v] \in Clones /\ clone[v] # NoClone
        BY <1>4, <2>2, <3>2 DEF OutboxInv, OutboxTypeOK
      <4>2. /\ Before(clone[v].base, clock + 1) /\ clone[v].base \in Seq(Commit)
            /\ clone[v].at \in Nat
            /\ clone[v].stage = "committed" =>
                 clone[v].at <= clock /\ Before(clone[v].base, clone[v].at)
        BY <4>1 DEF OutboxInv, StampsBehindClock, Clones
      <4> QED
        BY <4>1, <4>2, <1>2, <1>3
    <3> QED
      BY <3>1, <3>2
  <2> QED
    BY <2>1, <2>2 DEF StampsBehindClock
<1> QED
  BY <1>2, <1>6, <1>7 DEF OutboxInv, NothingOutsideRepos, LogInTimeOrder, AckedIsInLog

\* A push is accepted only when main still is what the commit was made on:
\* the commit extends main, and whatever was acknowledged stays in it.
LEMMA PushKeepsInv ==
  ASSUME OutboxInv, NEW w \in Writer, GitPush(w) \/ GitPushUncleaned(w)
  PROVE  OutboxInv'
<1> DEFINE s == clone[w].slug
           c == Committed(w)
<1>1. clone[w].stage = "committed" /\ FastForward(w)
  BY DEF GitPush, GitPushUncleaned
<1>2. /\ s \in Slug /\ s \in repos /\ c \in Commit
      /\ PushedMain(w) = [main EXCEPT ![s] = Append(main[s], c)]
      /\ Append(main[s], c) \in Seq(Commit)
      /\ Ordered(Append(main[s], c))
      /\ Before(Append(main[s], c), clock + 1)
      /\ InLog(c, Append(main[s], c))
      /\ \A d : InLog(d, main[s]) => InLog(d, Append(main[s], c))
  BY <1>1, PushExtendsMain
<1>3. /\ main' = PushedMain(w)
      /\ clone' = [clone EXCEPT ![w] = NoClone]
      /\ UNCHANGED <<repos, clock>>
      /\ acked' = acked \/ acked' = [acked EXCEPT ![s] = @ \cup {c}]
  BY DEF GitPush, GitPushUncleaned
<1> HIDE DEF s, c
<1>4. \A t \in Slug : main'[t] = IF t = s THEN Append(main[s], c) ELSE main[t]
  BY <1>2, <1>3 DEF OutboxInv, OutboxTypeOK
<1>5. /\ acked' \in [Slug -> SUBSET Commit]
      /\ \A t \in Slug : acked'[t] \in SUBSET (acked[t] \cup IF t = s THEN {c} ELSE {})
  BY <1>2, <1>3 DEF OutboxInv, OutboxTypeOK
<1>6. \A v \in Writer : clone'[v] = IF v = w THEN NoClone ELSE clone[v]
  BY <1>3 DEF OutboxInv, OutboxTypeOK
<1>7. OutboxTypeOK'
  BY <1>2, <1>3, <1>5 DEF OutboxInv, OutboxTypeOK
<1>8. StampsBehindClock'
  BY <1>2, <1>3, <1>4, <1>6 DEF OutboxInv, StampsBehindClock
<1>9. NothingOutsideRepos'
  BY <1>2, <1>3, <1>4, <1>5 DEF OutboxInv, NothingOutsideRepos
<1>10. LogInTimeOrder'
  BY <1>2, <1>4 DEF OutboxInv, LogInTimeOrder
<1>11. AckedIsInLog'
  BY <1>2, <1>4, <1>5 DEF OutboxInv, AckedIsInLog
<1> QED
  BY <1>7, <1>8, <1>9, <1>10, <1>11 DEF OutboxInv

\* A publication that fails before the push drops its clone and nothing else.
LEMMA FailureKeepsInv ==
  ASSUME OutboxInv, NEW w \in Writer, GitRefused(w) \/ GitFault(w)
  PROVE  OutboxInv'
<1>1. /\ clone' = [clone EXCEPT ![w] = NoClone]
      /\ UNCHANGED <<repos, main, clock, acked>>
  BY DEF GitRefused, GitFault
<1>2. \A v \in Writer : clone'[v] = IF v = w THEN NoClone ELSE clone[v]
  BY <1>1 DEF OutboxInv, OutboxTypeOK
<1> QED
  BY <1>1, <1>2 DEF OutboxInv, OutboxTypeOK, StampsBehindClock, NothingOutsideRepos,
     LogInTimeOrder, AckedIsInLog

\* The death of the process drops every clone and nothing else.
LEMMA DeathKeepsInv ==
  ASSUME OutboxInv, LoseClones
  PROVE  OutboxInv'
<1>1. /\ \A v \in Writer : clone'[v] = NoClone
      /\ clone' \in [Writer -> {NoClone} \cup Clones]
      /\ UNCHANGED <<repos, main, clock, acked>>
  BY DEF LoseClones
<1> QED
  BY <1>1 DEF OutboxInv, OutboxTypeOK, StampsBehindClock, NothingOutsideRepos,
     LogInTimeOrder, AckedIsInLog

\* Every step of the publishers and of the repositories keeps the invariant.
LEMMA OutboxNextInv == OutboxInv /\ [OutboxNext]_outboxVars => OutboxInv'
<1> SUFFICES ASSUME OutboxInv, [OutboxNext]_outboxVars
             PROVE  OutboxInv'
  OBVIOUS
<1>1. CASE \E s \in Slug : InitBareRepo(s) \/ DeleteRepo(s)
  BY <1>1, RepositoryStepsKeepInv
<1>2. CASE \E w \in Writer, s \in Slug, m \in Payload : GitClone(w, s, m)
  BY <1>2, CloneKeepsInv
<1>3. CASE \E w \in Writer : GitCommit(w)
  BY <1>3, CommitKeepsInv
<1>4. CASE \E w \in Writer : GitPush(w) \/ GitPushUncleaned(w)
  BY <1>4, PushKeepsInv
<1>5. CASE \E w \in Writer : GitRefused(w) \/ GitFault(w)
  BY <1>5, FailureKeepsInv
<1>6. CASE LoseClones
  BY <1>6, DeathKeepsInv
<1>7. CASE UNCHANGED outboxVars
  BY <1>7 DEF outboxVars, OutboxInv, OutboxTypeOK, StampsBehindClock,
     NothingOutsideRepos, LogInTimeOrder, AckedIsInLog
<1> QED
  BY <1>1, <1>2, <1>3, <1>4, <1>5, <1>6, <1>7 DEF OutboxNext

\* The invariant holds in every state of every behaviour of the outboxes.
THEOREM OutboxInvariant == OutboxSpec => []OutboxInv
<1>1. OutboxInit => OutboxInv
  BY OutboxInitInv
<1>2. OutboxInv /\ [OutboxNext]_outboxVars => OutboxInv'
  BY OutboxNextInv
<1> QED
  BY <1>1, <1>2, PTL DEF OutboxSpec

\* The variables keep their types, clones and time stamps included.
THEOREM OutboxTypeCorrect == OutboxSpec => []OutboxTypeOK
<1>1. OutboxInv => OutboxTypeOK
  BY DEF OutboxInv
<1> QED
  BY <1>1, OutboxInvariant, PTL

\* Whatever publishGitMessage reported as published is on main while the
\* repository exists, for any number of concurrent publishers.
THEOREM AckedStaysInLog == OutboxSpec => []AckedIsInLog
<1>1. OutboxInv => AckedIsInLog
  BY DEF OutboxInv
<1> QED
  BY <1>1, OutboxInvariant, PTL

\* The outbox of a mission reads in time order, for any number of publishers.
THEOREM LogStaysInTimeOrder == OutboxSpec => []LogInTimeOrder
<1>1. OutboxInv => LogInTimeOrder
  BY DEF OutboxInv
<1> QED
  BY <1>1, OutboxInvariant, PTL

------------------------------------------------------------------------------
(* What a step never does, and what callers see *)

\* main of a repository that stays keeps everything it had, in place.
Kept == \A s \in repos \cap repos' :
          /\ Len(main[s]) <= Len(main'[s])
          /\ SubSeq(main'[s], 1, Len(main[s])) = main[s]

\* A log is a prefix of itself and of itself with one more commit.
LEMMA PrefixOfAppend ==
  ASSUME NEW log \in Seq(Commit), NEW c \in Commit
  PROVE  /\ Len(log) <= Len(log) /\ SubSeq(log, 1, Len(log)) = log
         /\ Len(log) <= Len(Append(log, c))
         /\ SubSeq(Append(log, c), 1, Len(log)) = log
<1>1. Len(log) \in Nat /\ Len(Append(log, c)) = Len(log) + 1
  OBVIOUS
<1>2. SubSeq(log, 1, Len(log)) = log
  OBVIOUS
<1>3. SubSeq(Append(log, c), 1, Len(log)) = log
  OBVIOUS
<1> QED
  BY <1>1, <1>2, <1>3

\* Only pushes touch main, and an accepted push appends.
LEMMA StepKeepsLogs == OutboxInv /\ [OutboxNext]_outboxVars => Kept
<1> SUFFICES ASSUME OutboxInv, [OutboxNext]_outboxVars, NEW s \in repos \cap repos'
             PROVE  /\ Len(main[s]) <= Len(main'[s])
                    /\ SubSeq(main'[s], 1, Len(main[s])) = main[s]
  BY DEF Kept
<1>1. s \in Slug /\ main[s] \in Seq(Commit) /\ main \in [Slug -> Seq(Commit)]
  BY DEF OutboxInv, OutboxTypeOK
<1>2. CASE main'[s] = main[s]
  BY <1>1, <1>2, Len(main[s]) <= Len(main[s])
<1>3. CASE \E c \in Commit : main'[s] = Append(main[s], c)
  BY <1>1, <1>3, PrefixOfAppend
<1>4. CASE \E t \in Slug : InitBareRepo(t) \/ DeleteRepo(t)
  BY <1>1, <1>2, <1>4 DEF InitBareRepo, DeleteRepo
<1>5. CASE \E w \in Writer : GitPush(w) \/ GitPushUncleaned(w)
  <2>1. PICK w \in Writer : GitPush(w) \/ GitPushUncleaned(w)
    BY <1>5
  <2>2. clone[w].stage = "committed" /\ FastForward(w) /\ main' = PushedMain(w)
    BY <2>1 DEF GitPush, GitPushUncleaned
  <2>3. \E t \in Slug, c \in Commit : main' = [main EXCEPT ![t] = Append(main[t], c)]
    BY <2>2, PushExtendsMain
  <2> QED
    BY <1>1, <1>2, <1>3, <2>3
<1>6. CASE UNCHANGED main
  BY <1>2, <1>6
<1> QED
  BY <1>4, <1>5, <1>6
  DEF OutboxNext, outboxVars, LoseClones, GitClone, GitCommit, GitRefused, GitFault

\* No step of any publisher rewrites a mission's history.
THEOREM HistoryIsAppendOnly == OutboxSpec => AppendOnly
<1>1. OutboxInv /\ [OutboxNext]_outboxVars => [Kept]_outboxVars
  BY StepKeepsLogs
<1>2. OutboxSpec => [][Kept]_outboxVars
  BY <1>1, OutboxInvariant, PTL DEF OutboxSpec
<1> QED
  BY <1>2 DEF AppendOnly, Kept

\* A step of the git protocol is an atomic append, the creation or the
\* removal of a log, or nothing at all to those who only see the logs.
LEMMA StepImplementsLog ==
  OutboxInv /\ [OutboxNext]_outboxVars => [Log!LogNext]_(Log!logVars)
<1> SUFFICES ASSUME OutboxInv, [OutboxNext]_outboxVars
             PROVE  Log!LogNext \/ UNCHANGED Log!logVars
  OBVIOUS
<1>1. CASE \E s \in Slug : InitBareRepo(s) \/ DeleteRepo(s)
  BY <1>1 DEF InitBareRepo, DeleteRepo, Log!LogNext, Log!Create, Log!Delete
<1>2. CASE \E w \in Writer : GitPush(w) \/ GitPushUncleaned(w)
  <2>1. PICK w \in Writer : GitPush(w) \/ GitPushUncleaned(w)
    BY <1>2
  <2> DEFINE s == clone[w].slug
             c == Committed(w)
  <2>2. clone[w].stage = "committed" /\ FastForward(w) /\ main' = PushedMain(w)
    BY <2>1 DEF GitPush, GitPushUncleaned
  <2>3. /\ s \in Slug /\ s \in repos
        /\ PushedMain(w) = [main EXCEPT ![s] = Append(main[s], c)]
    BY <2>2, PushExtendsMain
  <2>4. c \in Log!Entry
    <3>1. c \in Commit /\ c.at <= clock
      BY <2>2, HeldCommit
    <3>2. clock \in 0..MaxCommits /\ MaxCommits \in Nat
      BY OutboxAssumption DEF OutboxInv, OutboxTypeOK
    <3> HIDE DEF c
    <3> QED
      BY <3>1, <3>2 DEF Log!Entry, Commit
  <2>5. \A i \in DOMAIN main[s] : main[s][i].at < c.at
    BY <2>2, HeldCommit DEF FastForward, Before
  <2>6. /\ UNCHANGED repos
        /\ acked' = [acked EXCEPT ![s] = @ \cup {c}] \/ UNCHANGED acked
    BY <2>1 DEF GitPush, GitPushUncleaned
  <2> HIDE DEF s, c
  <2>7. Log!AppendEntry(s, c)
    BY <2>2, <2>3, <2>5, <2>6 DEF Log!AppendEntry
  <2> QED
    BY <2>3, <2>4, <2>7 DEF Log!LogNext
<1>3. CASE UNCHANGED <<repos, main, acked>>
  BY <1>3 DEF Log!logVars
<1> QED
  BY <1>1, <1>2, <1>3
  DEF OutboxNext, outboxVars, LoseClones, GitClone, GitCommit, GitRefused, GitFault

\* Cloning, committing and pushing to a mission's repository implements a log
\* with atomic appends, whatever interleaves and fails.
THEOREM OutboxImplementsLog == OutboxSpec => ImplementsLog
<1>1. OutboxInit => Log!LogInit
  BY DEF OutboxInit, Log!LogInit
<1>2. OutboxInv /\ [OutboxNext]_outboxVars => [Log!LogNext]_(Log!logVars)
  BY StepImplementsLog
<1> QED
  BY <1>1, <1>2, OutboxInvariant, PTL DEF OutboxSpec, ImplementsLog, Log!LogSpec
==============================================================================
