------------------------------ MODULE OutboxLog ------------------------------
(***************************************************************************)
(* What mission-control and the drones rely on when a mission's history is *)
(* kept in a git repository: a repository is a log to which whole commits  *)
(* are appended, one at a time and in the order of their time stamps; a    *)
(* commit the caller was told about stays in the log for as long as the    *)
(* repository exists.  Nothing is said about how an append is carried out. *)
(* GitOutbox implements this module.                                       *)
(***************************************************************************)
EXTENDS Naturals, Sequences

CONSTANTS
  Slug,     \* mission slugs, one repository each
  Payload,  \* what a commit may hold
  Stamp     \* the time stamps a commit may carry, a set of naturals

VARIABLES
  repos,    \* the slugs whose repository exists
  main,     \* main[s]: the commits of the repository's main branch
  acked     \* acked[s]: the commits some caller was told are in main[s]

logVars == <<repos, main, acked>>

Entry == [msg: Payload, at: Stamp]

LogInit ==
  /\ repos = {}
  /\ main = [s \in Slug |-> << >>]
  /\ acked = [s \in Slug |-> {}]

Create(s) ==
  /\ s \notin repos
  /\ repos' = repos \cup {s}
  /\ UNCHANGED <<main, acked>>

\* A commit is appended; the caller may or may not learn of it.
AppendEntry(s, c) ==
  /\ s \in repos
  /\ \A i \in DOMAIN main[s] : main[s][i].at < c.at
  /\ main' = [main EXCEPT ![s] = Append(@, c)]
  /\ \/ acked' = [acked EXCEPT ![s] = @ \cup {c}]
     \/ UNCHANGED acked
  /\ UNCHANGED repos

Delete(s) ==
  /\ s \in repos
  /\ repos' = repos \ {s}
  /\ main' = [main EXCEPT ![s] = << >>]
  /\ acked' = [acked EXCEPT ![s] = {}]

LogNext ==
  \E s \in Slug :
    \/ Create(s)
    \/ \E c \in Entry : AppendEntry(s, c)
    \/ Delete(s)

LogSpec == LogInit /\ [][LogNext]_logVars
==============================================================================
