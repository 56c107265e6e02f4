-------------------------------- MODULE Host --------------------------------
(****************************************************************************)
(* What daemon processes and the clients of the registry share: process     *)
(* ids, which the system hands out again, and two files, the PID file and   *)
(* the registry entry. A file write is two system calls (open with O_TRUNC, *)
(* then write), so a reader in between finds an empty file; a write goes to *)
(* the file that was opened even when it has been unlinked. An unlink may   *)
(* fail. Processes of several users may be among them: then kill answers    *)
(* EPERM, which the code takes for the absence of a process.                *)
(****************************************************************************)
EXTENDS Integers, FiniteSets

CONSTANTS
  Instances,        \* processes that run a Daemon, one after the other
  Clients,          \* callers of Registry and of the HTTP provider
  Pids,             \* process ids
  Hosts,            \* the machines considered, see the variable host
  None, Absent, Empty

ASSUME HostAssumption ==
  /\ Instances \cap Clients = {}
  /\ {None, Absent, Empty} \cap Pids = {}
  /\ None \notin Instances \cup Clients /\ None # Absent /\ None # Empty
  /\ Absent # Empty
  /\ Hosts \subseteq [denied : SUBSET ((Instances \cup Clients) \X Instances),
                     fails : SUBSET {"unlink", "accept"}, strangers : Nat]
  /\ \A h \in Hosts, i \in Instances : <<i, i>> \notin h.denied

VARIABLES
  file,             \* what "pid" and "entry" hold: a pid, Empty, or Absent
  open,             \* instances that have opened the file but not yet written
  author,           \* ghost: the live process whose write the file holds
  seen,             \* ghost: who has read exactly what the file holds now
  stuck,            \* ghost: the files that their author failed to unlink
  pid,              \* the process id of each instance
  foreign,          \* process ids of processes that run no Daemon
  host              \* fixed at the start: who may not signal whom (denied), which
                    \* system calls may fail (fails; writes always may), and the
                    \* bound on processes that run no Daemon (strangers)

fileVars == <<file, open, author, seen, stuck>>
processVars == <<pid, foreign, host>>
hostVars == <<fileVars, processVars>>

Files == {"pid", "entry"}
Agents == Instances \cup Clients

\* kill(2) by a to p succeeds.  A stranger that answers EPERM is to all of them as
\* if its pid were unused; the pid of a daemon that has ended and was not yet waited
\* for is a stranger that answers.
Reaches(a, p) == {i \in Instances : pid[i] = p /\ <<a, i>> \notin host.denied}
Signals(a, p) == p \in foreign \/ Reaches(a, p) # {}
FreePids == Pids \ (foreign \cup {pid[i] : i \in Instances})

HostTypeOK ==
  /\ file \in [Files -> Pids \cup {Absent, Empty}]
  /\ open \in [Files -> SUBSET Instances]
  /\ author \in [Files -> Instances \cup {None}]
  /\ seen \in [Files -> SUBSET Agents] /\ stuck \subseteq Files
  /\ pid \in [Instances -> Pids \cup {None}]
  /\ foreign \subseteq Pids /\ host \in Hosts

HostInit ==
  /\ file = [f \in Files |-> Absent] /\ open = [f \in Files |-> {}]
  /\ author = [f \in Files |-> None] /\ seen = [f \in Files |-> {}]
  /\ stuck = {} /\ host \in Hosts
  /\ pid = [i \in Instances |-> None] /\ foreign = {}

-----------------------------------------------------------------------------
(* System calls.                                                            *)

ReadFile(a, f) ==
  /\ seen' = [seen EXCEPT ![f] = @ \cup {a}]
  /\ UNCHANGED <<file, open, author, stuck>>

Drops(a) ==
  /\ seen' = [f \in Files |-> seen[f] \ {a}]
  /\ UNCHANGED <<file, open, author, stuck, processVars>>

\* Unlinks whatever is there now; nothing happens to a file that is absent.
Remove(f) ==
  /\ file' = [file EXCEPT ![f] = Absent] /\ open' = [open EXCEPT ![f] = {}]
  /\ author' = [author EXCEPT ![f] = None] /\ seen' = [seen EXCEPT ![f] = {}]
  /\ stuck' = stuck \ {f}

\* EACCES, EROFS, EIO: the file stays, and a has done with it.
RemoveErrs(a, f) ==
  /\ "unlink" \in host.fails /\ file[f] # Absent
  /\ stuck' = IF author[f] = a THEN stuck \cup {f} ELSE stuck
  /\ seen' = [seen EXCEPT ![f] = @ \ {a}]
  /\ UNCHANGED <<file, open, author>>

Unlink(a, f) == Remove(f) \/ RemoveErrs(a, f)

WriteOpens(i, f) ==
  /\ file' = [file EXCEPT ![f] = Empty]
  /\ open' = [open EXCEPT ![f] = @ \cup {i}]
  /\ author' = [author EXCEPT ![f] = None] /\ seen' = [seen EXCEPT ![f] = {}]
  /\ stuck' = stuck \ {f}

WriteFillsNoPID(i, f) ==
  IF i \in open[f]
  THEN /\ file' = [file EXCEPT ![f] = None]
       /\ open' = [open EXCEPT ![f] = @ \ {i}]
       /\ author' = [author EXCEPT ![f] = i]
       /\ seen' = [seen EXCEPT ![f] = {}] /\ stuck' = stuck \ {f}
  ELSE UNCHANGED fileVars
\* The file i opened may be unlinked by now: then nobody sees the write.
WriteFills(i, f) ==
  IF i \in open[f]
  THEN /\ file' = [file EXCEPT ![f] = pid[i]]
       /\ open' = [open EXCEPT ![f] = @ \ {i}]
       /\ author' = [author EXCEPT ![f] = i]
       /\ seen' = [seen EXCEPT ![f] = {}] /\ stuck' = stuck \ {f}
  ELSE UNCHANGED fileVars

\* ENOSPC, EIO: the file stays, empty.
WriteErrs(i, f) ==
  /\ open' = [open EXCEPT ![f] = @ \ {i}]
  /\ UNCHANGED <<file, author, seen, stuck>>

-----------------------------------------------------------------------------
(* Processes.                                                               *)

Spawns(i, p) ==
  /\ pid[i] = None /\ p \in FreePids
  /\ pid' = [pid EXCEPT ![i] = p]
  /\ UNCHANGED <<fileVars, foreign, host>>

\* Death runs no deferred call: the files stay.
Dies(i) ==
  /\ pid[i] # None /\ pid' = [pid EXCEPT ![i] = None]
  /\ open' = [f \in Files |-> open[f] \ {i}]
  /\ seen' = [f \in Files |-> seen[f] \ {i}]
  /\ author' = [f \in Files |-> IF author[f] = i THEN None ELSE author[f]]
  /\ stuck' = {f \in stuck : author[f] # i}
  /\ UNCHANGED <<file, foreign, host>>

ForeignSpawns(p) ==
  /\ Cardinality(foreign) < host.strangers
  /\ p \in FreePids /\ foreign' = foreign \cup {p}
  /\ UNCHANGED <<fileVars, pid, host>>

ForeignDies(p) ==
  /\ p \in foreign /\ foreign' = foreign \ {p}
  /\ UNCHANGED <<fileVars, pid, host>>
=============================================================================
