---------------------------- MODULE DaemonProofs ----------------------------
(***************************************************************************)
(* Proofs about Daemon, for any number of instances, clients and pids, with *)
(* and without a health server.                                             *)
(***************************************************************************)
EXTENDS Daemon, TLAPS

\* Where in Start and Stop an instance has written the PID file and not yet given
\* it up, where it has started its health server and not yet forgotten it, and where
\* it has forgotten it and not yet shut it down.
Holding == {"listen", "register", "record", "up", "stopHealth", "undoServe", "undo",
            "unregister", "release"}
Serving == {"register", "record", "up", "stopHealth", "unregister", "release", "close"}
Closing == {"undoServe", "shutdown"}

\* A file that carries the write of an instance holds the pid it has now.
FileInv ==
  \A i \in Instances :
    /\ pid[i] = None <=> pc[i] = "down"
    /\ i \in open["pid"] => pc[i] = "fill"
    /\ i \in open["entry"] => pc[i] = "record"
    /\ author["pid"] = i =>
         /\ pc[i] \in Holding \/ "pid" \in stuck
         /\ file["pid"] = pid[i]
    /\ author["entry"] = i =>
         /\ pc[i] \in {"up", "unregister"} \/ "entry" \in stuck
         /\ file["entry"] = pid[i]

\* A server is remembered only while it should run, and it has the port unless its
\* Serve has failed.  A listener that nobody remembers is about to be closed.
ServerInv ==
  /\ port = None <=> serve = "none"
  /\ port # None => WithHealth
  /\ \A i \in Instances :
       /\ tracked[i] => WithHealth /\ pc[i] \in Serving
       /\ failing[i] = "current" <=> tracked[i] /\ port # i
       /\ WithHealth /\ pc[i] \in Serving => port = i \/ i \in lost
       /\ port = i =>
            /\ serve \in {"due", "on"} => tracked[i] \/ pc[i] \in Closing
            /\ serve = "failed" /\ pc[i] \in Serving => i \in lost
            /\ serve = "late" => pc[i] \notin Serving \cup Closing

\* Who is in seen of a file is between its read and what it does about it, and as
\* long as it knows what it read, that is what is there.
SawInv ==
  /\ \A i \in Instances :
       /\ i \notin seen["entry"]
       /\ i \in seen["pid"] => pc[i] \in {"check", "remove"}
       /\ pc[i] = "check" /\ i \in seen["pid"] => saw[i] = file["pid"]
  /\ \A c \in Clients :
       /\ c \notin seen["pid"]
       /\ c \in seen["entry"] => pc[c] \in {"check", "prune", "term", "unregister"}
       /\ pc[c] \in {"check", "term"} /\ c \in seen["entry"] => saw[c] = file["entry"]

\* Who is about to remove what it has read removes nothing of a living daemon that
\* it could have signalled, unless that daemon was told to stop.
Condemned(a, f) == author[f] = None \/ <<a, author[f]>> \in host.denied
RemoveInv ==
  /\ \A i \in Instances : pc[i] = "remove" /\ i \in seen["pid"] => Condemned(i, "pid")
  /\ \A c \in Clients :
       /\ pc[c] = "prune" /\ c \in seen["entry"] => Condemned(c, "entry")
       /\ pc[c] = "unregister" /\ c \in seen["entry"] =>
            Condemned(c, "entry") \/ author["entry"] \in term \/ "entry" \in stuck

DaemonInv == TypeOK /\ FileInv /\ ServerInv /\ SawInv /\ RemoveInv

-----------------------------------------------------------------------------

\* At the start nothing runs and nothing is written.
LEMMA InitEstablishes == Init => DaemonInv
  BY HostAssumption, HealthAssumption
  DEF Init, HostInit, HealthInit, DaemonInv, TypeOK, HostTypeOK,
      HealthTypeOK, FileInv, ServerInv, SawInv, RemoveInv, Files, Agents,
      Starting, Undoing, Stopping, Holding, Serving, Closing, ServeStates, Condemned

\* Every operation of the host keeps its types.
LEMMA HostKeepsTypes ==
  ASSUME HostTypeOK, NEW a \in Agents, NEW f \in Files,
         \/ ReadFile(a, f) /\ UNCHANGED processVars
         \/ Drops(a)
         \/ Unlink(a, f) /\ UNCHANGED processVars
         \/ a \in Instances /\ pid[a] # None /\ UNCHANGED processVars
              /\ (WriteOpens(a, f) \/ WriteFills(a, f) \/ WriteErrs(a, f))
         \/ a \in Instances /\ (Dies(a) \/ \E p \in Pids : Spawns(a, p))
         \/ UNCHANGED hostVars
  PROVE  HostTypeOK'
<1> USE HostAssumption DEF HostTypeOK, fileVars, processVars, hostVars, Agents, Files
<1>1. CASE ReadFile(a, f) /\ UNCHANGED processVars
  BY <1>1 DEF ReadFile
<1>2. CASE Drops(a)
  BY <1>2 DEF Drops
<1>3. CASE Unlink(a, f) /\ UNCHANGED processVars
  <2>1. CASE Remove(f)
    BY <1>3, <2>1 DEF Remove
  <2>2. CASE RemoveErrs(a, f)
    BY <1>3, <2>2 DEF RemoveErrs
  <2> QED BY <1>3, <2>1, <2>2 DEF Unlink
<1>4. CASE WriteOpens(a, f) /\ a \in Instances /\ UNCHANGED processVars
  BY <1>4 DEF WriteOpens
<1>5. CASE WriteFills(a, f) /\ a \in Instances /\ pid[a] # None /\ UNCHANGED processVars
  <2>1. CASE a \in open[f]
    <3>1. pid[a] \in Pids
      BY <1>5
    <3>2. file' \in [Files -> Pids \cup {Absent, Empty}]
      BY <1>5, <2>1, <3>1 DEF WriteFills
    <3>3. author' \in [Files -> Instances \cup {None}]
      BY <1>5, <2>1 DEF WriteFills
    <3>4. stuck' \subseteq Files
      BY <1>5, <2>1 DEF WriteFills
    <3>5. open' \in [Files -> SUBSET Instances]
      BY <1>5, <2>1 DEF WriteFills
    <3>6. seen' \in [Files -> SUBSET Agents]
      BY <1>5, <2>1 DEF WriteFills
    <3> QED BY <1>5, <3>2, <3>3, <3>4, <3>5, <3>6
  <2>2. CASE a \notin open[f]
    BY <1>5, <2>2 DEF WriteFills
  <2> QED BY <2>1, <2>2
<1>6. CASE WriteErrs(a, f) /\ a \in Instances /\ UNCHANGED processVars
  BY <1>6 DEF WriteErrs
<1>7. CASE Dies(a) /\ a \in Instances
  BY <1>7 DEF Dies
<1>8. CASE a \in Instances /\ \E p \in Pids : Spawns(a, p)
  BY <1>8 DEF Spawns, FreePids
<1>9. CASE UNCHANGED hostVars
  BY <1>9
<1> QED BY <1>1, <1>2, <1>3, <1>4, <1>5, <1>6, <1>7, <1>8, <1>9

\* Acquire writes the file only between its read and the health server.
LEMMA AcquireKeeps ==
  ASSUME DaemonInv, NEW i \in Instances,
         Acquire(i) \/ AcquireFails(i), UNCHANGED <<healthVars, term>>
  PROVE  DaemonInv'
<1> USE HostAssumption, HealthAssumption
    DEF DaemonInv, Files, Agents, Goes, Forgets, Ends, hostVars, fileVars, processVars,
        agentVars, healthVars, Holding, Serving, Closing, TypeOK
<1>1. CASE AcquireReads(i)
  <2>1. TypeOK'
    BY <1>1, HostKeepsTypes
    DEF HostTypeOK, HealthTypeOK, Starting, Undoing, Stopping, AcquireReads, Reads
  <2>2. FileInv' /\ SawInv' /\ RemoveInv'
    BY <1>1 DEF HostTypeOK, FileInv, SawInv, RemoveInv, Condemned,
                  AcquireReads, Reads, ReadFile
  <2>3. ServerInv'
    BY <1>1 DEF HealthTypeOK, ServerInv, AcquireReads, Reads
  <2> QED BY <2>1, <2>2, <2>3
<1>2. CASE AcquireRefused(i)
  <2>1. TypeOK'
    BY <1>2, HostKeepsTypes
    DEF HostTypeOK, HealthTypeOK, Starting, Undoing, Stopping, AcquireRefused
  <2>2. FileInv' /\ SawInv' /\ RemoveInv'
    BY <1>2 DEF HostTypeOK, FileInv, SawInv, RemoveInv, Condemned,
                  AcquireRefused, Drops
  <2>3. ServerInv'
    BY <1>2 DEF HealthTypeOK, ServerInv, AcquireRefused
  <2> QED BY <2>1, <2>2, <2>3
<1>3. CASE AcquireFindsStale(i)
  <2>1. TypeOK'
    BY <1>3, HostKeepsTypes
    DEF HostTypeOK, HealthTypeOK, Starting, Undoing, Stopping, AcquireFindsStale, Stale
  <2>2. FileInv' /\ SawInv'
    BY <1>3 DEF HostTypeOK, FileInv, SawInv, AcquireFindsStale
  <2>3. i \in seen["pid"] => Condemned(i, "pid")
    <3> SUFFICES ASSUME i \in seen["pid"], author["pid"] # None
                 PROVE  <<i, author["pid"]>> \in host.denied
      BY DEF Condemned
    <3>1. author["pid"] \in Instances /\ pid[author["pid"]] = saw[i]
      BY <1>3 DEF HostTypeOK, FileInv, SawInv, AcquireFindsStale
    <3> QED BY <1>3, <3>1 DEF AcquireFindsStale, Stale, Signals, Reaches
  <2>4. RemoveInv'
    BY <1>3, <2>3 DEF HostTypeOK, RemoveInv, Condemned, AcquireFindsStale
  <2>5. ServerInv'
    BY <1>3 DEF HealthTypeOK, ServerInv, AcquireFindsStale, Stale
  <2> QED BY <2>1, <2>2, <2>4, <2>5
<1>4. CASE AcquireRemoves(i)
  <2>1. TypeOK'
    <3>1. HostTypeOK'
      BY <1>4, HostKeepsTypes DEF AcquireRemoves, Unlink
    <3> QED BY <1>4, <3>1 DEF HealthTypeOK, Starting, Undoing, Stopping, AcquireRemoves
  <2>2. FileInv' /\ SawInv' /\ RemoveInv'
    BY <1>4 DEF HostTypeOK, FileInv, SawInv, RemoveInv, Condemned,
                  AcquireRemoves, Remove, RemoveErrs
  <2>3. ServerInv'
    BY <1>4 DEF HealthTypeOK, ServerInv, AcquireRemoves
  <2> QED BY <2>1, <2>2, <2>3
<1>5. CASE AcquireOpens(i)
  <2>1. TypeOK'
    BY <1>5, HostKeepsTypes
    DEF HostTypeOK, HealthTypeOK, FileInv, Starting, Undoing, Stopping, AcquireOpens
  <2>2. FileInv' /\ SawInv' /\ RemoveInv'
    BY <1>5 DEF HostTypeOK, FileInv, SawInv, RemoveInv, Condemned,
                  AcquireOpens, WriteOpens
  <2>3. ServerInv'
    BY <1>5 DEF HealthTypeOK, ServerInv, AcquireOpens
  <2> QED BY <2>1, <2>2, <2>3
<1>6. CASE AcquireWrites(i)
  <2>1. TypeOK'
    BY <1>6, HostKeepsTypes
    DEF HostTypeOK, HealthTypeOK, FileInv, Starting, Undoing, Stopping, AcquireWrites
  <2>2. FileInv' /\ SawInv' /\ RemoveInv'
    BY <1>6 DEF HostTypeOK, FileInv, SawInv, RemoveInv, Condemned,
                  AcquireWrites, WriteFills
  <2>3. ServerInv'
    BY <1>6 DEF HealthTypeOK, ServerInv, AcquireWrites
  <2> QED BY <2>1, <2>2, <2>3
<1>7. CASE AcquireFails(i)
  <2>1. TypeOK'
    BY <1>7, HostKeepsTypes
    DEF HostTypeOK, HealthTypeOK, FileInv, Starting, Undoing, Stopping, AcquireFails
  <2>2. FileInv' /\ SawInv' /\ RemoveInv'
    BY <1>7 DEF HostTypeOK, FileInv, SawInv, RemoveInv, Condemned,
                  AcquireFails, WriteErrs
  <2>3. ServerInv'
    BY <1>7 DEF HealthTypeOK, ServerInv, AcquireFails
  <2> QED BY <2>1, <2>2, <2>3
<1> QED BY <1>1, <1>2, <1>3, <1>4, <1>5, <1>6, <1>7 DEF Acquire

\* Every step of a health server keeps the types of its variables.
LEMMA HealthKeepsTypes ==
  ASSUME HealthTypeOK, NEW i \in Instances,
         \/ HealthListens(i) \/ ServeTakesUp(i) \/ ServeFails(i) \/ ServeCloses(i)
         \/ ServeForgets(i) \/ HealthForgets(i) \/ HealthShutsDown(i)
  PROVE  HealthTypeOK'
<1> USE DEF HealthTypeOK, ServeStates
<1>1. CASE HealthListens(i)
  <2>1. tracked' \in [Instances -> BOOLEAN]
    BY <1>1 DEF HealthListens
  <2> QED BY <1>1, <2>1 DEF HealthListens
<1>2. CASE ServeTakesUp(i)
  BY <1>2 DEF ServeTakesUp
<1>3. CASE ServeFails(i)
  BY <1>3 DEF ServeFails
<1>4. CASE ServeCloses(i)
  BY <1>4 DEF ServeCloses
<1>5. CASE ServeForgets(i)
  <2>1. tracked' \in [Instances -> BOOLEAN]
    BY <1>5 DEF ServeForgets
  <2> QED BY <1>5, <2>1 DEF ServeForgets
<1>6. CASE HealthForgets(i)
  <2>1. tracked' \in [Instances -> BOOLEAN]
    BY <1>6 DEF HealthForgets
  <2>2. failing' \in [Instances -> {"none", "current", "old"}]
    <3>1. CASE failing[i] = "current"
      BY <1>6, <3>1 DEF HealthForgets
    <3>2. CASE failing[i] # "current"
      BY <1>6, <3>2 DEF HealthForgets
    <3> QED BY <3>1, <3>2
  <2> QED BY <1>6, <2>1, <2>2 DEF HealthForgets
<1>7. CASE HealthShutsDown(i)
  BY <1>7 DEF HealthShutsDown
<1> QED BY <1>1, <1>2, <1>3, <1>4, <1>5, <1>6, <1>7

\* Start tracks its server from the moment it listens, and undoes both on failure.
LEMMA HealthStartKeeps ==
  ASSUME DaemonInv, NEW i \in Instances, term' = term,
         StartHealth(i) \/ StartHealthFails(i) \/ UndoHealth(i) \/ UndoAcquire(i)
  PROVE  DaemonInv'
<1> USE HostAssumption, HealthAssumption
    DEF DaemonInv, TypeOK, HostTypeOK, HealthTypeOK, FileInv, ServerInv, SawInv,
        RemoveInv, Condemned, Files, Agents, Starting, Undoing, Stopping, Holding,
        Serving, Closing, ServeStates, hostVars, fileVars, processVars, agentVars,
        healthVars, Goes, Forgets, Ends
<1>1. CASE StartHealth(i)
  <2>1. HealthTypeOK'
    BY <1>1, HealthKeepsTypes DEF StartHealth
  <2>2. TypeOK'
    BY <1>1, <2>1 DEF StartHealth
  <2>3. FileInv'
    BY <1>1 DEF StartHealth, HealthListens
  <2>4. ServerInv'
    <3>1. CASE WithHealth
      BY <1>1, <3>1 DEF StartHealth, HealthListens
    <3>2. CASE ~WithHealth
      BY <1>1, <3>2 DEF StartHealth
    <3> QED BY <3>1, <3>2
  <2>5. SawInv' /\ RemoveInv'
    BY <1>1 DEF StartHealth, HealthListens
  <2> QED BY <2>2, <2>3, <2>4, <2>5
<1>2. CASE StartHealthFails(i)
  BY <1>2 DEF StartHealthFails
<1>3. CASE UndoHealth(i)
  <2>1. HealthTypeOK'
    BY <1>3, HealthKeepsTypes DEF UndoHealth
  <2>2. TypeOK'
    BY <1>3, <2>1 DEF UndoHealth
  <2>3. FileInv'
    BY <1>3 DEF UndoHealth
  <2>4. ServerInv'
    BY <1>3 DEF UndoHealth, HealthForgets, HealthShutsDown
  <2>5. SawInv' /\ RemoveInv'
    BY <1>3 DEF UndoHealth
  <2> QED BY <2>2, <2>3, <2>4, <2>5
<1>4. CASE UndoAcquire(i)
  <2>1. TypeOK'
    BY <1>4, HostKeepsTypes
    DEF HostTypeOK, HealthTypeOK, Starting, Undoing, Stopping, UndoAcquire, Release, Unlink
  <2>2. FileInv' /\ SawInv' /\ RemoveInv'
    BY <1>4 DEF HostTypeOK, FileInv, SawInv, RemoveInv, Condemned,
                  UndoAcquire, Release, Unlink, Remove, RemoveErrs
  <2>3. ServerInv'
    BY <1>4 DEF HealthTypeOK, ServerInv, UndoAcquire, Release, Unlink
  <2> QED BY <2>1, <2>2, <2>3
<1> QED BY <1>1, <1>2, <1>3, <1>4

\* Register writes the entry last.
LEMMA RegisterKeeps ==
  ASSUME DaemonInv, NEW i \in Instances, UNCHANGED <<healthVars, term>>,
         RegisterOpens(i) \/ RegisterWrites(i) \/ RegisterFails(i)
  PROVE  DaemonInv'
<1> USE HostAssumption, HealthAssumption
    DEF DaemonInv, Files, Agents, Goes, Forgets, Ends, hostVars, fileVars, processVars,
        agentVars, healthVars, Holding, Serving, Closing, TypeOK
<1>1. CASE RegisterOpens(i)
  <2>1. TypeOK'
    BY <1>1, HostKeepsTypes
    DEF HostTypeOK, HealthTypeOK, FileInv, Starting, Undoing, Stopping, RegisterOpens
  <2>2. FileInv' /\ SawInv' /\ RemoveInv'
    BY <1>1 DEF HostTypeOK, FileInv, SawInv, RemoveInv, Condemned,
                  RegisterOpens, WriteOpens
  <2>3. ServerInv'
    BY <1>1 DEF HealthTypeOK, ServerInv, RegisterOpens
  <2> QED BY <2>1, <2>2, <2>3
<1>2. CASE RegisterWrites(i)
  <2>1. TypeOK'
    BY <1>2, HostKeepsTypes
    DEF HostTypeOK, HealthTypeOK, FileInv, Starting, Undoing, Stopping, RegisterWrites
  <2>2. FileInv' /\ SawInv' /\ RemoveInv'
    BY <1>2 DEF HostTypeOK, FileInv, SawInv, RemoveInv, Condemned,
                  RegisterWrites, WriteFills
  <2>3. ServerInv'
    BY <1>2 DEF HealthTypeOK, ServerInv, RegisterWrites
  <2> QED BY <2>1, <2>2, <2>3
<1>3. CASE RegisterFails(i)
  <2>1. TypeOK'
    BY <1>3, HostKeepsTypes
    DEF HostTypeOK, HealthTypeOK, FileInv, Starting, Undoing, Stopping, RegisterFails
  <2>2. FileInv' /\ SawInv' /\ RemoveInv'
    BY <1>3 DEF HostTypeOK, FileInv, SawInv, RemoveInv, Condemned,
                  RegisterFails, WriteErrs
  <2>3. ServerInv'
    BY <1>3 DEF HealthTypeOK, ServerInv, RegisterFails
  <2> QED BY <2>1, <2>2, <2>3
<1> QED BY <1>1, <1>2, <1>3

\* Stop gives up the entry, the file and the server in turn.
LEMMA StopKeeps ==
  ASSUME DaemonInv, NEW i \in Instances, BeginStop(i) \/ StopNext(i)
  PROVE  DaemonInv'
<1> USE HostAssumption, HealthAssumption
    DEF DaemonInv, Files, Agents, Goes, Forgets, Ends, hostVars, fileVars, processVars,
        agentVars, healthVars, Holding, Serving, Closing, TypeOK
<1>1. CASE BeginStop(i)
  <2>1. TypeOK'
    BY <1>1, HostKeepsTypes
    DEF HostTypeOK, HealthTypeOK, Starting, Undoing, Stopping, BeginStop
  <2>2. FileInv' /\ SawInv' /\ RemoveInv'
    BY <1>1 DEF HostTypeOK, FileInv, SawInv, RemoveInv, Condemned,
                  BeginStop
  <2>3. ServerInv'
    BY <1>1 DEF HealthTypeOK, ServerInv, BeginStop
  <2> QED BY <2>1, <2>2, <2>3
<1>2. CASE StopUnregisters(i)
  <2>1. TypeOK'
    BY <1>2, HostKeepsTypes
    DEF HostTypeOK, HealthTypeOK, Starting, Undoing, Stopping, StopUnregisters,
        Unregister, Unlink
  <2>2. FileInv' /\ SawInv' /\ RemoveInv'
    BY <1>2 DEF HostTypeOK, FileInv, SawInv, RemoveInv, Condemned,
                  StopUnregisters, Unregister, Unlink, Remove, RemoveErrs
  <2>3. ServerInv'
    BY <1>2 DEF HealthTypeOK, ServerInv, StopUnregisters, Unregister, Unlink
  <2> QED BY <2>1, <2>2, <2>3
<1>3. CASE StopReleases(i)
  <2>1. TypeOK'
    BY <1>3, HostKeepsTypes
    DEF HostTypeOK, HealthTypeOK, Starting, Undoing, Stopping, StopReleases, Release, Unlink
  <2>2. FileInv' /\ SawInv' /\ RemoveInv'
    BY <1>3 DEF HostTypeOK, FileInv, SawInv, RemoveInv, Condemned,
                  StopReleases, Release, Unlink, Remove, RemoveErrs
  <2>3. ServerInv'
    BY <1>3 DEF HealthTypeOK, ServerInv, StopReleases, Release, Unlink
  <2> QED BY <2>1, <2>2, <2>3
<1>4. CASE StopCloses(i)
  <2>1. HealthTypeOK'
    BY <1>4, HealthKeepsTypes DEF StopCloses
  <2>2. TypeOK'
    BY <1>4, <2>1 DEF HostTypeOK, Starting, Undoing, Stopping, StopCloses
  <2>3. FileInv' /\ SawInv'
    BY <1>4 DEF HostTypeOK, FileInv, SawInv, StopCloses
  <2>4. RemoveInv'
    BY <1>4 DEF HostTypeOK, FileInv, RemoveInv, Condemned, StopCloses
  <2>5. ServerInv'
    <3>1. CASE pc[i] = "close"
      BY <1>4, <3>1 DEF HealthTypeOK, ServerInv, StopCloses, HealthForgets
    <3>2. CASE pc[i] = "shutdown"
      BY <1>4, <3>2 DEF HealthTypeOK, ServerInv, ServeStates, StopCloses, HealthShutsDown
    <3> QED BY <1>4, <3>1, <3>2 DEF StopCloses
  <2> QED BY <2>2, <2>3, <2>4, <2>5
<1> QED BY <1>1, <1>2, <1>3, <1>4 DEF StopNext

\* Serve closes its own listener, and a late goroutine forgets only its own server.
LEMMA ServeKeeps ==
  ASSUME DaemonInv, NEW i \in Instances, ServeNext(i)
  PROVE  DaemonInv'
<1> USE HostAssumption, HealthAssumption
    DEF DaemonInv, TypeOK, HostTypeOK, HealthTypeOK, FileInv, ServerInv, SawInv,
        RemoveInv, Condemned, Files, Agents, Starting, Undoing, Stopping, Holding,
        Serving, Closing, ServeStates, hostVars, fileVars, processVars, agentVars,
        healthVars, Goes, Forgets, Ends
<1>1. HealthTypeOK'
  BY HealthKeepsTypes DEF ServeNext
<1>2. TypeOK' /\ FileInv' /\ SawInv' /\ RemoveInv'
  BY <1>1 DEF ServeNext
<1>3. ServerInv'
  <2>1. CASE ServeTakesUp(i) /\ UNCHANGED <<hostVars, agentVars, term>>
    BY <2>1 DEF ServeTakesUp
  <2>2. CASE ServeFails(i) /\ UNCHANGED <<hostVars, agentVars, term>>
    BY <2>2 DEF ServeFails
  <2>3. CASE ServeCloses(i) /\ UNCHANGED <<hostVars, agentVars, term>>
    BY <2>3 DEF ServeCloses
  <2>4. CASE ServeForgets(i) /\ UNCHANGED <<hostVars, agentVars, term>>
    <3>1. ASSUME NEW j \in Instances, j # i
          PROVE  tracked'[j] = tracked[j] /\ failing'[j] = failing[j]
      BY <2>4, <3>1 DEF ServeForgets
    <3>2. tracked'[i] = (tracked[i] /\ failing[i] = "old") /\ failing'[i] = "none"
      BY <2>4 DEF ServeForgets
    <3>3. failing[i] \in {"current", "old"} /\ UNCHANGED <<port, serve, lost, pc>>
      BY <2>4 DEF ServeForgets
    <3>4. tracked'[i] => tracked[i] /\ failing[i] = "old"
      BY <3>2
    <3>5. failing[i] = "old" => (tracked'[i] <=> tracked[i])
      BY <3>2
    <3>6. port = i => failing[i] = "old"
      BY <3>3
    <3> HIDE DEF Serving, Closing, ServeStates
    <3>7. ASSUME NEW j \in Instances
          PROVE  /\ tracked'[j] => WithHealth /\ pc[j] \in Serving
                 /\ failing'[j] = "current" <=> tracked'[j] /\ port # j
                 /\ WithHealth /\ pc[j] \in Serving => port = j \/ j \in lost
                 /\ port = j =>
                      /\ serve \in {"due", "on"} => tracked'[j] \/ pc[j] \in Closing
                      /\ serve = "failed" /\ pc[j] \in Serving => j \in lost
                      /\ serve = "late" => pc[j] \notin Serving \cup Closing
      <4>1. CASE j # i
        BY <3>1, <4>1
      <4>2. CASE j = i
        BY <3>2, <3>3, <3>4, <3>5, <3>6, <4>2
      <4> QED BY <4>1, <4>2
    <3> QED BY <3>3, <3>7
  <2> QED BY <2>1, <2>2, <2>3, <2>4 DEF ServeNext
<1> QED BY <1>2, <1>3

\* A process comes with nothing and takes its listener with it; its files stay.
LEMMA ProcessKeeps ==
  ASSUME DaemonInv, NEW i \in Instances,
         Crash(i) \/ \E p \in Pids : Boot(i, p)
  PROVE  DaemonInv'
<1> USE HostAssumption, HealthAssumption
    DEF DaemonInv, Files, Agents, Goes, Forgets, Ends, hostVars, fileVars, processVars,
        agentVars, healthVars, Holding, Serving, Closing, TypeOK
<1>1. CASE Crash(i)
  <2>1. TypeOK'
    BY <1>1, HostKeepsTypes
    DEF HostTypeOK, HealthTypeOK, Starting, Undoing, Stopping, Crash, HealthDies
  <2>2. FileInv' /\ SawInv' /\ RemoveInv'
    BY <1>1 DEF HostTypeOK, FileInv, SawInv, RemoveInv, Condemned,
                  Crash, Dies, HealthDies
  <2>3. ServerInv'
    BY <1>1 DEF HealthTypeOK, ServerInv, Crash, HealthDies
  <2> QED BY <2>1, <2>2, <2>3
<1>2. CASE \E p \in Pids : Boot(i, p)
  <2>1. TypeOK'
    BY <1>2, HostKeepsTypes
    DEF HostTypeOK, HealthTypeOK, Starting, Undoing, Stopping, Boot
  <2>2. FileInv' /\ SawInv' /\ RemoveInv'
    BY <1>2 DEF HostTypeOK, FileInv, SawInv, RemoveInv, Condemned,
                  Boot, Spawns, FreePids
  <2>3. ServerInv'
    BY <1>2 DEF HealthTypeOK, ServerInv, FileInv, Boot, Spawns, HostTypeOK
  <2> QED BY <2>1, <2>2, <2>3
<1> QED BY <1>1, <1>2

\* Strangers touch nothing but pids.
LEMMA StrangersKeep ==
  ASSUME DaemonInv, NEW p \in Pids, Strangers(p), UNCHANGED <<agentVars, healthVars, term>>
  PROVE  DaemonInv'
<1> USE HostAssumption, HealthAssumption
    DEF DaemonInv, TypeOK, HostTypeOK, HealthTypeOK, FileInv, ServerInv, SawInv,
        RemoveInv, Condemned, Files, Agents, Starting, Undoing, Stopping, Holding,
        Serving, Closing, ServeStates, hostVars, fileVars, processVars, agentVars,
        healthVars, Goes, Forgets, Ends
<1>1. CASE ForeignSpawns(p)
  BY <1>1 DEF ForeignSpawns, FreePids
<1>2. CASE ForeignDies(p)
  BY <1>2 DEF ForeignDies
<1> QED BY <1>1, <1>2 DEF Strangers

\* A client removes what was stale, or what it has told to stop.
LEMMA ClientKeeps ==
  ASSUME DaemonInv, NEW c \in Clients,
         Get(c) \/ StopDaemonSignals(c) \/ StopDaemonUnregisters(c)
  PROVE  DaemonInv'
<1> USE HostAssumption, HealthAssumption
    DEF DaemonInv, Files, Agents, Goes, Forgets, Ends, hostVars, fileVars, processVars,
        agentVars, healthVars, Holding, Serving, Closing, TypeOK
<1>1. CASE GetReads(c) /\ UNCHANGED <<healthVars, term>>
  <2>1. TypeOK'
    BY <1>1, HostKeepsTypes
    DEF HostTypeOK, HealthTypeOK, Starting, Undoing, Stopping, GetReads, Reads
  <2>2. FileInv' /\ SawInv' /\ RemoveInv'
    BY <1>1 DEF HostTypeOK, FileInv, SawInv, RemoveInv, Condemned,
                  GetReads, Reads, ReadFile
  <2>3. ServerInv'
    BY <1>1 DEF HealthTypeOK, ServerInv, GetReads, Reads
  <2> QED BY <2>1, <2>2, <2>3
<1>2. CASE GetReturns(c) /\ UNCHANGED <<healthVars, term>>
  <2>1. TypeOK'
    BY <1>2, HostKeepsTypes
    DEF HostTypeOK, HealthTypeOK, Starting, Undoing, Stopping, GetReturns
  <2>2. FileInv' /\ SawInv' /\ RemoveInv'
    BY <1>2 DEF HostTypeOK, FileInv, SawInv, RemoveInv, Condemned,
                  GetReturns, Drops
  <2>3. ServerInv'
    BY <1>2 DEF HealthTypeOK, ServerInv, GetReturns
  <2> QED BY <2>1, <2>2, <2>3
<1>3. CASE GetFindsStale(c) /\ UNCHANGED <<healthVars, term>>
  <2>1. TypeOK'
    BY <1>3, HostKeepsTypes
    DEF HostTypeOK, HealthTypeOK, Starting, Undoing, Stopping, GetFindsStale, Stale
  <2>2. FileInv' /\ SawInv'
    BY <1>3 DEF HostTypeOK, FileInv, SawInv, GetFindsStale
  <2>3. c \in seen["entry"] => Condemned(c, "entry")
    <3> SUFFICES ASSUME c \in seen["entry"], author["entry"] # None
                 PROVE  <<c, author["entry"]>> \in host.denied
      BY DEF Condemned
    <3>1. author["entry"] \in Instances /\ pid[author["entry"]] = saw[c]
      BY <1>3 DEF HostTypeOK, FileInv, SawInv, GetFindsStale
    <3> QED BY <1>3, <3>1 DEF GetFindsStale, Stale, Signals, Reaches
  <2>4. RemoveInv'
    BY <1>3, <2>3 DEF HostTypeOK, RemoveInv, Condemned, GetFindsStale
  <2>5. ServerInv'
    BY <1>3 DEF HealthTypeOK, ServerInv, GetFindsStale, Stale
  <2> QED BY <2>1, <2>2, <2>4, <2>5
<1>4. CASE Prune(c) /\ UNCHANGED <<healthVars, term>>
  <2>1. TypeOK'
    BY <1>4, HostKeepsTypes
    DEF HostTypeOK, HealthTypeOK, Starting, Undoing, Stopping, Prune, Unlink
  <2>2. FileInv' /\ SawInv' /\ RemoveInv'
    BY <1>4 DEF HostTypeOK, FileInv, SawInv, RemoveInv, Condemned,
                  Prune, Unlink, Remove, RemoveErrs
  <2>3. ServerInv'
    BY <1>4 DEF HealthTypeOK, ServerInv, Prune, Unlink
  <2> QED BY <2>1, <2>2, <2>3
<1>5. CASE StopDaemonSignals(c)
  <2>1. HostTypeOK'
    BY <1>5, HostKeepsTypes DEF StopDaemonSignals
  <2>2. TypeOK'
    BY <1>5, <2>1 DEF HealthTypeOK, Starting, Undoing, Stopping, StopDaemonSignals, Reaches
  <2>3. c \in seen["entry"] => Condemned(c, "entry") \/ author["entry"] \in term'
    <3> SUFFICES ASSUME c \in seen["entry"], author["entry"] # None
                 PROVE  Condemned(c, "entry") \/ author["entry"] \in term'
      BY DEF Condemned
    <3>1. author["entry"] \in Instances /\ pid[author["entry"]] = saw[c]
      BY <1>5 DEF HostTypeOK, FileInv, SawInv, StopDaemonSignals
    <3> QED BY <1>5, <3>1 DEF StopDaemonSignals, Reaches, Condemned
  <2>4. term \subseteq term'
    BY <1>5 DEF StopDaemonSignals
  <2>5. ASSUME Signals(c, saw[c]) PROVE FileInv' /\ SawInv' /\ RemoveInv'
    <3>1. FileInv' /\ SawInv'
      BY <1>5, <2>5 DEF HostTypeOK, FileInv, SawInv, StopDaemonSignals
    <3>2. RemoveInv'
      <4>1. UNCHANGED <<author, stuck, host>> /\ \A x \in Agents \ {c} : pc'[x] = pc[x]
        BY <1>5, <2>3, <2>4, <2>5 DEF StopDaemonSignals
      <4>2. \A x \in Agents \ {c}, f \in Files : x \in seen'[f] <=> x \in seen[f]
        BY <1>5, <2>3, <2>4, <2>5 DEF HostTypeOK, StopDaemonSignals
      <4>3. pc'[c] \in {"unregister", "idle"} /\ (pc'[c] = "unregister" => seen' = seen)
        BY <1>5, <2>3, <2>4, <2>5 DEF StopDaemonSignals
      <4>4. \A i \in Instances : i # c
        OBVIOUS
      <4>5. ASSUME NEW i \in Instances
            PROVE  pc'[i] = "remove" /\ i \in seen'["pid"] => Condemned(i, "pid")'
        BY <4>1, <4>2, <4>4 DEF RemoveInv, Condemned
      <4>6. ASSUME NEW d \in Clients, d # c
            PROVE  /\ pc'[d] = "prune" /\ d \in seen'["entry"] => Condemned(d, "entry")'
                   /\ pc'[d] = "unregister" /\ d \in seen'["entry"] =>
                        (Condemned(d, "entry") \/ author["entry"] \in term
                           \/ "entry" \in stuck)'
        BY <2>4, <4>1, <4>2, <4>6 DEF RemoveInv, Condemned
      <4>7. pc'[c] = "unregister" /\ c \in seen'["entry"] =>
              (Condemned(c, "entry") \/ author["entry"] \in term \/ "entry" \in stuck)'
        BY <2>3, <4>1, <4>3 DEF Condemned
      <4> QED BY <4>3, <4>5, <4>6, <4>7 DEF RemoveInv, Condemned
    <3> QED BY <3>1, <3>2
  <2>6. ASSUME ~Signals(c, saw[c]) PROVE FileInv' /\ SawInv' /\ RemoveInv'
    <3>1. FileInv' /\ SawInv'
      BY <1>5, <2>6 DEF HostTypeOK, FileInv, SawInv, StopDaemonSignals, Drops
    <3>2. RemoveInv'
      <4>1. UNCHANGED <<author, stuck, host>> /\ \A x \in Agents \ {c} : pc'[x] = pc[x]
        BY <1>5, <2>4, <2>6 DEF StopDaemonSignals, Drops
      <4>2. \A x \in Agents \ {c}, f \in Files : x \in seen'[f] <=> x \in seen[f]
        BY <1>5, <2>4, <2>6 DEF HostTypeOK, StopDaemonSignals, Drops
      <4>3. pc'[c] \in {"unregister", "idle"} /\ (pc'[c] = "unregister" => seen' = seen)
        BY <1>5, <2>4, <2>6 DEF StopDaemonSignals, Drops
      <4>4. \A i \in Instances : i # c
        OBVIOUS
      <4>5. ASSUME NEW i \in Instances
            PROVE  pc'[i] = "remove" /\ i \in seen'["pid"] => Condemned(i, "pid")'
        BY <4>1, <4>2, <4>4 DEF RemoveInv, Condemned
      <4>6. ASSUME NEW d \in Clients, d # c
            PROVE  /\ pc'[d] = "prune" /\ d \in seen'["entry"] => Condemned(d, "entry")'
                   /\ pc'[d] = "unregister" /\ d \in seen'["entry"] =>
                        (Condemned(d, "entry") \/ author["entry"] \in term
                           \/ "entry" \in stuck)'
        BY <2>4, <4>1, <4>2, <4>6 DEF RemoveInv, Condemned
      <4>7. pc'[c] = "unregister" /\ c \in seen'["entry"] =>
              (Condemned(c, "entry") \/ author["entry"] \in term \/ "entry" \in stuck)'
        BY <2>3, <4>1, <4>3 DEF Condemned
      <4> QED BY <4>3, <4>5, <4>6, <4>7 DEF RemoveInv, Condemned
    <3> QED BY <3>1, <3>2
  <2>7. ServerInv'
    BY <1>5 DEF HealthTypeOK, ServerInv, StopDaemonSignals
  <2> QED BY <2>2, <2>5, <2>6, <2>7
<1>6. CASE StopDaemonUnregisters(c)
  <2>1. TypeOK'
    BY <1>6, HostKeepsTypes
    DEF HostTypeOK, HealthTypeOK, Starting, Undoing, Stopping, StopDaemonUnregisters,
        Unregister, Unlink
  <2>2. FileInv' /\ SawInv' /\ RemoveInv'
    BY <1>6 DEF HostTypeOK, FileInv, SawInv, RemoveInv, Condemned,
                  StopDaemonUnregisters, Unregister, Unlink, Remove, RemoveErrs
  <2>3. ServerInv'
    BY <1>6 DEF HealthTypeOK, ServerInv, StopDaemonUnregisters, Unregister, Unlink
  <2> QED BY <2>1, <2>2, <2>3
<1> QED BY <1>1, <1>2, <1>3, <1>4, <1>5, <1>6 DEF Get

\* Every step of the system keeps the invariant.
LEMMA NextKeeps == DaemonInv /\ [Next]_vars => DaemonInv'
<1> SUFFICES ASSUME DaemonInv, [Next]_vars PROVE DaemonInv'
  OBVIOUS
<1>1. CASE Next
  <2>1. ASSUME NEW i \in Instances, StartNext(i), term' = term PROVE DaemonInv'
    BY <2>1, AcquireKeeps, HealthStartKeeps, RegisterKeeps DEF StartNext
  <2> QED
    BY <1>1, <2>1, StopKeeps, ServeKeeps, ProcessKeeps, StrangersKeep, ClientKeeps
    DEF Next
<1>2. CASE UNCHANGED vars
  BY <1>2 DEF vars, hostVars, fileVars, processVars, agentVars, healthVars, DaemonInv,
              TypeOK, HostTypeOK, HealthTypeOK, FileInv, ServerInv, SawInv, RemoveInv,
              Condemned
<1> QED BY <1>1, <1>2

\* The inductive invariant holds in every reachable state (daemon.go:85-217,
\* pidfile.go:37-88, registry.go:61-133, health.go:119-175).
THEOREM DaemonInvariant == Spec => []DaemonInv
  BY InitEstablishes, NextKeeps, PTL DEF Spec

\* The model keeps its types, for any number of processes and pids.
THEOREM DaemonTypeCorrect == Spec => []TypeOK
<1>1. DaemonInv => TypeOK
  BY DEF DaemonInv
<1> QED BY <1>1, DaemonInvariant, PTL

\* An instance that is not running has written no file that still stands, and
\* neither listens nor remembers a server (daemon.go:93-140, 193-211).
THEOREM RollsBackCorrect == Spec => []RollsBack
<1>1. DaemonInv => RollsBack
  BY HostAssumption DEF DaemonInv, FileInv, ServerInv, RollsBack, Files, Holding,
         Serving, TypeOK, HealthTypeOK, HostTypeOK, Closing, ServeStates
<1> QED BY <1>1, DaemonInvariant, PTL

\* A server that listens is known to its daemon, and forgotten only when it has
\* failed or was stopped (health.go:125-139, 163-175).
THEOREM ListenerTrackedCorrect == Spec => []ListenerTracked
<1>1. DaemonInv => ListenerTracked
  BY DEF DaemonInv, ServerInv, ListenerTracked, Closing
<1> QED BY <1>1, DaemonInvariant, PTL

\* With a health address no two daemons are up whose servers have not failed
\* (health.go:119-122, daemon.go:99-107).
THEOREM PortExcludesCorrect == Spec => []PortExcludes
<1>1. DaemonInv => PortExcludes
  BY DEF DaemonInv, ServerInv, PortExcludes, Serving
<1> QED BY <1>1, DaemonInvariant, PTL

-----------------------------------------------------------------------------

\* A start step that takes away a file removes what was condemned, or has not read it.
LEMMA StartSpares ==
  ASSUME DaemonInv, NEW a \in Agents, NEW i \in Instances, NEW f \in Files,
         TakesAway(a, i, f), a \in seen[f],
         NEW j \in Instances, StartNext(j)
  PROVE  <<a, i>> \in host.denied
<1> USE HostAssumption
    DEF DaemonInv, TypeOK, HostTypeOK, Files, Agents, Goes, Ends, hostVars, fileVars,
        processVars, TakesAway
<1>1. CASE \/ AcquireReads(j) \/ AcquireRefused(j) \/ AcquireFindsStale(j)
           \/ AcquireFails(j) \/ RegisterFails(j) \/ StartHealth(j)
           \/ StartHealthFails(j) \/ UndoHealth(j)
  <2>1. author' = author
    BY <1>1 DEF AcquireReads, Reads, ReadFile, AcquireRefused, Drops, AcquireFindsStale,
                AcquireFails, WriteErrs, RegisterFails, StartHealth, StartHealthFails,
                UndoHealth
  <2> QED BY <2>1
<1>2. CASE AcquireRemoves(j)
  <2>1. a = j /\ f = "pid" /\ pc[j] = "remove"
    BY <1>2 DEF AcquireRemoves, Remove, RemoveErrs
  <2> QED BY <2>1 DEF RemoveInv, Condemned
<1>3. CASE AcquireOpens(j) \/ AcquireWrites(j)
  <2>1. a = j /\ f = "pid" /\ pc[j] \in {"create", "fill"}
    BY <1>3 DEF AcquireOpens, AcquireWrites, WriteOpens, WriteFills
  <2> QED BY <2>1 DEF SawInv
<1>4. CASE UndoAcquire(j)
  <2>1. a = j /\ f = "pid" /\ pc[j] = "undo"
    BY <1>4 DEF UndoAcquire, Release, Unlink, Remove, RemoveErrs
  <2> QED BY <2>1 DEF SawInv
<1>5. CASE RegisterOpens(j) \/ RegisterWrites(j)
  <2>1. a = j /\ f = "entry"
    BY <1>5 DEF RegisterOpens, RegisterWrites, WriteOpens, WriteFills
  <2> QED BY <2>1 DEF SawInv
<1> QED BY <1>1, <1>2, <1>3, <1>4, <1>5 DEF StartNext, Acquire

\* What a daemon removes when it stops it has not read.
LEMMA StopSpares ==
  ASSUME DaemonInv, NEW a \in Agents, NEW i \in Instances, NEW f \in Files,
         TakesAway(a, i, f), a \in seen[f],
         NEW j \in Instances, BeginStop(j) \/ StopNext(j)
  PROVE  FALSE
<1> USE HostAssumption
    DEF DaemonInv, TypeOK, HostTypeOK, Files, Agents, Goes, hostVars, fileVars,
        processVars, TakesAway
<1>1. CASE BeginStop(j) \/ StopCloses(j)
  <2>1. author' = author
    BY <1>1 DEF BeginStop, StopCloses
  <2> QED BY <2>1
<1>2. CASE StopUnregisters(j)
  <2>1. a = j /\ f = "entry"
    BY <1>2 DEF StopUnregisters, Unregister, Unlink, Remove, RemoveErrs
  <2> QED BY <2>1 DEF SawInv
<1>3. CASE StopReleases(j)
  <2>1. a = j /\ f = "pid" /\ pc[j] = "release"
    BY <1>3 DEF StopReleases, Release, Unlink, Remove, RemoveErrs
  <2> QED BY <2>1 DEF SawInv
<1> QED BY <1>1, <1>2, <1>3 DEF StopNext

\* A client removes what was condemned, or the entry of a daemon told to stop.
LEMMA ClientSpares ==
  ASSUME DaemonInv, NEW a \in Agents, NEW i \in Instances, NEW f \in Files,
         TakesAway(a, i, f), a \in seen[f], NEW c \in Clients,
         Get(c) \/ StopDaemonSignals(c) \/ StopDaemonUnregisters(c)
  PROVE  <<a, i>> \in host.denied \/ (a \in Clients /\ i \in term)
<1> USE HostAssumption
    DEF DaemonInv, TypeOK, HostTypeOK, Files, Agents, Goes, Ends, hostVars, fileVars,
        processVars, TakesAway
<1>1. CASE GetReads(c) \/ GetReturns(c) \/ GetFindsStale(c) \/ StopDaemonSignals(c)
  <2>1. author' = author
    BY <1>1 DEF GetReads, Reads, ReadFile, GetReturns, GetFindsStale, StopDaemonSignals,
                Drops
  <2> QED BY <2>1
<1>2. CASE Prune(c)
  <2>1. a = c /\ f = "entry" /\ pc[c] = "prune"
    BY <1>2 DEF Prune, Unlink, Remove, RemoveErrs
  <2> QED BY <2>1 DEF RemoveInv, Condemned
<1>3. CASE StopDaemonUnregisters(c)
  <2>1. a = c /\ f = "entry" /\ pc[c] = "unregister"
    BY <1>3 DEF StopDaemonUnregisters, Unregister, Unlink, Remove, RemoveErrs
  <2> QED BY <2>1 DEF RemoveInv, Condemned
<1> QED BY <1>1, <1>2, <1>3 DEF Get

\* A process takes away the file of a living daemon only when it has not looked at it
\* since the daemon wrote it, may not signal the daemon, or the daemon was told to
\* stop (pidfile.go:41-62, registry.go:111-126, provider.go:148-165).
THEOREM SparesTheLivingCorrect == Spec => SparesTheLiving
<1> DEFINE Spares(a, i, f) ==
             a \notin seen[f] \/ <<a, i>> \in host.denied \/ (a \in Clients /\ i \in term)
<1>1. ASSUME DaemonInv, [Next]_vars, NEW a \in Agents, NEW i \in Instances,
             NEW f \in Files, TakesAway(a, i, f)
      PROVE  Spares(a, i, f)
  <2> SUFFICES ASSUME a \in seen[f]
               PROVE  <<a, i>> \in host.denied \/ (a \in Clients /\ i \in term)
    OBVIOUS
  <2>1. ASSUME NEW j \in Instances, StartNext(j) PROVE <<a, i>> \in host.denied
    BY <1>1, <2>1, StartSpares
  <2>2. ASSUME NEW j \in Instances, BeginStop(j) \/ StopNext(j) PROVE FALSE
    BY <1>1, <2>2, StopSpares
  <2>3. ASSUME NEW c \in Clients,
               Get(c) \/ StopDaemonSignals(c) \/ StopDaemonUnregisters(c)
        PROVE  <<a, i>> \in host.denied \/ (a \in Clients /\ i \in term)
    BY <1>1, <2>3, ClientSpares
  <2>4. ASSUME NEW j \in Instances, Crash(j) \/ \E p \in Pids : Boot(j, p) PROVE FALSE
    <3>1. CASE Crash(j)
      BY <1>1, <2>4, <3>1
      DEF Crash, Dies, TakesAway, DaemonInv, TypeOK, HostTypeOK, Files
    <3>2. CASE \E p \in Pids : Boot(j, p)
      BY <1>1, <3>2 DEF Boot, Spawns, fileVars, TakesAway
    <3> QED BY <2>4, <3>1, <3>2
  <2>5. ASSUME NEW j \in Instances, ServeNext(j) PROVE FALSE
    BY <1>1, <2>5 DEF ServeNext, agentVars, TakesAway
  <2>6. ASSUME NEW p \in Pids, Strangers(p), UNCHANGED <<agentVars, healthVars, term>>
        PROVE  FALSE
    BY <1>1, <2>6 DEF agentVars, TakesAway
  <2>7. ~ UNCHANGED vars
    BY <1>1 DEF vars, agentVars, TakesAway
  <2> QED BY <1>1, <2>1, <2>2, <2>3, <2>4, <2>5, <2>6, <2>7 DEF Next
<1>2. DaemonInv /\ [Next]_vars =>
        [\A a \in Agents, i \in Instances, f \in Files :
           TakesAway(a, i, f) => Spares(a, i, f)]_vars
  BY <1>1
<1> QED BY <1>2, DaemonInvariant, PTL DEF Spec, SparesTheLiving
=============================================================================
