---------------------------- MODULE HealthServer ----------------------------
(****************************************************************************)
(* The health server of each instance, on one fixed address that all of     *)
(* them are configured with. Start listens and leaves Serve to a goroutine  *)
(* of its own; Stop forgets the server under h.mu and shuts it down         *)
(* afterwards. Shutdown closes only a listener that Serve has taken up: one *)
(* that it has not is closed by Serve, whenever that runs. A Serve that has *)
(* failed closes its listener, but forgets the server only later, under     *)
(* h.mu, and only if it is still the one that failed.                       *)
(****************************************************************************)
EXTENDS Registry

VARIABLES
  port,             \* the instance that listens on the address, or None
  serve,            \* how far its Serve is, or "none"
  tracked,          \* whether h.server and h.listener are set
  failing,          \* a Serve that has failed and not yet taken h.mu, and
                    \* whether its server is still the one in h.server
  lost              \* ghost: instances whose Serve has failed since they listened

healthVars == <<port, serve, tracked, failing, lost>>

\* Serve is to run; it accepts; accept failed; it runs after Shutdown has.
ServeStates == {"due", "on", "failed", "late"}

HealthTypeOK ==
  /\ port \in Instances \cup {None}
  /\ serve \in ServeStates \cup {"none"}
  /\ tracked \in [Instances -> BOOLEAN]
  /\ failing \in [Instances -> {"none", "current", "old"}]
  /\ lost \subseteq Instances

HealthInit ==
  /\ port = None /\ serve = "none" /\ tracked = [i \in Instances |-> FALSE]
  /\ failing = [i \in Instances |-> "none"] /\ lost = {}

-----------------------------------------------------------------------------
(* Start, and the goroutine it leaves behind.                               *)

HealthListens(i) ==
  /\ port = None /\ port' = i /\ serve' = "due"
  /\ tracked' = [tracked EXCEPT ![i] = TRUE]
  /\ failing' = failing /\ lost' = lost \ {i}

ServeTakesUp(i) ==
  /\ port = i /\ serve = "due" /\ serve' = "on"
  /\ UNCHANGED <<port, tracked, failing, lost>>

\* accept(2) fails for good.  Bound: one failed Serve at a time is still on its way
\* to h.mu, and it is the only one that a running daemon has to do without.
ServeFails(i) ==
  /\ "accept" \in host.fails /\ lost = {}
  /\ port = i /\ serve = "on" /\ \A j \in Instances : failing[j] = "none"
  /\ serve' = "failed" /\ lost' = lost \cup {i}
  /\ UNCHANGED <<port, tracked, failing>>

\* The deferred Close of a Serve that has failed or was shut down before it ran;
\* the error of the first is not ErrServerClosed, so its goroutine goes for h.mu.
ServeCloses(i) ==
  /\ port = i /\ serve \in {"failed", "late"}
  /\ port' = None /\ serve' = "none"
  /\ failing' = IF serve = "late" THEN failing
                ELSE [failing EXCEPT ![i] = IF tracked[i] THEN "current" ELSE "old"]
  /\ UNCHANGED <<tracked, lost>>

ServeForgetsAny(i) ==
  /\ failing[i] # "none" /\ failing' = [failing EXCEPT ![i] = "none"]
  /\ tracked' = [tracked EXCEPT ![i] = FALSE]
  /\ UNCHANGED <<port, serve, lost>>
ServeForgets(i) ==
  /\ failing[i] # "none" /\ failing' = [failing EXCEPT ![i] = "none"]
  /\ tracked' = [tracked EXCEPT ![i] = @ /\ failing[i] = "old"]
  /\ UNCHANGED <<port, serve, lost>>

-----------------------------------------------------------------------------
(* Stop.                                                                    *)

HealthForgets(i) ==
  /\ tracked' = [tracked EXCEPT ![i] = FALSE]
  /\ failing' = [failing EXCEPT ![i] = IF @ = "current" THEN "old" ELSE @]
  /\ lost' = lost \ {i}
  /\ UNCHANGED <<port, serve>>

\* Shutdown of the server that was just forgotten: a listener of i can be no other's.
HealthShutsDown(i) ==
  /\ port' = IF port = i /\ serve = "on" THEN None ELSE port
  /\ serve' = CASE port = i /\ serve = "on"  -> "none"
                [] port = i /\ serve = "due" -> "late"
                [] OTHER -> serve
  /\ UNCHANGED <<tracked, failing, lost>>

HealthDies(i) ==
  /\ port' = IF port = i THEN None ELSE port
  /\ serve' = IF port = i THEN "none" ELSE serve
  /\ tracked' = [tracked EXCEPT ![i] = FALSE]
  /\ failing' = [failing EXCEPT ![i] = "none"]
  /\ lost' = lost \ {i}
=============================================================================
