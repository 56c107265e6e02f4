------------------------------ MODULE MCDaemon ------------------------------
(* Two daemon processes on the same files and address, three pids.  Hosts: a    *)
(* Serve that fails, unlinks that fail, clients that may not signal the daemons, *)
(* and a daemon that may not signal the other, which may signal it.             *)
EXTENDS Daemon, TLC

Machine(denied, fails, strangers) ==
  [denied |-> denied, fails |-> fails, strangers |-> strangers]

MCHosts ==
  {Machine({}, {"accept"}, 0), Machine({}, {"unlink"}, 1),
   Machine(Clients \X Instances, {}, 1)}
    \cup {Machine({p}, {}, 1) : p \in {q \in Instances \X Instances : q[1] # q[2]}}

OneUser == {Machine({}, {}, 0)}

Symmetry == Permutations(Instances) \cup Permutations(Pids)
=============================================================================
