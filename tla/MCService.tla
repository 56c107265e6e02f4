------------------------------ MODULE MCService -----------------------------
(* Instances of Service for TLC: the constants' values, nothing else.       *)
EXTENDS Service

\* A RunOptions value from the set of its flags.
Options(flags) ==
  [o \in {"detach", "killGroup", "timeout", "grace"} |-> o \in flags]

AttachedPlain == {Options({})}
AllCommands == {"kill", "shutdown", "signal"}

LiveProfiles ==
  {Options({}), Options({"timeout"}), Options({"detach", "killGroup"}),
   Options({"detach", "killGroup", "timeout", "grace"})}
MixedProfiles ==
  {Options({}), Options({"killGroup", "grace"}), Options({"timeout", "grace"}),
   Options({"detach", "killGroup", "timeout"}),
   Options({"detach", "killGroup", "timeout", "grace"})}
=============================================================================
