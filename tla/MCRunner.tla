------------------------------ MODULE MCRunner ------------------------------
(* Instances of Runner for TLC: dependency graphs of three specs.           *)
EXTENDS Runner

Graph(d1, d2, d3) == [s \in Specs |-> CASE s = 1 -> d1 [] s = 2 -> d2 [] s = 3 -> d3]

Chain == Graph({}, {1}, {2})
Fork == Graph({}, {1}, {1})
Join == Graph({2, 3}, {}, {})              \* against the order of the slice
Cycle == Graph({}, {1, 3}, {2})            \* behind a spec that can run
Gap == Graph({}, {1}, {2, Missing})

Call(m, g, a) == [mode |-> m, after |-> g, allow |-> a]

ThreeSpecs ==
  {Call("all", g, a) : g \in {Chain, Fork, Join, Cycle, Gap}, a \in {{}, {1}, {2}}}
    \cup {Call("sequential", Chain, a) : a \in {{}, {1}}}
    \cup {Call("parallel", Chain, {})}
=============================================================================
