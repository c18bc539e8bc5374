-------------------------- MODULE MCResearchGraph --------------------------
(* Instances of ResearchTraversal for TLC. *)
EXTENDS ResearchTraversal, TLC

CONSTANTS n1, n2, n3, e1, e2, e3

\* Open work, once said to be a root, work that was closed when it was noted down, a failure.
WorkPayloads ==
  {[kind |-> "task", status |-> "open", root |-> FALSE],
   [kind |-> "task", status |-> "open", root |-> TRUE],
   [kind |-> "task", status |-> "resolved", root |-> FALSE],
   [kind |-> "failure", status |-> "open", root |-> FALSE]}

Symmetry == Permutations({n1, n2, n3}) \cup Permutations({e1, e2, e3})
=============================================================================
