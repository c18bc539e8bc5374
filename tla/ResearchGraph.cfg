\* Three nodes and three edges, in every order.
SPECIFICATION Spec
CONSTANTS
  n1 = n1
  n2 = n2
  n3 = n3
  e1 = e1
  e2 = e2
  e3 = e3
  NodeIds = {n1, n2, n3}
  EdgeIds = {e1, e2, e3}
  Payloads <- WorkPayloads
  MaxEdges = 3
  MaxDepth = 3
SYMMETRY Symmetry
INVARIANTS
  TypeOK
  EdgesFitTargets
  EveryNodeHasAnOrigin
  RootIsTheOldestNode
  TraversalsAreExact
  EmptyFrontierIsExplained
PROPERTY FrontierOnlyNarrows
\* A full graph only answers questions.
CHECK_DEADLOCK FALSE
