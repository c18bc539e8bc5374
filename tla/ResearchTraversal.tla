------------------------- MODULE ResearchTraversal -------------------------
(***************************************************************************)
(* The two traversals of the research graph (get_ancestry and              *)
(* get_descendants of research_graph_manager.py), as the queue algorithm   *)
(* they are, compared with what they are to return in every graph that the *)
(* tools can make.                                                         *)
(*                                                                         *)
(* A traversal runs within one tool call, on edges that nobody changes     *)
(* meanwhile, so it is a function of the graph and no action.  Its loop is *)
(* given by its states, as a function of the number of steps.              *)
(***************************************************************************)
EXTENDS ResearchGraph, FiniteSets, Functions

CONSTANT MaxDepth   (* bound on the depths asked for *)

ASSUME MaxDepthAssumption == MaxDepth \in Nat

-----------------------------------------------------------------------------
(* The algorithm *)

\* get_ancestry follows the edges backwards, get_descendants forwards.
Ways == {"ancestry", "descendants"}

\* The end of an edge at which a traversal meets it, and the one at which it goes on.
Near(edge, way) == IF way = "ancestry" THEN edge.to ELSE edge.from
Far(edge, way)  == IF way = "ancestry" THEN edge.from ELSE edge.to

Modes == {"all", "frontier", "terminal"}

\* _descendant_mode_matches; get_ancestry knows no modes.
Matches(mode, n) ==
  \/ mode = "all"
  \/ mode = "frontier" /\ n \in Frontier
  \/ mode = "terminal" /\ (node[n].kind = "failure" \/ node[n].status \in {"terminal", "abandoned"})

\* The locals before the loop.  The edges of the node in front are gone through by position, and
\* the node leaves the queue after them; no step reads `met`, the transitions of every mode.
Begin(n) ==
  [queue |-> <<[at |-> n, depth |-> 0]>>, position |-> 1, seen |-> {}, found |-> <<>>, met |-> {}]

\* The edges seen are not remembered.
MeetAgain(state, edge, way, mode) ==
  LET transition == [edge |-> edge, depth |-> Head(state.queue).depth + 1]
      next       == [at |-> Far(edge, way), depth |-> transition.depth]
  IN  [queue    |-> Append(state.queue, next),
       position |-> state.position + 1,
       seen     |-> state.seen,
       found    |-> IF Matches(mode, next.at) THEN Append(state.found, transition) ELSE state.found,
       met      |-> state.met \cup {transition}]

\* An edge of the node in front, whose id has not been seen: its other end is queued, and it is
\* returned if the mode asks for it.  What the mode leaves out is walked through all the same.
\* That an end may be missing, which the code checks, cannot happen (EdgesFitTargets).
Meet(state, edge, way, mode) ==
  LET transition == [edge |-> edge, depth |-> Head(state.queue).depth + 1]
      next       == [at |-> Far(edge, way), depth |-> transition.depth]
  IN  [queue    |-> Append(state.queue, next),
       position |-> state.position + 1,
       seen     |-> state.seen \cup {edge.id},
       found    |-> IF Matches(mode, next.at) THEN Append(state.found, transition) ELSE state.found,
       met      |-> state.met \cup {transition}]

\* The node in front is done with: it lies at the depth asked for, or all its edges are seen.
IsDone(state, limit) == Head(state.queue).depth >= limit \/ state.position > Len(edges)

IsMet(state, edge, way) == Near(edge, way) = Head(state.queue).at /\ edge.id \notin state.seen

\* One step of the loops.
Step(state, limit, way, mode) ==
  IF state.queue = <<>> THEN state
  ELSE IF IsDone(state, limit) THEN [state EXCEPT !.queue = Tail(@), !.position = 1]
  ELSE IF IsMet(state, edges[state.position], way)
       THEN Meet(state, edges[state.position], way, mode)
  ELSE [state EXCEPT !.position = @ + 1]

States(n, limit, way, mode) ==
  LET state[k \in Nat] == IF k = 0 THEN Begin(n) ELSE Step(state[k - 1], limit, way, mode)
  IN  state

\* Steps after which the loop has ended: TraversalsAreExact says so.
Enough == (Len(edges) + 1) * (Len(edges) + 1)

Traversal(n, limit, way, mode) == States(n, limit, way, mode)[Enough]

Ancestry(n, limit) == Traversal(n, limit, "ancestry", "all")

Descendants(n, limit, mode) == Traversal(n, limit, "descendants", mode)

-----------------------------------------------------------------------------
(* What is asked for *)

AllEdges == {edges[i] : i \in DOMAIN edges}

\* A walk of k edges starts at n and ends with this edge.
EndsWalk(edge, n, k, way) ==
  \E w \in [1 .. k -> AllEdges] :
    /\ Near(w[1], way) = n
    /\ w[k] = edge
    /\ \A i \in 1 .. k - 1 : Far(w[i], way) = Near(w[i + 1], way)

\* Each edge within the depth, with the length of a shortest walk that it ends.
Within(n, limit, way) ==
  {t \in [edge : AllEdges, depth : 1 .. limit] :
     /\ EndsWalk(t.edge, n, t.depth, way)
     /\ \A k \in 1 .. t.depth - 1 : ~EndsWalk(t.edge, n, k, way)}

\* The nodes that work on n led to.
Below(n) == {t.edge.to : t \in Within(n, Cardinality(Present(node)), "descendants")}

IdsAreUnique == \A i, j \in DOMAIN edges : edges[i].id = edges[j].id => i = j

\* What a traversal ended in, with the transitions that its mode asks for.
Exact(last, n, limit, way, mode) ==
  LET Asked(t) == Matches(mode, Far(t.edge, way))
  IN  /\ last.queue = <<>>
      /\ \A t \in Range(last.found) : EndsWalk(t.edge, n, t.depth, way) /\ Asked(t)
      /\ \A i, j \in DOMAIN last.found : i < j => last.found[i].depth <= last.found[j].depth
      /\ IdsAreUnique =>
           /\ IsInjective(last.found)
           /\ Range(last.found) = {t \in Within(n, limit, way) : Asked(t)}

\* In every graph, cyclic ones included, a traversal ends, and every transition that it returns ends
\* a walk of the length it states, the nearer before the farther, also when an agent has reused
\* edge ids (then some edges may be missed).  When no two edges bear the same id it returns each
\* edge within the depth once, with its distance; a mode leaves out transitions and nothing behind
\* them.
TraversalsAreExact ==
  \A n \in NodeIds, limit \in 0 .. MaxDepth :
    /\ Exact(Ancestry(n, limit), n, limit, "ancestry", "all")
    /\ \A mode \in Modes : Exact(Descendants(n, limit, mode), n, limit, "descendants", mode)

\* get_frontier returns nothing only when the work is done or goes in circles: then every open
\* node leads on, and all that it leads to is a closed node or lies on the way into a cycle.
EmptyFrontierIsExplained ==
  Frontier = {} =>
    \A n \in Present(node) :
      ~Closed(node[n]) =>
        \E m \in {n} \cup Below(n) : (m \notin Left /\ Closed(node[m])) \/ m \in Below(m)
=============================================================================
