--------------------------- MODULE ResearchGraph ---------------------------
(***************************************************************************)
(* The research graph of a storage directory (research_graph_manager.py,   *)
(* tools/research_tools.py): nodes of work and the edges that led from one *)
(* to another.  Every tool runs without an await, so a call is one action; *)
(* the missions that share a graph interleave call by call.                *)
(*                                                                         *)
(* The agent chooses every field of a payload, the ids and is_root         *)
(* included; without an id the code takes a fresh one.  "task" stands for  *)
(* "question" too.  Titles, bodies and the like are left out: an empty one *)
(* makes a call refused.  The tables exist, and stay below the 5000 nodes  *)
(* and 10000 edges that a listing returns.                                 *)
(***************************************************************************)
EXTENDS Naturals, Sequences

CONSTANTS
  NodeIds, EdgeIds,
  Payloads,        (* new_node payloads: kind, status and is_root          *)
  MaxEdges         (* bound; the code has none                             *)

NodeKinds == {"task", "failure"}
EdgeKinds == {"progress", "dead_end"}
Statuses  == {"open", "resolved", "terminal", "abandoned"}

ASSUME ResearchGraphAssumption ==
  /\ Payloads \subseteq [kind : NodeKinds, status : Statuses, root : BOOLEAN]
  /\ MaxEdges \in Nat

VARIABLES
  node,      (* the row of each id; kind "none" when there is no such row  *)
  edges,     (* the edges, in the order in which they were made            *)
  clock,     (* nodes made so far: a node's created_at                     *)
  (* History; no action reads them: *)
  stranded,  (* nodes whose edge was refused after they were made          *)
  claimed    (* nodes whose payload said is_root                           *)

history == <<stranded, claimed>>
vars    == <<node, edges, clock, history>>

Node == [kind : NodeKinds \cup {"none"}, status : Statuses, root : BOOLEAN, born : Nat]
Edge == [id : EdgeIds, from : NodeIds, to : NodeIds, kind : EdgeKinds]

NoRow == [kind |-> "none", status |-> "open", root |-> FALSE, born |-> 0]

Present(rows) == {n \in NodeIds : rows[n].kind # "none"}
Roots(rows)   == {n \in Present(rows) : rows[n].root}

\* As if nodes were written with MERGE.
IdsButRoots(rows) == NodeIds \ Roots(rows)

\* The primary key refuses an id that is taken.
FreeIds(rows) == NodeIds \ Present(rows)

-----------------------------------------------------------------------------
(* Making nodes and edges *)

\* A failure keeps the status of its payload.
RowAsGiven(payload, now) ==
  [kind |-> payload.kind, status |-> payload.status, root |-> payload.root, born |-> now]

\* A failure has a status of its own.
RowFailed(payload, now) ==
  [kind   |-> payload.kind,
   status |-> IF payload.kind = "failure" THEN "failed" ELSE payload.status,
   root   |-> payload.root,
   born   |-> now]

\* _create_node.  A failure is terminal, whatever its payload says.
Row(payload, now) ==
  [kind   |-> payload.kind,
   status |-> IF payload.kind = "failure" THEN "terminal" ELSE payload.status,
   root   |-> payload.root,
   born   |-> now]

RootPayload == [kind |-> "task", status |-> "open", root |-> TRUE]

\* The first node, from the prompt of the call; with a blank prompt there is none.
RowsWithRoot ==
  {node} \cup {[node EXCEPT ![r] = Row(RootPayload, clock + 1)] : r \in FreeIds(node)}

\* ensure_ready, with which every tool begins: what the node table may be after it.
ReadyRows == IF Roots(node) # {} THEN {node} ELSE RowsWithRoot

\* The kind of the edge and the kind of its target.
Fits(edgeKind, nodeKind) == edgeKind = "dead_end" <=> nodeKind = "failure"

\* The clock after a call that leaves these rows.
Tick(rows) == IF rows = node THEN clock ELSE clock + 1

\* The edge is stored the wrong way round.
ConnectBack(id, source, target, edgeKind) ==
  /\ Len(edges) < MaxEdges
  /\ edges' = Append(edges, [id |-> id, from |-> target, to |-> source, kind |-> edgeKind])

\* _create_edge
Connect(id, source, target, edgeKind) ==
  /\ Len(edges) < MaxEdges
  /\ edges' = Append(edges, [id |-> id, from |-> source, to |-> target, kind |-> edgeKind])

-----------------------------------------------------------------------------
(* The tools *)

\* create_root_work_item, get_frontier, get_ancestry, get_descendants, search_research_nodes, and
\* every call that is refused before it writes: an unknown node, a kind or status that does not
\* exist, an edge that does not fit its target, an empty title or body, an id that is taken.
ReadOrRefused ==
  /\ node' \in ReadyRows
  /\ clock' = Tick(node')
  /\ UNCHANGED <<edges, history>>

\* advance_new: the node, then the edge to it.  An edge with no content, or with a transition_kind
\* that does not exist, is refused when the node is already there.
AdvanceNew ==
  \E ready \in ReadyRows, payload \in Payloads, edgeKind \in EdgeKinds :
    \E source \in Present(ready), target \in FreeIds(ready) :
      /\ Fits(edgeKind, payload.kind)
      /\ node' = [ready EXCEPT ![target] = Row(payload, Tick(ready) + 1)]
      /\ clock' = Tick(ready) + 1
      /\ claimed' = IF payload.root THEN claimed \cup {target} ELSE claimed
      /\ \/ /\ \E id \in EdgeIds : Connect(id, source, target, edgeKind)
            /\ UNCHANGED stranded
         \/ /\ stranded' = stranded \cup {target}
            /\ UNCHANGED edges

\* advance_existing: the source may be a failure, or the target itself.
AdvanceExisting ==
  \E ready \in ReadyRows, edgeKind \in EdgeKinds, id \in EdgeIds :
    \E source, target \in Present(ready) :
      /\ Fits(edgeKind, ready[target].kind)
      /\ node' = ready
      /\ clock' = Tick(ready)
      /\ Connect(id, source, target, edgeKind)
      /\ UNCHANGED history

Init ==
  /\ node = [n \in NodeIds |-> NoRow]
  /\ edges = <<>>
  /\ clock = 0
  /\ stranded = {}
  /\ claimed = {}

Next == ReadOrRefused \/ AdvanceNew \/ AdvanceExisting

Spec == Init /\ [][Next]_vars

-----------------------------------------------------------------------------
(* get_frontier *)

Closed(row) == row.kind = "failure" \/ row.status \in {"resolved", "terminal", "abandoned"}

\* The nodes that something was led on from.
Left == {edges[i].from : i \in DOMAIN edges}

Reached == {edges[i].to : i \in DOMAIN edges}

\* Nodes that nothing led to.
FrontierOfUnreached == {n \in Present(node) \ Reached : ~Closed(node[n])}

Frontier == {n \in Present(node) \ Left : ~Closed(node[n])}

-----------------------------------------------------------------------------
(* Properties *)

TypeOK ==
  /\ node \in [NodeIds -> Node]
  /\ edges \in Seq(Edge)
  /\ clock \in Nat
  /\ stranded \subseteq NodeIds
  /\ claimed \subseteq NodeIds

\* Whatever mission made it, and whatever was refused: an edge joins nodes that exist, it is a
\* dead end exactly if it meets a failure, and a failure is terminal, so that neither the
\* frontier nor the terminal descendants take a dead end for open work.
EdgesFitTargets ==
  /\ \A i \in DOMAIN edges :
       /\ {edges[i].from, edges[i].to} \subseteq Present(node)
       /\ Fits(edges[i].kind, node[edges[i].to].kind)
  /\ \A n \in Present(node) : node[n].kind = "failure" => node[n].status = "terminal"

\* A node is a root, or was left alone by a refused edge, or was led to from an older node:
\* following the edges back in time always ends in a root or in a stranded node, through all the
\* cycles that advance_existing may close.
EveryNodeHasAnOrigin ==
  \A n \in Present(node) \ (Roots(node) \cup stranded) :
    \E i \in DOMAIN edges : edges[i].to = n /\ node[edges[i].from].born < node[n].born

\* However many missions start on one graph, ensure_ready makes one root, the oldest node; any
\* other root is one whose payload said so (root() then returns either).
RootIsTheOldestNode ==
  \A n \in Present(node) : n \in Roots(node) <=> node[n].born = 1 \/ n \in claimed

\* Work never comes back to the frontier: a node that was once led on from, or closed, is not
\* offered as open work again by any later call of any mission.
FrontierOnlyNarrows == [][Frontier' \cap Present(node) \subseteq Frontier]_vars
=============================================================================
