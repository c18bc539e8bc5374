------------------------ MODULE ResearchGraphProofs ------------------------
(***************************************************************************)
(* Proofs about ResearchGraph, for any sets of ids and any payloads: its   *)
(* safety invariants, that the frontier only narrows, that the traversals  *)
(* end and return what they are asked for, and what an empty frontier      *)
(* means.                                                                  *)
(*                                                                         *)
(* ensure_ready may add a root to the node table before the tool does its  *)
(* own work on it.  So the strengthening speaks of a table and a clock,    *)
(* not of the variables (SoundRows): it holds of the tables of ReadyRows   *)
(* as soon as it holds of `node` (ReadyIsSound), and each tool starts from *)
(* there.                                                                  *)
(*                                                                         *)
(* The states of a traversal's loop follow one another in time of their    *)
(* own: LoopInv holds of the first and is kept by each step, and InTime    *)
(* counts the steps.  Induction over the steps, and over the lengths of    *)
(* walks, is by the least counterexample (SetInduction).                   *)
(***************************************************************************)
EXTENDS ResearchTraversal, FiniteSetTheorems, TLAPS

\* Nodes are made one by one, the oldest is a root, and there is no node before there is a root.
SoundRows(rows, now) ==
  /\ rows \in [NodeIds -> Node]
  /\ now \in Nat
  /\ \A n \in Present(rows) :
       /\ rows[n].born \in 1..now
       /\ rows[n].kind = "failure" => rows[n].status = "terminal"
       /\ rows[n].root <=> rows[n].born = 1 \/ n \in claimed
  /\ Roots(rows) = {} => Present(rows) = {} /\ now = 0

\* A table with one more row.
AddRow(rows, n, row) == [rows EXCEPT ![n] = row]

\* Every row of the first table is in the second as it was.
Keeps(rows, later) ==
  /\ Present(rows) \subseteq Present(later)
  /\ \A n \in Present(rows) : later[n] = rows[n]

\* What AdvanceNew does, of given values.
NewNode(ready, payload, edgeKind, source, target) ==
  /\ Fits(edgeKind, payload.kind)
  /\ node' = [ready EXCEPT ![target] = Row(payload, Tick(ready) + 1)]
  /\ clock' = Tick(ready) + 1
  /\ claimed' = IF payload.root THEN claimed \cup {target} ELSE claimed
  /\ \/ /\ \E id \in EdgeIds : Connect(id, source, target, edgeKind)
        /\ UNCHANGED stranded
     \/ /\ stranded' = stranded \cup {target}
        /\ UNCHANGED edges

\* What AdvanceExisting does, of given values.
OldNodes(ready, edgeKind, id, source, target) ==
  /\ Fits(edgeKind, ready[target].kind)
  /\ node' = ready
  /\ clock' = Tick(ready)
  /\ Connect(id, source, target, edgeKind)
  /\ UNCHANGED history

IInv ==
  /\ TypeOK
  /\ SoundRows(node, clock)
  /\ stranded \subseteq Present(node)
  /\ claimed \subseteq Present(node)
  /\ EdgesFitTargets
  /\ EveryNodeHasAnOrigin

-----------------------------------------------------------------------------

\* An empty graph.
LEMMA InitInvariant == Init => IInv
  <1> SUFFICES ASSUME Init PROVE IInv
    OBVIOUS
  <1>1. Present(node) = {} /\ Roots(node) = {}
    BY DEF Init, Present, Roots, NoRow
  <1>2. edges \in Seq(Edge) /\ DOMAIN edges = {}
    BY DEF Init
  <1>3. TypeOK /\ SoundRows(node, clock)
    BY <1>1, <1>2 DEF Init, TypeOK, SoundRows, NoRow, Node, Statuses
  <1> QED
    BY <1>1, <1>2, <1>3 DEF IInv, Init, EdgesFitTargets, EveryNodeHasAnOrigin

\* A row is one of the table, and keeps the kind, the root mark and the time it is made with.
LEMMA RowFacts ==
  ASSUME NEW p \in [kind : NodeKinds, status : Statuses, root : BOOLEAN], NEW now \in Nat
  PROVE  /\ Row(p, now) \in Node
         /\ Row(p, now).kind = p.kind
         /\ Row(p, now).root = p.root
         /\ Row(p, now).born = now
         /\ p.kind = "failure" => Row(p, now).status = "terminal"
  BY DEF Row, Node, NodeKinds, Statuses

\* A new row in a sound table, younger than all of it.
LEMMA NewRowIsSound ==
  ASSUME NEW rows, NEW now \in Nat, SoundRows(rows, now), NEW n \in FreeIds(rows),
         NEW p \in [kind : NodeKinds, status : Statuses, root : BOOLEAN],
         NEW later, later = AddRow(rows, n, Row(p, now + 1))
  PROVE  /\ later \in [NodeIds -> Node]
         /\ Keeps(rows, later)
         /\ Present(later) = Present(rows) \cup {n}
         /\ later[n] = Row(p, now + 1)
         /\ n \notin Present(rows)
         /\ Roots(rows) \subseteq Roots(later)
         /\ \A m \in Roots(later) : m # n => m \in Roots(rows)
         /\ n \in Roots(later) <=> p.root
  <1>1. n \in NodeIds /\ n \notin Present(rows) /\ rows \in [NodeIds -> Node]
    BY DEF FreeIds, SoundRows
  <1>2. later \in [NodeIds -> Node] /\ later[n] = Row(p, now + 1)
    BY <1>1, RowFacts DEF AddRow
  <1>3. \A m \in NodeIds : m # n => later[m] = rows[m]
    BY <1>1 DEF AddRow
  <1>4. Row(p, now + 1).kind # "none"
    BY RowFacts DEF NodeKinds
  <1>5. Present(later) = Present(rows) \cup {n}
    BY <1>1, <1>2, <1>3, <1>4 DEF Present
  <1>6. Keeps(rows, later)
    BY <1>1, <1>3, <1>5 DEF Keeps, Present
  <1>7. later[n].root = p.root
    BY <1>2, RowFacts
  <1>8. /\ Roots(rows) \subseteq Roots(later)
        /\ \A m \in Roots(later) : m # n => m \in Roots(rows)
        /\ n \in Roots(later) <=> p.root
    BY <1>5, <1>6, <1>7 DEF Roots, Keeps
  <1> QED
    BY <1>1, <1>2, <1>5, <1>6, <1>8

\* ensure_ready leaves a sound table, with the rows that were there; one it adds is the oldest.
LEMMA ReadyIsSound ==
  ASSUME IInv, NEW ready \in ReadyRows
  PROVE  /\ SoundRows(ready, Tick(ready))
         /\ Keeps(node, ready)
         /\ \A n \in Present(ready) \ Present(node) : ready[n].root
         /\ ready # node => Present(node) = {}
  <1>1. CASE ready = node
    BY <1>1 DEF IInv, Keeps, Tick
  <1>2. CASE ready # node
    <2>1. Roots(node) = {} /\ Present(node) = {} /\ clock = 0 /\ clock \in Nat /\ SoundRows(node, clock)
      BY <1>2 DEF ReadyRows, IInv, SoundRows
    <2>2. PICK r \in FreeIds(node) : ready = AddRow(node, r, Row(RootPayload, clock + 1))
      BY <1>2, <2>1 DEF ReadyRows, RowsWithRoot, AddRow
    <2>3. RootPayload \in [kind : NodeKinds, status : Statuses, root : BOOLEAN]
      BY DEF RootPayload, NodeKinds, Statuses
    <2>r. RootPayload.kind = "task" /\ RootPayload.root
      BY DEF RootPayload
    <2>4. /\ ready \in [NodeIds -> Node]
          /\ Present(ready) = {r}
          /\ ready[r] = Row(RootPayload, clock + 1)
          /\ r \in Roots(ready)
      BY <2>1, <2>2, <2>3, <2>r, NewRowIsSound
    <2>5. ready[r].kind = "task" /\ ready[r].root /\ ready[r].born = 1
      BY <2>1, <2>3, <2>4, <2>r, RowFacts
    <2>6. Tick(ready) = 1
      BY <1>2, <2>1 DEF Tick
    <2>7. SoundRows(ready, Tick(ready))
      BY <2>4, <2>5, <2>6 DEF SoundRows
    <2> QED
      BY <2>1, <2>4, <2>5, <2>7 DEF Keeps
  <1> QED
    BY <1>1, <1>2

\* A table that keeps the rows keeps what is said of the edges, and of the nodes that were there.
LEMMA KeepingRows ==
  ASSUME IInv, Keeps(node, node'), NEW i \in DOMAIN edges
  PROVE  /\ edges[i] \in Edge
         /\ {edges[i].from, edges[i].to} \subseteq Present(node')
         /\ Fits(edges[i].kind, node'[edges[i].to].kind)
         /\ node'[edges[i].to] = node[edges[i].to]
         /\ node'[edges[i].from] = node[edges[i].from]
  <1>1. edges[i] \in Edge
    BY DEF IInv, TypeOK
  <1>2. {edges[i].from, edges[i].to} \subseteq Present(node) /\ Fits(edges[i].kind, node[edges[i].to].kind)
    BY DEF IInv, EdgesFitTargets
  <1> QED
    BY <1>1, <1>2 DEF Keeps

\* The edge that a call adds is the last one; the ones before it stay.
LEMMA ConnectFacts ==
  ASSUME edges \in Seq(Edge), NEW id \in EdgeIds, NEW source \in NodeIds, NEW target \in NodeIds,
         NEW kind \in EdgeKinds, Connect(id, source, target, kind)
  PROVE  /\ edges' \in Seq(Edge)
         /\ DOMAIN edges' = DOMAIN edges \cup {Len(edges) + 1}
         /\ \A i \in DOMAIN edges : i \in DOMAIN edges' /\ edges'[i] = edges[i]
         /\ edges'[Len(edges) + 1].from = source
         /\ edges'[Len(edges) + 1].to = target
         /\ edges'[Len(edges) + 1].kind = kind
  <1> DEFINE e == [id |-> id, from |-> source, to |-> target, kind |-> kind]
  <1>1. e \in Edge /\ edges' = Append(edges, e)
    BY DEF Connect, Edge
  <1> HIDE DEF e
  <1>2. /\ edges' \in Seq(Edge) /\ Len(edges') = Len(edges) + 1 /\ Len(edges) \in Nat
        /\ DOMAIN edges = 1..Len(edges)
        /\ DOMAIN edges' = 1..(Len(edges) + 1)
        /\ \A i \in DOMAIN edges : edges'[i] = edges[i]
        /\ edges'[Len(edges) + 1] = e
    BY <1>1
  <1>3. DOMAIN edges' = DOMAIN edges \cup {Len(edges) + 1}
    BY <1>2
  <1> QED
    BY <1>2, <1>3 DEF e

-----------------------------------------------------------------------------

\* A call that only reads, or is refused, may have made the root.
LEMMA ReadOrRefusedInvariant == IInv /\ ReadOrRefused => IInv'
  <1> SUFFICES ASSUME IInv, ReadOrRefused PROVE IInv'
    OBVIOUS
  <1>1. /\ SoundRows(node', clock') /\ Keeps(node, node')
        /\ \A n \in Present(node') \ Present(node) : node'[n].root
        /\ UNCHANGED <<edges, stranded, claimed>>
    BY ReadyIsSound DEF ReadOrRefused, history
  <1>2. SoundRows(node, clock)'
    BY <1>1 DEF SoundRows
  <1>3. TypeOK'
    BY <1>1 DEF IInv, TypeOK, SoundRows
  <1>4. EdgesFitTargets'
    BY <1>1, <1>2, KeepingRows DEF EdgesFitTargets, SoundRows
  <1>5. EveryNodeHasAnOrigin'
    <2> SUFFICES ASSUME NEW n \in Present(node'), n \notin Roots(node'), n \notin stranded
                 PROVE  \E i \in DOMAIN edges : /\ edges[i].to = n
                                                /\ node'[edges[i].from].born < node'[n].born
      BY <1>1 DEF EveryNodeHasAnOrigin
    <2>1. n \in Present(node) \ (Roots(node) \cup stranded) /\ node'[n] = node[n]
      BY <1>1 DEF Roots, Keeps
    <2>2. PICK i \in DOMAIN edges : edges[i].to = n /\ node[edges[i].from].born < node[n].born
      BY <2>1 DEF IInv, EveryNodeHasAnOrigin
    <2> QED
      BY <1>1, <2>1, <2>2, KeepingRows
  <1> QED
    BY <1>1, <1>2, <1>3, <1>4, <1>5 DEF IInv, Keeps

\* The origin of a node that was there before is where it was.
LEMMA OriginStays ==
  ASSUME IInv, Keeps(node, node'), NEW n \in Present(node), n \notin Roots(node), n \notin stranded,
         \A i \in DOMAIN edges : i \in DOMAIN edges' /\ edges'[i] = edges[i]
  PROVE  \E i \in DOMAIN edges' : edges'[i].to = n /\ node'[edges'[i].from].born < node'[n].born
  <1>1. PICK i \in DOMAIN edges : edges[i].to = n /\ node[edges[i].from].born < node[n].born
    BY DEF IInv, EveryNodeHasAnOrigin
  <1> QED
    BY <1>1, KeepingRows DEF Keeps

\* The new node is the youngest; its edge, if there is one, comes from an older node.
LEMMA AdvanceNewInvariant == IInv /\ AdvanceNew => IInv'
  <1> SUFFICES ASSUME IInv, AdvanceNew PROVE IInv'
    OBVIOUS
  <1>a. PICK ready \in ReadyRows, payload \in Payloads, edgeKind \in EdgeKinds :
          \E source \in Present(ready), target \in FreeIds(ready) : NewNode(ready, payload, edgeKind, source, target)
    BY DEF AdvanceNew, NewNode
  <1>0. PICK source \in Present(ready), target \in FreeIds(ready) :
          /\ Fits(edgeKind, payload.kind)
          /\ node' = [ready EXCEPT ![target] = Row(payload, Tick(ready) + 1)]
          /\ clock' = Tick(ready) + 1
          /\ claimed' = IF payload.root THEN claimed \cup {target} ELSE claimed
          /\ \/ /\ \E id \in EdgeIds : Connect(id, source, target, edgeKind)
                /\ UNCHANGED stranded
             \/ /\ stranded' = stranded \cup {target}
                /\ UNCHANGED edges
    BY <1>a DEF NewNode
  <1> DEFINE now == Tick(ready)
  <1>1. /\ SoundRows(ready, now) /\ now \in Nat /\ Keeps(node, ready)
        /\ \A n \in Present(ready) \ Present(node) : ready[n].root
    BY ReadyIsSound DEF SoundRows
  <1>2. payload \in [kind : NodeKinds, status : Statuses, root : BOOLEAN]
    BY ResearchGraphAssumption
  <1>b. node' = AddRow(ready, target, Row(payload, now + 1))
    BY <1>0 DEF AddRow
  <1> HIDE DEF now
  <1>3. /\ node' \in [NodeIds -> Node]
        /\ Keeps(ready, node')
        /\ Present(node') = Present(ready) \cup {target}
        /\ node'[target] = Row(payload, now + 1)
        /\ target \notin Present(ready)
        /\ Roots(ready) \subseteq Roots(node')
        /\ \A m \in Roots(node') : m # target => m \in Roots(ready)
    BY <1>1, <1>2, <1>b, NewRowIsSound
  <1>4. /\ node'[target].kind = payload.kind /\ node'[target].root = payload.root
        /\ node'[target].born = now + 1
        /\ payload.kind = "failure" => node'[target].status = "terminal"
    BY <1>1, <1>2, <1>3, RowFacts
  <1>5. /\ source \in NodeIds /\ target \in NodeIds /\ source \in Present(node')
        /\ node'[source].born \in 1..now /\ node'[source] = ready[source]
    BY <1>0, <1>1, <1>3 DEF SoundRows, Keeps, Present, FreeIds
  <1>6. Keeps(node, node')
    BY <1>1, <1>3 DEF Keeps
  <1>7. claimed \subseteq Present(node) /\ stranded \subseteq Present(node) /\ target \notin claimed
    BY <1>1, <1>3 DEF IInv, Keeps
  <1>8. SoundRows(node, clock)'
    <2>1. \A n \in Present(ready) :
            /\ node'[n].born \in 1..(now + 1)
            /\ node'[n].kind = "failure" => node'[n].status = "terminal"
            /\ node'[n].root <=> node'[n].born = 1 \/ n \in claimed'
      BY <1>0, <1>1, <1>3 DEF SoundRows, Keeps
    <2>2. /\ node'[target].born \in 1..(now + 1)
          /\ node'[target].kind = "failure" => node'[target].status = "terminal"
          /\ node'[target].root <=> node'[target].born = 1 \/ target \in claimed'
      BY <1>0, <1>1, <1>2, <1>4, <1>5, <1>7
    <2>3. Roots(node') # {}
      BY <1>0, <1>1, <1>3 DEF SoundRows
    <2>4. clock' = now + 1 /\ now + 1 \in Nat
      BY <1>0, <1>1 DEF now
    <2> QED
      BY <1>3, <2>1, <2>2, <2>3, <2>4 DEF SoundRows
  <1>9. stranded' \subseteq Present(node') /\ claimed' \subseteq Present(node')
    BY <1>0, <1>3, <1>6, <1>7 DEF Keeps
  <1>10. CASE UNCHANGED edges /\ stranded' = stranded \cup {target}
    <2>1. TypeOK'
      BY <1>8, <1>9, <1>10 DEF IInv, TypeOK, SoundRows, Present
    <2>2. EdgesFitTargets'
      BY <1>6, <1>8, <1>10, KeepingRows DEF EdgesFitTargets, SoundRows
    <2>3. EveryNodeHasAnOrigin'
      <3> SUFFICES ASSUME NEW n \in Present(node'), n \notin Roots(node'), n \notin stranded'
                   PROVE  \E i \in DOMAIN edges' : /\ edges'[i].to = n
                                                   /\ node'[edges'[i].from].born < node'[n].born
        BY DEF EveryNodeHasAnOrigin
      <3>1. n \in Present(node) /\ n \notin Roots(node) /\ n \notin stranded
        BY <1>1, <1>3, <1>10 DEF Roots, Keeps
      <3> QED
        BY <1>6, <1>10, <3>1, OriginStays
    <2> QED
      BY <1>8, <1>9, <2>1, <2>2, <2>3 DEF IInv
  <1>11. CASE (\E id \in EdgeIds : Connect(id, source, target, edgeKind)) /\ UNCHANGED stranded
    <2>1. PICK id \in EdgeIds : Connect(id, source, target, edgeKind)
      BY <1>11
    <2> DEFINE last == Len(edges) + 1
    <2>2. /\ edges' \in Seq(Edge)
          /\ DOMAIN edges' = (DOMAIN edges) \cup {last}
          /\ \A i \in DOMAIN edges : i \in DOMAIN edges' /\ edges'[i] = edges[i]
          /\ edges'[last].from = source /\ edges'[last].to = target /\ edges'[last].kind = edgeKind
      <3>1. edges \in Seq(Edge) /\ source \in NodeIds /\ target \in NodeIds
        BY <1>5 DEF IInv, TypeOK
      <3> QED
        BY <2>1, <3>1, ConnectFacts
    <2> HIDE DEF last
    <2>3. TypeOK'
      BY <1>8, <1>9, <2>2 DEF TypeOK, SoundRows, Present
    <2>4. EdgesFitTargets'
      <3>1. \A i \in DOMAIN edges : /\ {edges'[i].from, edges'[i].to} \subseteq Present(node')
                                   /\ Fits(edges'[i].kind, node'[edges'[i].to].kind)
        BY <1>6, <2>2, KeepingRows
      <3>2. Fits(edgeKind, node'[target].kind)
        BY <1>0, <1>4
      <3>3. /\ {edges'[last].from, edges'[last].to} \subseteq Present(node')
            /\ Fits(edges'[last].kind, node'[edges'[last].to].kind)
        BY <1>3, <1>5, <2>2, <3>2
      <3>4. \A n \in Present(node') : node'[n].kind = "failure" => node'[n].status = "terminal"
        BY <1>8 DEF SoundRows
      <3> QED
        BY <2>2, <3>1, <3>3, <3>4 DEF EdgesFitTargets
    <2>5. EveryNodeHasAnOrigin'
      <3> SUFFICES ASSUME NEW n \in Present(node'), n \notin Roots(node'), n \notin stranded'
                   PROVE  \E i \in DOMAIN edges' : /\ edges'[i].to = n
                                                   /\ node'[edges'[i].from].born < node'[n].born
        BY DEF EveryNodeHasAnOrigin
      <3>1. CASE n = target
        <4>1. node'[edges'[last].from].born < node'[n].born
          BY <1>1, <1>4, <1>5, <2>2, <3>1
        <4> QED
          BY <2>2, <3>1, <4>1
      <3>2. CASE n # target
        <4>1. n \in Present(node) /\ n \notin Roots(node) /\ n \notin stranded
          BY <1>1, <1>3, <1>11, <3>2 DEF Roots, Keeps
        <4> QED
          BY <1>6, <2>2, <4>1, OriginStays
      <3> QED
        BY <3>1, <3>2
    <2> QED
      BY <1>8, <1>9, <2>3, <2>4, <2>5 DEF IInv
  <1> QED
    BY <1>0, <1>10, <1>11

\* An edge between nodes that exist.
LEMMA AdvanceExistingInvariant == IInv /\ AdvanceExisting => IInv'
  <1> SUFFICES ASSUME IInv, AdvanceExisting PROVE IInv'
    OBVIOUS
  <1>a. PICK ready \in ReadyRows, edgeKind \in EdgeKinds, id \in EdgeIds :
          \E source, target \in Present(ready) : OldNodes(ready, edgeKind, id, source, target)
    BY DEF AdvanceExisting, OldNodes
  <1>0. PICK source \in Present(ready), target \in Present(ready) :
          /\ Fits(edgeKind, ready[target].kind)
          /\ node' = ready
          /\ clock' = Tick(ready)
          /\ Connect(id, source, target, edgeKind)
          /\ UNCHANGED history
    BY <1>a DEF OldNodes
  <1>1. /\ SoundRows(node', clock') /\ Keeps(node, node')
        /\ \A n \in Present(node') \ Present(node) : node'[n].root
        /\ UNCHANGED <<stranded, claimed>>
    BY <1>0, ReadyIsSound DEF history
  <1>2. SoundRows(node, clock)'
    BY <1>1 DEF SoundRows
  <1>3. source \in NodeIds /\ target \in NodeIds
    BY <1>0 DEF Present
  <1> DEFINE last == Len(edges) + 1
  <1>4. /\ edges' \in Seq(Edge)
        /\ DOMAIN edges' = (DOMAIN edges) \cup {last}
        /\ \A i \in DOMAIN edges : i \in DOMAIN edges' /\ edges'[i] = edges[i]
        /\ edges'[last].from = source /\ edges'[last].to = target /\ edges'[last].kind = edgeKind
    <2>1. edges \in Seq(Edge) /\ Connect(id, source, target, edgeKind)
      BY <1>0 DEF IInv, TypeOK
    <2> QED
      BY <1>3, <2>1, ConnectFacts
  <1> HIDE DEF last
  <1>5. TypeOK'
    BY <1>1, <1>4 DEF IInv, TypeOK, SoundRows
  <1>6. EdgesFitTargets'
    BY <1>0, <1>1, <1>2, <1>4, KeepingRows DEF EdgesFitTargets, SoundRows
  <1>7. EveryNodeHasAnOrigin'
    <2> SUFFICES ASSUME NEW n \in Present(node'), n \notin Roots(node'), n \notin stranded'
                 PROVE  \E i \in DOMAIN edges' : /\ edges'[i].to = n
                                                 /\ node'[edges'[i].from].born < node'[n].born
      BY DEF EveryNodeHasAnOrigin
    <2>1. n \in Present(node) /\ n \notin Roots(node) /\ n \notin stranded
      BY <1>1 DEF Roots, Keeps
    <2> QED
      BY <1>1, <1>4, <2>1, OriginStays
  <1> QED
    BY <1>1, <1>2, <1>5, <1>6, <1>7 DEF IInv, Keeps

\* Every call of every mission keeps the invariant.
LEMMA StepInvariant == IInv /\ [Next]_vars => IInv'
  <1> SUFFICES ASSUME IInv, [Next]_vars PROVE IInv'
    OBVIOUS
  <1>1. CASE UNCHANGED vars
    BY <1>1 DEF vars, history, IInv, TypeOK, SoundRows, Present, Roots, EdgesFitTargets,
                EveryNodeHasAnOrigin
  <1> QED
    BY <1>1, ReadOrRefusedInvariant, AdvanceNewInvariant, AdvanceExistingInvariant DEF Next

\* All that is proved of the states of the graph.
THEOREM Invariant == Spec => []IInv
  BY InitInvariant, StepInvariant, PTL DEF Spec

\* The rows, the edges and the history keep their types.
THEOREM TypeCorrect == Spec => []TypeOK
  <1>1. IInv => TypeOK
    BY DEF IInv
  <1> QED
    BY <1>1, Invariant, PTL

\* An edge joins nodes that exist and is a dead end exactly if it meets a failure.
THEOREM EdgesAlwaysFit == Spec => []EdgesFitTargets
  <1>1. IInv => EdgesFitTargets
    BY DEF IInv
  <1> QED
    BY <1>1, Invariant, PTL

\* However large the graph grows, every node can be traced back in time.
THEOREM NodesHaveOrigins == Spec => []EveryNodeHasAnOrigin
  <1>1. IInv => EveryNodeHasAnOrigin
    BY DEF IInv
  <1> QED
    BY <1>1, Invariant, PTL

\* The missions of a graph share one root, unless a payload made another.
THEOREM OneSharedRoot == Spec => []RootIsTheOldestNode
  <1>1. IInv => RootIsTheOldestNode
    BY DEF IInv, SoundRows, RootIsTheOldestNode, Roots
  <1> QED
    BY <1>1, Invariant, PTL

-----------------------------------------------------------------------------

\* No tool changes a row, and none takes an edge away.
LEMMA RowsAndEdgesStay ==
  ASSUME IInv, Next
  PROVE  Keeps(node, node') /\ \A i \in DOMAIN edges : i \in DOMAIN edges' /\ edges'[i] = edges[i]
  <1>1. CASE ReadOrRefused
    BY <1>1, ReadyIsSound DEF ReadOrRefused
  <1>2. CASE AdvanceNew
    <2>a. PICK ready \in ReadyRows, payload \in Payloads, edgeKind \in EdgeKinds :
            \E source \in Present(ready), target \in FreeIds(ready) : NewNode(ready, payload, edgeKind, source, target)
      BY <1>2 DEF AdvanceNew, NewNode
    <2>0. PICK source \in Present(ready), target \in FreeIds(ready) :
            /\ node' = [ready EXCEPT ![target] = Row(payload, Tick(ready) + 1)]
            /\ \/ \E id \in EdgeIds : Connect(id, source, target, edgeKind)
               \/ UNCHANGED edges
      BY <2>a DEF NewNode
    <2>1. SoundRows(ready, Tick(ready)) /\ Keeps(node, ready) /\ Tick(ready) \in Nat
      BY ReadyIsSound DEF SoundRows
    <2>2. payload \in [kind : NodeKinds, status : Statuses, root : BOOLEAN]
      BY ResearchGraphAssumption
    <2>b. node' = AddRow(ready, target, Row(payload, Tick(ready) + 1))
      BY <2>0 DEF AddRow
    <2>3. Keeps(ready, node')
      BY <2>1, <2>2, <2>b, NewRowIsSound
    <2>4. source \in NodeIds /\ target \in NodeIds
      BY DEF Present, FreeIds
    <2>5. \A i \in DOMAIN edges : i \in DOMAIN edges' /\ edges'[i] = edges[i]
      <3>1. edges \in Seq(Edge)
        BY DEF IInv, TypeOK
      <3>2. CASE UNCHANGED edges
        BY <3>2
      <3>3. CASE \E id \in EdgeIds : Connect(id, source, target, edgeKind)
        BY <2>4, <3>1, <3>3, ConnectFacts
      <3> QED
        BY <2>0, <3>2, <3>3
    <2> QED
      BY <2>1, <2>3, <2>5 DEF Keeps
  <1>3. CASE AdvanceExisting
    <2>a. PICK ready \in ReadyRows, edgeKind \in EdgeKinds, id \in EdgeIds :
            \E source, target \in Present(ready) : OldNodes(ready, edgeKind, id, source, target)
      BY <1>3 DEF AdvanceExisting, OldNodes
    <2>0. PICK source \in Present(ready), target \in Present(ready) :
            node' = ready /\ Connect(id, source, target, edgeKind)
      BY <2>a DEF OldNodes
    <2>1. source \in NodeIds /\ target \in NodeIds
      BY DEF Present
    <2>2. \A i \in DOMAIN edges : i \in DOMAIN edges' /\ edges'[i] = edges[i]
      BY <2>0, <2>1, ConnectFacts DEF IInv, TypeOK
    <2> QED
      BY <2>0, <2>2, ReadyIsSound
  <1> QED
    BY <1>1, <1>2, <1>3 DEF Next

\* Open work that was led on from, or closed, is never offered as open work again.
THEOREM FrontierNeverWidens == Spec => FrontierOnlyNarrows
  <1>1. IInv /\ [Next]_vars => [Frontier' \cap Present(node) \subseteq Frontier]_vars
    <2> SUFFICES ASSUME IInv, Next, NEW n \in Frontier', n \in Present(node)
                 PROVE  n \in Frontier
      OBVIOUS
    <2>1. ~Closed(node'[n]) /\ ~\E i \in DOMAIN edges' : edges'[i].from = n
      BY DEF Frontier, Left
    <2>2. node'[n] = node[n]
      BY RowsAndEdgesStay DEF Keeps
    <2>3. n \notin Left
      BY <2>1, RowsAndEdgesStay DEF Left
    <2> QED
      BY <2>1, <2>2, <2>3 DEF Frontier
  <1> QED
    BY <1>1, Invariant, PTL DEF Spec, FrontierOnlyNarrows

-----------------------------------------------------------------------------
(* Induction, from the least counterexample, and the loop's states *)

\* Every nonempty set of naturals has a least element.
LEMMA LeastElement ==
  ASSUME NEW S, S \subseteq Nat, S # {}
  PROVE  \E m \in S : \A k \in S : m <= k
  <1> DEFINE R == OpToRel(<, Nat)
  <1>1. IsWellFoundedOn(R, Nat)
    BY NatLessThanWellFounded
  <1>2. \A x, y \in Nat : x < y => <<x, y>> \in R
    BY DEF OpToRel
  <1> HIDE DEF R
  <1>3. PICK m \in S : \A k \in S : <<k, m>> \notin R
    BY <1>1, WFMin
  <1>4. ASSUME NEW k \in S PROVE m <= k
    <2>1. m \in Nat /\ k \in Nat /\ ~(k < m)
      BY <1>2, <1>3
    <2> QED
      BY <2>1
  <1> QED
    BY <1>4

\* Induction over a set of naturals.
LEMMA SetInduction ==
  ASSUME NEW S, 0 \in S, \A k \in Nat : k \in S => k + 1 \in S
  PROVE  Nat \subseteq S
  <1> SUFFICES ASSUME Nat \ S # {} PROVE FALSE
    OBVIOUS
  <1> DEFINE T == Nat \ S
  <1>1. T \subseteq Nat /\ T # {}
    OBVIOUS
  <1> HIDE DEF T
  <1>2. PICK m \in T : \A k \in T : m <= k
    BY <1>1, LeastElement
  <1>3. m \in Nat /\ m # 0 /\ m - 1 \in Nat /\ m - 1 \notin T
    BY <1>2 DEF T
  <1>4. m - 1 \in S
    BY <1>3 DEF T
  <1> QED
    BY <1>2, <1>3, <1>4 DEF T

\* The states up to the n-th step.
IsRun(f, m, n, limit, way, mode) ==
  f = [k \in 0 .. m |-> IF k = 0 THEN Begin(n) ELSE Step(f[k - 1], limit, way, mode)]

LEMMA RunFacts ==
  ASSUME NEW f, NEW m \in Nat, NEW n, NEW limit, NEW way, NEW mode, IsRun(f, m, n, limit, way, mode)
  PROVE  \A k \in 0 .. m : f[k] = IF k = 0 THEN Begin(n) ELSE Step(f[k - 1], limit, way, mode)
  <1> DEFINE g == [k \in 0 .. m |-> IF k = 0 THEN Begin(n) ELSE Step(f[k - 1], limit, way, mode)]
  <1>1. f = g
    BY DEF IsRun
  <1>2. \A k \in 0 .. m : g[k] = IF k = 0 THEN Begin(n) ELSE Step(f[k - 1], limit, way, mode)
    OBVIOUS
  <1> HIDE DEF g
  <1> QED
    BY <1>1, <1>2

\* A longer run begins like a shorter one.
LEMMA RunsAgree ==
  ASSUME NEW m \in Nat, NEW f, NEW g, NEW n, NEW limit, NEW way, NEW mode,
         IsRun(f, m, n, limit, way, mode), IsRun(g, m + 1, n, limit, way, mode)
  PROVE  \A k \in 0 .. m : f[k] = g[k]
  <1> DEFINE S == {k \in Nat : k <= m => f[k] = g[k]}
  <1>1. /\ \A k \in 0 .. m : f[k] = IF k = 0 THEN Begin(n) ELSE Step(f[k - 1], limit, way, mode)
        /\ \A k \in 0 .. m + 1 : g[k] = IF k = 0 THEN Begin(n) ELSE Step(g[k - 1], limit, way, mode)
    BY RunFacts
  <1>2. 0 \in S
    BY <1>1
  <1>3. ASSUME NEW k \in Nat, k \in S PROVE k + 1 \in S
    <2> SUFFICES ASSUME k + 1 <= m PROVE f[k + 1] = g[k + 1]
      OBVIOUS
    <2>1. f[k] = g[k]
      BY <1>3
    <2>2. k + 1 \in 0 .. m /\ k + 1 \in 0 .. m + 1 /\ k + 1 # 0 /\ (k + 1) - 1 = k
      OBVIOUS
    <2>3. /\ f[k + 1] = Step(f[(k + 1) - 1], limit, way, mode)
          /\ g[k + 1] = Step(g[(k + 1) - 1], limit, way, mode)
      BY <1>1, <2>2
    <2> QED
      BY <2>1, <2>2, <2>3
  <1> HIDE DEF S
  <1>4. Nat \subseteq S
    BY <1>2, <1>3, SetInduction
  <1> QED
    BY <1>4 DEF S

\* The loop's states exist: each is the step from the one before.
LEMMA StatesFollow ==
  ASSUME NEW n, NEW limit, NEW way, NEW mode
  PROVE  LET state == States(n, limit, way, mode)
         IN  state[0] = Begin(n) /\ \A k \in Nat : state[k + 1] = Step(state[k], limit, way, mode)
  <1> DEFINE After(s)  == Step(s, limit, way, mode)
             Run(f, m) == IsRun(f, m, n, limit, way, mode)
             Long      == {m \in Nat : \E f : Run(f, m)}
             run(m)    == CHOOSE f : Run(f, m)
             all       == [k \in Nat |-> run(k)[k]]
             Holds(g)  == g = [k \in Nat |-> IF k = 0 THEN Begin(n) ELSE After(g[k - 1])]
             state     == States(n, limit, way, mode)
  <1>1. 0 \in Long
    <2> DEFINE f == [k \in 0 .. 0 |-> IF k = 0 THEN Begin(n) ELSE After(Begin(n))]
    <2>1. Run(f, 0)
      BY DEF IsRun
    <2> QED
      BY <2>1
  <1>2. ASSUME NEW m \in Nat, m \in Long PROVE m + 1 \in Long
    <2>1. PICK f : Run(f, m)
      BY <1>2
    <2> DEFINE g == [k \in 0 .. m + 1 |-> IF k = 0 THEN Begin(n) ELSE After(f[k - 1])]
    <2>2. \A k \in 0 .. m : g[k] = f[k]
      BY <2>1, RunFacts
    <2>3. \A k \in 0 .. m + 1 : k # 0 => k - 1 \in 0 .. m
      OBVIOUS
    <2>4. g = [k \in 0 .. m + 1 |-> IF k = 0 THEN Begin(n) ELSE After(g[k - 1])]
      <3> DEFINE h == [k \in 0 .. m + 1 |-> IF k = 0 THEN Begin(n) ELSE After(g[k - 1])]
      <3> HIDE DEF After
      <3>1. \A k \in 0 .. m + 1 : g[k] = h[k]
        BY <2>2, <2>3
      <3> QED
        BY <3>1
    <2>5. Run(g, m + 1)
      BY <2>4 DEF IsRun
    <2> QED
      BY <2>5
  <1> HIDE DEF Long
  <1>3. Nat \subseteq Long
    BY <1>1, <1>2, SetInduction
  <1>4. \A m \in Nat : Run(run(m), m)
    BY <1>3 DEF Long
  <1> HIDE DEF run
  <1>5. ASSUME NEW k \in Nat PROVE all[k] = IF k = 0 THEN Begin(n) ELSE After(all[k - 1])
    <2>1. k \in 0 .. k
      OBVIOUS
    <2>2. run(k)[k] = IF k = 0 THEN Begin(n) ELSE After(run(k)[k - 1])
      BY <1>4, <2>1, RunFacts
    <2>3. k # 0 => run(k)[k - 1] = run(k - 1)[k - 1]
      <3> SUFFICES ASSUME k # 0 PROVE run(k)[k - 1] = run(k - 1)[k - 1]
        OBVIOUS
      <3> DEFINE j == k - 1
      <3>1. j \in Nat /\ k = j + 1 /\ j \in 0 .. j
        OBVIOUS
      <3>2. Run(run(j), j) /\ Run(run(j + 1), j + 1)
        BY <1>4, <3>1
      <3> HIDE DEF j
      <3>3. run(j)[j] = run(j + 1)[j]
        BY <3>1, <3>2, RunsAgree
      <3> QED
        BY <3>1, <3>3 DEF j
    <2>4. k # 0 => k - 1 \in Nat /\ all[k - 1] = run(k - 1)[k - 1]
      OBVIOUS
    <2>5. all[k] = run(k)[k]
      OBVIOUS
    <2> HIDE DEF all
    <2> QED
      BY <2>2, <2>3, <2>4, <2>5
  <1>6. Holds(all)
    <2> DEFINE h == [k \in Nat |-> IF k = 0 THEN Begin(n) ELSE After(all[k - 1])]
    <2>1. \A k \in Nat : h[k] = IF k = 0 THEN Begin(n) ELSE After(all[k - 1])
      OBVIOUS
    <2>2. \A k \in Nat : all[k] = h[k]
      BY <1>5, <2>1
    <2> QED
      BY <2>2
  <1>7. Holds(state)
    <2>1. \E g : Holds(g)
      BY <1>6
    <2>2. state = CHOOSE g : Holds(g)
      BY DEF States
    <2> QED
      BY <2>1, <2>2
  <1> HIDE DEF state
  <1>8. \A k \in Nat : state[k] = IF k = 0 THEN Begin(n) ELSE After(state[k - 1])
    <2> DEFINE h == [k \in Nat |-> IF k = 0 THEN Begin(n) ELSE After(state[k - 1])]
    <2>1. state = h
      BY <1>7
    <2>2. \A k \in Nat : h[k] = IF k = 0 THEN Begin(n) ELSE After(state[k - 1])
      OBVIOUS
    <2> HIDE DEF h
    <2> QED
      BY <2>1, <2>2
  <1>9. ASSUME NEW k \in Nat PROVE state[k + 1] = After(state[k])
    <2>1. k + 1 \in Nat /\ k + 1 # 0 /\ (k + 1) - 1 = k
      OBVIOUS
    <2> QED
      BY <1>8, <2>1
  <1> QED
    BY <1>8, <1>9 DEF state
-----------------------------------------------------------------------------
(* The loop's invariant *)

Queued     == [at : NodeIds, depth : Nat]
Transition == [edge : AllEdges, depth : Nat]

LoopTypeOK(s) ==
  s \in [queue    : Seq(Queued),
         position : 1 .. Len(edges) + 1,
         seen     : SUBSET EdgeIds,
         found    : Seq(Transition),
         met      : SUBSET Transition]

\* Where the traversal has come to: the start, and the far end of every transition.
Start(n)       == [at |-> n, depth |-> 0]
Arrival(t, way) == [at |-> Far(t.edge, way), depth |-> t.depth]
Arrivals(met, n, way) == {Start(n)} \cup {Arrival(t, way) : t \in met}

\* The first edges at a node that was come to have been met, a step further at most.
Served(met, p, way, upto) ==
  \A i \in 1 .. upto :
    Near(edges[i], way) = p.at => \E t \in met : t.edge.id = edges[i].id /\ t.depth <= p.depth + 1

\* Each id was met once, at the end of a walk.
MetOnWalks(s, n, limit, way) ==
  /\ s.seen = {t.edge.id : t \in s.met}
  /\ \A t, u \in s.met : t.edge.id = u.edge.id => t = u
  /\ \A t \in s.met : t.depth \in 1 .. limit /\ EndsWalk(t.edge, n, t.depth, way)

\* The nearer before the farther, in the queue and in what is returned.
InOrder(s) ==
  /\ \A i, j \in DOMAIN s.queue : i < j => s.queue[i].depth <= s.queue[j].depth
  /\ s.queue # <<>> => \A t \in s.met : t.depth <= Head(s.queue).depth + 1
  /\ \A i, j \in DOMAIN s.found : i < j => s.found[i].depth <= s.found[j].depth
  /\ \A i, j \in DOMAIN s.found : s.found[i] = s.found[j] => i = j

FoundAsAsked(s, way, mode) ==
  \A t : (\E i \in DOMAIN s.found : s.found[i] = t)
         <=> t \in s.met /\ Matches(mode, Far(t.edge, way))

\* Whatever was come to within the depth is in the queue, or its edges have been met; the ones
\* before the position have been met for the node in front.
NothingSkipped(s, n, limit, way) ==
  /\ \A i \in DOMAIN s.queue : s.queue[i] \in Arrivals(s.met, n, way)
  /\ \A p \in Arrivals(s.met, n, way) :
       \/ p.depth >= limit
       \/ \E i \in DOMAIN s.queue : s.queue[i] = p
       \/ Served(s.met, p, way, Len(edges))
  /\ s.queue # <<>> => Served(s.met, Head(s.queue), way, s.position - 1)

\* At most so many steps have been made while there is something in the queue.
InTime(s, k) ==
  s.queue # <<>> =>
    k + Len(s.queue) * (Len(edges) + 1)
      <= (Cardinality(s.seen) + 1) * (Len(edges) + 1) + s.position - 1

LoopInv(s, n, limit, way, mode) ==
  /\ LoopTypeOK(s)
  /\ MetOnWalks(s, n, limit, way)
  /\ InOrder(s)
  /\ FoundAsAsked(s, way, mode)
  /\ NothingSkipped(s, n, limit, way)

LEMMA EdgeFacts ==
  ASSUME TypeOK, NEW way \in Ways
  PROVE  /\ Len(edges) \in Nat /\ DOMAIN edges = 1 .. Len(edges)
         /\ \A i \in DOMAIN edges : edges[i] \in AllEdges
         /\ \A e \in AllEdges : Near(e, way) \in NodeIds /\ Far(e, way) \in NodeIds
         /\ \A e \in AllEdges : \E i \in DOMAIN edges : e = edges[i]
         /\ AllEdges \subseteq Edge
  <1>1. Len(edges) \in Nat /\ DOMAIN edges = 1 .. Len(edges) /\ \A i \in DOMAIN edges : edges[i] \in Edge
    BY DEF TypeOK
  <1>2. AllEdges \subseteq Edge
    BY <1>1 DEF AllEdges
  <1>3. \A e \in Edge : Near(e, way) \in NodeIds /\ Far(e, way) \in NodeIds
    BY DEF Near, Far, Edge
  <1> QED
    BY <1>1, <1>2, <1>3 DEF AllEdges

\* A walk of one edge, and one that goes on.
LEMMA WalksGrow ==
  ASSUME NEW n, NEW way, NEW e \in AllEdges
  PROVE  /\ Near(e, way) = n => EndsWalk(e, n, 1, way)
         /\ \A k \in Nat \ {0}, d \in AllEdges :
              EndsWalk(d, n, k, way) /\ Far(d, way) = Near(e, way) => EndsWalk(e, n, k + 1, way)
  <1>1. ASSUME Near(e, way) = n PROVE EndsWalk(e, n, 1, way)
    <2> DEFINE w == [i \in 1 .. 1 |-> e]
    <2>1. w \in [1 .. 1 -> AllEdges] /\ w[1] = e /\ 1 .. 1 - 1 = {}
      OBVIOUS
    <2> HIDE DEF w
    <2> QED
      BY <1>1, <2>1 DEF EndsWalk
  <1>2. ASSUME NEW k \in Nat \ {0}, NEW d \in AllEdges, EndsWalk(d, n, k, way),
               Far(d, way) = Near(e, way)
        PROVE  EndsWalk(e, n, k + 1, way)
    <2>1. PICK w \in [1 .. k -> AllEdges] :
            /\ Near(w[1], way) = n
            /\ w[k] = d
            /\ \A i \in 1 .. k - 1 : Far(w[i], way) = Near(w[i + 1], way)
      BY <1>2 DEF EndsWalk
    <2> DEFINE v == [i \in 1 .. k + 1 |-> IF i <= k THEN w[i] ELSE e]
    <2>2. v \in [1 .. k + 1 -> AllEdges] /\ v[k + 1] = e /\ \A i \in 1 .. k : v[i] = w[i]
      OBVIOUS
    <2> HIDE DEF v
    <2>3. Near(v[1], way) = n
      BY <2>1, <2>2
    <2>4. ASSUME NEW i \in 1 .. (k + 1) - 1 PROVE Far(v[i], way) = Near(v[i + 1], way)
      <3>1. CASE i = k
        BY <1>2, <2>1, <2>2, <3>1
      <3>2. CASE i # k
        <4>1. i \in 1 .. k - 1 /\ i \in 1 .. k /\ i + 1 \in 1 .. k
          BY <3>2
        <4> QED
          BY <2>1, <2>2, <4>1
      <3> QED
        BY <3>1, <3>2
    <2> QED
      BY <2>2, <2>3, <2>4 DEF EndsWalk
  <1> QED
    BY <1>1, <1>2

\* The edge before the last ends a walk too.
LEMMA WalksShrink ==
  ASSUME NEW n, NEW way, NEW e, NEW k \in Nat \ {0}, EndsWalk(e, n, k + 1, way)
  PROVE  \E d \in AllEdges : EndsWalk(d, n, k, way) /\ Far(d, way) = Near(e, way)
  <1>1. PICK w \in [1 .. k + 1 -> AllEdges] :
          /\ Near(w[1], way) = n
          /\ w[k + 1] = e
          /\ \A i \in 1 .. (k + 1) - 1 : Far(w[i], way) = Near(w[i + 1], way)
    BY DEF EndsWalk
  <1> DEFINE v == [i \in 1 .. k |-> w[i]]
  <1>2. v \in [1 .. k -> AllEdges] /\ \A i \in 1 .. k : v[i] = w[i]
    OBVIOUS
  <1> HIDE DEF v
  <1>3. \A i \in 1 .. k - 1 : i \in 1 .. k /\ i + 1 \in 1 .. k /\ i \in 1 .. (k + 1) - 1
    OBVIOUS
  <1>4. EndsWalk(w[k], n, k, way)
    BY <1>1, <1>2, <1>3 DEF EndsWalk
  <1>5. k \in 1 .. k /\ k \in 1 .. (k + 1) - 1
    OBVIOUS
  <1>6. w[k] \in AllEdges /\ Far(w[k], way) = Near(e, way)
    BY <1>1, <1>2, <1>5
  <1> QED
    BY <1>4, <1>6

\* An arrival's edges end walks that are a step longer.
LEMMA ArrivalsAreOnWalks ==
  ASSUME TypeOK, NEW n \in NodeIds, NEW limit \in Nat, NEW way \in Ways, NEW s,
         LoopTypeOK(s), MetOnWalks(s, n, limit, way),
         NEW p \in Arrivals(s.met, n, way), NEW e \in AllEdges, Near(e, way) = p.at
  PROVE  p \in Queued /\ EndsWalk(e, n, p.depth + 1, way)
  <1>1. CASE p = Start(n)
    BY <1>1, WalksGrow DEF Start, Queued
  <1>2. ASSUME NEW t \in s.met, p = Arrival(t, way)
        PROVE  p \in Queued /\ EndsWalk(e, n, p.depth + 1, way)
    <2>1. t.edge \in AllEdges /\ t.depth \in Nat \ {0} /\ EndsWalk(t.edge, n, t.depth, way)
      BY DEF LoopTypeOK, MetOnWalks, Transition
    <2>2. p.at = Far(t.edge, way) /\ p.depth = t.depth /\ Far(t.edge, way) \in NodeIds
      BY <1>2, <2>1, EdgeFacts DEF Arrival
    <2>3. EndsWalk(e, n, t.depth + 1, way)
      BY <2>1, <2>2, WalksGrow
    <2>4. p \in Queued
      BY <1>2, <2>1, <2>2 DEF Arrival, Queued
    <2> QED
      BY <2>2, <2>3, <2>4
  <1> QED
    BY <1>1, <1>2 DEF Arrivals
\* No more ids are seen than there are edges.
LEMMA SeenIsFinite ==
  ASSUME TypeOK, NEW s, LoopTypeOK(s), s.seen = {t.edge.id : t \in s.met}
  PROVE  IsFiniteSet(s.seen) /\ Cardinality(s.seen) \in Nat /\ Cardinality(s.seen) <= Len(edges)
  <1> DEFINE ids == {edges[i].id : i \in 1 .. Len(edges)}
             id  == [i \in 1 .. Len(edges) |-> edges[i].id]
  <1>1. Len(edges) \in Nat /\ DOMAIN edges = 1 .. Len(edges)
    BY DEF TypeOK
  <1>2. s.seen \subseteq ids
    BY <1>1 DEF LoopTypeOK, Transition, AllEdges
  <1>3. id \in Surjection(1 .. Len(edges), ids)
    BY DEF Surjection
  <1>4. IsFiniteSet(1 .. Len(edges)) /\ Cardinality(1 .. Len(edges)) = Len(edges)
    <2> DEFINE m == Len(edges)
    <2>1. m \in Nat /\ 1 \in Int /\ m \in Int
      BY <1>1
    <2> HIDE DEF m
    <2>2. IsFiniteSet(1 .. m) /\ Cardinality(1 .. m) = IF 1 > m THEN 0 ELSE m - 1 + 1
      BY <2>1, FS_Interval
    <2>3. Cardinality(1 .. m) = m
      BY <2>1, <2>2
    <2> QED
      BY <2>2, <2>3 DEF m
  <1> HIDE DEF ids, id
  <1>5. IsFiniteSet(ids) /\ Cardinality(ids) <= Len(edges)
    BY <1>3, <1>4, FS_Surjection
  <1>6. IsFiniteSet(s.seen) /\ Cardinality(s.seen) <= Cardinality(ids)
    BY <1>2, <1>5, FS_Subset
  <1> QED
    BY <1>1, <1>5, <1>6, FS_CardinalityType

\* Products that the prover needs.
LEMMA Products ==
  /\ \A a, c \in Nat : a * c \in Nat /\ (a + 1) * c = a * c + c
  /\ \A a, b, c \in Nat : a <= b => a * c <= b * c
  OBVIOUS

LEMMA BeginHolds ==
  ASSUME TypeOK, NEW n \in NodeIds, NEW limit \in Nat, NEW way \in Ways, NEW mode
  PROVE  LoopInv(Begin(n), n, limit, way, mode) /\ InTime(Begin(n), 0)
  <1> DEFINE s == Begin(n)
  <1>1. /\ s.queue = <<Start(n)>> /\ s.position = 1 /\ s.seen = {} /\ s.found = <<>> /\ s.met = {}
        /\ s.queue # <<>> /\ Len(s.queue) = 1 /\ DOMAIN s.queue = {1} /\ s.queue[1] = Start(n)
        /\ DOMAIN s.found = {}
    BY DEF Begin, Start
  <1>2. LoopTypeOK(s)
    <2>1. s.queue \in Seq(Queued)
      BY <1>1 DEF Start, Queued
    <2>2. 1 \in 1 .. Len(edges) + 1
      BY EdgeFacts
    <2> QED
      BY <2>1, <2>2 DEF LoopTypeOK, Begin
  <1> HIDE DEF s
  <1>3. MetOnWalks(s, n, limit, way) /\ InOrder(s) /\ FoundAsAsked(s, way, mode)
    BY <1>1 DEF MetOnWalks, InOrder, FoundAsAsked
  <1>4. NothingSkipped(s, n, limit, way)
    <2>1. Arrivals(s.met, n, way) = {Start(n)}
      BY <1>1 DEF Arrivals
    <2>2. Served(s.met, Head(s.queue), way, s.position - 1)
      BY <1>1 DEF Served
    <2> QED
      BY <1>1, <2>1, <2>2 DEF NothingSkipped
  <1>5. InTime(s, 0)
    <2>1. Cardinality(s.seen) = 0
      BY <1>1, FS_EmptySet
    <2>2. Len(edges) + 1 \in Nat
      BY EdgeFacts
    <2> QED
      BY <1>1, <2>1, <2>2 DEF InTime
  <1> QED
    BY <1>2, <1>3, <1>4, <1>5 DEF LoopInv, s

\* A sequence without its first element, and with one more at its end.
LEMMA TailFacts ==
  ASSUME NEW X, NEW was \in Seq(X), was # <<>>, NEW is, is = Tail(was)
  PROVE  /\ is \in Seq(X) /\ Len(was) \in Nat \ {0} /\ DOMAIN was = 1 .. Len(was)
         /\ Len(is) = Len(was) - 1 /\ DOMAIN is = 1 .. Len(was) - 1
         /\ \A i \in DOMAIN is : is[i] = was[i + 1] /\ i + 1 \in DOMAIN was
         /\ \A i \in DOMAIN was : i # 1 => i - 1 \in DOMAIN is /\ is[i - 1] = was[i]
  <1>1. /\ is \in Seq(X) /\ Len(was) \in Nat \ {0} /\ DOMAIN was = 1 .. Len(was)
        /\ Len(is) = Len(was) - 1 /\ DOMAIN is = 1 .. Len(was) - 1
    OBVIOUS
  <1>2. ASSUME NEW i \in DOMAIN is PROVE is[i] = was[i + 1] /\ i + 1 \in DOMAIN was
    BY <1>1
  <1>3. ASSUME NEW i \in DOMAIN was, i # 1 PROVE i - 1 \in DOMAIN is /\ is[i - 1] = was[i]
    <2>1. i - 1 \in DOMAIN is /\ (i - 1) + 1 = i
      BY <1>1, <1>3
    <2> QED
      BY <1>2, <2>1
  <1> QED
    BY <1>1, <1>2, <1>3

LEMMA AppendFacts ==
  ASSUME NEW X, NEW was \in Seq(X), NEW x \in X, NEW is, is = Append(was, x)
  PROVE  /\ is \in Seq(X) /\ Len(was) \in Nat /\ DOMAIN was = 1 .. Len(was)
         /\ Len(is) = Len(was) + 1 /\ DOMAIN is = 1 .. Len(was) + 1
         /\ \A i \in DOMAIN was : i \in DOMAIN is /\ is[i] = was[i]
         /\ is[Len(was) + 1] = x
  <1>1. /\ is \in Seq(X) /\ Len(was) \in Nat /\ DOMAIN was = 1 .. Len(was)
        /\ Len(is) = Len(was) + 1 /\ DOMAIN is = 1 .. Len(was) + 1
    OBVIOUS
  <1>2. ASSUME NEW i \in DOMAIN was PROVE i \in DOMAIN is /\ is[i] = was[i]
    BY <1>1
  <1>3. is[Len(was) + 1] = x
    BY <1>1
  <1> QED
    BY <1>1, <1>2, <1>3

\* The node in front leaves the queue.
LEMMA DoneKeeps ==
  ASSUME TypeOK, NEW n \in NodeIds, NEW limit \in Nat, NEW way \in Ways, NEW mode, NEW s,
         LoopInv(s, n, limit, way, mode), s.queue # <<>>, IsDone(s, limit)
  PROVE  LET z == [s EXCEPT !.queue = Tail(@), !.position = 1]
         IN  /\ LoopInv(z, n, limit, way, mode)
             /\ \A k \in Nat : InTime(s, k) => InTime(z, k + 1)
  <1> DEFINE z == [s EXCEPT !.queue = Tail(@), !.position = 1]
             h == Head(s.queue)
  <1>1. /\ z.queue = Tail(s.queue) /\ z.position = 1
        /\ z.seen = s.seen /\ z.found = s.found /\ z.met = s.met
    BY DEF LoopInv, LoopTypeOK
  <1>2. /\ s.queue \in Seq(Queued) /\ h = s.queue[1] /\ h \in Queued /\ 1 \in DOMAIN s.queue
        /\ Len(s.queue) \in Nat \ {0} /\ s.position \in 1 .. Len(edges) + 1 /\ Len(edges) \in Nat
    BY EdgeFacts DEF LoopInv, LoopTypeOK
  <1>3. LoopTypeOK(z)
    <2>1. Tail(s.queue) \in Seq(Queued) /\ 1 \in 1 .. Len(edges) + 1
      BY <1>2
    <2> QED
      BY <2>1 DEF LoopInv, LoopTypeOK
  <1>4. /\ Len(z.queue) = Len(s.queue) - 1 /\ DOMAIN z.queue = 1 .. Len(s.queue) - 1
        /\ \A i \in DOMAIN z.queue : z.queue[i] = s.queue[i + 1] /\ i + 1 \in DOMAIN s.queue
        /\ \A i \in DOMAIN s.queue : i # 1 => i - 1 \in DOMAIN z.queue /\ z.queue[i - 1] = s.queue[i]
    BY <1>1, <1>2, TailFacts
  <1> HIDE DEF z, h
  <1>5. MetOnWalks(z, n, limit, way) /\ FoundAsAsked(z, way, mode)
    BY <1>1 DEF LoopInv, MetOnWalks, FoundAsAsked
  <1>6. InOrder(z)
    <2>1. ASSUME NEW i \in DOMAIN z.queue, NEW j \in DOMAIN z.queue, i < j
          PROVE  z.queue[i].depth <= z.queue[j].depth
      <3>1. i + 1 \in DOMAIN s.queue /\ j + 1 \in DOMAIN s.queue /\ i + 1 < j + 1
        BY <1>2, <1>4, <2>1
      <3>2. s.queue[i + 1].depth <= s.queue[j + 1].depth
        BY <3>1 DEF LoopInv, InOrder
      <3> QED
        BY <1>4, <3>2
    <2>2. ASSUME z.queue # <<>>, NEW t \in z.met PROVE t.depth <= Head(z.queue).depth + 1
      <3>1. Head(z.queue) = s.queue[2] /\ 2 \in DOMAIN s.queue
        BY <1>1, <1>2, <2>2
      <3>2. h.depth <= s.queue[2].depth
        BY <1>2, <3>1 DEF LoopInv, InOrder
      <3>3. t.depth <= h.depth + 1
        BY <1>1, <2>2 DEF LoopInv, InOrder, h
      <3>4. t.depth \in Nat /\ h.depth \in Nat /\ s.queue[2].depth \in Nat
        <4>1. t \in Transition
          BY <1>1, <2>2 DEF LoopInv, LoopTypeOK
        <4>2. s.queue[2] \in Queued
          BY <1>2, <3>1
        <4> QED
          BY <1>2, <4>1, <4>2 DEF Queued, Transition
      <3> QED
        BY <3>1, <3>2, <3>3, <3>4
    <2> QED
      BY <1>1, <2>1, <2>2 DEF LoopInv, InOrder
  <1>7. NothingSkipped(z, n, limit, way)
    <2>1. \A i \in DOMAIN z.queue : z.queue[i] \in Arrivals(z.met, n, way)
      BY <1>1, <1>4 DEF LoopInv, NothingSkipped
    <2>2. ASSUME NEW p \in Arrivals(z.met, n, way), ~(p.depth >= limit),
                 ~ \E i \in DOMAIN z.queue : z.queue[i] = p
          PROVE  Served(z.met, p, way, Len(edges))
      <3>1. CASE \E i \in DOMAIN s.queue : s.queue[i] = p
        <4>1. p = h
          BY <1>2, <1>4, <2>2, <3>1
        <4>2. s.position - 1 = Len(edges)
          BY <1>2, <2>2, <4>1 DEF IsDone, h
        <4>3. Served(s.met, h, way, s.position - 1)
          BY DEF LoopInv, NothingSkipped, h
        <4> QED
          BY <1>1, <4>1, <4>2, <4>3
      <3>2. CASE ~ \E i \in DOMAIN s.queue : s.queue[i] = p
        BY <1>1, <2>2, <3>2 DEF LoopInv, NothingSkipped
      <3> QED
        BY <3>1, <3>2
    <2>3. Served(z.met, Head(z.queue), way, z.position - 1)
      BY <1>1 DEF Served
    <2> QED
      BY <2>1, <2>2, <2>3 DEF NothingSkipped
  <1>8. ASSUME NEW k \in Nat, InTime(s, k) PROVE InTime(z, k + 1)
    <2> DEFINE c == Len(edges) + 1
               q == Len(s.queue) - 1
               b == Cardinality(s.seen) + 1
    <2>2. c \in Nat /\ q \in Nat /\ b \in Nat /\ s.position \in Nat /\ s.position <= c
      <3>1. Cardinality(s.seen) \in Nat
        BY SeenIsFinite DEF LoopInv, MetOnWalks
      <3> QED
        BY <1>2, <3>1
    <2>6. Len(s.queue) = q + 1
      BY <1>2
    <2>3. Len(z.queue) = q /\ z.seen = s.seen /\ z.position = 1
      BY <1>1, <1>4
    <2> HIDE DEF c, q, b
    <2>1. k + (q + 1) * c <= b * c + s.position - 1
      BY <1>8, <2>6 DEF InTime, c, b
    <2> DEFINE held == q * c
               most == b * c
    <2>4. (q + 1) * c = held + c /\ held \in Nat /\ most \in Nat
      BY <2>2, Products
    <2>7. k + (q + 1) * c <= most + s.position - 1
      BY <2>1
    <2> HIDE DEF held, most
    <2>5. (k + 1) + held <= most + 1 - 1
      BY <2>2, <2>4, <2>7
    <2> QED
      BY <2>3, <2>5 DEF InTime, held, most, c, b
  <1> QED
    BY <1>3, <1>5, <1>6, <1>7, <1>8 DEF LoopInv, z
\* The next edge is of another node, or seen already.
LEMMA PassedKeeps ==
  ASSUME TypeOK, NEW n \in NodeIds, NEW limit \in Nat, NEW way \in Ways, NEW mode, NEW s,
         LoopInv(s, n, limit, way, mode), s.queue # <<>>, ~IsDone(s, limit),
         ~IsMet(s, edges[s.position], way)
  PROVE  LET z == [s EXCEPT !.position = @ + 1]
         IN  /\ LoopInv(z, n, limit, way, mode)
             /\ \A k \in Nat : InTime(s, k) => InTime(z, k + 1)
  <1> DEFINE z == [s EXCEPT !.position = @ + 1]
             h == Head(s.queue)
             e == edges[s.position]
  <1>1. /\ z.queue = s.queue /\ z.position = s.position + 1
        /\ z.seen = s.seen /\ z.found = s.found /\ z.met = s.met
    BY DEF LoopInv, LoopTypeOK
  <1>2. /\ s.queue \in Seq(Queued) /\ h \in Queued
        /\ s.position \in 1 .. Len(edges) /\ Len(edges) \in Nat /\ DOMAIN edges = 1 .. Len(edges)
    <2>1. s.position \in 1 .. Len(edges) + 1 /\ ~(s.position > Len(edges)) /\ Len(edges) \in Nat
      BY EdgeFacts DEF LoopInv, LoopTypeOK, IsDone
    <2> QED
      BY <2>1, EdgeFacts DEF LoopInv, LoopTypeOK
  <1>3. LoopTypeOK(z)
    <2>1. s.position + 1 \in 1 .. Len(edges) + 1
      BY <1>2
    <2> QED
      BY <2>1 DEF LoopInv, LoopTypeOK
  <1> HIDE DEF z, h, e
  <1>4. MetOnWalks(z, n, limit, way) /\ FoundAsAsked(z, way, mode) /\ InOrder(z)
    BY <1>1 DEF LoopInv, MetOnWalks, FoundAsAsked, InOrder
  <1>5. Served(s.met, h, way, s.position)
    <2> SUFFICES ASSUME NEW i \in 1 .. s.position, Near(edges[i], way) = h.at
                 PROVE  \E t \in s.met : t.edge.id = edges[i].id /\ t.depth <= h.depth + 1
      BY DEF Served
    <2>1. CASE i = s.position
      <3>1. e.id \in s.seen
        BY <2>1 DEF IsMet, e, h
      <3>2. PICK t \in s.met : t.edge.id = e.id
        BY <3>1 DEF LoopInv, MetOnWalks
      <3>3. t.depth <= h.depth + 1
        BY DEF LoopInv, InOrder, h
      <3> QED
        BY <2>1, <3>2, <3>3 DEF e
    <2>2. CASE i # s.position
      <3>1. i \in 1 .. s.position - 1
        BY <1>2, <2>2
      <3>2. Served(s.met, h, way, s.position - 1)
        BY DEF LoopInv, NothingSkipped, h
      <3> QED
        BY <3>1, <3>2 DEF Served
    <2> QED
      BY <2>1, <2>2
  <1>6. NothingSkipped(z, n, limit, way)
    <2>1. z.position - 1 = s.position
      BY <1>1, <1>2
    <2> QED
      BY <1>1, <1>5, <2>1 DEF LoopInv, NothingSkipped, h
  <1>7. ASSUME NEW k \in Nat, InTime(s, k) PROVE InTime(z, k + 1)
    <2> DEFINE held == Len(s.queue) * (Len(edges) + 1)
               most == (Cardinality(s.seen) + 1) * (Len(edges) + 1)
    <2>1. k + held <= most + s.position - 1
      BY <1>7 DEF InTime
    <2>2. held \in Nat /\ most \in Nat
      <3>1. Cardinality(s.seen) \in Nat
        BY SeenIsFinite DEF LoopInv, MetOnWalks
      <3>2. Len(s.queue) \in Nat /\ Len(edges) + 1 \in Nat /\ Cardinality(s.seen) + 1 \in Nat
        BY <1>2, <3>1
      <3> QED
        BY <3>2, Products
    <2> HIDE DEF held, most
    <2>3. (k + 1) + held <= most + (s.position + 1) - 1
      BY <1>2, <2>1, <2>2
    <2> QED
      BY <1>1, <2>3 DEF InTime, held, most
  <1> QED
    BY <1>3, <1>4, <1>6, <1>7 DEF LoopInv, z

\* A new edge of the node in front.
LEMMA MeetKeeps ==
  ASSUME TypeOK, NEW n \in NodeIds, NEW limit \in Nat, NEW way \in Ways, NEW mode, NEW s,
         LoopInv(s, n, limit, way, mode), s.queue # <<>>, ~IsDone(s, limit),
         IsMet(s, edges[s.position], way)
  PROVE  LET z == Meet(s, edges[s.position], way, mode)
         IN  /\ LoopInv(z, n, limit, way, mode)
             /\ \A k \in Nat : InTime(s, k) => InTime(z, k + 1)
  <1> DEFINE e == edges[s.position]
             h == Head(s.queue)
             t == [edge |-> e, depth |-> h.depth + 1]
             p == [at |-> Far(e, way), depth |-> h.depth + 1]
             z == Meet(s, e, way, mode)
             asked == Matches(mode, Far(e, way))
  <1>1. /\ z.queue = Append(s.queue, p) /\ z.position = s.position + 1
        /\ z.seen = s.seen \cup {e.id} /\ z.met = s.met \cup {t}
        /\ z.found = IF asked THEN Append(s.found, t) ELSE s.found
        /\ z = [queue |-> z.queue, position |-> z.position, seen |-> z.seen, found |-> z.found,
                met |-> z.met]
    BY DEF Meet
  <1>2. /\ s.queue \in Seq(Queued) /\ h \in Queued /\ h.depth \in Nat /\ h = s.queue[1]
        /\ Len(s.queue) \in Nat \ {0} /\ h.depth < limit /\ 1 \in DOMAIN s.queue
        /\ s.position \in 1 .. Len(edges) /\ Len(edges) \in Nat /\ DOMAIN edges = 1 .. Len(edges)
        /\ s.found \in Seq(Transition) /\ s.met \subseteq Transition /\ s.seen \subseteq EdgeIds
    <2>1. s.position \in 1 .. Len(edges) + 1 /\ Len(edges) \in Nat
      BY EdgeFacts DEF LoopInv, LoopTypeOK
    <2>2. ~(s.position > Len(edges)) /\ ~(h.depth >= limit)
      BY DEF IsDone
    <2>3. s.queue \in Seq(Queued) /\ h \in Queued /\ h = s.queue[1] /\ Len(s.queue) \in Nat \ {0}
      BY DEF LoopInv, LoopTypeOK
    <2>4. h.depth \in Nat
      BY <2>3 DEF Queued
    <2>5. s.found \in Seq(Transition) /\ s.met \subseteq Transition /\ s.seen \subseteq EdgeIds
      BY DEF LoopInv, LoopTypeOK
    <2> QED
      BY <2>1, <2>2, <2>3, <2>4, <2>5, EdgeFacts
  <1>3. /\ e \in AllEdges /\ e.id \in EdgeIds /\ e.id \notin s.seen /\ Near(e, way) = h.at
        /\ Far(e, way) \in NodeIds
    <2>1. e \in AllEdges /\ e \in Edge
      BY <1>2, EdgeFacts
    <2> QED
      BY <2>1, EdgeFacts DEF IsMet, Edge
  <1>4. /\ t \in Transition /\ t.edge = e /\ t.depth = h.depth + 1 /\ t.depth \in 1 .. limit
        /\ p \in Queued /\ p.at = Far(e, way) /\ p.depth = h.depth + 1 /\ p = Arrival(t, way)
    BY <1>2, <1>3 DEF Transition, Queued, Arrival
  <1> HIDE DEF e, h, t, p, asked, z
  <1>5. LoopTypeOK(z)
    <2>1. z.queue \in Seq(Queued) /\ z.found \in Seq(Transition)
      BY <1>1, <1>2, <1>4
    <2>2. z.position \in 1 .. Len(edges) + 1
      BY <1>1, <1>2
    <2>3. z.seen \subseteq EdgeIds /\ z.met \subseteq Transition
      BY <1>1, <1>2, <1>3, <1>4
    <2> QED
      BY <1>1, <2>1, <2>2, <2>3 DEF LoopTypeOK
  <1>6. h \in Arrivals(s.met, n, way)
    BY <1>2 DEF LoopInv, NothingSkipped
  <1>7. EndsWalk(e, n, h.depth + 1, way)
    BY <1>3, <1>6, ArrivalsAreOnWalks DEF LoopInv
  <1>8. \A u \in s.met : u.edge.id # e.id /\ u # t /\ u.depth <= h.depth + 1 /\ u.depth \in Nat
    <2> SUFFICES ASSUME NEW u \in s.met
                 PROVE  u.edge.id # e.id /\ u # t /\ u.depth <= h.depth + 1 /\ u.depth \in Nat
      OBVIOUS
    <2>1. u.edge.id \in s.seen
      BY DEF LoopInv, MetOnWalks
    <2>2. u.depth <= h.depth + 1
      BY DEF LoopInv, InOrder, h
    <2>3. u.depth \in Nat
      BY <1>2 DEF Transition
    <2> QED
      BY <1>3, <1>4, <2>1, <2>2, <2>3
  <1>9. MetOnWalks(z, n, limit, way)
    BY <1>1, <1>4, <1>7, <1>8 DEF LoopInv, MetOnWalks
  \* The queue, with the new arrival at its end.
  <1>10. /\ Len(z.queue) = Len(s.queue) + 1 /\ DOMAIN z.queue = 1 .. Len(s.queue) + 1
         /\ DOMAIN s.queue = 1 .. Len(s.queue) /\ z.queue # <<>> /\ Head(z.queue) = h
         /\ \A i \in DOMAIN s.queue : i \in DOMAIN z.queue /\ z.queue[i] = s.queue[i]
         /\ z.queue[Len(s.queue) + 1] = p
    <2>1. /\ Len(z.queue) = Len(s.queue) + 1 /\ DOMAIN z.queue = 1 .. Len(s.queue) + 1
          /\ DOMAIN s.queue = 1 .. Len(s.queue)
          /\ \A i \in DOMAIN s.queue : i \in DOMAIN z.queue /\ z.queue[i] = s.queue[i]
          /\ z.queue[Len(s.queue) + 1] = p
      BY <1>1, <1>2, <1>4, AppendFacts
    <2>2. z.queue # <<>> /\ Head(z.queue) = z.queue[1]
      BY <1>2, <2>1
    <2> QED
      BY <1>2, <2>1, <2>2
  <1>11. \A q \in Arrivals(s.met, n, way) : q.depth \in Nat /\ q.depth <= h.depth + 1
    <2>1. Start(n).depth = 0
      BY DEF Start
    <2>2. \A u \in s.met : Arrival(u, way).depth = u.depth
      BY DEF Arrival
    <2> QED
      BY <1>2, <1>8, <2>1, <2>2 DEF Arrivals
  <1>12. InOrder(z)
    <2>1. ASSUME NEW i \in DOMAIN z.queue, NEW j \in DOMAIN z.queue, i < j
          PROVE  z.queue[i].depth <= z.queue[j].depth
      <3>1. i \in DOMAIN s.queue
        BY <1>2, <1>10, <2>1
      <3>2. CASE j \in DOMAIN s.queue
        BY <1>10, <2>1, <3>1, <3>2 DEF LoopInv, InOrder
      <3>3. CASE j \notin DOMAIN s.queue
        <4>1. z.queue[j] = p
          BY <1>2, <1>10, <3>3
        <4>2. s.queue[i] \in Arrivals(s.met, n, way)
          BY <3>1 DEF LoopInv, NothingSkipped
        <4> QED
          BY <1>4, <1>10, <1>11, <3>1, <4>1, <4>2
      <3> QED
        BY <3>2, <3>3
    <2>2. \A u \in z.met : u.depth <= Head(z.queue).depth + 1
      BY <1>1, <1>2, <1>4, <1>8, <1>10
    <2>3. \A i \in DOMAIN s.found : s.found[i] \in s.met
      BY DEF LoopInv, FoundAsAsked
    <2>4. CASE ~asked
      BY <1>1, <2>1, <2>2, <2>4 DEF LoopInv, InOrder
    <2>5. CASE asked
      <3>1. /\ DOMAIN z.found = 1 .. Len(s.found) + 1 /\ DOMAIN s.found = 1 .. Len(s.found)
            /\ Len(s.found) \in Nat /\ z.found[Len(s.found) + 1] = t
            /\ \A i \in DOMAIN s.found : z.found[i] = s.found[i]
        <4>1. z.found = Append(s.found, t) /\ s.found \in Seq(Transition) /\ t \in Transition
          BY <1>1, <1>2, <1>4, <2>5
        <4> QED
          BY <4>1, AppendFacts
      <3>2. ASSUME NEW i \in DOMAIN z.found, NEW j \in DOMAIN z.found, i < j
            PROVE  z.found[i].depth <= z.found[j].depth /\ z.found[i] # z.found[j]
        <4>1. i \in DOMAIN s.found
          BY <3>1, <3>2
        <4>2. CASE j \in DOMAIN s.found
          <5>1. s.found[i].depth <= s.found[j].depth /\ s.found[i] # s.found[j]
            BY <3>1, <3>2, <4>1, <4>2 DEF LoopInv, InOrder
          <5> QED
            BY <3>1, <4>1, <4>2, <5>1
        <4>3. CASE j \notin DOMAIN s.found
          <5>1. z.found[j] = t
            BY <3>1, <4>3
          <5> QED
            BY <1>4, <1>8, <2>3, <3>1, <4>1, <5>1
        <4> QED
          BY <4>2, <4>3
      <3>3. ASSUME NEW i \in DOMAIN z.found, NEW j \in DOMAIN z.found, z.found[i] = z.found[j]
            PROVE  i = j
        <4>1. i \in Nat /\ j \in Nat /\ ~(i < j) /\ ~(j < i)
          BY <3>1, <3>2, <3>3
        <4> QED
          BY <4>1
      <3> QED
        BY <2>1, <2>2, <3>2, <3>3 DEF InOrder
    <2> QED
      BY <2>4, <2>5
  <1>13. FoundAsAsked(z, way, mode)
    <2>1. \A u : (\E i \in DOMAIN s.found : s.found[i] = u)
                 <=> u \in s.met /\ Matches(mode, Far(u.edge, way))
      BY DEF LoopInv, FoundAsAsked
    <2>2. \A u : (\E i \in DOMAIN z.found : z.found[i] = u)
                 <=> (\E i \in DOMAIN s.found : s.found[i] = u) \/ (asked /\ u = t)
      <3>1. CASE ~asked
        BY <1>1, <3>1
      <3>2. CASE asked
        <4>1. /\ DOMAIN z.found = 1 .. Len(s.found) + 1 /\ DOMAIN s.found = 1 .. Len(s.found)
              /\ Len(s.found) \in Nat /\ z.found[Len(s.found) + 1] = t
              /\ \A i \in DOMAIN s.found : z.found[i] = s.found[i]
          <5>1. z.found = Append(s.found, t) /\ s.found \in Seq(Transition) /\ t \in Transition
            BY <1>1, <1>2, <1>4, <3>2
          <5> QED
            BY <5>1, AppendFacts
        <4>2. \A i \in DOMAIN z.found : i \in DOMAIN s.found \/ i = Len(s.found) + 1
          BY <4>1
        <4>3. DOMAIN s.found \subseteq DOMAIN z.found /\ Len(s.found) + 1 \in DOMAIN z.found
          BY <4>1
        <4> QED
          BY <3>2, <4>1, <4>2, <4>3
      <3> QED
        BY <3>1, <3>2
    <2>3. asked <=> Matches(mode, Far(t.edge, way))
      BY <1>4 DEF asked
    <2> QED
      BY <1>1, <2>1, <2>2, <2>3 DEF FoundAsAsked
  <1>14. NothingSkipped(z, n, limit, way)
    <2>1. Arrivals(z.met, n, way) = Arrivals(s.met, n, way) \cup {p}
      BY <1>1, <1>4 DEF Arrivals
    <2>2. \A q, upto : Served(s.met, q, way, upto) => Served(z.met, q, way, upto)
      BY <1>1 DEF Served
    <2>3. \A i \in DOMAIN z.queue : z.queue[i] \in Arrivals(z.met, n, way)
      <3>1. \A i \in DOMAIN z.queue : i \in DOMAIN s.queue \/ i = Len(s.queue) + 1
        BY <1>2, <1>10
      <3> QED
        BY <1>10, <2>1, <3>1 DEF LoopInv, NothingSkipped
    <2>4. ASSUME NEW q \in Arrivals(z.met, n, way)
          PROVE  \/ q.depth >= limit
                 \/ \E i \in DOMAIN z.queue : z.queue[i] = q
                 \/ Served(z.met, q, way, Len(edges))
      <3>1. CASE q = p
        <4>1. Len(s.queue) + 1 \in DOMAIN z.queue
          BY <1>2, <1>10
        <4> QED
          BY <1>10, <3>1, <4>1
      <3>2. CASE q \in Arrivals(s.met, n, way)
        <4>1. \/ q.depth >= limit
              \/ \E i \in DOMAIN s.queue : s.queue[i] = q
              \/ Served(s.met, q, way, Len(edges))
          BY <3>2 DEF LoopInv, NothingSkipped
        <4> QED
          BY <1>10, <2>2, <4>1
      <3> QED
        BY <2>1, <3>1, <3>2
    <2>5. Served(z.met, h, way, s.position)
      <3> SUFFICES ASSUME NEW i \in 1 .. s.position, Near(edges[i], way) = h.at
                   PROVE  \E u \in z.met : u.edge.id = edges[i].id /\ u.depth <= h.depth + 1
        BY DEF Served
      <3>1. CASE i = s.position
        <4>1. t \in z.met /\ t.edge.id = edges[i].id /\ t.depth <= h.depth + 1
          BY <1>1, <1>2, <1>4, <3>1 DEF e
        <4> QED
          BY <4>1
      <3>2. CASE i # s.position
        <4>1. i \in 1 .. s.position - 1
          BY <1>2, <3>2
        <4>2. Served(z.met, h, way, s.position - 1)
          BY <2>2 DEF LoopInv, NothingSkipped, h
        <4> QED
          BY <4>1, <4>2 DEF Served
      <3> QED
        BY <3>1, <3>2
    <2>6. Served(z.met, Head(z.queue), way, z.position - 1)
      <3>1. z.position - 1 = s.position
        BY <1>1, <1>2
      <3> QED
        BY <1>10, <2>5, <3>1
    <2> QED
      BY <2>3, <2>4, <2>6 DEF NothingSkipped
  <1>15. ASSUME NEW k \in Nat, InTime(s, k) PROVE InTime(z, k + 1)
    <2> DEFINE c    == Len(edges) + 1
               q    == Len(s.queue)
               b    == Cardinality(s.seen) + 1
               held == q * c
               most == b * c
    <2>1. k + held <= most + s.position - 1
      BY <1>15 DEF InTime
    <2>2. Cardinality(z.seen) + 1 = b + 1 /\ b \in Nat
      <3>1. IsFiniteSet(s.seen) /\ Cardinality(s.seen) \in Nat
        BY SeenIsFinite DEF LoopInv, MetOnWalks
      <3>2. Cardinality(s.seen \cup {e.id}) = Cardinality(s.seen) + 1
        BY <1>3, <3>1, FS_AddElement
      <3> QED
        BY <1>1, <3>1, <3>2
    <2>3. c \in Nat /\ q \in Nat
      BY <1>2
    <2>4. Len(z.queue) = q + 1 /\ z.position = s.position + 1 /\ s.position \in Nat
      BY <1>1, <1>2, <1>10
    <2> HIDE DEF q, b, c
    <2>5. (q + 1) * c = held + c /\ (b + 1) * c = most + c /\ held \in Nat /\ most \in Nat
      BY <2>2, <2>3, Products
    <2> HIDE DEF held, most
    <2>6. (k + 1) + (held + c) <= (most + c) + (s.position + 1) - 1
      BY <2>1, <2>3, <2>4, <2>5
    <2>7. (k + 1) + (q + 1) * c <= (b + 1) * c + z.position - 1
      BY <2>4, <2>5, <2>6
    <2> QED
      BY <2>2, <2>4, <2>7 DEF InTime, c
  <1> QED
    BY <1>5, <1>9, <1>12, <1>13, <1>14, <1>15 DEF LoopInv, z, e

\* One step of the loops, from any of its states.
LEMMA StepKeeps ==
  ASSUME TypeOK, NEW n \in NodeIds, NEW limit \in Nat, NEW way \in Ways, NEW mode, NEW s,
         LoopInv(s, n, limit, way, mode)
  PROVE  LET z == Step(s, limit, way, mode)
         IN  /\ LoopInv(z, n, limit, way, mode)
             /\ \A k \in Nat : InTime(s, k) => InTime(z, k + 1)
  <1>1. CASE s.queue = <<>>
    BY <1>1 DEF Step, InTime
  <1>2. CASE s.queue # <<>> /\ IsDone(s, limit)
    BY <1>2, DoneKeeps DEF Step
  <1>3. CASE s.queue # <<>> /\ ~IsDone(s, limit) /\ IsMet(s, edges[s.position], way)
    BY <1>3, MeetKeeps DEF Step
  <1>4. CASE s.queue # <<>> /\ ~IsDone(s, limit) /\ ~IsMet(s, edges[s.position], way)
    BY <1>4, PassedKeeps DEF Step
  <1> QED
    BY <1>1, <1>2, <1>3, <1>4

\* Every state of the loop, as many steps as it may have made.
LEMMA StatesHold ==
  ASSUME TypeOK, NEW n \in NodeIds, NEW limit \in Nat, NEW way \in Ways, NEW mode, NEW k \in Nat
  PROVE  LET s == States(n, limit, way, mode)[k]
         IN  LoopInv(s, n, limit, way, mode) /\ InTime(s, k)
  <1> DEFINE state   == States(n, limit, way, mode)
             Good(j) == LoopInv(state[j], n, limit, way, mode) /\ InTime(state[j], j)
             S       == {j \in Nat : Good(j)}
  <1>1. state[0] = Begin(n) /\ \A j \in Nat : state[j + 1] = Step(state[j], limit, way, mode)
    BY StatesFollow
  <1> HIDE DEF state
  <1>2. 0 \in S
    BY <1>1, BeginHolds
  <1>3. ASSUME NEW j \in Nat, j \in S PROVE j + 1 \in S
    <2>1. LoopInv(state[j], n, limit, way, mode) /\ InTime(state[j], j)
      BY <1>3
    <2>2. Good(j + 1)
      BY <1>1, <2>1, StepKeeps
    <2> QED
      BY <2>2
  <1> HIDE DEF S
  <1>4. Nat \subseteq S
    BY <1>2, <1>3, SetInduction
  <1> QED
    BY <1>4 DEF S, state

-----------------------------------------------------------------------------
(* What a traversal ends in *)

\* The loop has ended after that many steps.
LEMMA TraversalEnds ==
  ASSUME TypeOK, NEW n \in NodeIds, NEW limit \in Nat, NEW way \in Ways, NEW mode
  PROVE  Traversal(n, limit, way, mode).queue = <<>>
  <1> DEFINE s == Traversal(n, limit, way, mode)
             c == Len(edges) + 1
             b == Cardinality(s.seen) + 1
             q == Len(s.queue)
             most  == b * c
             whole == c * c
             held  == q * c
  <1>1. c \in Nat /\ Len(edges) \in Nat
    BY EdgeFacts
  <1>2. whole \in Nat /\ whole = Enough
    BY <1>1, Products DEF Enough
  <1>3. LoopInv(s, n, limit, way, mode) /\ InTime(s, whole)
    BY <1>2, StatesHold DEF Traversal
  <1> SUFFICES ASSUME s.queue # <<>> PROVE FALSE
    OBVIOUS
  <1>4. s.queue \in Seq(Queued) /\ s.position \in 1 .. c
    BY <1>3 DEF LoopInv, LoopTypeOK
  <1> HIDE DEF s
  <1>5. b \in Nat /\ b <= c
    <2>1. LoopTypeOK(s) /\ s.seen = {t.edge.id : t \in s.met}
      BY <1>3 DEF LoopInv, MetOnWalks
    <2>2. Cardinality(s.seen) \in Nat /\ Cardinality(s.seen) <= Len(edges)
      BY <2>1, SeenIsFinite
    <2> QED
      BY <1>1, <2>2
  <1>6. q \in Nat /\ 1 <= q
    BY <1>4
  <1>7. whole + held <= most + s.position - 1
    BY <1>3 DEF InTime
  <1> HIDE DEF c, b, q
  <1>8. most <= whole /\ most \in Nat
    BY <1>1, <1>5, Products
  <1>9. 1 * c <= held /\ held \in Nat /\ 1 * c = c
    BY <1>1, <1>6, Products
  <1> HIDE DEF most, whole, held
  <1> QED
    BY <1>1, <1>2, <1>4, <1>7, <1>8, <1>9

\* At the end every edge at a node that was come to, within the depth, has been met.
LEMMA AllServed ==
  ASSUME TypeOK, IdsAreUnique, NEW n \in NodeIds, NEW limit \in Nat, NEW way \in Ways, NEW mode,
         NEW s, LoopInv(s, n, limit, way, mode), s.queue = <<>>,
         NEW p \in Arrivals(s.met, n, way), p.depth < limit, p.depth \in Nat,
         NEW e \in AllEdges, Near(e, way) = p.at
  PROVE  \E t \in s.met : t.edge = e /\ t.depth <= p.depth + 1
  <1>1. PICK i \in DOMAIN edges : e = edges[i]
    BY EdgeFacts
  <1>2. Served(s.met, p, way, Len(edges))
    <2>1. ~(p.depth >= limit) /\ ~ \E j \in DOMAIN s.queue : s.queue[j] = p
      OBVIOUS
    <2> QED
      BY <2>1 DEF LoopInv, NothingSkipped
  <1>3. PICK t \in s.met : t.edge.id = e.id /\ t.depth <= p.depth + 1
    BY <1>1, <1>2, EdgeFacts DEF Served
  <1>4. t.edge \in AllEdges
    BY DEF LoopInv, LoopTypeOK, Transition
  <1>5. PICK j \in DOMAIN edges : t.edge = edges[j]
    BY <1>4, EdgeFacts
  <1>6. t.edge = e
    BY <1>1, <1>3, <1>5 DEF IdsAreUnique
  <1> QED
    BY <1>3, <1>6

\* At the end every walk's last edge has been met, not later than the walk came to it.
LEMMA WalksAreMet ==
  ASSUME TypeOK, IdsAreUnique, NEW n \in NodeIds, NEW limit \in Nat, NEW way \in Ways, NEW mode,
         NEW s, LoopInv(s, n, limit, way, mode), s.queue = <<>>
  PROVE  \A k \in 1 .. limit, e \in AllEdges :
           EndsWalk(e, n, k, way) => \E t \in s.met : t.edge = e /\ t.depth <= k
  <1> DEFINE Done(k) == \A e \in AllEdges :
                          EndsWalk(e, n, k, way) => \E t \in s.met : t.edge = e /\ t.depth <= k
             S       == {j \in Nat : j + 1 <= limit => Done(j + 1)}
  <1>1. 0 \in S
    <2> SUFFICES ASSUME 1 <= limit, NEW e \in AllEdges, EndsWalk(e, n, 1, way)
                 PROVE  \E t \in s.met : t.edge = e /\ t.depth <= 1
      OBVIOUS
    <2>1. Near(e, way) = n
      BY DEF EndsWalk
    <2>2. /\ Start(n) \in Arrivals(s.met, n, way) /\ Start(n).at = n /\ Start(n).depth = 0
          /\ Start(n).depth < limit
      BY DEF Arrivals, Start
    <2>3. \E t \in s.met : t.edge = e /\ t.depth <= Start(n).depth + 1
      BY <2>1, <2>2, AllServed
    <2> QED
      BY <2>2, <2>3
  <1>2. ASSUME NEW j \in Nat, j \in S PROVE j + 1 \in S
    <2> SUFFICES ASSUME (j + 1) + 1 <= limit, NEW e \in AllEdges, EndsWalk(e, n, (j + 1) + 1, way)
                 PROVE  \E t \in s.met : t.edge = e /\ t.depth <= (j + 1) + 1
      OBVIOUS
    <2>1. j + 1 \in Nat \ {0} /\ j + 1 <= limit
      OBVIOUS
    <2>2. PICK d \in AllEdges : EndsWalk(d, n, j + 1, way) /\ Far(d, way) = Near(e, way)
      BY <2>1, WalksShrink
    <2>3. PICK t \in s.met : t.edge = d /\ t.depth <= j + 1
      BY <1>2, <2>1, <2>2
    <2>4. t.depth \in Nat
      BY DEF LoopInv, LoopTypeOK, Transition
    <2> DEFINE p == Arrival(t, way)
    <2>5. /\ p \in Arrivals(s.met, n, way) /\ Near(e, way) = p.at /\ p.depth = t.depth
          /\ p.depth < limit /\ p.depth \in Nat
      BY <2>1, <2>2, <2>3, <2>4 DEF Arrivals, Arrival
    <2> HIDE DEF p
    <2>6. PICK u \in s.met : u.edge = e /\ u.depth <= p.depth + 1
      <3>1. \A q \in Arrivals(s.met, n, way) :
              q.depth < limit /\ q.depth \in Nat /\ Near(e, way) = q.at
                => \E u \in s.met : u.edge = e /\ u.depth <= q.depth + 1
        BY AllServed
      <3> QED
        BY <2>5, <3>1
    <2>7. u.depth \in Nat
      BY DEF LoopInv, LoopTypeOK, Transition
    <2> QED
      BY <2>3, <2>4, <2>5, <2>6, <2>7
  <1> HIDE DEF S
  <1>3. Nat \subseteq S
    BY <1>1, <1>2, SetInduction
  <1>4. ASSUME NEW k \in 1 .. limit PROVE Done(k)
    <2>1. k - 1 \in Nat /\ (k - 1) + 1 = k /\ k <= limit
      OBVIOUS
    <2>2. k - 1 \in S
      BY <1>3, <2>1
    <2> QED
      BY <2>1, <2>2 DEF S
  <1> QED
    BY <1>4

\* What was met is what lies within the depth, with its distance.
LEMMA MetIsWithin ==
  ASSUME TypeOK, IdsAreUnique, NEW n \in NodeIds, NEW limit \in Nat, NEW way \in Ways, NEW mode,
         NEW s, LoopInv(s, n, limit, way, mode), s.queue = <<>>
  PROVE  s.met = Within(n, limit, way)
  <1>1. \A t \in s.met : t \in Transition /\ t.depth \in 1 .. limit /\ EndsWalk(t.edge, n, t.depth, way)
    BY DEF LoopInv, LoopTypeOK, MetOnWalks
  <1>2. ASSUME NEW t \in s.met PROVE t \in Within(n, limit, way)
    <2>1. t \in [edge : AllEdges, depth : 1 .. limit] /\ t.edge \in AllEdges
      BY <1>1 DEF Transition
    <2>2. ASSUME NEW k \in 1 .. t.depth - 1, EndsWalk(t.edge, n, k, way) PROVE FALSE
      <3>1. k \in 1 .. limit /\ k < t.depth /\ t.depth \in Nat /\ k \in Nat
        BY <1>1
      <3>2. PICK u \in s.met : u.edge = t.edge /\ u.depth <= k
        BY <2>1, <2>2, <3>1, WalksAreMet
      <3>3. u = t
        BY <3>2 DEF LoopInv, MetOnWalks
      <3> QED
        BY <3>1, <3>2, <3>3
    <2> QED
      BY <1>1, <2>1, <2>2 DEF Within
  <1>3. ASSUME NEW t \in Within(n, limit, way) PROVE t \in s.met
    <2>1. /\ t \in [edge : AllEdges, depth : 1 .. limit] /\ EndsWalk(t.edge, n, t.depth, way)
          /\ \A k \in 1 .. t.depth - 1 : ~EndsWalk(t.edge, n, k, way)
      BY DEF Within
    <2>2. t.edge \in AllEdges /\ t.depth \in 1 .. limit
      BY <2>1
    <2>3. PICK u \in s.met : u.edge = t.edge /\ u.depth <= t.depth
      BY <2>1, <2>2, WalksAreMet
    <2>4. u \in Transition /\ u.depth \in 1 .. limit /\ EndsWalk(t.edge, n, u.depth, way)
      BY <1>1, <2>3
    <2>5. u.depth \notin 1 .. t.depth - 1
      BY <2>1, <2>4
    <2>6. u.depth = t.depth
      BY <2>2, <2>3, <2>4, <2>5
    <2>7. u = t
      BY <2>1, <2>3, <2>4, <2>6 DEF Transition
    <2> QED
      BY <2>7
  <1> QED
    BY <1>2, <1>3

\* A traversal returns what it is asked for.
LEMMA TraversalIsExact ==
  ASSUME TypeOK, NEW n \in NodeIds, NEW limit \in Nat, NEW way \in Ways, NEW mode
  PROVE  Exact(Traversal(n, limit, way, mode), n, limit, way, mode)
  <1> DEFINE s == Traversal(n, limit, way, mode)
  <1>1. LoopInv(s, n, limit, way, mode)
    <2>1. Enough \in Nat
      BY EdgeFacts, Products DEF Enough
    <2> QED
      BY <2>1, StatesHold DEF Traversal
  <1>2. s.queue = <<>>
    BY TraversalEnds
  <1> HIDE DEF s
  <1>3. \A t : t \in Range(s.found) <=> t \in s.met /\ Matches(mode, Far(t.edge, way))
    <2>1. \A t : t \in Range(s.found) <=> \E i \in DOMAIN s.found : s.found[i] = t
      BY DEF Range
    <2> QED
      BY <1>1, <2>1 DEF LoopInv, FoundAsAsked
  <1>4. \A t \in Range(s.found) : EndsWalk(t.edge, n, t.depth, way) /\ Matches(mode, Far(t.edge, way))
    BY <1>1, <1>3 DEF LoopInv, MetOnWalks
  <1>5. /\ \A i, j \in DOMAIN s.found : i < j => s.found[i].depth <= s.found[j].depth
        /\ IsInjective(s.found)
    BY <1>1 DEF LoopInv, InOrder, IsInjective
  <1>6. ASSUME IdsAreUnique
        PROVE  Range(s.found) = {t \in Within(n, limit, way) : Matches(mode, Far(t.edge, way))}
    <2>1. s.met = Within(n, limit, way)
      BY <1>1, <1>2, <1>6, MetIsWithin
    <2> QED
      BY <1>3, <2>1
  <1> QED
    BY <1>2, <1>4, <1>5, <1>6 DEF Exact, s

\* In every graph with these types a traversal, of either way and whatever its mode, is exact.
THEOREM TraversalsOfAnyGraph == TypeOK => TraversalsAreExact
  <1> SUFFICES ASSUME TypeOK, NEW n \in NodeIds, NEW limit \in 0 .. MaxDepth
               PROVE  /\ Exact(Ancestry(n, limit), n, limit, "ancestry", "all")
                      /\ \A mode \in Modes :
                           Exact(Descendants(n, limit, mode), n, limit, "descendants", mode)
    BY DEF TraversalsAreExact
  <1>1. limit \in Nat /\ "ancestry" \in Ways /\ "descendants" \in Ways
    BY MaxDepthAssumption DEF Ways
  <1> QED
    BY <1>1, TraversalIsExact DEF Ancestry, Descendants

\* The traversals are exact in every state of the graph.
THEOREM TraversalsAlwaysExact == Spec => []TraversalsAreExact
  BY TypeCorrect, TraversalsOfAnyGraph, PTL

-----------------------------------------------------------------------------
(* What an empty frontier means *)

\* Each call makes a root, a node, or nothing.
LEMMA NodesStayFinite ==
  ASSUME IInv, [Next]_vars, IsFiniteSet(Present(node))
  PROVE  IsFiniteSet(Present(node'))
  <1>1. ASSUME NEW ready \in ReadyRows PROVE IsFiniteSet(Present(ready))
    <2>1. CASE ready = node
      BY <2>1
    <2>2. CASE ready # node
      <3>1. PICK r \in FreeIds(node) : ready = [node EXCEPT ![r] = Row(RootPayload, clock + 1)]
        BY <2>2 DEF ReadyRows, RowsWithRoot
      <3>2. ready \in [NodeIds -> {ready[m] : m \in NodeIds}] /\ \A m \in NodeIds : m # r => ready[m] = node[m]
        BY <3>1 DEF IInv, TypeOK
      <3>3. Present(ready) \subseteq Present(node) \cup {r}
        BY <3>2 DEF Present
      <3> QED
        BY <3>3, FS_AddElement, FS_Subset
    <2> QED
      BY <2>1, <2>2
  <1>2. CASE ReadOrRefused
    BY <1>1, <1>2 DEF ReadOrRefused
  <1>3. CASE AdvanceNew
    <2>1. PICK ready \in ReadyRows, target \in NodeIds :
            \E row : node' = [ready EXCEPT ![target] = row]
      BY <1>3 DEF AdvanceNew, FreeIds
    <2>2. ready \in [NodeIds -> Node]
      BY ReadyIsSound DEF SoundRows
    <2>3. \A m \in NodeIds : m # target => node'[m] = ready[m]
      BY <2>1, <2>2
    <2>4. Present(node') \subseteq Present(ready) \cup {target}
      BY <2>3 DEF Present
    <2> QED
      BY <1>1, <2>4, FS_AddElement, FS_Subset
  <1>4. CASE AdvanceExisting
    BY <1>1, <1>4 DEF AdvanceExisting
  <1>5. CASE UNCHANGED vars
    BY <1>5 DEF vars
  <1> QED
    BY <1>2, <1>3, <1>4, <1>5 DEF Next

\* What a walk ends with lies within its length, at the distance of the shortest.
LEMMA WalksAreWithin ==
  ASSUME NEW n, NEW way, NEW e \in AllEdges, NEW limit \in Nat, NEW k \in 1 .. limit,
         EndsWalk(e, n, k, way)
  PROVE  \E t \in Within(n, limit, way) : t.edge = e
  <1> DEFINE K == {j \in Nat \ {0} : EndsWalk(e, n, j, way)}
  <1>1. K \subseteq Nat /\ K # {} /\ k \in K
    OBVIOUS
  <1> HIDE DEF K
  <1>2. PICK d \in K : \A j \in K : d <= j
    BY <1>1, LeastElement
  <1>3. d \in Nat \ {0} /\ d <= k /\ EndsWalk(e, n, d, way)
    BY <1>1, <1>2 DEF K
  <1>4. \A j \in 1 .. d - 1 : ~EndsWalk(e, n, j, way)
    BY <1>2, <1>3 DEF K
  <1> DEFINE t == [edge |-> e, depth |-> d]
  <1>5. t \in [edge : AllEdges, depth : 1 .. limit] /\ t.edge = e /\ t.depth = d
    BY <1>3
  <1> HIDE DEF t
  <1>6. t \in Within(n, limit, way)
    BY <1>3, <1>4, <1>5 DEF Within
  <1> QED
    BY <1>5, <1>6

\* What an edge within so many steps as there are nodes leads to is below.
LEMMA WalksLeadBelow ==
  ASSUME NEW n, NEW e \in AllEdges, Cardinality(Present(node)) \in Nat,
         NEW k \in 1 .. Cardinality(Present(node)), EndsWalk(e, n, k, "descendants")
  PROVE  e.to \in Below(n)
  <1>1. \E t \in Within(n, Cardinality(Present(node)), "descendants") : t.edge = e
    BY WalksAreWithin
  <1> QED
    BY <1>1 DEF Below

\* A piece of a walk is a walk from where it begins.
LEMMA WalkPiece ==
  ASSUME NEW n, NEW way, NEW m \in Nat, NEW w \in [1 .. m -> AllEdges], Near(w[1], way) = n,
         \A i \in 1 .. m - 1 : Far(w[i], way) = Near(w[i + 1], way),
         NEW i \in 0 .. m, NEW j \in 0 .. m, i < j
  PROVE  EndsWalk(w[j], IF i = 0 THEN n ELSE Far(w[i], way), j - i, way)
  <1> DEFINE u == [k \in 1 .. j - i |-> w[i + k]]
             a == IF i = 0 THEN n ELSE Far(w[i], way)
  <1>1. \A k \in 1 .. j - i : i + k \in 1 .. m
    OBVIOUS
  <1>2. u \in [1 .. j - i -> AllEdges] /\ \A k \in 1 .. j - i : u[k] = w[i + k]
    BY <1>1
  <1>3. 1 \in 1 .. j - i /\ j - i \in 1 .. j - i /\ i + (j - i) = j /\ 0 + 1 = 1
    OBVIOUS
  <1>4. Near(w[i + 1], way) = a
    <2>1. CASE i = 0
      BY <1>3, <2>1
    <2>2. CASE i # 0
      <3>1. i \in 1 .. m - 1
        BY <2>2
      <3> QED
        BY <2>2, <3>1
    <2> QED
      BY <2>1, <2>2
  <1> HIDE DEF u, a
  <1>5. Near(u[1], way) = a /\ u[j - i] = w[j]
    BY <1>2, <1>3, <1>4
  <1>6. ASSUME NEW k \in 1 .. (j - i) - 1 PROVE Far(u[k], way) = Near(u[k + 1], way)
    <2>1. /\ k \in 1 .. j - i /\ k + 1 \in 1 .. j - i /\ i + k \in 1 .. m - 1
          /\ i + (k + 1) = (i + k) + 1
      OBVIOUS
    <2> QED
      BY <1>2, <2>1
  <1>7. EndsWalk(w[j], a, j - i, way)
    BY <1>2, <1>5, <1>6 DEF EndsWalk
  <1> QED
    BY <1>7 DEF a

\* A walk through as many edges as there are nodes comes to some node twice.
LEMMA LongWalksCircle ==
  ASSUME TypeOK, EdgesFitTargets, IsFiniteSet(Present(node)), NEW n \in Present(node), NEW e,
         EndsWalk(e, n, Cardinality(Present(node)), "descendants")
  PROVE  \E m \in {n} \cup Below(n) : m \in Below(m)
  <1> DEFINE size == Cardinality(Present(node))
             way  == "descendants"
  <1>1. size \in Nat
    BY FS_CardinalityType
  <1>2. PICK w \in [1 .. size -> AllEdges] :
          /\ Near(w[1], way) = n
          /\ \A i \in 1 .. size - 1 : Far(w[i], way) = Near(w[i + 1], way)
    BY DEF EndsWalk
  <1> DEFINE at == [i \in 0 .. size |-> IF i = 0 THEN n ELSE Far(w[i], way)]
  <1>3. \A d \in AllEdges : Far(d, way) = d.to /\ d.to \in Present(node)
    BY DEF Far, AllEdges, EdgesFitTargets
  <1>4. \A i \in 1 .. size : w[i] \in AllEdges
    OBVIOUS
  <1>5. at \in [0 .. size -> Present(node)]
    <2>1. \A i \in 0 .. size : i # 0 => i \in 1 .. size
      BY <1>1
    <2> QED
      BY <1>3, <1>4, <2>1
  <1> HIDE DEF at
  <1>6. IsFiniteSet(0 .. size) /\ Cardinality(0 .. size) = size + 1
    <2>1. 0 \in Int /\ size \in Int /\ ~(0 > size)
      BY <1>1
    <2> HIDE DEF size
    <2>2. IsFiniteSet(0 .. size) /\ Cardinality(0 .. size) = size - 0 + 1
      BY <2>1, FS_Interval
    <2> QED
      BY <1>1, <2>2
  <1>7. Cardinality(Present(node)) < Cardinality(0 .. size)
    BY <1>1, <1>6
  <1>8. \E i, j \in 0 .. size : i # j /\ at[i] = at[j]
    BY <1>5, <1>6, <1>7, FS_PigeonHole
  <1>9. PICK i, j \in 0 .. size : i < j /\ at[i] = at[j]
    <2>1. PICK i, j \in 0 .. size : i # j /\ at[i] = at[j]
      BY <1>8
    <2>2. i < j \/ j < i
      BY <1>1, <2>1
    <2> QED
      BY <2>1, <2>2
  <1> DEFINE m == at[i]
  <1>10. i \in Nat /\ j \in Nat /\ j \in 1 .. size /\ j - i \in 1 .. size
    BY <1>1, <1>9
  <1>11. at[i] = (IF i = 0 THEN n ELSE Far(w[i], way)) /\ at[j] = Far(w[j], way)
    BY <1>10 DEF at
  <1>12. m \in Below(m)
    <2>1. EndsWalk(w[j], m, j - i, way)
      BY <1>1, <1>2, <1>9, <1>11, WalkPiece
    <2>2. w[j] \in AllEdges /\ w[j].to = m
      BY <1>3, <1>4, <1>9, <1>10, <1>11
    <2> HIDE DEF m
    <2> QED
      BY <1>1, <1>10, <2>1, <2>2, WalksLeadBelow
  <1>13. m \in {n} \cup Below(n)
    <2>1. CASE i = 0
      BY <1>11, <2>1
    <2>2. CASE i # 0
      <3>1. i \in 1 .. size /\ 0 \in 0 .. size /\ 0 < i /\ i - 0 = i
        BY <1>1, <1>10, <2>2
      <3>2. EndsWalk(w[i], n, i, way)
        <4>1. EndsWalk(w[i], IF 0 = 0 THEN n ELSE Far(w[0], way), i - 0, way)
          BY <1>1, <1>2, <3>1, WalkPiece
        <4> QED
          BY <3>1, <4>1
      <3>3. w[i] \in AllEdges /\ w[i].to = m
        BY <1>3, <1>4, <1>11, <3>1
      <3> HIDE DEF m
      <3> QED
        BY <1>1, <3>1, <3>2, <3>3, WalksLeadBelow
    <2> QED
      BY <2>1, <2>2
  <1> QED
    BY <1>12, <1>13

\* Where every node on the way has been left, the walks never end.
LEMMA WalksGoOn ==
  ASSUME TypeOK, Cardinality(Present(node)) \in Nat, NEW n \in NodeIds,
         {n} \cup Below(n) \subseteq Left
  PROVE  \A k \in 1 .. Cardinality(Present(node)) :
           \E e \in AllEdges : EndsWalk(e, n, k, "descendants")
  <1> DEFINE size == Cardinality(Present(node))
             S == {j \in Nat : j + 1 <= size => \E e \in AllEdges : EndsWalk(e, n, j + 1, "descendants")}
  <1>1. \A m \in Left : \E e \in AllEdges : Near(e, "descendants") = m
    BY DEF Left, AllEdges, Near
  <1>2. 0 \in S
    <2>1. PICK e \in AllEdges : Near(e, "descendants") = n
      BY <1>1
    <2>2. EndsWalk(e, n, 1, "descendants")
      BY <2>1, WalksGrow
    <2> QED
      BY <2>2
  <1>3. ASSUME NEW j \in Nat, j \in S PROVE j + 1 \in S
    <2> SUFFICES ASSUME (j + 1) + 1 <= size
                 PROVE  \E e \in AllEdges : EndsWalk(e, n, (j + 1) + 1, "descendants")
      OBVIOUS
    <2>1. j + 1 \in 1 .. size /\ j + 1 \in Nat \ {0} /\ j + 1 <= size
      OBVIOUS
    <2>2. PICK d \in AllEdges : EndsWalk(d, n, j + 1, "descendants")
      BY <1>3, <2>1
    <2>3. d.to \in Below(n)
      BY <2>1, <2>2, WalksLeadBelow
    <2>4. PICK e \in AllEdges : Near(e, "descendants") = d.to
      BY <1>1, <2>3
    <2>5. Far(d, "descendants") = Near(e, "descendants")
      BY <2>4 DEF Far
    <2>6. EndsWalk(e, n, (j + 1) + 1, "descendants")
      BY <2>1, <2>2, <2>5, WalksGrow
    <2> QED
      BY <2>6
  <1> HIDE DEF S
  <1>4. Nat \subseteq S
    BY <1>2, <1>3, SetInduction
  <1>5. ASSUME NEW k \in 1 .. size PROVE \E e \in AllEdges : EndsWalk(e, n, k, "descendants")
    <2>1. k - 1 \in Nat /\ (k - 1) + 1 = k /\ k <= size
      OBVIOUS
    <2> QED
      BY <1>4, <2>1 DEF S
  <1> QED
    BY <1>5

\* Work that is neither left nor closed would be on the frontier, so all the ways on from an open
\* node either come to a closed one or go on until they circle.
LEMMA EmptyFrontier ==
  ASSUME TypeOK, EdgesFitTargets, IsFiniteSet(Present(node))
  PROVE  EmptyFrontierIsExplained
  <1> SUFFICES ASSUME Frontier = {}, NEW n \in Present(node),
                      \A m \in {n} \cup Below(n) : m \in Left \/ ~Closed(node[m])
               PROVE  \E m \in {n} \cup Below(n) : m \in Below(m)
    BY DEF EmptyFrontierIsExplained
  <1> DEFINE size == Cardinality(Present(node))
  <1>1. \A t : t \in Within(n, size, "descendants") => t.edge \in AllEdges
    BY DEF Within
  <1>2. {n} \cup Below(n) \subseteq Present(node)
    BY <1>1 DEF Below, AllEdges, EdgesFitTargets
  <1>3. {n} \cup Below(n) \subseteq Left
    BY <1>2 DEF Frontier
  <1>4. size \in Nat /\ size # 0
    BY FS_CardinalityType, FS_EmptySet
  <1>5. size \in 1 .. size
    BY <1>4
  <1>6. n \in NodeIds
    BY DEF Present
  <1>7. \E e \in AllEdges : EndsWalk(e, n, size, "descendants")
    BY <1>3, <1>4, <1>5, <1>6, WalksGoOn
  <1> QED
    BY <1>7, LongWalksCircle

\* When no work is offered, none is left over but what goes in circles.
THEOREM EmptyFrontiersExplained == Spec => []EmptyFrontierIsExplained
  <1> DEFINE Finite == IsFiniteSet(Present(node))
  <1>1. Init => Finite
    <2> SUFFICES ASSUME Init PROVE Finite
      OBVIOUS
    <2>1. Present(node) = {}
      BY DEF Init, Present, NoRow
    <2> QED
      BY <2>1, FS_EmptySet
  <1>2. IInv /\ Finite /\ [Next]_vars => Finite'
    BY NodesStayFinite
  <1>3. IInv /\ Finite => EmptyFrontierIsExplained
    BY EmptyFrontier DEF IInv
  <1> QED
    BY <1>1, <1>2, <1>3, Invariant, PTL DEF Spec

-----------------------------------------------------------------------------
(* What an agent learns from an ancestry *)

\* Where work may have started.
Origins == Roots(node) \cup stranded

\* Asked for a depth of as many steps as there were nodes made, get_ancestry leads back to a root,
\* or to a node that a refused edge left alone, through all the cycles there are.  (With a reused
\* edge id it may miss the edge.)
AncestryReachesAnOrigin ==
  IdsAreUnique =>
    \A n \in Present(node) \ Origins :
      \E t \in Range(Ancestry(n, clock).found) : t.edge.from \in Origins

\* A walk with one more edge before it.
LEMMA WalksBeginEarlier ==
  ASSUME NEW n, NEW way, NEW e \in AllEdges, Near(e, way) = n,
         NEW k \in Nat \ {0}, NEW d, EndsWalk(d, Far(e, way), k, way)
  PROVE  EndsWalk(d, n, k + 1, way)
  <1>1. PICK w \in [1 .. k -> AllEdges] :
          /\ Near(w[1], way) = Far(e, way)
          /\ w[k] = d
          /\ \A i \in 1 .. k - 1 : Far(w[i], way) = Near(w[i + 1], way)
    BY DEF EndsWalk
  <1> DEFINE v == [i \in 1 .. k + 1 |-> IF i = 1 THEN e ELSE w[i - 1]]
  <1>2. \A i \in 1 .. k + 1 : i # 1 => i - 1 \in 1 .. k
    OBVIOUS
  <1>3. v \in [1 .. k + 1 -> AllEdges] /\ v[1] = e /\ \A i \in 1 .. k + 1 : i # 1 => v[i] = w[i - 1]
    BY <1>2
  <1> HIDE DEF v
  <1>4. v[k + 1] = d
    <2>1. k + 1 \in 1 .. k + 1 /\ k + 1 # 1 /\ (k + 1) - 1 = k
      OBVIOUS
    <2> QED
      BY <1>1, <1>3, <2>1
  <1>5. ASSUME NEW i \in 1 .. (k + 1) - 1 PROVE Far(v[i], way) = Near(v[i + 1], way)
    <2>1. i + 1 \in 1 .. k + 1 /\ i + 1 # 1 /\ (i + 1) - 1 = i /\ i \in 1 .. k + 1
      OBVIOUS
    <2>2. v[i + 1] = w[i]
      BY <1>3, <2>1
    <2>3. CASE i = 1
      BY <1>1, <1>3, <2>2, <2>3
    <2>4. CASE i # 1
      <3>1. i - 1 \in 1 .. k - 1 /\ (i - 1) + 1 = i
        BY <2>4
      <3>2. v[i] = w[i - 1]
        BY <1>3, <2>1, <2>4
      <3> QED
        BY <1>1, <2>2, <3>1, <3>2
    <2> QED
      BY <2>3, <2>4
  <1> QED
    BY <1>3, <1>4, <1>5 DEF EndsWalk

\* Following the edges to older nodes ends in an origin, after fewer steps than the node is old.
LEMMA OriginsAreOnWalks ==
  ASSUME IInv
  PROVE  \A n \in Present(node) \ Origins :
           \E k \in 1 .. clock, d \in AllEdges : EndsWalk(d, n, k, "ancestry") /\ d.from \in Origins
  <1> DEFINE Led(n, b) == \E k \in 1 .. b, d \in AllEdges :
                            EndsWalk(d, n, k, "ancestry") /\ d.from \in Origins
             S == {b \in Nat : \A n \in Present(node) \ Origins : node[n].born <= b => Led(n, b)}
  <1>1. \A n \in Present(node) : node[n].born \in 1 .. clock /\ clock \in Nat
    BY DEF IInv, SoundRows
  <1>2. 0 \in S
    BY <1>1
  <1>3. ASSUME NEW b \in Nat, b \in S PROVE b + 1 \in S
    <2> SUFFICES ASSUME NEW n \in Present(node) \ Origins, node[n].born <= b + 1
                 PROVE  Led(n, b + 1)
      OBVIOUS
    <2>1. PICK i \in DOMAIN edges : edges[i].to = n /\ node[edges[i].from].born < node[n].born
      BY DEF IInv, EveryNodeHasAnOrigin, Origins
    <2> DEFINE e == edges[i]
    <2>2. /\ e \in AllEdges /\ e.from \in Present(node)
          /\ Near(e, "ancestry") = n /\ Far(e, "ancestry") = e.from
      BY <2>1 DEF AllEdges, IInv, EdgesFitTargets, Near, Far
    <2>3. node[e.from].born < node[n].born
      BY <2>1
    <2> HIDE DEF e
    <2>4. CASE e.from \in Origins
      <3>1. EndsWalk(e, n, 1, "ancestry") /\ 1 \in 1 .. b + 1
        BY <2>2, WalksGrow
      <3> QED
        BY <2>2, <2>4, <3>1
    <2>5. CASE e.from \notin Origins
      <3>1. node[e.from].born <= b
        BY <1>1, <2>2, <2>3
      <3>2. PICK k \in 1 .. b, d \in AllEdges : EndsWalk(d, e.from, k, "ancestry") /\ d.from \in Origins
        BY <1>3, <2>2, <2>5, <3>1
      <3>3. k \in Nat \ {0} /\ k + 1 \in 1 .. b + 1
        OBVIOUS
      <3>4. EndsWalk(d, n, k + 1, "ancestry")
        BY <2>2, <3>2, <3>3, WalksBeginEarlier
      <3> QED
        BY <3>2, <3>3, <3>4
    <2> QED
      BY <2>4, <2>5
  <1> HIDE DEF S
  <1>4. Nat \subseteq S
    BY <1>2, <1>3, SetInduction
  <1>5. ASSUME NEW n \in Present(node) \ Origins PROVE Led(n, clock)
    BY <1>1, <1>4 DEF S
  <1> QED
    BY <1>5

\* An agent that asks for enough of the ancestry sees where the work came from.
THEOREM AncestriesReachOrigins == Spec => []AncestryReachesAnOrigin
  <1>1. IInv => AncestryReachesAnOrigin
    <2> SUFFICES ASSUME IInv, IdsAreUnique, NEW n \in Present(node) \ Origins
                 PROVE  \E t \in Range(Ancestry(n, clock).found) : t.edge.from \in Origins
      BY DEF AncestryReachesAnOrigin
    <2>1. TypeOK /\ clock \in Nat /\ n \in NodeIds /\ "ancestry" \in Ways
      BY DEF IInv, TypeOK, Present, Ways
    <2>2. PICK k \in 1 .. clock, d \in AllEdges :
            EndsWalk(d, n, k, "ancestry") /\ d.from \in Origins
      BY OriginsAreOnWalks
    <2>3. PICK t \in Within(n, clock, "ancestry") : t.edge = d
      BY <2>1, <2>2, WalksAreWithin
    <2> DEFINE s == Traversal(n, clock, "ancestry", "all")
    <2>4. Exact(s, n, clock, "ancestry", "all")
      BY <2>1, TraversalIsExact
    <2> HIDE DEF s
    <2>5. Matches("all", Far(t.edge, "ancestry"))
      BY DEF Matches
    <2>6. t \in Range(s.found)
      BY <2>3, <2>4, <2>5 DEF Exact
    <2> QED
      BY <2>2, <2>3, <2>6 DEF Ancestry, s
  <1> QED
    BY <1>1, Invariant, PTL
=============================================================================
