------------------------- MODULE SkillMemoryProofs -------------------------
(***************************************************************************)
(* Proofs about SkillMemory, for any number of parallel calls, any batches *)
(* and any budget: types, what the audit holds, what becomes of the rows,  *)
(* that the budget bounds the calls, and how often a call can still wait.  *)
(*                                                                         *)
(* The strengthening says what a suspended call knows: the changes it has  *)
(* made (MutationsAreChanges), and that its copy of the rows is out of     *)
(* date only where it was overtaken (CopiesAreFresh).                      *)
(***************************************************************************)
EXTENDS SkillMemory, FiniteSetTheorems, SequenceTheorems, TLAPS

\* A call that stores has an entry to store.
TodoIsLeft == \A c \in Calls : at[c] = "embedding" /\ tool[c] # "search" => todo[c] # <<>>

ChangesOf(c) == {ch \in changes : ch.by = c}

\* What a call will return are the changes it has made, none before it begins.
MutationsAreChanges ==
  /\ \A ch \in changes : ch.by \in Calls
  /\ mutations = [c \in Calls |-> ChangesOf(c)]
  /\ \A c \in Calls : at[c] = "idle" \/ (at[c] = "embedding" /\ tool[c] = "search") =>
                        mutations[c] = {}

\* Where nobody has changed a row since it was read, the copy is right.
CopiesAreFresh ==
  /\ \A c \in Calls : at[c] = "embedding" => \A i \in Ids \ overtaken[c] : copy[c][i] = rows[i]
  /\ \A c \in Calls : at[c] = "idle" => overtaken[c] = {}

\* Every call that was let through is counted once.
CallsAreCounted == used = Cardinality(AdmittedCalls)

IInv ==
  /\ TypeOK
  /\ TodoIsLeft
  /\ MutationsAreChanges
  /\ AuditIsOfReturnedCalls
  /\ CopiesAreFresh
  /\ UpdatesAddUp
  /\ CallsAreCounted

-----------------------------------------------------------------------------

\* Nothing has been called.
LEMMA InitInvariant == Init => IInv
  <1> SUFFICES ASSUME Init PROVE IInv
    OBVIOUS
  <1>1. Absent \in Row /\ [Absent EXCEPT !.status = "active"] \in Row
    BY DEF Absent, Row, Statuses, Authors
  <1>2. rows \in [Ids -> Row] /\ intended \in [Ids -> Row]
    BY <1>1 DEF Init
  <1>3. todo \in [Calls -> Seq(Entry)] /\ copy \in [Calls -> [Ids -> Row]] /\ used \in 0 .. Budget
    BY <1>1, SkillMemoryAssumption DEF Init
  <1>4. TypeOK
    BY <1>2, <1>3 DEF Init, TypeOK, Ended, Tools
  <1>5. TodoIsLeft /\ MutationsAreChanges /\ AuditIsOfReturnedCalls /\ CopiesAreFresh /\ UpdatesAddUp
    BY DEF Init, TodoIsLeft, MutationsAreChanges, ChangesOf, AuditIsOfReturnedCalls, CopiesAreFresh,
           UpdatesAddUp
  <1>6. AdmittedCalls = {}
    BY DEF Init, AdmittedCalls
  <1>7. CallsAreCounted
    BY <1>6, FS_EmptySet DEF Init, CallsAreCounted
  <1> QED
    BY <1>4, <1>5, <1>7 DEF IInv

\* The first entry of a batch, and what storing it leaves.
LEMMA BatchFacts ==
  ASSUME NEW batch \in Seq(Entry), batch # <<>>
  PROVE  /\ Head(batch) \in Entry /\ Head(batch).id \in Ids
         /\ Tail(batch) \in Seq(Entry)
         /\ Len(batch) > 1 => Tail(batch) # <<>>
  <1>1. Head(batch) \in Entry /\ Tail(batch) \in Seq(Entry) /\ Len(Tail(batch)) = Len(batch) - 1
    BY HeadTailProperties
  <1>2. \A rest \in Seq(Entry) : Len(rest) > 0 => rest # <<>>
    OBVIOUS
  <1> DEFINE rest == Tail(batch)
  <1> HIDE DEF rest
  <1>3. rest \in Seq(Entry) /\ Len(rest) = Len(batch) - 1 /\ Len(batch) \in Nat
    BY <1>1 DEF rest
  <1>4. Len(batch) > 1 => rest # <<>>
    BY <1>2, <1>3
  <1> QED
    BY <1>1, <1>4 DEF Entry, rest

\* What an update or a write stores is a row.
LEMMA StoredRows ==
  ASSUME NEW c \in Calls, NEW entry \in Entry, NEW row \in Row
  PROVE  /\ Merged(row, c, entry) \in Row
         /\ Patched(row, c, entry) = Merged(row, c, entry)
         /\ New(c, entry) \in Row
         /\ GivenUp(row) \in Row
  <1>1. Merged(row, c, entry) \in Row
    BY DEF Merged, Row, Entry, Statuses, Authors
  <1>2. New(c, entry) \in Row /\ GivenUp(row) \in Row
    BY DEF New, GivenUp, Row, Entry, Statuses, Authors
  <1>3. Patched(row, c, entry) = Merged(row, c, entry)
    BY DEF Patched, Merged, Entry, Fields, Row
  <1> QED
    BY <1>1, <1>2, <1>3

-----------------------------------------------------------------------------
(* What the actions have in common *)

Stores(c) == WriteOne(c) \/ UpdateOne(c)

\* Only one call moves, and never back: from idle to an embedding or an end, or from an embedding.
LEMMA OneCallMoves ==
  ASSUME IInv, NEW c \in Calls, Begin(c) \/ Resume(c)
  PROVE  /\ at' \in [Calls -> Ended \cup {"idle", "embedding"}]
         /\ tool' \in [Calls -> Tools \cup {"none"}]
         /\ \A d \in Calls : d # c => at'[d] = at[d] /\ tool'[d] = tool[d]
         /\ at[c] \in {"idle", "embedding"} /\ at'[c] # "idle"
         /\ at[c] = "embedding" => tool'[c] = tool[c]
         /\ (at[c] = "idle" /\ at'[c] # "blocked") => Reserve
         /\ (at[c] = "embedding" \/ at'[c] = "blocked") => UNCHANGED used
         /\ at[c] = "embedding" => at'[c] # "blocked"
  <1> USE DEF IInv, TypeOK, Ended, Tools
  <1>1. CASE Begin(c)
    <2>1. CASE Blocked(c)
      BY <2>1 DEF Blocked, Begins
    <2>6. CASE EndsAtOnce(c)
      <3>1. /\ at[c] = "idle" /\ Reserve
            /\ \E name \in Tools : tool' = [tool EXCEPT ![c] = name]
            /\ \E end \in {"returned", "raised"} : at' = [at EXCEPT ![c] = end]
        BY <2>6 DEF EndsAtOnce, Begins, Returns, Raises
      <3> QED
        BY <3>1
    <2>2. CASE BeginSearch(c)
      BY <2>2 DEF BeginSearch, Begins
    <2>3. ASSUME NEW batch, BeginBatch(c, "write", batch) \/ BeginBatch(c, "update", batch)
          PROVE  /\ at[c] = "idle" /\ at' = [at EXCEPT ![c] = "embedding"] /\ Reserve
                 /\ tool' = [tool EXCEPT ![c] = "write"] \/ tool' = [tool EXCEPT ![c] = "update"]
      BY <2>3 DEF BeginBatch, Begins
    <2>4. CASE \E batch : BeginBatch(c, "write", batch) \/ BeginBatch(c, "update", batch)
      BY <2>3, <2>4
    <2>5. CASE \E ids \in SUBSET Ids : Deprecate(c, ids)
      BY <2>5 DEF Deprecate, Begins, Returns, Raises
    <2> QED
      BY <1>1, <2>1, <2>2, <2>4, <2>5, <2>6 DEF Begin
  <1>2. CASE Resume(c)
    BY <1>2 DEF Resume, WriteOne, UpdateOne, StoreRaises, SearchEnds, Cancelled, Stored, Returns, Raises
  <1> QED
    BY <1>1, <1>2

\* The count of the calls.
LEMMA CountStep ==
  ASSUME IInv, NEW c \in Calls, Begin(c) \/ Resume(c)
  PROVE  CallsAreCounted' /\ used' \in 0 .. Budget
  <1>1. IsFiniteSet(AdmittedCalls)
    BY SkillMemoryAssumption, FS_Subset DEF AdmittedCalls
  <1>2. used \in 0 .. Budget /\ used = Cardinality(AdmittedCalls) /\ Budget \in Nat
    BY SkillMemoryAssumption DEF IInv, TypeOK, CallsAreCounted
  <1>3. CASE at[c] = "embedding" \/ at'[c] = "blocked"
    <2>1. AdmittedCalls' = AdmittedCalls
      BY <1>3, OneCallMoves DEF AdmittedCalls
    <2> QED
      BY <1>2, <1>3, <2>1, OneCallMoves DEF CallsAreCounted
  <1>4. CASE at[c] = "idle" /\ at'[c] # "blocked"
    <2>1. AdmittedCalls' = AdmittedCalls \cup {c} /\ c \notin AdmittedCalls
      BY <1>4, OneCallMoves DEF AdmittedCalls
    <2>2. used < Budget /\ used' = used + 1
      BY <1>4, OneCallMoves DEF Reserve
    <2> QED
      BY <1>1, <1>2, <2>1, <2>2, FS_AddElement DEF CallsAreCounted
  <1> QED
    BY <1>3, <1>4, OneCallMoves

\* A call that stores one change and goes on, ends or raises.
LEMMA StoredFacts ==
  ASSUME IInv, NEW c \in Calls, NEW change, change.by = c, at[c] = "embedding", tool[c] # "search",
         changes' = changes \cup {change}, Stored(c, change)
  PROVE  /\ todo' \in [Calls -> Seq(Entry)]
         /\ \A d \in Calls : d # c => todo'[d] = todo[d] /\ mutations'[d] = mutations[d]
         /\ at'[c] = "embedding" => todo'[c] # <<>>
         /\ mutations'[c] = mutations[c] \cup {change}
         /\ audit' = IF at'[c] = "returned" THEN audit \cup mutations'[c] ELSE audit
  <1>1. todo[c] \in Seq(Entry) /\ todo[c] # <<>>
    BY DEF IInv, TypeOK, TodoIsLeft
  <1>2. Tail(todo[c]) \in Seq(Entry) /\ (Len(todo[c]) > 1 => Tail(todo[c]) # <<>>)
    BY <1>1, BatchFacts
  <1>3. todo' = [todo EXCEPT ![c] = Tail(todo[c])] /\ mutations' = [mutations EXCEPT ![c] = mutations[c] \cup {change}]
    BY DEF Stored
  <1>4. /\ todo' \in [Calls -> Seq(Entry)]
        /\ \A d \in Calls : d # c => todo'[d] = todo[d] /\ mutations'[d] = mutations[d]
        /\ todo'[c] = Tail(todo[c])
        /\ mutations'[c] = mutations[c] \cup {change}
    BY <1>2, <1>3 DEF IInv, TypeOK, MutationsAreChanges
  <1>5. CASE Returns(c, mutations'[c])
    BY <1>4, <1>5 DEF Returns, IInv, TypeOK
  <1>6. CASE Raises(c)
    BY <1>4, <1>6 DEF Raises, IInv, TypeOK
  <1>7. CASE Len(todo[c]) > 1 /\ UNCHANGED <<at, audit>>
    BY <1>2, <1>4, <1>7
  <1> QED
    BY <1>5, <1>6, <1>7 DEF Stored

-----------------------------------------------------------------------------
(* What one step of a call keeps of the invariant *)

\* A call that changes the table has stored one row, or given up several.
LEMMA TypesStep ==
  ASSUME IInv, NEW c \in Calls, Begin(c) \/ Resume(c)
  PROVE  TypeOK' /\ TodoIsLeft'
  <1> USE DEF IInv
  <1>0. /\ at' \in [Calls -> Ended \cup {"idle", "embedding"}]
        /\ tool' \in [Calls -> Tools \cup {"none"}]
        /\ used' \in 0 .. Budget
        /\ \A d \in Calls : d # c => at'[d] = at[d] /\ tool'[d] = tool[d]
        /\ at[c] = "embedding" => tool'[c] = tool[c]
    BY OneCallMoves, CountStep
  <1>1. CASE Blocked(c) \/ EndsAtOnce(c) \/ StoreRaises(c) \/ SearchEnds(c) \/ Cancelled(c)
    <2>1. UNCHANGED <<rows, todo, copy, history>>
      BY <1>1 DEF Blocked, EndsAtOnce, StoreRaises, SearchEnds, Cancelled
    <2>2. at'[c] # "embedding"
      BY <1>1 DEF Blocked, EndsAtOnce, StoreRaises, SearchEnds, Cancelled, Returns, Raises, TypeOK
    <2> QED
      BY <1>0, <2>1, <2>2 DEF TypeOK, TodoIsLeft, history
  <1>2. CASE BeginSearch(c)
    BY <1>0, <1>2 DEF BeginSearch, Begins, TypeOK, TodoIsLeft, history
  <1>3. ASSUME NEW name \in {"write", "update"}, NEW batch \in Writes \cup Updates,
               BeginBatch(c, name, batch)
        PROVE  TypeOK' /\ TodoIsLeft'
    <2>1. batch \in Seq(Entry) /\ batch # <<>>
      BY SkillMemoryAssumption DEF Batches
    <2>2. todo' \in [Calls -> Seq(Entry)] /\ todo'[c] = batch /\ \A d \in Calls : d # c => todo'[d] = todo[d]
      BY <1>3, <2>1 DEF BeginBatch, TypeOK
    <2>3. copy' \in [Calls -> [Ids -> Row]] /\ UNCHANGED <<rows, history>>
      BY <1>3 DEF BeginBatch, TypeOK
    <2> QED
      BY <1>0, <2>1, <2>2, <2>3 DEF TypeOK, TodoIsLeft, history
  <1>4. ASSUME NEW ids \in SUBSET Ids, Deprecate(c, ids)
        PROVE  TypeOK' /\ TodoIsLeft'
    <2>1. \A row \in Row : GivenUp(row) \in Row
      BY DEF GivenUp, Row, Statuses
    <2>2. rows' \in [Ids -> Row] /\ intended' \in [Ids -> Row]
      BY <1>4, <2>1 DEF Deprecate, TypeOK
    <2>3. /\ overtaken' \in [Calls -> SUBSET Ids] /\ UNCHANGED <<todo, copy, raced>>
          /\ at'[c] # "embedding"
      BY <1>4 DEF Deprecate, Overtake, Returns, Raises, TypeOK
    <2> QED
      BY <1>0, <2>2, <2>3 DEF TypeOK, TodoIsLeft
  <1>5. CASE Stores(c)
    <2>1. at[c] = "embedding" /\ tool[c] # "search" /\ UNCHANGED copy
      BY <1>5 DEF Stores, WriteOne, UpdateOne
    <2> DEFINE entry == Head(todo[c])
    <2>2. entry \in Entry /\ entry.id \in Ids
      BY <2>1, BatchFacts DEF TypeOK, TodoIsLeft
    <2>3. todo' \in [Calls -> Seq(Entry)] /\ (at'[c] = "embedding" => todo'[c] # <<>>)
          /\ \A d \in Calls : d # c => todo'[d] = todo[d]
      BY <1>5, <2>1, StoredFacts DEF Stores, WriteOne, UpdateOne, Change
    <2> HIDE DEF entry
    <2>a. Overtake({entry.id}) /\ (UNCHANGED raced \/ raced' = raced \cup {entry.id})
      BY <1>5 DEF Stores, WriteOne, UpdateOne, entry
    <2>4. overtaken' \in [Calls -> SUBSET Ids] /\ raced' \subseteq Ids
      BY <2>2, <2>a DEF Overtake, TypeOK
    <2>5. rows' \in [Ids -> Row] /\ intended' \in [Ids -> Row]
      <3>1. CASE WriteOne(c)
        <4>1. rows' = [rows EXCEPT ![entry.id] = New(c, entry)]
              /\ intended' = [intended EXCEPT ![entry.id] = New(c, entry)]
          BY <3>1 DEF WriteOne, entry
        <4>2. rows \in [Ids -> Row] /\ intended \in [Ids -> Row]
          BY DEF TypeOK
        <4>3. New(c, entry) \in Row
          BY <2>2 DEF New, Row, Entry, Statuses, Authors
        <4> QED
          BY <4>1, <4>2, <4>3
      <3>2. CASE UpdateOne(c)
        <4>1. rows' = [rows EXCEPT ![entry.id] = Merged(copy[c][entry.id], c, entry)]
              /\ intended' = [intended EXCEPT ![entry.id] = Patched(intended[entry.id], c, entry)]
          BY <3>2 DEF UpdateOne, entry
        <4>2. /\ rows \in [Ids -> Row] /\ intended \in [Ids -> Row]
              /\ copy[c][entry.id] \in Row /\ intended[entry.id] \in Row
          BY <2>2 DEF TypeOK
        <4>3. Merged(copy[c][entry.id], c, entry) \in Row /\ Patched(intended[entry.id], c, entry) \in Row
          BY <2>2, <4>2, StoredRows
        <4> QED
          BY <4>1, <4>2, <4>3
      <3> QED
        BY <1>5, <3>1, <3>2 DEF Stores
    <2> QED
      BY <1>0, <2>1, <2>3, <2>4, <2>5 DEF TypeOK, TodoIsLeft
  <1> QED
    BY <1>1, <1>2, <1>3, <1>4, <1>5 DEF Begin, Resume, Stores

\* A call adds changes of its own, and returns with all of them or leaves the audit as it is.
LEMMA AuditStep ==
  ASSUME IInv, NEW c \in Calls, Begin(c) \/ Resume(c)
  PROVE  MutationsAreChanges' /\ AuditIsOfReturnedCalls'
  <1> USE DEF IInv
  <1> DEFINE Accounted(new) ==
        /\ \A ch \in new : ch.by = c
        /\ changes' = changes \cup new
        /\ mutations' = [mutations EXCEPT ![c] = ChangesOf(c) \cup new]
        /\ audit' = IF at'[c] = "returned" THEN audit \cup ChangesOf(c) \cup new ELSE audit
        /\ at'[c] = "embedding" /\ tool'[c] = "search" => ChangesOf(c) \cup new = {}
  <1>0. /\ at' \in [Calls -> Ended \cup {"idle", "embedding"}]
        /\ at \in [Calls -> Ended \cup {"idle", "embedding"}] /\ tool \in [Calls -> Tools \cup {"none"}]
        /\ \A d \in Calls : d # c => at'[d] = at[d] /\ tool'[d] = tool[d]
        /\ at[c] \in {"idle", "embedding"} /\ at'[c] # "idle"
        /\ at[c] = "embedding" => tool'[c] = tool[c]
    BY OneCallMoves DEF TypeOK
  <1>a. mutations = [d \in Calls |-> ChangesOf(d)]
    BY DEF MutationsAreChanges
  <1>b. mutations = [mutations EXCEPT ![c] = mutations[c]]
    BY <1>a
  <1>c. mutations[c] = ChangesOf(c)
    BY <1>a
  <1>d. at[c] = "idle" \/ tool[c] = "search" => mutations[c] = {}
    BY <1>0 DEF MutationsAreChanges
  <1>1. /\ mutations = [mutations EXCEPT ![c] = ChangesOf(c)]
        /\ mutations[c] = ChangesOf(c)
        /\ at[c] = "idle" \/ tool[c] = "search" => ChangesOf(c) = {}
    BY <1>b, <1>c, <1>d
  <1>2. \E new : Accounted(new)
    <2>1. ASSUME \/ Blocked(c) \/ EndsAtOnce(c) \/ BeginSearch(c)
                 \/ \E name \in Tools, batch \in Writes \cup Updates : BeginBatch(c, name, batch)
          PROVE  \E new : Accounted(new)
      <3>1. at[c] = "idle" /\ audit' = audit /\ UNCHANGED <<changes, mutations>>
        <4>1. CASE EndsAtOnce(c)
          BY <4>1 DEF EndsAtOnce, Begins, Returns, Raises, history
        <4> QED
          BY <2>1, <4>1 DEF Blocked, BeginSearch, BeginBatch, Begins, history
      <3>2. Accounted({})
        BY <1>1, <3>1
      <3> QED
        BY <3>2
    <2>2. CASE StoreRaises(c) \/ Cancelled(c)
      <3>1. /\ UNCHANGED <<changes, mutations, audit>> /\ at'[c] \notin {"returned", "embedding"}
        BY <2>2 DEF StoreRaises, Cancelled, Raises, TypeOK, history
      <3>2. Accounted({})
        BY <1>1, <3>1
      <3> QED
        BY <3>2
    <2>3. CASE SearchEnds(c)
      <3>1. UNCHANGED <<changes, mutations>> /\ audit' = audit \cup {} /\ tool[c] = "search"
            /\ at'[c] # "embedding"
        BY <2>3 DEF SearchEnds, Returns, TypeOK, history
      <3>2. Accounted({})
        BY <1>1, <3>1
      <3> QED
        BY <3>2
    <2>4. CASE Stores(c)
      <3>1. PICK change : /\ change.by = c /\ at[c] = "embedding" /\ tool[c] # "search"
                          /\ changes' = changes \cup {change} /\ Stored(c, change)
        BY <2>4 DEF Stores, WriteOne, UpdateOne, Change
      <3>2. /\ mutations' = [mutations EXCEPT ![c] = ChangesOf(c) \cup {change}]
        BY <1>1, <3>1 DEF Stored
      <3>3. audit' = IF at'[c] = "returned" THEN audit \cup ChangesOf(c) \cup {change} ELSE audit
        BY <1>1, <3>1, <3>2, StoredFacts
      <3>4. Accounted({change})
        BY <1>0, <3>1, <3>2, <3>3
      <3> QED
        BY <3>4
    <2>5. ASSUME NEW ids \in SUBSET Ids, Deprecate(c, ids)
          PROVE  \E new : Accounted(new)
      <3> DEFINE made == {Change(c, i, "deprecate") : i \in ids}
      <3>1. \A ch \in made : ch.by = c
        BY DEF Change
      <3>2. /\ at[c] = "idle" /\ changes' = changes \cup made
            /\ mutations' = [mutations EXCEPT ![c] = made]
            /\ Returns(c, made) \/ Raises(c)
        BY <2>5 DEF Deprecate, Begins
      <3> HIDE DEF made
      <3>3. Accounted(made)
        BY <1>0, <1>1, <3>1, <3>2 DEF Returns, Raises
      <3> QED
        BY <3>3
    <2>6. CASE Begin(c)
      BY <2>1, <2>5, <2>6 DEF Begin, Tools
    <2> QED
      BY <2>2, <2>3, <2>4, <2>6 DEF Resume, Stores
  <1>3. PICK new : Accounted(new)
    BY <1>2
  <1>4. /\ \A d \in Calls : d # c => ChangesOf(d)' = ChangesOf(d)
        /\ ChangesOf(c)' = ChangesOf(c) \cup new
    BY <1>3 DEF ChangesOf
  <1>5. mutations' = [d \in Calls |-> ChangesOf(d)']
    BY <1>a, <1>3, <1>4
  <1>6. \A ch \in changes' : ch.by \in Calls
    BY <1>3 DEF MutationsAreChanges
  <1>7. MutationsAreChanges'
    <2>1. ASSUME NEW d \in Calls, at'[d] = "idle" \/ (at'[d] = "embedding" /\ tool'[d] = "search")
          PROVE  mutations'[d] = {}
      <3>1. CASE d = c
        BY <1>0, <1>3, <1>4, <1>5, <2>1, <3>1
      <3>2. CASE d # c
        <4>1. mutations[d] = {}
          BY <1>0, <2>1, <3>2 DEF MutationsAreChanges
        <4>2. mutations'[d] = mutations[d]
          BY <1>3, <3>2
        <4> QED
          BY <4>1, <4>2
      <3> QED
        BY <3>1, <3>2
    <2> QED
      BY <1>5, <1>6, <2>1 DEF MutationsAreChanges
  <1>8. AuditIsOfReturnedCalls'
    <2>1. audit = {ch \in changes : at[ch.by] = "returned"}
      BY DEF AuditIsOfReturnedCalls
    <2>2. \A ch \in changes : ch.by # c => (at'[ch.by] = "returned" <=> at[ch.by] = "returned")
      BY <1>0 DEF MutationsAreChanges
    <2>3. at[c] # "returned"
      BY <1>0
    <2>4. \A ch \in audit' : ch \in changes' /\ at'[ch.by] = "returned"
      BY <1>3, <2>1, <2>2, <2>3 DEF ChangesOf
    <2>5. \A ch \in changes' : at'[ch.by] = "returned" => ch \in audit'
      BY <1>3, <2>1, <2>2, <2>3 DEF ChangesOf
    <2> QED
      BY <2>4, <2>5 DEF AuditIsOfReturnedCalls
  <1> QED
    BY <1>7, <1>8

\* Whoever changes rows makes every copy of them old that is still in use.
LEMMA OvertakeStep ==
  ASSUME IInv, NEW c \in Calls, NEW ids \in SUBSET Ids,
         \A d \in Calls : d # c => at'[d] = at[d],
         at'[c] # "idle", at'[c] = "embedding" => at[c] = "embedding",
         UNCHANGED copy, Overtake(ids),
         \A i \in Ids \ ids : rows'[i] = rows[i]
  PROVE  CopiesAreFresh'
  <1>1. ASSUME NEW d \in Calls, at'[d] = "embedding", NEW i \in Ids, i \notin overtaken'[d]
        PROVE  copy'[d][i] = rows'[i]
    <2>1. at[d] = "embedding"
      BY <1>1
    <2>2. i \notin overtaken[d] /\ i \notin ids
      BY <1>1, <2>1 DEF Overtake
    <2> QED
      BY <2>1, <2>2 DEF IInv, CopiesAreFresh
  <1>2. ASSUME NEW d \in Calls, at'[d] = "idle" PROVE overtaken'[d] = {}
    BY <1>2 DEF Overtake
  <1> QED
    BY <1>1, <1>2 DEF CopiesAreFresh

\* The rows are what the calls meant them to be, but for those stored from an old copy.
LEMMA RowsStep ==
  ASSUME IInv, NEW c \in Calls, Begin(c) \/ Resume(c)
  PROVE  CopiesAreFresh' /\ UpdatesAddUp'
  <1> USE DEF IInv
  <1>0. /\ \A d \in Calls : d # c => at'[d] = at[d]
        /\ at[c] \in {"idle", "embedding"} /\ at'[c] # "idle"
    BY OneCallMoves
  <1>1. CASE Blocked(c) \/ EndsAtOnce(c) \/ StoreRaises(c) \/ SearchEnds(c) \/ Cancelled(c)
    <2>1. UNCHANGED <<rows, copy, history>> /\ at'[c] # "embedding"
      BY <1>1 DEF Blocked, EndsAtOnce, StoreRaises, SearchEnds, Cancelled, Returns, Raises, TypeOK
    <2> QED
      BY <1>0, <2>1 DEF CopiesAreFresh, UpdatesAddUp, history
  <1>2. ASSUME BeginSearch(c) \/ \E name \in Tools, batch \in Writes \cup Updates : BeginBatch(c, name, batch)
        PROVE  CopiesAreFresh' /\ UpdatesAddUp'
    <2>1. UNCHANGED <<rows, history>> /\ copy' = [copy EXCEPT ![c] = rows]
      BY <1>2 DEF BeginSearch, BeginBatch
    <2>2. \A d \in Calls : copy'[d] = IF d = c THEN rows ELSE copy[d]
      BY <2>1 DEF TypeOK
    <2>3. rows' = rows /\ overtaken' = overtaken
      BY <2>1 DEF history
    <2>4. CopiesAreFresh'
      BY <1>0, <2>2, <2>3 DEF CopiesAreFresh
    <2>5. UpdatesAddUp'
      BY <2>1 DEF UpdatesAddUp, history
    <2> QED
      BY <2>4, <2>5
  <1>3. ASSUME NEW ids \in SUBSET Ids, Deprecate(c, ids)
        PROVE  CopiesAreFresh' /\ UpdatesAddUp'
    <2>1. /\ \A i \in Ids : rows'[i] = IF i \in ids THEN GivenUp(rows[i]) ELSE rows[i]
          /\ \A i \in Ids : intended'[i] = IF i \in ids THEN GivenUp(intended[i]) ELSE intended[i]
          /\ UNCHANGED <<copy, raced>> /\ Overtake(ids)
          /\ at'[c] # "embedding"
      BY <1>3 DEF Deprecate, Returns, Raises, TypeOK
    <2>2. CopiesAreFresh'
      BY <1>0, <2>1, OvertakeStep
    <2> QED
      BY <2>1, <2>2 DEF UpdatesAddUp
  <1>4. CASE Stores(c)
    <2> DEFINE entry == Head(todo[c])
    <2>1. at[c] = "embedding" /\ tool[c] # "search" /\ UNCHANGED copy /\ Overtake({entry.id})
      BY <1>4 DEF Stores, WriteOne, UpdateOne
    <2>2. entry \in Entry /\ entry.id \in Ids
      BY <2>1, BatchFacts DEF TypeOK, TodoIsLeft
    <2> DEFINE id == entry.id
    <2>3. CASE WriteOne(c)
      <3>1. rows' = [rows EXCEPT ![id] = New(c, entry)] /\ intended' = [intended EXCEPT ![id] = New(c, entry)]
            /\ UNCHANGED raced
        BY <2>3 DEF WriteOne
      <3> HIDE DEF entry
      <3>2. \A i \in Ids \ {id} : rows'[i] = rows[i] /\ intended'[i] = intended[i]
        BY <3>1 DEF TypeOK
      <3>3. CopiesAreFresh'
        BY <1>0, <2>1, <2>2, <3>2, OvertakeStep
      <3>4. rows'[id] = intended'[id]
        BY <2>2, <3>1 DEF TypeOK
      <3> QED
        BY <3>1, <3>2, <3>3, <3>4 DEF UpdatesAddUp
    <2>4. CASE UpdateOne(c)
      <3>1. /\ rows' = [rows EXCEPT ![id] = Merged(copy[c][id], c, entry)]
            /\ intended' = [intended EXCEPT ![id] = Patched(intended[id], c, entry)]
            /\ raced' = IF id \in overtaken[c] THEN raced \cup {id} ELSE raced
        BY <2>4 DEF UpdateOne
      <3> HIDE DEF entry
      <3>2. \A i \in Ids \ {id} : rows'[i] = rows[i] /\ intended'[i] = intended[i]
        BY <3>1 DEF TypeOK
      <3>3. CopiesAreFresh'
        BY <1>0, <2>1, <2>2, <3>2, OvertakeStep
      <3>4. id \notin raced' => rows'[id] = intended'[id]
        <4>1. rows'[id] = Merged(copy[c][id], c, entry) /\ intended'[id] = Patched(intended[id], c, entry)
          BY <2>2, <3>1 DEF TypeOK
        <4>2. id \notin raced' => id \notin raced /\ id \notin overtaken[c]
          BY <3>1
        <4>3. id \notin raced' => copy[c][id] = intended[id]
          BY <2>1, <2>2, <4>2 DEF CopiesAreFresh, UpdatesAddUp
        <4>4. intended[id] \in Row
          BY <2>2 DEF TypeOK
        <4> QED
          BY <2>2, <4>1, <4>3, <4>4, StoredRows
      <3>5. raced \subseteq raced'
        BY <3>1
      <3> QED
        BY <3>2, <3>3, <3>4, <3>5 DEF UpdatesAddUp
    <2> QED
      BY <1>4, <2>3, <2>4 DEF Stores
  <1>5. CASE Begin(c)
    BY <1>1, <1>2, <1>3, <1>5 DEF Begin, Tools
  <1> QED
    BY <1>1, <1>4, <1>5 DEF Resume, Stores

\* Every call keeps the invariant, wherever it is cut.
LEMMA StepInvariant == IInv /\ [Next]_vars => IInv'
  <1> SUFFICES ASSUME IInv, [Next]_vars PROVE IInv'
    OBVIOUS
  <1>1. CASE UNCHANGED vars
    BY <1>1 DEF vars, progress, history, IInv, TypeOK, TodoIsLeft, MutationsAreChanges, ChangesOf,
                AuditIsOfReturnedCalls, CopiesAreFresh, UpdatesAddUp, CallsAreCounted, AdmittedCalls
  <1>2. ASSUME NEW c \in Calls, Begin(c) \/ Resume(c) PROVE IInv'
    BY <1>2, TypesStep, AuditStep, RowsStep, CountStep DEF IInv
  <1> QED
    BY <1>1, <1>2 DEF Next

\* All that is proved of the states of the memory.
THEOREM Invariant == Spec => []IInv
  BY InitInvariant, StepInvariant, PTL DEF Spec

\* The table, the progress of the calls and the budget keep their types.
THEOREM TypeCorrect == Spec => []TypeOK
  <1>1. IInv => TypeOK
    BY DEF IInv
  <1> QED
    BY <1>1, Invariant, PTL

\* The trace tells what the calls that returned have done, all of it and nothing else.
THEOREM AuditIsExact == Spec => []AuditIsOfReturnedCalls
  <1>1. IInv => AuditIsOfReturnedCalls
    BY DEF IInv
  <1> QED
    BY <1>1, Invariant, PTL

\* Only an update from an overtaken copy stores what no call meant to store.
THEOREM RowsAreIntended == Spec => []UpdatesAddUp
  <1>1. IInv => UpdatesAddUp
    BY DEF IInv
  <1> QED
    BY <1>1, Invariant, PTL

\* However many calls run in parallel, no more are let through than the budget allows.
THEOREM BudgetBoundsCalls == Spec => []BudgetHolds
  <1>1. IInv => BudgetHolds
    BY SkillMemoryAssumption DEF IInv, TypeOK, CallsAreCounted, BudgetHolds
  <1> QED
    BY <1>1, Invariant, PTL

-----------------------------------------------------------------------------

\* A step that takes a deprecation back is an update whose entry says so, or that was overtaken.
LEMMA RevivalIsMeant ==
  ASSUME IInv, NEW c \in Calls, Begin(c) \/ Resume(c), NEW i \in Ids, i \notin raced',
         rows[i].status = "deprecated", rows'[i].status = "active"
  PROVE  at[c] = "embedding" /\ Head(todo[c]).id = i /\ Head(todo[c]).status = "active"
  <1> USE DEF IInv
  <1>1. rows'[i] # rows[i]
    OBVIOUS
  <1>2. CASE ~Stores(c)
    <2>1. PICK ids \in SUBSET Ids : Deprecate(c, ids)
      BY <1>1, <1>2 DEF Begin, Resume, Stores, Blocked, EndsAtOnce, BeginSearch, BeginBatch, StoreRaises,
                        SearchEnds, Cancelled
    <2>2. rows'[i] = IF i \in ids THEN GivenUp(rows[i]) ELSE rows[i]
      BY <2>1 DEF Deprecate
    <2>3. rows[i] \in Row
      BY DEF TypeOK
    <2> QED
      BY <2>2, <2>3 DEF GivenUp, Row
  <1>3. CASE Stores(c)
    <2> DEFINE entry == Head(todo[c])
    <2>1. at[c] = "embedding" /\ tool[c] # "search"
      BY <1>3 DEF Stores, WriteOne, UpdateOne
    <2>2. entry \in Entry /\ entry.id \in Ids
      BY <2>1, BatchFacts DEF TypeOK, TodoIsLeft
    <2>3. UpdateOne(c) /\ entry.id = i
      <3>1. entry.id = i
        BY <1>1, <1>3 DEF Stores, WriteOne, UpdateOne, TypeOK
      <3> QED
        BY <1>3, <3>1 DEF Stores, WriteOne
    <2>4. /\ rows'[i] = Merged(copy[c][i], c, entry)
          /\ raced' = IF i \in overtaken[c] THEN raced \cup {i} ELSE raced
      BY <2>3 DEF UpdateOne, TypeOK
    <2>5. copy[c][i] = rows[i]
      BY <2>1, <2>4 DEF CopiesAreFresh
    <2> HIDE DEF entry
    <2>a. \A row : Merged(row, c, entry).status = IF entry.status = "" THEN row.status ELSE entry.status
      BY DEF Merged
    <2>b. rows'[i].status = IF entry.status = "" THEN rows[i].status ELSE entry.status
      BY <2>4, <2>5, <2>a
    <2>6. entry.status = "active"
      BY <2>b
    <2> QED
      BY <2>1, <2>3, <2>6 DEF entry
  <1> QED
    BY <1>2, <1>3

\* Once deprecated, a skill stays so until an entry says otherwise, races aside.
THEOREM DeprecationsHold == Spec => DeprecationsStick
  <1> DEFINE Stick == \A i \in Ids \ raced' :
       rows[i].status = "deprecated" /\ rows'[i].status = "active" =>
         \E c \in Calls : /\ at[c] = "embedding"
                          /\ Head(todo[c]).id = i
                          /\ Head(todo[c]).status = "active"
  <1>1. IInv /\ [Next]_vars => [Stick]_vars
    BY RevivalIsMeant DEF Next
  <1> QED
    BY <1>1, Invariant, PTL DEF Spec, DeprecationsStick

-----------------------------------------------------------------------------
(* How long a call can go on *)

\* The embeddings a call has still to wait for.
Remaining(c) ==
  IF at[c] # "embedding" THEN 0 ELSE IF tool[c] = "search" THEN 1 ELSE Len(todo[c])

\* Every embedding that ends, in whatever way, brings the call that waited for it nearer to its
\* end, and no other call puts that off: a batch waits at most once for each of its entries.  This
\* is what the end of every call rests on.
CallsRunDown ==
  [][\A c \in Calls : at[c] = "embedding" =>
       IF Resume(c) THEN Remaining(c)' < Remaining(c) ELSE Remaining(c)' = Remaining(c)]_vars

\* A call waits for one thing at least.
LEMMA RemainingIsCounted ==
  ASSUME IInv, NEW c \in Calls, at[c] = "embedding"
  PROVE  /\ Remaining(c) \in Nat /\ Remaining(c) > 0
         /\ tool[c] # "search" => /\ todo[c] \in Seq(Entry) /\ todo[c] # <<>>
                                  /\ Remaining(c) = Len(todo[c])
  <1>1. CASE tool[c] = "search"
    BY <1>1 DEF Remaining
  <1>2. CASE tool[c] # "search"
    <2>1. todo[c] \in Seq(Entry) /\ todo[c] # <<>>
      BY <1>2 DEF IInv, TypeOK, TodoIsLeft
    <2>2. Len(todo[c]) \in Nat /\ Len(todo[c]) > 0
      BY <2>1
    <2> QED
      BY <1>2, <2>1, <2>2 DEF Remaining
  <1> QED
    BY <1>1, <1>2

\* An embedding that has ended.
LEMMA ResumeCountsDown ==
  ASSUME IInv, NEW c \in Calls, Resume(c)
  PROVE  Remaining(c)' < Remaining(c)
  <1>0. at[c] = "embedding" /\ tool'[c] = tool[c]
    BY OneCallMoves DEF Resume, WriteOne, UpdateOne, StoreRaises, SearchEnds, Cancelled
  <1>1. Remaining(c) \in Nat /\ Remaining(c) > 0
    BY <1>0, RemainingIsCounted
  <1>2. CASE at'[c] # "embedding"
    BY <1>1, <1>2 DEF Remaining
  <1>3. CASE at'[c] = "embedding"
    <2>1. WriteOne(c) \/ UpdateOne(c)
      BY <1>3 DEF Resume, StoreRaises, SearchEnds, Cancelled, Returns, Raises, IInv, TypeOK
    <2>2. tool[c] # "search" /\ todo' = [todo EXCEPT ![c] = Tail(todo[c])]
      BY <2>1 DEF WriteOne, UpdateOne, Stored
    <2>3. /\ todo[c] \in Seq(Entry) /\ todo[c] # <<>>
          /\ Remaining(c) = Len(todo[c])
      BY <1>0, <2>2, RemainingIsCounted
    <2>4. todo'[c] = Tail(todo[c])
      BY <2>2 DEF IInv, TypeOK
    <2>5. Len(Tail(todo[c])) = Len(todo[c]) - 1 /\ Len(todo[c]) \in Nat
      BY <2>3
    <2>6. Remaining(c)' = Len(Tail(todo[c]))
      BY <1>0, <1>3, <2>2, <2>4 DEF Remaining
    <2> QED
      BY <2>3, <2>5, <2>6
  <1> QED
    BY <1>2, <1>3

\* What one call does leaves the batches of the others alone.
LEMMA OthersKeepTheirBatches ==
  ASSUME IInv, NEW c \in Calls, Begin(c) \/ Resume(c), NEW d \in Calls, d # c
  PROVE  Remaining(d)' = Remaining(d)
  <1>1. at'[d] = at[d] /\ tool'[d] = tool[d]
    BY OneCallMoves
  <1>2. todo'[d] = todo[d]
    <2>1. UNCHANGED todo \/ \E batch : todo' = [todo EXCEPT ![c] = batch]
      <3>1. CASE Begin(c)
        BY <3>1 DEF Begin, Blocked, EndsAtOnce, BeginSearch, BeginBatch, Deprecate
      <3>2. CASE Resume(c)
        BY <3>2 DEF Resume, WriteOne, UpdateOne, StoreRaises, SearchEnds, Cancelled, Stored
      <3> QED
        BY <3>1, <3>2
    <2> QED
      BY <2>1 DEF IInv, TypeOK
  <1> QED
    BY <1>1, <1>2 DEF Remaining

\* The embeddings a call waits for are numbered.
THEOREM CallsCountDown == Spec => CallsRunDown
  <1> DEFINE Down == \A c \in Calls : at[c] = "embedding" =>
                IF Resume(c) THEN Remaining(c)' < Remaining(c) ELSE Remaining(c)' = Remaining(c)
  <1>1. IInv /\ [Next]_vars => [Down]_vars
    <2> SUFFICES ASSUME IInv, Next, NEW d \in Calls, at[d] = "embedding", ~Resume(d)
                 PROVE  Remaining(d)' = Remaining(d)
      BY ResumeCountsDown
    <2>1. PICK c \in Calls : Begin(c) \/ Resume(c)
      BY DEF Next
    <2>2. ~Begin(d)
      BY DEF Begin, Blocked, EndsAtOnce, BeginSearch, BeginBatch, Deprecate, Begins
    <2> QED
      BY <2>1, <2>2, OthersKeepTheirBatches
  <1> QED
    BY <1>1, Invariant, PTL DEF Spec, CallsRunDown
=============================================================================
