----------------------- MODULE SessionDirectoryProofs -----------------------
(***************************************************************************)
(* Proofs about SessionDirectory, for any sessions, names and number of    *)
(* operations: types, and that a group's sessions share a database.        *)
(*                                                                         *)
(* A session's group and database are written in three places, the file,   *)
(* what is still to be written, and the copy that a chat run will save.    *)
(* The invariant is about whatever is held in any of them.                 *)
(***************************************************************************)
EXTENDS SessionDirectory, SequenceTheorems, TLAPS

\* ws has a write of s to the session file of id.
Writing(ws, id, s) ==
  \E k \in DOMAIN ws : ws[k].file = "session" /\ ws[k].id = id /\ ws[k].to = s

\* s is in the session file of id, will be in it, or is the copy a chat run has of it.
Held(id, s) ==
  \/ session[id] = s
  \/ Writing(writes, id, s)
  \/ run[id] # None /\ run[id].session = s

\* What is held is held of sessions that were made, in groups that were.
HeldIsMade ==
  \A id \in Ids, s \in Session : Held(id, s) => id \in made /\ s.group \in made \cup {None}

\* A session does not change its database.
OneDatabase ==
  \A id \in Ids : \A s, t \in Session : Held(id, s) /\ Held(id, t) => s.db = t.db

\* A group has one database.
GroupsAgree ==
  \A a, b \in Ids : \A s, t \in Session :
    Held(a, s) /\ Held(b, t) /\ s.group = t.group /\ s.group # None => s.db = t.db

\* A fork and its source are there.
SourcesAreMade == \A id \in Ids : source[id] # None => id \in made /\ source[id] \in Sessions

\* A fork is in one group for good, and has the database of its source.
ForksAgree ==
  \A id \in Ids : source[id] # None =>
    \A s, t \in Session : Held(id, s) =>
      /\ s.group # None
      /\ Held(id, t) => t.group = s.group
      /\ Held(source[id], t) => t.db = s.db

\* The next write is of the session file of id.
WritesNext(id) == writes # <<>> /\ Head(writes).file = "session" /\ Head(writes).id = id

\* The source of a fork is in the fork's group, or is put in it before the fork is written.
SourcesFollow ==
  \A id \in Ids : source[id] # None /\ {id, source[id]} \cap misplaced = {} =>
    \A s \in Session : Held(id, s) =>
      /\ \A t \in Session : Writing(writes, source[id], t) => t.group = s.group
      /\ session[source[id]].group = s.group \/ (id \notin Sessions /\ WritesNext(source[id]))

Facts == HeldIsMade /\ OneDatabase /\ GroupsAgree /\ SourcesAreMade /\ ForksAgree

IInv == TypeOK /\ Facts /\ SourcesFollow

-----------------------------------------------------------------------------
(* Writes *)

\* Sequences of writes.
LEMMA SavedFacts ==
  ASSUME NEW id \in Ids, NEW s \in Session
  PROVE  /\ Saved(id, s) \in Seq(File)
         /\ \A i, t : Writing(Saved(id, s), i, t) <=> i = id /\ t = s
         /\ Saved(id, s) # <<>>
         /\ Head(Saved(id, s)).file = "session" /\ Head(Saved(id, s)).id = id
  <1>1. SummaryOf(s) \in Summary
    BY DEF SummaryOf, Summary, Session
  <1> DEFINE a == [file |-> "session", id |-> id, to |-> s]
             b == [file |-> "summary", id |-> id, to |-> SummaryOf(s)]
  <1>2. a \in File /\ b \in File
    BY <1>1 DEF File
  <1>3. a.file = "session" /\ a.id = id /\ a.to = s /\ b.file = "summary"
    OBVIOUS
  <1>4. Saved(id, s) = <<a, b>>
    BY DEF Saved
  <1> HIDE DEF a, b
  <1>5. <<a, b>> \in Seq(File) /\ <<a, b>> # <<>> /\ Head(<<a, b>>) = a
    BY <1>2
  <1>6. \A i, t : Writing(<<a, b>>, i, t) <=> i = id /\ t = s
    <2>1. DOMAIN <<a, b>> = {1, 2} /\ <<a, b>>[1] = a /\ <<a, b>>[2] = b
      OBVIOUS
    <2> QED
      BY <1>3, <2>1 DEF Writing
  <1> QED
    BY <1>3, <1>4, <1>5, <1>6

LEMMA ContextFacts ==
  ASSUME NEW id \in Ids, NEW turns \in Nat
  PROVE  /\ SavedContext(id, turns) \in Seq(File)
         /\ \A i, t : ~Writing(SavedContext(id, turns), i, t)
  <1> DEFINE a == [file |-> "context", id |-> id, to |-> turns]
  <1>1. a \in File /\ a.file = "context"
    BY DEF File
  <1>2. SavedContext(id, turns) = <<a>>
    BY DEF SavedContext
  <1> HIDE DEF a
  <1>3. DOMAIN <<a>> = {1} /\ <<a>>[1] = a /\ <<a>> \in Seq(File)
    BY <1>1
  <1> QED
    BY <1>1, <1>2, <1>3 DEF Writing

LEMMA WritingLater == \A i, t : Writing(writes, i, t)' <=> Writing(writes', i, t)
  BY DEF Writing

LEMMA NothingFacts == <<>> \in Seq(File) /\ \A i, t : ~Writing(<<>>, i, t)
  BY DEF Writing

LEMMA ConcatFacts ==
  ASSUME NEW a \in Seq(File), NEW b \in Seq(File)
  PROVE  /\ a \o b \in Seq(File)
         /\ \A i, t : Writing(a \o b, i, t) <=> Writing(a, i, t) \/ Writing(b, i, t)
         /\ a # <<>> => a \o b # <<>> /\ Head(a \o b) = Head(a)
  <1>1. /\ a \o b \in Seq(File) /\ Len(a \o b) = Len(a) + Len(b)
        /\ \A k \in 1 .. Len(a) + Len(b) :
             (a \o b)[k] = IF k <= Len(a) THEN a[k] ELSE b[k - Len(a)]
    BY ConcatProperties
  <1>2. Len(a) \in Nat /\ Len(b) \in Nat /\ DOMAIN a = 1 .. Len(a) /\ DOMAIN b = 1 .. Len(b)
        /\ DOMAIN (a \o b) = 1 .. Len(a) + Len(b)
    BY <1>1
  <1> DEFINE c == a \o b
  <1>3. /\ DOMAIN c = 1 .. Len(a) + Len(b)
        /\ \A k \in DOMAIN a : k \in DOMAIN c /\ c[k] = a[k]
        /\ \A k \in DOMAIN b : k + Len(a) \in DOMAIN c /\ c[k + Len(a)] = b[k]
        /\ \A k \in DOMAIN c : k \notin DOMAIN a => k - Len(a) \in DOMAIN b /\ c[k] = b[k - Len(a)]
    BY <1>1, <1>2
  <1> HIDE DEF c
  <1>4. \A i, t : Writing(c, i, t) <=> Writing(a, i, t) \/ Writing(b, i, t)
    <2> TAKE i, t
    <2>1. Writing(a, i, t) \/ Writing(b, i, t) => Writing(c, i, t)
      BY <1>3 DEF Writing
    <2>2. ASSUME Writing(c, i, t) PROVE Writing(a, i, t) \/ Writing(b, i, t)
      <3>1. PICK k \in DOMAIN c : c[k].file = "session" /\ c[k].id = i /\ c[k].to = t
        BY <2>2 DEF Writing
      <3> QED
        BY <1>3, <3>1 DEF Writing
    <2> QED
      BY <2>1, <2>2
  <1>5. a # <<>> => c # <<>> /\ Head(c) = Head(a)
    <2> SUFFICES ASSUME a # <<>> PROVE c # <<>> /\ Head(c) = Head(a)
      OBVIOUS
    <2>1. Len(a) > 0 /\ 1 \in DOMAIN a /\ Head(a) = a[1]
      BY <1>2, EmptySeq
    <2>2. c \in Seq(File) /\ Len(c) > 0
      BY <1>1, <1>2, <2>1 DEF c
    <2>3. c # <<>> /\ Head(c) = c[1]
      BY <2>2
    <2> QED
      BY <1>3, <2>1, <2>3
  <1> QED
    BY <1>1, <1>4, <1>5 DEF c

\* The next write, and those after it.
LEMMA TailFacts ==
  ASSUME NEW ws \in Seq(File), ws # <<>>
  PROVE  /\ Head(ws) \in File
         /\ Tail(ws) \in Seq(File)
         /\ \A i, t : Writing(Tail(ws), i, t) => Writing(ws, i, t)
         /\ Head(ws).file = "session" => Writing(ws, Head(ws).id, Head(ws).to)
  <1>1. Len(ws) \in Nat /\ Len(ws) > 0 /\ DOMAIN ws = 1 .. Len(ws) /\ Head(ws) = ws[1]
    BY EmptySeq
  <1>2. /\ Head(ws) \in File /\ Tail(ws) \in Seq(File) /\ Len(Tail(ws)) = Len(ws) - 1
        /\ \A k \in 1 .. Len(Tail(ws)) : Tail(ws)[k] = ws[k + 1]
    BY HeadTailProperties
  <1> DEFINE rest == Tail(ws)
  <1>3. \A k \in DOMAIN rest : k + 1 \in DOMAIN ws /\ rest[k] = ws[k + 1]
    <2>1. DOMAIN rest = 1 .. Len(rest)
      BY <1>2
    <2> QED
      BY <1>1, <1>2, <2>1
  <1> HIDE DEF rest
  <1>4. \A i, t : Writing(rest, i, t) => Writing(ws, i, t)
    BY <1>3 DEF Writing
  <1>5. Head(ws).file = "session" => Writing(ws, Head(ws).id, Head(ws).to)
    BY <1>1 DEF Writing
  <1> QED
    BY <1>2, <1>4, <1>5 DEF rest

\* No context is saved but a number of turns.
LEMMA LoadedFacts ==
  ASSUME TypeOK, NEW id \in Sessions
  PROVE  /\ LoadedContext(id) \in Seq(File)
         /\ \A i, t : ~Writing(LoadedContext(id), i, t)
         /\ ContextOf(id) \in Nat
         /\ session[id] \in Session
  <1>1. id \in Ids /\ session[id] \in Session /\ session[id].turns \in Nat
    BY DEF TypeOK, Sessions, Session
  <1>2. context[id] = None \/ context[id] \in Nat
    BY <1>1 DEF TypeOK
  <1>3. ContextOf(id) \in Nat
    BY <1>1, <1>2 DEF ContextOf
  <1>4. /\ SavedContext(id, session[id].turns) \in Seq(File)
        /\ \A i, t : ~Writing(SavedContext(id, session[id].turns), i, t)
    BY <1>1, ContextFacts
  <1>5. CASE context[id] = None
    BY <1>1, <1>3, <1>4, <1>5 DEF LoadedContext
  <1>6. CASE context[id] # None
    BY <1>1, <1>3, <1>6, NothingFacts DEF LoadedContext
  <1> QED
    BY <1>5, <1>6

\* What is listed is typed.
LEMMA ListedFacts ==
  ASSUME TypeOK
  PROVE  Listed \in [Ids -> Summary \cup {None}]
  <1>1. \A id \in Sessions : SummaryOf(session[id]) \in Summary
    BY DEF TypeOK, Sessions, SummaryOf, Summary, Session
  <1> QED
    BY <1>1 DEF Listed, TypeOK

\* What is appended to a session, and dated.
LEMMA ChangedFacts ==
  ASSUME NEW s \in Session, NEW updated \in Nat
  PROVE  LET t == [s EXCEPT !.turns = @ + 1, !.updated = updated]
         IN  t \in Session /\ t.group = s.group /\ t.db = s.db /\ t.turns \in Nat
  <1> DEFINE t == [s EXCEPT !.turns = @ + 1, !.updated = updated]
  <1>1. s.turns + 1 \in Nat
    BY DEF Session
  <1>2. /\ t.turns = s.turns + 1 /\ t.updated = updated
        /\ t.name = s.name /\ t.group = s.group /\ t.db = s.db
    BY DEF Session
  <1>3. \A n \in Nat, m \in Nat : [s EXCEPT !.turns = n, !.updated = m] \in Session
    BY DEF Session
  <1>4. t \in Session
    BY <1>1, <1>3
  <1> QED
    BY <1>1, <1>2, <1>4

\* Of a session that is there, what it says.
LEMMA SessionFacts ==
  ASSUME IInv, NEW id \in Sessions
  PROVE  /\ id \in Ids /\ id \in made /\ session[id] \in Session /\ Held(id, session[id])
         /\ session[id].group \in made \cup {None} /\ session[id].db \in Ids \cup {Shared}
         /\ session[id].turns \in Nat
  <1>1. id \in Ids /\ session[id] \in Session
    BY DEF IInv, TypeOK, Sessions
  <1>2. Held(id, session[id])
    BY DEF Held
  <1> QED
    BY <1>1, <1>2 DEF IInv, Facts, HeldIsMade, Session

-----------------------------------------------------------------------------
(* Steps of one kind *)

\* Nothing new is held.
LEMMA NothingNew ==
  ASSUME Facts, made' = made, source' = source, Sessions \subseteq Sessions',
         \A id \in Ids, s \in Session : Held(id, s)' => Held(id, s)
  PROVE  Facts'
  <1>1. HeldIsMade'
    BY DEF Facts, HeldIsMade
  <1>2. OneDatabase'
    BY DEF Facts, OneDatabase
  <1>3. GroupsAgree'
    BY DEF Facts, GroupsAgree
  <1>4. SourcesAreMade'
    BY DEF Facts, SourcesAreMade
  <1>5. ForksAgree'
    <2> SUFFICES ASSUME NEW id \in Ids, source[id] # None, NEW s \in Session, NEW t \in Session,
                        Held(id, s)'
                 PROVE  /\ s.group # None
                        /\ Held(id, t)' => t.group = s.group
                        /\ Held(source[id], t)' => t.db = s.db
      BY DEF ForksAgree
    <2>1. source[id] \in Ids
      BY DEF Facts, SourcesAreMade, Sessions
    <2> QED
      BY <2>1 DEF Facts, ForksAgree
  <1> QED
    BY <1>1, <1>2, <1>3, <1>4, <1>5 DEF Facts

\* An operation saves a session that bears the group and the database of what was held of it.
LEMMA SavedAgain ==
  ASSUME IInv, NEW id \in Ids, NEW c \in Session, Held(id, c),
         UNCHANGED <<session, made, source>>, misplaced \subseteq misplaced',
         c.group = session[id].group \/ id \in misplaced',
         \A i \in Ids, s \in Session :
           Held(i, s)' => Held(i, s) \/ (i = id /\ s.group = c.group /\ s.db = c.db),
         \A i, s : Writing(writes, i, s)' => i = id /\ s.group = c.group,
         \A i, s : ~Writing(writes, i, s), writes = <<>>
  PROVE  Facts' /\ SourcesFollow'
  <1> USE DEF IInv, Facts
  <1>1. Sessions' = Sessions
    BY DEF Sessions
  <1>2. HeldIsMade'
    BY <1>1 DEF HeldIsMade
  <1>3. OneDatabase'
    BY <1>1 DEF OneDatabase
  <1>4. GroupsAgree'
    BY <1>1 DEF GroupsAgree
  <1>5. SourcesAreMade'
    BY <1>1 DEF SourcesAreMade
  <1>6. \A i \in Ids : source[i] # None => source[i] \in Ids
    BY DEF SourcesAreMade, Sessions
  <1>7. ForksAgree'
    <2> SUFFICES ASSUME NEW i \in Ids, source[i] # None, NEW s \in Session, NEW t \in Session,
                        Held(i, s)'
                 PROVE  /\ s.group # None
                        /\ Held(i, t)' => t.group = s.group
                        /\ Held(source[i], t)' => t.db = s.db
      BY DEF ForksAgree
    <2> DEFINE f == source[i]
    <2>1. f \in Ids
      BY <1>6
    <2>2. PICK u \in Session : Held(i, u) /\ u.group = s.group /\ u.db = s.db
      OBVIOUS
    <2>3. s.group # None /\ \A v \in Session : Held(i, v) => v.group = s.group
      BY <2>2 DEF ForksAgree
    <2>4. \A v \in Session : Held(f, v) => v.db = s.db
      BY <2>2 DEF ForksAgree
    <2>5. Held(i, t)' => t.group = s.group
      BY <2>3
    <2>6. Held(f, t)' => t.db = s.db
      BY <2>1, <2>4
    <2> QED
      BY <2>3, <2>5, <2>6
  <1>8. SourcesFollow'
    <2> SUFFICES ASSUME NEW i \in Ids, source[i] # None, {i, source[i]} \cap misplaced' = {},
                        NEW s \in Session, Held(i, s)'
                 PROVE  /\ \A t \in Session : Writing(writes, source[i], t)' => t.group = s.group
                        /\ session[source[i]].group = s.group
      BY DEF SourcesFollow
    <2>1. {i, source[i]} \cap misplaced = {}
      OBVIOUS
    <2>2. PICK u \in Session : Held(i, u) /\ u.group = s.group
      OBVIOUS
    <2>3. ~WritesNext(source[i])
      BY DEF WritesNext
    <2>4. session[source[i]].group = s.group
      BY <2>1, <2>2, <2>3 DEF SourcesFollow
    <2>5. ASSUME NEW t \in Session, Writing(writes, source[i], t)' PROVE t.group = s.group
      <3>1. source[i] = id /\ t.group = c.group
        BY <2>5
      <3>2. id \notin misplaced'
        BY <3>1
      <3> QED
        BY <2>4, <3>1, <3>2
    <2> QED
      BY <2>4, <2>5
  <1> QED
    BY <1>2, <1>3, <1>4, <1>5, <1>7, <1>8

-----------------------------------------------------------------------------
(* The actions *)

\* The sessions' summaries are listed.
LEMMA ListStep ==
  ASSUME IInv, List \/ \E name \in Names, group \in Groups : OpenFound(name, group)
  PROVE  IInv'
  <1>1. /\ UNCHANGED <<session, context, run, time, made, history>>
        /\ summary' = Listed /\ writes = <<>>
        /\ writes' = <<>> \/ \E id \in Sessions : writes' = LoadedContext(id)
    BY DEF List, OpenFound, Newest, Named
  <1>2. writes' \in Seq(File) /\ \A i, s : ~Writing(writes', i, s)
    BY <1>1, LoadedFacts, NothingFacts DEF IInv
  <1>3. \A i, s : ~Writing(writes, i, s)' /\ ~Writing(writes, i, s)
    BY <1>1, <1>2, NothingFacts DEF Writing
  <1>4. Sessions' = Sessions
    BY <1>1 DEF Sessions
  <1>5. TypeOK'
    <2>1. summary' \in [Ids -> Summary \cup {None}]
      BY <1>1, ListedFacts DEF IInv
    <2> QED
      BY <1>1, <1>2, <1>4, <2>1 DEF IInv, TypeOK, history
  <1>6. \A id \in Ids, s \in Session : Held(id, s)' => Held(id, s)
    BY <1>1, <1>3 DEF Held
  <1>7. Facts'
    BY <1>1, <1>4, <1>6, NothingNew DEF IInv, history
  <1>8. SourcesFollow'
    <2> SUFFICES ASSUME NEW id \in Ids, source[id] # None, {id, source[id]} \cap misplaced = {},
                        NEW s \in Session, Held(id, s)'
                 PROVE  session[source[id]].group = s.group
      BY <1>1, <1>3 DEF SourcesFollow, history
    <2>2. ~WritesNext(source[id])
      BY <1>1 DEF WritesNext
    <2> QED
      BY <1>6, <2>2 DEF IInv, SourcesFollow
  <1> QED
    BY <1>5, <1>7, <1>8 DEF IInv

\* The next file is written.
LEMMA WriteStep ==
  ASSUME IInv, Write
  PROVE  IInv'
  <1> DEFINE w == Head(writes)
  <1>1. /\ writes # <<>> /\ writes' = Tail(writes)
        /\ session' = IF w.file = "session" THEN [session EXCEPT ![w.id] = w.to] ELSE session
        /\ summary' = IF w.file = "summary" THEN [summary EXCEPT ![w.id] = w.to] ELSE summary
        /\ context' = IF w.file = "context" THEN [context EXCEPT ![w.id] = w.to] ELSE context
        /\ UNCHANGED <<run, time, made, history>>
    BY DEF Write
  <1>2. /\ w \in File /\ writes' \in Seq(File)
        /\ \A i, t : Writing(writes', i, t) => Writing(writes, i, t)
        /\ w.file = "session" => Writing(writes, w.id, w.to)
    BY <1>1, TailFacts DEF IInv, TypeOK
  <1>3. \A i, t : Writing(writes, i, t)' => Writing(writes, i, t)
    BY <1>2 DEF Writing
  <1> HIDE DEF w
  <1>4. /\ w.id \in Ids
        /\ w.file = "session" => w.to \in Session
        /\ w.file = "summary" => w.to \in Summary
        /\ w.file = "context" => w.to \in Nat
    BY <1>2 DEF File
  <1>5. /\ session' \in [Ids -> Session \cup {None}]
        /\ summary' \in [Ids -> Summary \cup {None}]
        /\ context' \in [Ids -> Nat \cup {None}]
    BY <1>1, <1>4 DEF IInv, TypeOK
  <1>6. /\ w.file = "session" => session'[w.id] = w.to /\ Held(w.id, w.to)
        /\ \A id \in Ids : w.file # "session" \/ id # w.id => session'[id] = session[id]
    BY <1>1, <1>2, <1>4 DEF IInv, TypeOK, Held
  <1>7. \A id \in Ids, s \in Session : Held(id, s)' => Held(id, s)
    BY <1>1, <1>3, <1>6 DEF Held
  <1>8. Sessions \subseteq Sessions' /\ Sessions' \subseteq made
    <2>1. \A id \in Sessions : session'[id] # None
      BY <1>4, <1>6, NoneAssumption DEF Sessions
    <2>2. w.file = "session" => w.id \in made
      BY <1>4, <1>6 DEF IInv, Facts, HeldIsMade
    <2>3. \A id \in Ids : session'[id] # None => id \in Sessions \/ id \in made
      BY <1>6, <2>2 DEF Sessions
    <2> QED
      BY <2>1, <2>3 DEF IInv, TypeOK, Sessions
  <1>9. TypeOK'
    BY <1>1, <1>2, <1>5, <1>8 DEF IInv, TypeOK, history
  <1>10. Facts'
    BY <1>1, <1>7, <1>8, NothingNew DEF IInv, history
  <1>11. SourcesFollow'
    <2> SUFFICES ASSUME NEW id \in Ids, source[id] # None, {id, source[id]} \cap misplaced = {},
                        NEW s \in Session, Held(id, s)'
                 PROVE  /\ \A t \in Session : Writing(writes, source[id], t)' => t.group = s.group
                        /\ session'[source[id]].group = s.group
      BY <1>1 DEF SourcesFollow, history
    <2> DEFINE f == source[id]
    <2>1. f \in Ids /\ Held(id, s)
      BY <1>7 DEF IInv, Facts, SourcesAreMade, Sessions
    <2>2. /\ \A t \in Session : Writing(writes, f, t) => t.group = s.group
          /\ session[f].group = s.group \/ WritesNext(f)
      BY <2>1 DEF IInv, SourcesFollow
    <2>3. \A t \in Session : Writing(writes, f, t)' => t.group = s.group
      BY <1>1, <1>3, <2>2 DEF history
    <2>4. CASE w.file = "session" /\ w.id = f
      <3>1. session'[f] = w.to /\ Writing(writes, f, w.to)
        BY <1>2, <1>6, <2>4
      <3> QED
        BY <1>4, <2>2, <2>3, <2>4, <3>1
    <2>5. CASE ~(w.file = "session" /\ w.id = f)
      <3>1. ~WritesNext(f)
        BY <2>5 DEF WritesNext, w
      <3> QED
        BY <1>6, <2>1, <2>2, <2>3, <2>5, <3>1
    <2> QED
      BY <2>4, <2>5
  <1> QED
    BY <1>9, <1>10, <1>11 DEF IInv

\* The server dies.
LEMMA CrashStep ==
  ASSUME IInv, Crash
  PROVE  IInv'
  <1>1. /\ writes' = <<>> /\ run' = [id \in Ids |-> None]
        /\ UNCHANGED <<files, time, made, source, misplaced>>
    BY DEF Crash
  <1>2. \A i, s : ~Writing(writes, i, s)'
    BY <1>1 DEF Writing
  <1>3. Sessions' = Sessions
    BY <1>1 DEF Sessions, files
  <1>4. TypeOK'
    <2>1. lagging' \subseteq Ids
      <3>1. writes # <<>> => Head(writes).id \in Ids
        BY TailFacts DEF IInv, TypeOK, File
      <3> QED
        BY <3>1 DEF Crash, IInv, TypeOK
    <2>2. behind' \subseteq Ids
      <3>1. \A k \in DOMAIN writes : writes[k].id \in Ids
        BY DEF IInv, TypeOK, File
      <3>2. \A x \in ToSet(writes) : x.id \in Ids
        BY <3>1 DEF ToSet
      <3>3. behind' = behind \cup {w.id : w \in {x \in ToSet(writes) : x.file = "context"}}
        BY DEF Crash
      <3>4. behind \subseteq Ids
        BY DEF IInv, TypeOK
      <3> QED
        BY <3>2, <3>3, <3>4
    <2>3. writes' \in Seq(File) /\ run' \in [Ids -> Run \cup {None}]
      BY <1>1
    <2> QED
      BY <1>1, <1>3, <2>1, <2>2, <2>3 DEF IInv, TypeOK, files
  <1>5. \A id \in Ids, s \in Session : Held(id, s)' => session[id] = s
    BY <1>1, <1>2 DEF Held, files
  <1>6. \A id \in Ids, s \in Session : Held(id, s)' => Held(id, s)
    BY <1>5 DEF Held
  <1>7. Facts'
    BY <1>1, <1>3, <1>6, NothingNew DEF IInv
  <1>8. SourcesFollow'
    <2> SUFFICES ASSUME NEW id \in Ids, source[id] # None, {id, source[id]} \cap misplaced = {},
                        NEW s \in Session, Held(id, s)'
                 PROVE  session[source[id]].group = s.group
      BY <1>1, <1>2 DEF SourcesFollow, files
    <2>1. id \in Sessions
      BY <1>5, NoneAssumption DEF Sessions
    <2> QED
      BY <1>6, <2>1 DEF IInv, SourcesFollow
  <1> QED
    BY <1>4, <1>7, <1>8 DEF IInv

\* What Update, ChatBegins and ChatEnds write: the session, and after it contexts.
LEMMA SavedFirst ==
  ASSUME NEW id \in Ids, NEW s \in Session, NEW rest \in Seq(File),
         \A i, t : ~Writing(rest, i, t)
  PROVE  /\ Saved(id, s) \o rest \in Seq(File)
         /\ \A i, t : Writing(Saved(id, s) \o rest, i, t) <=> i = id /\ t = s
  BY SavedFacts, ConcatFacts

\* A session is changed.
LEMMA UpdateStep ==
  ASSUME IInv, NEW id \in Ids, Update(id)
  PROVE  IInv'
  <1> DEFINE s == [session[id] EXCEPT !.updated = time + 1]
  <1>1. /\ writes = <<>> /\ time < MaxTime /\ id \in Sessions
        /\ writes' = Saved(id, s) /\ time' = time + 1
        /\ UNCHANGED <<session, summary, context, run, made, source, lagging, behind, misplaced>>
    BY DEF Update, Ready, files, history
  <1>2. time' \in 0 .. MaxTime /\ time + 1 \in Nat
    BY <1>1, SessionDirectoryAssumption DEF IInv, TypeOK
  <1>3. s \in Session /\ s.group = session[id].group /\ s.db = session[id].db
    BY <1>1, <1>2, SessionFacts DEF Session
  <1> HIDE DEF s
  <1>4. writes' \in Seq(File) /\ \A i, t : Writing(writes', i, t) <=> i = id /\ t = s
    BY <1>1, <1>3, SavedFacts
  <1>5. \A i, t : (Writing(writes, i, t)' <=> i = id /\ t = s) /\ ~Writing(writes, i, t)
    <2>1. \A i, t : ~Writing(writes, i, t)
      BY <1>1, NothingFacts
    <2> QED
      BY <1>4, <2>1, WritingLater
  <1>6. TypeOK'
    <2>1. Sessions' = Sessions
      BY <1>1 DEF Sessions
    <2> QED
      BY <1>1, <1>2, <1>4, <2>1 DEF IInv, TypeOK
  <1>7. \A i \in Ids, t \in Session : Held(i, t)' => Held(i, t) \/ (i = id /\ t = s)
    BY <1>1, <1>5 DEF Held
  <1>8. Facts' /\ SourcesFollow'
    <2> DEFINE c == session[id]
    <2>1. c \in Session /\ Held(id, c) /\ c.group = session[id].group
      BY <1>1, SessionFacts
    <2>2. s.group = c.group /\ s.db = c.db
      BY <1>3
    <2> HIDE DEF c
    <2> QED
      BY <1>1, <1>5, <1>7, <2>1, <2>2, SavedAgain
  <1> QED
    BY <1>6, <1>8 DEF IInv

\* A run begins, with a copy of the session.
LEMMA ChatBeginsStep ==
  ASSUME IInv, NEW id \in Ids, ChatBegins(id)
  PROVE  IInv'
  <1> DEFINE s     == [session[id] EXCEPT !.turns = @ + 1, !.updated = time + 1]
             first == IF context[id] = None THEN SavedContext(id, s.turns) ELSE <<>>
             turns == (IF context[id] = None THEN s.turns ELSE context[id]) + 1
             rest  == first \o SavedContext(id, turns)
             copy  == [session |-> s, turns |-> turns]
  <1>1. /\ writes = <<>> /\ time < MaxTime /\ id \in Sessions
        /\ run' = [run EXCEPT ![id] = copy] /\ time' = time + 1
        /\ writes' = Saved(id, s) \o first \o SavedContext(id, turns)
        /\ UNCHANGED <<session, summary, context, made, source, lagging, behind, misplaced>>
    BY DEF ChatBegins, Ready, files, history
  <1>2. time' \in 0 .. MaxTime /\ time + 1 \in Nat
    BY <1>1, SessionDirectoryAssumption DEF IInv, TypeOK
  <1>3. /\ s \in Session /\ s.group = session[id].group /\ s.db = session[id].db
        /\ s.turns \in Nat
    <2>1. session[id] \in Session
      BY <1>1, SessionFacts
    <2> QED
      BY <1>2, <2>1, ChangedFacts
  <1>4. turns \in Nat
    <2>1. context[id] = None \/ context[id] \in Nat
      BY DEF IInv, TypeOK
    <2> HIDE DEF s
    <2> QED
      BY <1>3, <2>1
  <1> HIDE DEF s, turns
  <1>5. copy \in Run /\ copy.session = s
    BY <1>3, <1>4 DEF Run
  <1>6. first \in Seq(File) /\ \A i, t : ~Writing(first, i, t)
    <2>1. CASE context[id] = None
      BY <1>3, <2>1, ContextFacts
    <2>2. CASE context[id] # None
      BY <2>2, NothingFacts
    <2> QED
      BY <2>1, <2>2
  <1> HIDE DEF first, copy
  <1>7. /\ writes' \in Seq(File)
        /\ \A i, t : Writing(writes', i, t) <=> i = id /\ t = s
    <2>1. SavedContext(id, turns) \in Seq(File) /\ \A i, t : ~Writing(SavedContext(id, turns), i, t)
      BY <1>4, ContextFacts
    <2>2. /\ Saved(id, s) \o first \in Seq(File)
          /\ \A i, t : Writing(Saved(id, s) \o first, i, t) <=> i = id /\ t = s
      BY <1>3, <1>6, SavedFirst
    <2> DEFINE a == Saved(id, s) \o first
               b == SavedContext(id, turns)
    <2>3. writes' = a \o b
      BY <1>1
    <2> HIDE DEF a, b
    <2>4. a \in Seq(File) /\ b \in Seq(File)
      BY <2>1, <2>2 DEF a, b
    <2>5. \A i, t : (Writing(a, i, t) <=> i = id /\ t = s) /\ ~Writing(b, i, t)
      BY <2>1, <2>2 DEF a, b
    <2> QED
      BY <2>3, <2>4, <2>5, ConcatFacts
  <1>8. \A i, t : (Writing(writes, i, t)' <=> i = id /\ t = s) /\ ~Writing(writes, i, t)
    <2>1. \A i, t : ~Writing(writes, i, t)
      BY <1>1, NothingFacts
    <2> QED
      BY <1>7, <2>1, WritingLater
  <1>9. TypeOK'
    <2>1. Sessions' = Sessions
      BY <1>1 DEF Sessions
    <2>2. run' \in [Ids -> Run \cup {None}]
      BY <1>1, <1>5 DEF IInv, TypeOK
    <2> QED
      BY <1>1, <1>2, <1>7, <2>1, <2>2 DEF IInv, TypeOK
  <1>10. \A i \in Ids, t \in Session : Held(i, t)' => Held(i, t) \/ (i = id /\ t = s)
    BY <1>1, <1>5, <1>8 DEF Held, IInv, TypeOK
  <1>11. Facts' /\ SourcesFollow'
    <2> DEFINE c == session[id]
    <2>1. c \in Session /\ Held(id, c) /\ c.group = session[id].group
      BY <1>1, SessionFacts
    <2>2. s.group = c.group /\ s.db = c.db
      BY <1>3
    <2> HIDE DEF c
    <2> QED
      BY <1>1, <1>8, <1>10, <2>1, <2>2, SavedAgain
  <1> QED
    BY <1>9, <1>11 DEF IInv

\* A run ends, and saves its copy, which may be of a group the session has left.
LEMMA ChatEndsStep ==
  ASSUME IInv, NEW id \in Ids, ChatEnds(id)
  PROVE  IInv'
  <1> DEFINE c == run[id].session
             s == [c EXCEPT !.turns = @ + 1, !.updated = time + 1]
             turns == run[id].turns + 1
  <1>1. /\ writes = <<>> /\ time < MaxTime /\ run[id] # None
        /\ run' = [run EXCEPT ![id] = None] /\ time' = time + 1
        /\ writes' = Saved(id, s) \o SavedContext(id, turns)
        /\ misplaced' = IF s.group = session[id].group THEN misplaced ELSE misplaced \cup {id}
        /\ UNCHANGED <<session, summary, context, made, source, lagging, behind>>
    BY DEF ChatEnds, Ready, files
  <1>2. time' \in 0 .. MaxTime /\ time + 1 \in Nat
    BY <1>1, SessionDirectoryAssumption DEF IInv, TypeOK
  <1>3. run[id] \in Run
    BY <1>1 DEF IInv, TypeOK
  <1>4. c \in Session /\ turns \in Nat /\ Held(id, c)
    BY <1>1, <1>3 DEF Run, Held
  <1> HIDE DEF c
  <1>5. s \in Session /\ s.group = c.group /\ s.db = c.db
    BY <1>2, <1>4, ChangedFacts
  <1> HIDE DEF s, turns
  <1>6. writes' \in Seq(File) /\ \A i, t : Writing(writes', i, t) <=> i = id /\ t = s
    <2>1. SavedContext(id, turns) \in Seq(File) /\ \A i, t : ~Writing(SavedContext(id, turns), i, t)
      BY <1>4, ContextFacts
    <2> QED
      BY <1>1, <1>5, <2>1, SavedFirst
  <1>7. \A i, t : (Writing(writes, i, t)' <=> i = id /\ t = s) /\ ~Writing(writes, i, t)
    <2>1. \A i, t : ~Writing(writes, i, t)
      BY <1>1, NothingFacts
    <2> QED
      BY <1>6, <2>1, WritingLater
  <1>8. TypeOK'
    <2>1. Sessions' = Sessions
      BY <1>1 DEF Sessions
    <2>2. run' \in [Ids -> Run \cup {None}]
      BY <1>1 DEF IInv, TypeOK
    <2>3. misplaced' \subseteq Ids
      BY <1>1 DEF IInv, TypeOK
    <2> QED
      BY <1>1, <1>2, <1>6, <2>1, <2>2, <2>3 DEF IInv, TypeOK
  <1>9. \A i \in Ids, t \in Session : Held(i, t)' => Held(i, t) \/ (i = id /\ t = s)
    BY <1>1, <1>7 DEF Held, IInv, TypeOK
  <1>10. Facts' /\ SourcesFollow'
    <2>1. misplaced \subseteq misplaced' /\ (c.group = session[id].group \/ id \in misplaced')
      BY <1>1, <1>5
    <2>2. \A i \in Ids, t \in Session :
            Held(i, t)' => Held(i, t) \/ (i = id /\ t.group = c.group /\ t.db = c.db)
      BY <1>5, <1>9
    <2>3. \A i, t : (Writing(writes, i, t)' => i = id /\ t.group = c.group) /\ ~Writing(writes, i, t)
      BY <1>5, <1>7
    <2> QED
      BY <1>1, <1>4, <2>1, <2>2, <2>3, SavedAgain
  <1> QED
    BY <1>8, <1>10 DEF IInv

\* A new session is in no group, or is placed where a session is.
LEMMA SessionBorn ==
  ASSUME IInv, NEW id \in Ids \ made, NEW s \in Session, writes = <<>>,
         made' = made \cup {id}, UNCHANGED <<session, run, source>>, misplaced \subseteq misplaced',
         \A i, t : Writing(writes, i, t)' <=> i = id /\ t = s,
         \/ s.group = None
         \/ \E m \in Sessions : s.group = session[m].group /\ s.db = session[m].db
  PROVE  Facts' /\ SourcesFollow'
  <1> USE DEF IInv, Facts
  <1>1. \A i \in Ids, t \in Session : Held(i, t)' <=> Held(i, t) \/ (i = id /\ t = s)
    <2>1. \A i, t : ~Writing(writes, i, t)
      BY NothingFacts
    <2> QED
      BY <2>1 DEF Held
  <1>2. \A t \in Session : ~Held(id, t)
    BY DEF HeldIsMade
  <1>3. \A i \in Ids : source[i] # None => i # id /\ source[i] # id /\ source[i] \in Ids
    BY DEF SourcesAreMade, Sessions, TypeOK
  <1>4. \A m \in Sessions : /\ m \in Ids /\ session[m] \in Session /\ Held(m, session[m])
                            /\ session[m].group \in made \cup {None}
    BY SessionFacts
  <1>5. HeldIsMade'
    BY <1>1, <1>4 DEF HeldIsMade
  <1>6. OneDatabase'
    BY <1>1, <1>2 DEF OneDatabase
  <1>7. GroupsAgree'
    <2> SUFFICES ASSUME NEW a \in Ids, NEW b \in Ids, NEW u \in Session, NEW v \in Session,
                        Held(a, u)', Held(b, v)', u.group = v.group, u.group # None
                 PROVE  u.db = v.db
      BY DEF GroupsAgree
    <2>1. \E i \in Ids, t \in Session : Held(i, t) /\ t.group = u.group /\ t.db = u.db
      BY <1>1, <1>4
    <2>2. \E i \in Ids, t \in Session : Held(i, t) /\ t.group = v.group /\ t.db = v.db
      BY <1>1, <1>4
    <2> QED
      BY <2>1, <2>2 DEF GroupsAgree
  <1>8. Sessions' = Sessions
    BY DEF Sessions
  <1>9. SourcesAreMade'
    BY <1>8 DEF SourcesAreMade
  <1>10. ForksAgree'
    <2> SUFFICES ASSUME NEW i \in Ids, source[i] # None, NEW u \in Session, NEW t \in Session,
                        Held(i, u)'
                 PROVE  /\ u.group # None
                        /\ Held(i, t)' => t.group = u.group
                        /\ Held(source[i], t)' => t.db = u.db
      BY DEF ForksAgree
    <2> QED
      BY <1>1, <1>3 DEF ForksAgree
  <1>11. SourcesFollow'
    <2> SUFFICES ASSUME NEW i \in Ids, source[i] # None, {i, source[i]} \cap misplaced' = {},
                        NEW u \in Session, Held(i, u)'
                 PROVE  /\ \A t \in Session : ~Writing(writes, source[i], t)'
                        /\ session[source[i]].group = u.group
      BY DEF SourcesFollow
    <2>1. {i, source[i]} \cap misplaced = {} /\ Held(i, u) /\ ~WritesNext(source[i])
      BY <1>1, <1>3 DEF WritesNext
    <2> QED
      BY <1>3, <2>1 DEF SourcesFollow
  <1> QED
    BY <1>5, <1>6, <1>7, <1>9, <1>10, <1>11

\* open makes a session.
LEMMA OpenNewStep ==
  ASSUME IInv, NEW name \in Names, NEW group \in Groups, OpenNew(name, group)
  PROVE  IInv'
  <1>1. /\ writes = <<>> /\ time < MaxTime /\ summary' = Listed
        /\ UNCHANGED <<session, context, run, source, lagging, behind>>
    BY DEF OpenNew, Ready
  <1>2. time + 1 \in 0 .. MaxTime /\ time + 1 \in Nat
    BY <1>1, SessionDirectoryAssumption DEF IInv, TypeOK
  <1>3. PICK id \in Ids \ made, s \in Session :
          /\ Make(id, s)
          /\ misplaced' \in {misplaced, misplaced \cup {id}}
          /\ \/ s.group = None
             \/ \E m \in Sessions : s.group = session[m].group /\ s.db = session[m].db
    <2>1. CASE group = None
      <3>1. PICK id \in Ids \ made, db \in Ids \cup {Shared} :
              /\ Make(id, [name |-> name, group |-> None, db |-> db, turns |-> 0,
                           updated |-> time + 1])
              /\ UNCHANGED misplaced
        BY <2>1 DEF OpenNew
      <3>2. [name |-> name, group |-> None, db |-> db, turns |-> 0, updated |-> time + 1] \in Session
        BY <1>2 DEF Session, Groups
      <3> QED
        BY <3>1, <3>2
    <2>2. CASE group # None
      <3>1. PICK id \in Ids \ made :
              \E m \in Newest(InGroup(group)) :
                /\ Make(id, Joined(id, m, name))
                /\ misplaced' = IF session[m].group = group THEN misplaced ELSE misplaced \cup {id}
        BY <2>2 DEF OpenNew
      <3>2. PICK m \in Newest(InGroup(group)) :
              /\ Make(id, Joined(id, m, name))
              /\ misplaced' = IF session[m].group = group THEN misplaced ELSE misplaced \cup {id}
        BY <3>1
      <3>3. m \in Sessions
        BY DEF Newest, InGroup
      <3>4. session[m] \in Session
        BY <3>3, SessionFacts
      <3>5. \A t \in Session, now \in Nat :
              /\ [t EXCEPT !.name = name, !.turns = 0, !.updated = now] \in Session
              /\ [t EXCEPT !.name = name, !.turns = 0, !.updated = now].group = t.group
              /\ [t EXCEPT !.name = name, !.turns = 0, !.updated = now].db = t.db
        BY DEF Session
      <3>6. /\ Joined(id, m, name) \in Session
            /\ Joined(id, m, name).group = session[m].group
            /\ Joined(id, m, name).db = session[m].db
        BY <1>2, <3>4, <3>5 DEF Joined
      <3> QED
        BY <3>2, <3>3, <3>6
    <2> QED
      BY <2>1, <2>2
  <1>4. /\ made' = made \cup {id} /\ time' = time + 1
        /\ writes' = Saved(id, s) \o SavedContext(id, 0)
    BY <1>3 DEF Make
  <1>5. writes' \in Seq(File) /\ \A i, t : Writing(writes', i, t) <=> i = id /\ t = s
    <2>1. SavedContext(id, 0) \in Seq(File) /\ \A i, t : ~Writing(SavedContext(id, 0), i, t)
      BY ContextFacts
    <2> QED
      BY <1>4, <2>1, SavedFirst
  <1>6. \A i, t : Writing(writes, i, t)' <=> i = id /\ t = s
    BY <1>5, WritingLater
  <1>7. TypeOK'
    <2>1. Sessions' = Sessions
      BY <1>1 DEF Sessions
    <2>2. summary' \in [Ids -> Summary \cup {None}]
      BY <1>1, ListedFacts DEF IInv
    <2>3. misplaced' \subseteq Ids
      BY <1>3 DEF IInv, TypeOK
    <2> QED
      BY <1>1, <1>2, <1>4, <1>5, <2>1, <2>2, <2>3 DEF IInv, TypeOK
  <1>8. Facts' /\ SourcesFollow'
    <2>1. misplaced \subseteq misplaced'
      BY <1>3
    <2> QED
      BY <1>1, <1>3, <1>4, <1>6, <2>1, SessionBorn
  <1> QED
    BY <1>7, <1>8 DEF IInv

\* What a fork writes bears one group and one database, in the files of the source and the fork.
Places(ws, ids, group, db) ==
  /\ ws \in Seq(File)
  /\ \A i, t : Writing(ws, i, t) => i \in ids /\ t.group = group /\ t.db = db

LEMMA PlacesFacts ==
  ASSUME NEW ids, NEW group, NEW db
  PROVE  /\ \A a, b : Places(a, ids, group, db) /\ Places(b, ids, group, db)
                        => Places(a \o b, ids, group, db)
         /\ \A i \in Ids, s \in Session :
              i \in ids /\ s.group = group /\ s.db = db => Places(Saved(i, s), ids, group, db)
         /\ \A i \in Ids, n \in Nat : Places(SavedContext(i, n), ids, group, db)
         /\ Places(<<>>, ids, group, db)
  <1>1. ASSUME NEW a, NEW b, Places(a, ids, group, db), Places(b, ids, group, db)
        PROVE  Places(a \o b, ids, group, db)
    BY <1>1, ConcatFacts DEF Places
  <1>2. ASSUME NEW i \in Ids, NEW s \in Session, i \in ids, s.group = group, s.db = db
        PROVE  Places(Saved(i, s), ids, group, db)
    BY <1>2, SavedFacts DEF Places
  <1>3. ASSUME NEW i \in Ids, NEW n \in Nat PROVE Places(SavedContext(i, n), ids, group, db)
    BY ContextFacts DEF Places
  <1>4. Places(<<>>, ids, group, db)
    BY NothingFacts DEF Places
  <1> QED
    BY <1>1, <1>2, <1>3, <1>4

\* A fork has the database of its source, which is put in the fork's group first.
LEMMA SessionForked ==
  ASSUME IInv, NEW from \in Sessions, NEW id \in Ids \ made, NEW group, writes = <<>>,
         group = IF session[from].group = None THEN id ELSE session[from].group,
         made' = made \cup {id}, source' = [source EXCEPT ![id] = from],
         UNCHANGED <<session, run, misplaced>>,
         \A i, t : Writing(writes, i, t)' =>
                     i \in {from, id} /\ t.group = group /\ t.db = session[from].db,
         session[from].group = None => WritesNext(from)'
  PROVE  Facts' /\ SourcesFollow'
  <1> USE DEF IInv, Facts
  <1> DEFINE db == session[from].db
  <1>1. /\ from \in Ids /\ from \in made /\ from # id /\ Held(from, session[from])
        /\ session[from] \in Session /\ session[from].group \in made \cup {None}
    BY SessionFacts
  <1>2. /\ group \in made' /\ group # None
        /\ session[from].group = None => group = id /\ group \notin made \cup {None}
        /\ session[from].group # None => group = session[from].group
    BY <1>1, SessionDirectoryAssumption DEF TypeOK
  <1>3. \A i \in Ids, t \in Session :
          Held(i, t)' => Held(i, t) \/ (i \in {from, id} /\ t.group = group /\ t.db = db)
    BY DEF Held
  <1> HIDE DEF db
  <1>4. \A t \in Session : ~Held(id, t)
    BY DEF HeldIsMade
  <1>5. /\ \A i \in Ids : i # id => source'[i] = source[i]
        /\ source'[id] = from /\ source[id] = None
        /\ \A i \in Ids : source[i] # None =>
             i # id /\ source[i] # id /\ source[i] \in Ids /\ source[i] \in Sessions
    BY DEF SourcesAreMade, Sessions, TypeOK
  <1>6. Sessions' = Sessions
    BY DEF Sessions
  <1>7. HeldIsMade'
    BY <1>1, <1>2, <1>3 DEF HeldIsMade
  <1>8. \A t \in Session : Held(from, t) => t.db = db
    BY <1>1 DEF OneDatabase, db
  <1>9. OneDatabase'
    BY <1>1, <1>3, <1>4, <1>8 DEF OneDatabase
  <1>10. \A i \in Ids, t \in Session : Held(i, t) /\ t.group = group => t.db = db
    <2>1. CASE session[from].group = None
      BY <1>2, <2>1 DEF HeldIsMade
    <2>2. CASE session[from].group # None
      BY <1>1, <1>2, <2>2 DEF GroupsAgree, db
    <2> QED
      BY <2>1, <2>2
  <1>11. GroupsAgree'
    <2> SUFFICES ASSUME NEW a \in Ids, NEW b \in Ids, NEW u \in Session, NEW v \in Session,
                        Held(a, u)', Held(b, v)', u.group = v.group, u.group # None
                 PROVE  u.db = v.db
      BY DEF GroupsAgree
    <2>1. CASE u.group = group
      BY <1>3, <1>10, <2>1
    <2>2. CASE u.group # group
      BY <1>3, <2>2 DEF GroupsAgree
    <2> QED
      BY <2>1, <2>2
  <1>12. SourcesAreMade'
    BY <1>1, <1>5, <1>6 DEF SourcesAreMade
  \* An older fork: what is held of it is placed as something that was held of it.
  <1>13. ASSUME NEW i \in Ids, source[i] # None, NEW s \in Session, Held(i, s)'
         PROVE  \E u \in Session : Held(i, u) /\ u.group = s.group /\ u.db = s.db
    <2>1. CASE Held(i, s)
      BY <2>1
    <2>2. CASE ~Held(i, s)
      <3>1. i = from /\ s.group = group /\ s.db = db
        BY <1>3, <1>5, <1>13, <2>2
      <3>2. session[from].group # None
        BY <1>1, <1>13, <3>1 DEF ForksAgree
      <3> QED
        BY <1>1, <1>2, <3>1, <3>2 DEF db
    <2> QED
      BY <2>1, <2>2
  <1>14. \A i \in Ids, t \in Session : i # id /\ Held(i, t)' =>
           \E u \in Session : Held(i, u) /\ u.db = t.db
    BY <1>1, <1>3 DEF db
  <1>15. ForksAgree'
    <2> SUFFICES ASSUME NEW i \in Ids, source'[i] # None, NEW s \in Session, NEW t \in Session,
                        Held(i, s)'
                 PROVE  /\ s.group # None
                        /\ Held(i, t)' => t.group = s.group
                        /\ Held(source[i], t)' => t.db = s.db
      BY DEF ForksAgree
    <2>1. CASE i = id
      <3>1. s.group = group /\ s.db = db /\ (Held(id, t)' => t.group = group)
        BY <1>3, <1>4, <2>1
      <3>2. Held(from, t)' => t.db = db
        BY <1>1, <1>3, <1>8
      <3> QED
        BY <1>2, <1>5, <2>1, <3>1, <3>2
    <2>2. CASE i # id
      <3>1. source'[i] = source[i] /\ source[i] # None /\ source[i] \in Ids /\ source[i] # id
        BY <1>5, <2>2
      <3>2. PICK u \in Session : Held(i, u) /\ u.group = s.group /\ u.db = s.db
        BY <1>13, <3>1
      <3>3. Held(i, t)' => t.group = s.group
        BY <1>13, <3>1, <3>2 DEF ForksAgree
      <3>4. ASSUME Held(source[i], t)' PROVE t.db = s.db
        <4>1. PICK v \in Session : Held(source[i], v) /\ v.db = t.db
          BY <1>14, <3>1, <3>4
        <4> QED
          BY <3>1, <3>2, <4>1 DEF ForksAgree
      <3> QED
        BY <3>1, <3>2, <3>3, <3>4 DEF ForksAgree
    <2> QED
      BY <2>1, <2>2
  <1>16. SourcesFollow'
    <2> SUFFICES ASSUME NEW i \in Ids, source'[i] # None, {i, source'[i]} \cap misplaced = {},
                        NEW s \in Session, Held(i, s)'
                 PROVE  /\ \A t \in Session : Writing(writes, source[i], t)' => t.group = s.group
                        /\ \/ session[source'[i]].group = s.group
                           \/ i \notin Sessions /\ WritesNext(source[i])'
      BY <1>6 DEF SourcesFollow
    <2>1. CASE i = id
      <3>1. s.group = group
        BY <1>3, <1>4, <2>1
      <3>2. id \notin Sessions
        BY DEF TypeOK
      <3>3. \A t \in Session : Writing(writes, source[i], t)' => t.group = s.group
        BY <3>1
      <3>4. session[from].group = group \/ WritesNext(from)'
        BY <1>2
      <3> QED
        BY <1>5, <2>1, <3>1, <3>2, <3>3, <3>4
    <2>2. CASE i # id
      <3>1. source'[i] = source[i] /\ source[i] # None /\ source[i] # id
        BY <1>5, <2>2
      <3>2. PICK u \in Session : Held(i, u) /\ u.group = s.group
        BY <1>13, <3>1
      <3>3. ~WritesNext(source[i])
        BY DEF WritesNext
      <3>4. session[source[i]].group = s.group /\ s.group # None
        BY <3>1, <3>2, <3>3 DEF SourcesFollow, ForksAgree
      <3>5. ASSUME NEW t \in Session, Writing(writes, source[i], t)' PROVE t.group = s.group
        <4>1. source[i] = from /\ t.group = group
          BY <3>1, <3>5
        <4> QED
          BY <1>2, <3>4, <4>1
      <3> QED
        BY <3>1, <3>4, <3>5
    <2> QED
      BY <2>1, <2>2
  <1> QED
    BY <1>7, <1>9, <1>11, <1>12, <1>15, <1>16

\* Copies of a session: in a group, under another name, with turns.
Moved(s, group, now)        == [s EXCEPT !.group = group, !.updated = now]
Forked(s, name, group, now) == [s EXCEPT !.name = name, !.group = group, !.turns = 0,
                                         !.updated = now]
Heir(s, turns)              == [s EXCEPT !.turns = turns]

LEMMA CopyFacts ==
  ASSUME NEW s \in Session, NEW name \in Names, NEW group \in Ids, NEW now \in Nat
  PROVE  /\ Moved(s, group, now) \in Session
         /\ Moved(s, group, now).group = group /\ Moved(s, group, now).db = s.db
         /\ Forked(s, name, group, now) \in Session
         /\ Forked(s, name, group, now).group = group /\ Forked(s, name, group, now).db = s.db
  <1> USE DEF Session, Groups
  <1>1. /\ Moved(s, group, now) \in Session
        /\ Moved(s, group, now).group = group /\ Moved(s, group, now).db = s.db
    BY DEF Moved
  <1>2. /\ Forked(s, name, group, now) \in Session
        /\ Forked(s, name, group, now).group = group /\ Forked(s, name, group, now).db = s.db
    BY DEF Forked
  <1> QED
    BY <1>1, <1>2

LEMMA HeirFacts ==
  ASSUME NEW s \in Session, NEW n \in Nat
  PROVE  Heir(s, n) \in Session /\ Heir(s, n).group = s.group /\ Heir(s, n).db = s.db
  BY DEF Heir, Session

\* A session is forked.
LEMMA ForkStep ==
  ASSUME IInv, NEW from \in Ids, NEW name \in Names, NEW inherit \in BOOLEAN,
         Fork(from, name, inherit)
  PROVE  IInv'
  <1>1. writes = <<>> /\ time < MaxTime /\ from \in Sessions
    BY DEF Fork, Ready
  <1>2. PICK id \in Ids \ made :
          LET group == IF session[from].group = None THEN id ELSE session[from].group
              fork  == [session[from] EXCEPT !.name = name, !.group = group, !.turns = 0,
                                             !.updated = time + 1]
              first == IF session[from].group = None
                       THEN Saved(from, [session[from] EXCEPT !.group = group, !.updated = time + 1])
                       ELSE <<>>
              rest  == IF inherit
                       THEN LoadedContext(from)
                              \o Saved(id, [fork EXCEPT !.turns = session[from].turns])
                              \o SavedContext(id, ContextOf(from))
                       ELSE SavedContext(id, 0)
          IN  /\ made' = made \cup {id}
              /\ writes' = first \o Saved(id, fork) \o rest
              /\ source' = [source EXCEPT ![id] = from]
              /\ behind' = IF from \in behind /\ inherit THEN behind \cup {id} ELSE behind
    BY DEF Fork
  <1>3. time' = time + 1 /\ UNCHANGED <<session, summary, context, run, lagging, misplaced>>
    BY DEF Fork, files
  <1>4. time + 1 \in 0 .. MaxTime /\ time + 1 \in Nat
    BY <1>1, SessionDirectoryAssumption DEF IInv, TypeOK
  <1> DEFINE group == IF session[from].group = None THEN id ELSE session[from].group
             db    == session[from].db
             now   == time + 1
             moved == Moved(session[from], group, now)
             fork  == Forked(session[from], name, group, now)
             heir  == Heir(fork, session[from].turns)
             ids   == {from, id}
             first == IF session[from].group = None THEN Saved(from, moved) ELSE <<>>
             rest  == IF inherit THEN LoadedContext(from) \o Saved(id, heir)
                                        \o SavedContext(id, ContextOf(from))
                      ELSE SavedContext(id, 0)
  <1>5. /\ session[from] \in Session /\ session[from].turns \in Nat
        /\ session[from].group \in made \cup {None}
    BY <1>1, SessionFacts
  <1>6. made \subseteq Ids /\ group \in Ids
    BY <1>5 DEF IInv, TypeOK
  <1>7. writes' = first \o Saved(id, fork) \o rest
    BY <1>2 DEF Moved, Forked, Heir
  <1> HIDE DEF group
  <1>8. /\ moved \in Session /\ moved.group = group /\ moved.db = db
        /\ fork \in Session /\ fork.group = group /\ fork.db = db
        /\ heir \in Session /\ heir.group = group /\ heir.db = db
    <2>3. now \in Nat
      BY <1>4
    <2> HIDE DEF now
    <2>4. \A s \in Session, g \in Ids, n \in Nat :
            /\ Moved(s, g, n) \in Session /\ Moved(s, g, n).group = g /\ Moved(s, g, n).db = s.db
            /\ Forked(s, name, g, n) \in Session
            /\ Forked(s, name, g, n).group = g /\ Forked(s, name, g, n).db = s.db
      BY CopyFacts
    <2> DEFINE c == session[from]
    <2>5. c \in Session
      BY <1>5
    <2> HIDE DEF c
    <2>6. /\ Moved(c, group, now) \in Session
          /\ Moved(c, group, now).group = group /\ Moved(c, group, now).db = c.db
      BY <1>6, <2>3, <2>4, <2>5
    <2>7. /\ Forked(c, name, group, now) \in Session
          /\ Forked(c, name, group, now).group = group /\ Forked(c, name, group, now).db = c.db
      BY <1>6, <2>3, <2>4, <2>5
    <2>1. /\ moved \in Session /\ moved.group = group /\ moved.db = db
          /\ fork \in Session /\ fork.group = group /\ fork.db = db
      BY <2>6, <2>7 DEF c
    <2> HIDE DEF fork
    <2>2. heir \in Session /\ heir.group = group /\ heir.db = db
      BY <1>5, <2>1, HeirFacts
    <2> QED
      BY <2>1, <2>2
  <1> HIDE DEF moved, fork, heir, db
  <1>9. /\ Places(Saved(from, moved), ids, group, db)
        /\ Places(Saved(id, fork), ids, group, db)
        /\ Places(Saved(id, heir), ids, group, db)
        /\ Places(<<>>, ids, group, db)
        /\ Places(SavedContext(id, 0), ids, group, db)
    BY <1>8, PlacesFacts
  <1>10. Places(LoadedContext(from), ids, group, db) /\ ContextOf(from) \in Nat
    BY <1>1, LoadedFacts DEF Places, IInv
  <1>11. Places(first, ids, group, db)
    BY <1>9
  <1>12. Places(rest, ids, group, db)
    <2>1. Places(SavedContext(id, ContextOf(from)), ids, group, db)
      BY <1>10, PlacesFacts
    <2>2. Places(LoadedContext(from) \o Saved(id, heir), ids, group, db)
      BY <1>9, <1>10, PlacesFacts
    <2>3. Places((LoadedContext(from) \o Saved(id, heir)) \o SavedContext(id, ContextOf(from)),
                 ids, group, db)
      BY <2>1, <2>2, PlacesFacts
    <2> QED
      BY <1>9, <2>3
  <1>13. session[from].group = None => WritesNext(from)'
    <2> SUFFICES ASSUME session[from].group = None PROVE WritesNext(from)'
      OBVIOUS
    <2> DEFINE head == Saved(from, moved)
               next == Saved(id, fork)
    <2>1. first = head
      OBVIOUS
    <2>2. /\ head \in Seq(File) /\ head # <<>> /\ Head(head).file = "session" /\ Head(head).id = from
          /\ next \in Seq(File)
      BY <1>8, SavedFacts
    <2>3. writes' = head \o next \o rest /\ rest \in Seq(File)
      BY <1>7, <1>12, <2>1 DEF Places
    <2> HIDE DEF head, next, rest, first
    <2>4. head \o next \in Seq(File) /\ head \o next # <<>> /\ Head(head \o next) = Head(head)
      BY <2>2, ConcatFacts
    <2> DEFINE both == head \o next
    <2>5. both \in Seq(File) /\ both # <<>> /\ Head(both) = Head(head) /\ writes' = both \o rest
      BY <2>3, <2>4
    <2> HIDE DEF both
    <2>6. writes' # <<>> /\ Head(writes') = Head(head)
      BY <2>3, <2>5, ConcatFacts
    <2> QED
      BY <2>2, <2>6 DEF WritesNext
  <1> HIDE DEF first, rest, ids
  <1>14. Places(writes', ids, group, db)
    <2>1. Places(first \o Saved(id, fork), ids, group, db)
      BY <1>9, <1>11, PlacesFacts
    <2>2. Places((first \o Saved(id, fork)) \o rest, ids, group, db)
      BY <1>12, <2>1, PlacesFacts
    <2> QED
      BY <1>7, <2>2
  <1>15. TypeOK'
    <2>1. Sessions' = Sessions
      BY <1>3 DEF Sessions
    <2>2. writes' \in Seq(File)
      BY <1>14 DEF Places
    <2>3. source' \in [Ids -> Ids \cup {None}] /\ behind' \subseteq Ids /\ made' = made \cup {id}
      BY <1>2 DEF IInv, TypeOK
    <2> QED
      BY <1>3, <1>4, <2>1, <2>2, <2>3 DEF IInv, TypeOK
  <1>16. Facts' /\ SourcesFollow'
    <2>1. \A i, t : Writing(writes, i, t)' =>
                      i \in {from, id} /\ t.group = group /\ t.db = session[from].db
      BY <1>14, WritingLater DEF Places, ids, db
    <2>2. group = IF session[from].group = None THEN id ELSE session[from].group
      BY DEF group
    <2>3. made' = made \cup {id} /\ source' = [source EXCEPT ![id] = from]
      BY <1>2
    <2>4. UNCHANGED <<session, run, misplaced>>
      BY <1>3
    <2> QED
      BY <1>1, <1>13, <2>1, <2>2, <2>3, <2>4, SessionForked
  <1> QED
    BY <1>15, <1>16 DEF IInv

-----------------------------------------------------------------------------

\* There is nothing yet.
LEMMA InitInvariant == Init => IInv
  <1> SUFFICES ASSUME Init PROVE IInv
    OBVIOUS
  <1>1. Sessions = {} /\ writes = <<>>
    BY DEF Init, Sessions
  <1>2. TypeOK
    BY <1>1, SessionDirectoryAssumption DEF Init, TypeOK
  <1>3. \A id \in Ids, s \in Session : ~Held(id, s)
    BY <1>1, NothingFacts, NoneAssumption DEF Init, Held
  <1>4. Facts /\ SourcesFollow
    BY <1>3 DEF Init, Facts, HeldIsMade, OneDatabase, GroupsAgree, SourcesAreMade, ForksAgree,
                SourcesFollow
  <1> QED
    BY <1>2, <1>4 DEF IInv

LEMMA NextInvariant == IInv /\ [Next]_vars => IInv'
  <1> SUFFICES ASSUME IInv, [Next]_vars PROVE IInv'
    OBVIOUS
  <1>1. CASE List
    BY <1>1, ListStep
  <1>2. ASSUME NEW name \in Names, NEW group \in Groups, OpenFound(name, group) PROVE IInv'
    BY <1>2, ListStep
  <1>3. ASSUME NEW name \in Names, NEW group \in Groups, OpenNew(name, group) PROVE IInv'
    BY <1>3, OpenNewStep
  <1>4. ASSUME NEW id \in Ids, NEW name \in Names, NEW inherit \in BOOLEAN, Fork(id, name, inherit)
        PROVE  IInv'
    BY <1>4, ForkStep
  <1>5. ASSUME NEW id \in Ids, Update(id) \/ ChatBegins(id) \/ ChatEnds(id) PROVE IInv'
    BY <1>5, UpdateStep, ChatBeginsStep, ChatEndsStep
  <1>6. CASE Write
    BY <1>6, WriteStep
  <1>7. CASE Crash
    BY <1>7, CrashStep
  <1>8. CASE UNCHANGED vars
    <2>1. UNCHANGED <<session, summary, context, writes, run, time, made, source, lagging, behind,
                      misplaced>>
      BY <1>8 DEF vars, files, history
    <2>2. \A id, s : Held(id, s)' <=> Held(id, s)
      BY <2>1 DEF Held, Writing
    <2>3. Sessions' = Sessions /\ TypeOK'
      BY <2>1 DEF IInv, TypeOK, Sessions
    <2>4. Facts'
      BY <2>1, <2>2, <2>3, NothingNew DEF IInv
    <2>5. SourcesFollow'
      BY <2>1, <2>2, <2>3, WritingLater DEF IInv, SourcesFollow, WritesNext
    <2> QED
      BY <2>3, <2>4, <2>5 DEF IInv
  <1> QED
    BY <1>1, <1>2, <1>3, <1>4, <1>5, <1>6, <1>7, <1>8 DEF Next, Operation

-----------------------------------------------------------------------------
(* Theorems *)

\* The invariant holds of every state of the directory.
THEOREM Invariant == Spec => []IInv
  BY InitInvariant, NextInvariant, PTL DEF Spec

\* The files, what is still to be written and the copies of the runs are typed, and a session is
\* written under an id that was made.
THEOREM TypeCorrect == Spec => []TypeOK
  <1>1. IInv => TypeOK
    BY DEF IInv
  <1> QED
    BY <1>1, Invariant, PTL

\* open, fork and the saves of a chat run, with a crash between any two files, leave a group's
\* sessions with one database, and a fork with the database and the group of its source unless a
\* run saved a copy from before the fork.
THEOREM GroupsKeepTheirDatabase == Spec => []GroupsShareADatabase
  <1>1. IInv => GroupsShareADatabase
    <2> SUFFICES ASSUME IInv PROVE GroupsShareADatabase
      OBVIOUS
    <2>1. \A a, b \in Sessions :
            session[a].group = session[b].group /\ session[a].group # None =>
              session[a].db = session[b].db
      BY SessionFacts DEF IInv, Facts, GroupsAgree
    <2>2. ASSUME NEW id \in Sessions \cap Forks
          PROVE  /\ session[id].db = session[source[id]].db
                 /\ \/ session[id].group = session[source[id]].group
                    \/ {id, source[id]} \cap misplaced # {}
      <3>1. id \in Ids /\ source[id] # None /\ source[id] \in Sessions
        BY DEF Forks, IInv, Facts, SourcesAreMade
      <3>2. /\ session[id] \in Session /\ Held(id, session[id])
            /\ session[source[id]] \in Session /\ Held(source[id], session[source[id]])
        BY <3>1, SessionFacts
      <3>3. session[id].db = session[source[id]].db
        BY <3>1, <3>2 DEF IInv, Facts, ForksAgree
      <3>4. {id, source[id]} \cap misplaced = {} => session[source[id]].group = session[id].group
        BY <3>1, <3>2 DEF IInv, SourcesFollow
      <3> QED
        BY <3>3, <3>4
    <2> QED
      BY <2>1, <2>2 DEF GroupsShareADatabase
  <1> QED
    BY <1>1, Invariant, PTL

\* No step takes a session to another database, whichever of its copies is saved.
KeepsItsDatabase ==
  \A id \in Sessions : session'[id] # None /\ session'[id].db = session[id].db

\* A session keeps the database that it was opened with: neither an operation on a copy of it nor
\* a crash between its files makes its agent work on another.
THEOREM DatabasesStay == Spec => [][KeepsItsDatabase]_vars
  <1>1. IInv /\ [Next]_vars => [KeepsItsDatabase]_vars
    <2> SUFFICES ASSUME IInv, Next PROVE KeepsItsDatabase
      OBVIOUS
    <2>1. CASE Write
      <3> SUFFICES ASSUME NEW id \in Sessions
                   PROVE  session'[id] # None /\ session'[id].db = session[id].db
        BY DEF KeepsItsDatabase
      <3> DEFINE w == Head(writes)
      <3>1. /\ w.file = "session" => Writing(writes, w.id, w.to) /\ w.id \in Ids /\ w.to \in Session
            /\ session' = IF w.file = "session" THEN [session EXCEPT ![w.id] = w.to] ELSE session
        BY <2>1, TailFacts DEF Write, IInv, TypeOK, File
      <3> HIDE DEF w
      <3>2. id \in Ids /\ session[id] \in Session /\ Held(id, session[id])
        BY SessionFacts
      <3>3. CASE w.file = "session" /\ w.id = id
        <4>1. session'[id] = w.to /\ Held(id, w.to) /\ w.to \in Session
          BY <3>1, <3>2, <3>3 DEF IInv, TypeOK, Held
        <4> QED
          BY <3>2, <4>1, NoneAssumption DEF IInv, Facts, OneDatabase
      <3>4. CASE ~(w.file = "session" /\ w.id = id)
        BY <3>1, <3>2, <3>4, NoneAssumption DEF IInv, TypeOK
      <3> QED
        BY <3>3, <3>4
    <2>2. CASE ~Write
      <3>1. session' = session
        BY <2>2 DEF Next, Operation, List, OpenFound, OpenNew, Fork, Update, ChatBegins, ChatEnds,
                          Crash, files, vars
      <3> QED
        BY <3>1 DEF KeepsItsDatabase, Sessions
    <2> QED
      BY <2>1, <2>2
  <1> QED
    BY <1>1, Invariant, PTL DEF Spec
=============================================================================
