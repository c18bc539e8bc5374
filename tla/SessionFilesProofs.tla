------------------------- MODULE SessionFilesProofs -------------------------
(***************************************************************************)
(* Proofs about the three files of a session in SessionDirectory: that     *)
(* they agree whenever no operation is at work, and, because a name is     *)
(* looked up in the summaries, that open gives no name out twice.          *)
(*                                                                         *)
(* What is still to be written is described as a sequence: a session is    *)
(* followed by its summary (Followed, Preceded), and a context comes after *)
(* the session whose turns it has (OneContext).                            *)
(***************************************************************************)
EXTENDS SessionDirectoryProofs

-----------------------------------------------------------------------------
(* Sequences of writes *)

\* The summary of what a write puts into a session file.
SummaryWrite(w) == [file |-> "summary", id |-> w.id, to |-> SummaryOf(w.to)]

Followed(ws) ==
  \A k \in DOMAIN ws :
    ws[k].file = "session" => k + 1 \in DOMAIN ws /\ ws[k + 1] = SummaryWrite(ws[k])

Preceded(ws) ==
  \A k \in DOMAIN ws : k # 1 /\ ws[k].file = "summary" => ws[k - 1].file = "session"

\* What an operation writes: it does not begin with a summary.
Whole(ws) ==
  /\ ws \in Seq(File)
  /\ Followed(ws) /\ Preceded(ws)
  /\ 1 \in DOMAIN ws => ws[1].file # "summary"

\* ws does not write the session file of id; ws does not write its context.
NoSession(ws, id) == \A k \in DOMAIN ws : ~(ws[k].file = "session" /\ ws[k].id = id)
NoContext(ws, id) == \A k \in DOMAIN ws : ~(ws[k].file = "context" /\ ws[k].id = id)

\* The last write of the session file of id.
Latest(ws, id, k) ==
  /\ k \in DOMAIN ws
  /\ ws[k].file = "session" /\ ws[k].id = id
  /\ \A j \in DOMAIN ws : j > k => ~(ws[j].file = "session" /\ ws[j].id = id)

\* A context is written once, and after the session.
OneContext(ws, id) ==
  \A k \in DOMAIN ws : ws[k].file = "context" /\ ws[k].id = id =>
    /\ \A j \in DOMAIN ws : j # k => ~(ws[j].file = "context" /\ ws[j].id = id)
    /\ \A j \in DOMAIN ws : j > k => ~(ws[j].file = "session" /\ ws[j].id = id)
    /\ \A j \in DOMAIN ws : Latest(ws, id, j) => ws[j].to.turns = ws[k].to

-----------------------------------------------------------------------------

LEMMA UnitFacts ==
  ASSUME NEW id \in Ids, NEW s \in Session, NEW n \in Nat
  PROVE  /\ Whole(Saved(id, s)) /\ Whole(SavedContext(id, n)) /\ Whole(<<>>)
         /\ \A i : i # id => /\ NoSession(Saved(id, s), i) /\ NoContext(Saved(id, s), i)
                             /\ NoContext(SavedContext(id, n), i)
         /\ \A i : /\ NoSession(SavedContext(id, n), i) /\ NoContext(Saved(id, s), i)
                   /\ NoSession(<<>>, i) /\ NoContext(<<>>, i)
         /\ ~NoSession(Saved(id, s), id) /\ ~NoContext(SavedContext(id, n), id)
  <1> DEFINE a == [file |-> "session", id |-> id, to |-> s]
             b == [file |-> "summary", id |-> id, to |-> SummaryOf(s)]
             c == [file |-> "context", id |-> id, to |-> n]
  <1>1. Saved(id, s) = <<a, b>> /\ SavedContext(id, n) = <<c>>
    BY DEF Saved, SavedContext
  <1>2. Saved(id, s) \in Seq(File) /\ SavedContext(id, n) \in Seq(File) /\ <<>> \in Seq(File)
    BY SavedFacts, ContextFacts
  <1>3. /\ a.file = "session" /\ a.id = id /\ b.file = "summary" /\ c.file = "context" /\ c.id = id
        /\ b = SummaryWrite(a)
    BY DEF SummaryWrite
  <1> HIDE DEF a, b, c
  <1>4. DOMAIN <<a, b>> = {1, 2} /\ <<a, b>>[1] = a /\ <<a, b>>[2] = b
    OBVIOUS
  <1>5. DOMAIN <<c>> = {1} /\ <<c>>[1] = c
    OBVIOUS
  <1>6. Whole(<<a, b>>)
    BY <1>1, <1>2, <1>3, <1>4 DEF Whole, Followed, Preceded
  <1>7. Whole(<<c>>)
    BY <1>1, <1>2, <1>3, <1>5 DEF Whole, Followed, Preceded
  <1>8. Whole(<<>>)
    BY <1>2 DEF Whole, Followed, Preceded
  <1>9. \A i : /\ NoContext(<<a, b>>, i) /\ NoSession(<<c>>, i)
               /\ i # id => NoSession(<<a, b>>, i) /\ NoContext(<<c>>, i)
    BY <1>3, <1>4, <1>5 DEF NoSession, NoContext
  <1>10. \A i : NoSession(<<>>, i) /\ NoContext(<<>>, i)
    BY DEF NoSession, NoContext
  <1>11. ~NoSession(<<a, b>>, id) /\ ~NoContext(<<c>>, id)
    BY <1>3, <1>4, <1>5 DEF NoSession, NoContext
  <1> QED
    BY <1>1, <1>6, <1>7, <1>8, <1>9, <1>10, <1>11

\* Where the elements of two sequences are in the one made of both.
LEMMA JoinFacts ==
  ASSUME NEW a \in Seq(File), NEW b \in Seq(File)
  PROVE  /\ a \o b \in Seq(File) /\ Len(a) \in Nat
         /\ DOMAIN a = 1 .. Len(a) /\ DOMAIN b = 1 .. Len(b) /\ Len(b) \in Nat
         /\ DOMAIN (a \o b) = 1 .. Len(a) + Len(b)
         /\ \A k \in DOMAIN a : (a \o b)[k] = a[k]
         /\ \A k \in DOMAIN b : (a \o b)[k + Len(a)] = b[k]
         /\ \A k \in DOMAIN (a \o b) :
              k \in DOMAIN a \/ (k - Len(a) \in DOMAIN b /\ (a \o b)[k] = b[k - Len(a)])
  <1>1. /\ a \o b \in Seq(File) /\ Len(a \o b) = Len(a) + Len(b)
        /\ \A k \in 1 .. Len(a) + Len(b) :
             (a \o b)[k] = IF k <= Len(a) THEN a[k] ELSE b[k - Len(a)]
    BY ConcatProperties
  <1>2. Len(a) \in Nat /\ Len(b) \in Nat /\ DOMAIN a = 1 .. Len(a) /\ DOMAIN b = 1 .. Len(b)
        /\ DOMAIN (a \o b) = 1 .. Len(a) + Len(b)
    BY <1>1
  <1> QED
    BY <1>1, <1>2

LEMMA WholeJoin ==
  ASSUME NEW a, NEW b, Whole(a), Whole(b)
  PROVE  Whole(a \o b)
  <1> DEFINE c == a \o b
  <1>1. a \in Seq(File) /\ b \in Seq(File)
    BY DEF Whole
  <1>2. /\ c \in Seq(File) /\ Len(a) \in Nat /\ Len(b) \in Nat
        /\ DOMAIN a = 1 .. Len(a) /\ DOMAIN b = 1 .. Len(b) /\ DOMAIN c = 1 .. Len(a) + Len(b)
        /\ \A k \in DOMAIN a : c[k] = a[k]
        /\ \A k \in DOMAIN b : c[k + Len(a)] = b[k]
        /\ \A k \in DOMAIN c : k \in DOMAIN a \/ (k - Len(a) \in DOMAIN b /\ c[k] = b[k - Len(a)])
    BY <1>1, JoinFacts
  <1> HIDE DEF c
  <1>3. Followed(c)
    <2> SUFFICES ASSUME NEW k \in DOMAIN c, c[k].file = "session"
                 PROVE  k + 1 \in DOMAIN c /\ c[k + 1] = SummaryWrite(c[k])
      BY DEF Followed
    <2>1. CASE k \in DOMAIN a
      <3>1. c[k] = a[k] /\ k + 1 \in DOMAIN a /\ a[k + 1] = SummaryWrite(a[k])
        BY <1>2, <2>1 DEF Whole, Followed
      <3> QED
        BY <1>2, <3>1
    <2>2. CASE k \notin DOMAIN a
      <3> DEFINE l == k - Len(a)
      <3>1. l \in DOMAIN b /\ c[k] = b[l]
        BY <1>2, <2>2
      <3>2. l + 1 \in DOMAIN b /\ b[l + 1] = SummaryWrite(b[l])
        BY <3>1 DEF Whole, Followed
      <3>3. k + 1 = (l + 1) + Len(a)
        BY <1>2
      <3> HIDE DEF l
      <3>4. c[k + 1] = b[l + 1] /\ k + 1 \in DOMAIN c
        BY <1>2, <3>2, <3>3
      <3> QED
        BY <3>1, <3>2, <3>4
    <2> QED
      BY <2>1, <2>2
  <1>4. Preceded(c) /\ (1 \in DOMAIN c => c[1].file # "summary")
    <2> SUFFICES ASSUME NEW k \in DOMAIN c, c[k].file = "summary"
                 PROVE  k # 1 /\ c[k - 1].file = "session"
      BY DEF Preceded
    <2>1. CASE k \in DOMAIN a
      <3>1. c[k] = a[k] /\ k # 1
        BY <1>2, <2>1 DEF Whole
      <3>2. a[k - 1].file = "session" /\ k - 1 \in DOMAIN a
        BY <1>2, <2>1, <3>1 DEF Whole, Preceded
      <3> QED
        BY <1>2, <3>1, <3>2
    <2>2. CASE k \notin DOMAIN a
      <3> DEFINE l == k - Len(a)
      <3>1. l \in DOMAIN b /\ c[k] = b[l]
        BY <1>2, <2>2
      <3>2. l # 1
        BY <3>1 DEF Whole
      <3>3. b[l - 1].file = "session" /\ l - 1 \in DOMAIN b
        BY <1>2, <3>1, <3>2 DEF Whole, Preceded
      <3>4. k - 1 = (l - 1) + Len(a) /\ k # 1
        BY <1>2, <3>3
      <3> HIDE DEF l
      <3>5. c[k - 1] = b[l - 1]
        BY <1>2, <3>3, <3>4
      <3> QED
        BY <3>3, <3>4, <3>5
    <2> QED
      BY <2>1, <2>2
  <1> QED
    BY <1>2, <1>3, <1>4 DEF Whole, c

LEMMA NoneJoin ==
  ASSUME NEW a \in Seq(File), NEW b \in Seq(File), NEW id
  PROVE  /\ NoSession(a \o b, id) <=> NoSession(a, id) /\ NoSession(b, id)
         /\ NoContext(a \o b, id) <=> NoContext(a, id) /\ NoContext(b, id)
  <1> DEFINE c == a \o b
  <1>1. /\ \A k \in DOMAIN a : k \in DOMAIN c /\ c[k] = a[k]
        /\ \A k \in DOMAIN b : k + Len(a) \in DOMAIN c /\ c[k + Len(a)] = b[k]
        /\ \A k \in DOMAIN c :
             k \in DOMAIN a \/ (k - Len(a) \in DOMAIN b /\ c[k] = b[k - Len(a)])
    <2>1. /\ Len(a) \in Nat /\ Len(b) \in Nat
          /\ DOMAIN a = 1 .. Len(a) /\ DOMAIN b = 1 .. Len(b) /\ DOMAIN c = 1 .. Len(a) + Len(b)
      BY JoinFacts
    <2>2. /\ \A k \in DOMAIN a : c[k] = a[k]
          /\ \A k \in DOMAIN b : c[k + Len(a)] = b[k]
          /\ \A k \in DOMAIN c :
               k \in DOMAIN a \/ (k - Len(a) \in DOMAIN b /\ c[k] = b[k - Len(a)])
      BY JoinFacts
    <2> HIDE DEF c
    <2> QED
      BY <2>1, <2>2
  <1> HIDE DEF c
  <1>2. NoSession(c, id) <=> NoSession(a, id) /\ NoSession(b, id)
    BY <1>1 DEF NoSession
  <1>3. NoContext(c, id) <=> NoContext(a, id) /\ NoContext(b, id)
    BY <1>1 DEF NoContext
  <1> QED
    BY <1>2, <1>3 DEF c

\* The context that the second part writes stays the only one, and after the session.
LEMMA OneJoin ==
  ASSUME NEW a \in Seq(File), NEW b \in Seq(File), NEW id, NoContext(a, id),
         OneContext(b, id), NoSession(a, id) \/ ~NoSession(b, id)
  PROVE  OneContext(a \o b, id)
  <1> DEFINE c == a \o b
             n == Len(a)
  <1>1. /\ n \in Nat /\ Len(b) \in Nat
        /\ DOMAIN a = 1 .. n /\ DOMAIN b = 1 .. Len(b) /\ DOMAIN c = 1 .. n + Len(b)
        /\ \A k \in DOMAIN a : c[k] = a[k]
        /\ \A k \in DOMAIN b : c[k + n] = b[k]
        /\ \A k \in DOMAIN c : k \in DOMAIN a \/ (k - n \in DOMAIN b /\ c[k] = b[k - n])
    BY JoinFacts
  <1> HIDE DEF c, n
  <1> SUFFICES ASSUME NEW k \in DOMAIN c, c[k].file = "context", c[k].id = id
               PROVE  /\ \A j \in DOMAIN c : j # k => ~(c[j].file = "context" /\ c[j].id = id)
                      /\ \A j \in DOMAIN c : j > k => ~(c[j].file = "session" /\ c[j].id = id)
                      /\ \A j \in DOMAIN c : Latest(c, id, j) => c[j].to.turns = c[k].to
    BY DEF OneContext, c
  <1>2. k - n \in DOMAIN b /\ c[k] = b[k - n]
    BY <1>1 DEF NoContext
  <1>3. PICK l \in DOMAIN b : l = k - n /\ c[k] = b[l]
    BY <1>2
  <1>4. /\ \A j \in DOMAIN b : j # l => ~(b[j].file = "context" /\ b[j].id = id)
        /\ \A j \in DOMAIN b : j > l => ~(b[j].file = "session" /\ b[j].id = id)
        /\ \A j \in DOMAIN b : Latest(b, id, j) => b[j].to.turns = b[l].to
    BY <1>3 DEF OneContext
  <1>5. ASSUME NEW j \in DOMAIN c, j # k PROVE ~(c[j].file = "context" /\ c[j].id = id)
    <2>1. CASE j \in DOMAIN a
      BY <1>1, <2>1 DEF NoContext
    <2>2. CASE j \notin DOMAIN a
      <3>1. j - n \in DOMAIN b /\ c[j] = b[j - n] /\ j - n # l
        BY <1>1, <1>3, <1>5, <2>2
      <3> QED
        BY <1>4, <3>1
    <2> QED
      BY <2>1, <2>2
  <1>6. ASSUME NEW j \in DOMAIN c, j > k PROVE ~(c[j].file = "session" /\ c[j].id = id)
    <2>1. j - n \in DOMAIN b /\ c[j] = b[j - n] /\ j - n > l
      BY <1>1, <1>3, <1>6
    <2> QED
      BY <1>4, <2>1
  <1>7. ASSUME NEW j \in DOMAIN c, Latest(c, id, j) PROVE c[j].to.turns = c[k].to
    <2>1. c[j].file = "session" /\ c[j].id = id
      BY <1>7 DEF Latest
    <2>2. j \notin DOMAIN a
      <3> SUFFICES ASSUME j \in DOMAIN a PROVE FALSE
        OBVIOUS
      <3>1. ~NoSession(a, id)
        BY <1>1, <2>1 DEF NoSession
      <3>2. PICK m \in DOMAIN b : b[m].file = "session" /\ b[m].id = id
        BY <3>1 DEF NoSession
      <3>3. m + n \in DOMAIN c /\ m + n > j /\ c[m + n] = b[m]
        BY <1>1, <3>2
      <3> QED
        BY <1>7, <3>2, <3>3 DEF Latest
    <2>3. PICK m \in DOMAIN b : m = j - n /\ c[j] = b[m]
      BY <1>1, <2>2
    <2>4. ASSUME NEW i \in DOMAIN b, i > m PROVE ~(b[i].file = "session" /\ b[i].id = id)
      <3>1. i + n \in DOMAIN c /\ i + n > j /\ c[i + n] = b[i]
        BY <1>1, <2>3, <2>4
      <3> QED
        BY <1>7, <3>1 DEF Latest
    <2>5. Latest(b, id, m)
      BY <2>1, <2>3, <2>4 DEF Latest
    <2> QED
      BY <1>3, <1>4, <2>3, <2>5
  <1> QED
    BY <1>5, <1>6, <1>7

\* Without a context there is none to be misplaced.
LEMMA NoContextIsFine ==
  ASSUME NEW ws, NEW id, NoContext(ws, id)
  PROVE  OneContext(ws, id)
  BY DEF NoContext, OneContext

\* A session and its context.
LEMMA PairFacts ==
  ASSUME NEW id \in Ids, NEW s \in Session
  PROVE  /\ OneContext(Saved(id, s) \o SavedContext(id, s.turns), id)
         /\ ~NoSession(Saved(id, s) \o SavedContext(id, s.turns), id)
         /\ Whole(Saved(id, s) \o SavedContext(id, s.turns))
  <1> DEFINE a == [file |-> "session", id |-> id, to |-> s]
             b == [file |-> "summary", id |-> id, to |-> SummaryOf(s)]
             c == [file |-> "context", id |-> id, to |-> s.turns]
             p == <<a, b>>
             q == <<c>>
             ws == p \o q
  <1>1. s.turns \in Nat
    BY DEF Session
  <1>2. p = Saved(id, s) /\ q = SavedContext(id, s.turns)
    BY DEF Saved, SavedContext
  <1> HIDE DEF p, q
  <1>3. p \in Seq(File) /\ q \in Seq(File) /\ Whole(ws)
    <2>1. p \in Seq(File) /\ q \in Seq(File) /\ Whole(p) /\ Whole(q)
      BY <1>1, <1>2, UnitFacts, SavedFacts, ContextFacts
    <2> QED
      BY <2>1, WholeJoin
  <1>4. a.file = "session" /\ a.id = id /\ a.to = s /\ b.file = "summary" /\ c.file = "context"
        /\ c.to = s.turns
    OBVIOUS
  <1> HIDE DEF a, b, c
  <1>5. Len(p) = 2 /\ Len(q) = 1 /\ p[1] = a /\ p[2] = b /\ q[1] = c
    BY DEF p, q
  <1>6. DOMAIN ws = {1, 2, 3} /\ ws[1] = a /\ ws[2] = b /\ ws[3] = c
    <2>1. /\ DOMAIN p = 1 .. Len(p) /\ DOMAIN q = 1 .. Len(q)
          /\ DOMAIN ws = 1 .. Len(p) + Len(q)
          /\ \A k \in DOMAIN p : ws[k] = p[k]
          /\ \A k \in DOMAIN q : ws[k + Len(p)] = q[k]
      BY <1>3, JoinFacts
    <2> HIDE DEF ws
    <2> QED
      BY <1>5, <2>1
  <1> HIDE DEF ws
  <1>7. ~NoSession(ws, id)
    BY <1>4, <1>6 DEF NoSession
  <1>8. OneContext(ws, id)
    BY <1>4, <1>6 DEF OneContext, Latest
  <1> QED
    BY <1>2, <1>3, <1>7, <1>8 DEF ws

\* The next write and those after it.
LEMMA NextFacts ==
  ASSUME NEW ws \in Seq(File), ws # <<>>
  PROVE  /\ Followed(ws) => Followed(Tail(ws))
         /\ Preceded(ws) => Preceded(Tail(ws))
         /\ Followed(ws) /\ Head(ws).file = "session" =>
              Tail(ws) # <<>> /\ Head(Tail(ws)) = SummaryWrite(Head(ws))
         /\ Preceded(ws) /\ Head(ws).file # "session" =>
              (Tail(ws) # <<>> => Head(Tail(ws)).file # "summary")
  <1> DEFINE rest == Tail(ws)
  <1>1. Len(ws) \in Nat /\ Len(ws) > 0 /\ DOMAIN ws = 1 .. Len(ws) /\ Head(ws) = ws[1]
    BY EmptySeq
  <1>2. /\ rest \in Seq(File) /\ Len(rest) = Len(ws) - 1
        /\ \A k \in 1 .. Len(rest) : rest[k] = ws[k + 1]
    BY HeadTailProperties
  <1> HIDE DEF rest
  <1>3. DOMAIN rest = 1 .. Len(rest) /\ (rest # <<>> <=> Len(rest) > 0)
        /\ (rest # <<>> => Head(rest) = rest[1])
    <2>1. rest = <<>> <=> Len(rest) = 0
      BY <1>2, EmptySeq
    <2>2. DOMAIN rest = 1 .. Len(rest) /\ Len(rest) \in Nat /\ Head(rest) = rest[1]
      BY <1>2
    <2> QED
      BY <2>1, <2>2
  <1>4. /\ 1 \in DOMAIN ws
        /\ \A k \in DOMAIN rest : k + 1 \in DOMAIN ws /\ rest[k] = ws[k + 1]
        /\ \A k \in DOMAIN ws : k # 1 => k - 1 \in DOMAIN rest /\ ws[k] = rest[k - 1]
        /\ rest # <<>> <=> 2 \in DOMAIN ws
        /\ rest # <<>> => Head(rest) = ws[2]
    BY <1>1, <1>2, <1>3
  <1>5. Followed(ws) => Followed(rest)
    <2> SUFFICES ASSUME Followed(ws), NEW k \in DOMAIN rest, rest[k].file = "session"
                 PROVE  k + 1 \in DOMAIN rest /\ rest[k + 1] = SummaryWrite(rest[k])
      BY DEF Followed
    <2>1. (k + 1) + 1 \in DOMAIN ws /\ ws[(k + 1) + 1] = SummaryWrite(ws[k + 1])
      BY <1>4 DEF Followed
    <2>2. (k + 1) + 1 # 1 /\ ((k + 1) + 1) - 1 = k + 1
      BY <1>2, <1>3
    <2> QED
      BY <1>4, <2>1, <2>2
  <1>6. Preceded(ws) => Preceded(rest)
    <2> SUFFICES ASSUME Preceded(ws), NEW k \in DOMAIN rest, k # 1, rest[k].file = "summary"
                 PROVE  rest[k - 1].file = "session"
      BY DEF Preceded
    <2>1. k + 1 # 1 /\ (k + 1) - 1 = k /\ k \in DOMAIN ws /\ k - 1 \in DOMAIN rest
      BY <1>1, <1>2, <1>3
    <2>2. ws[k].file = "session"
      BY <1>4, <2>1 DEF Preceded
    <2> QED
      BY <1>4, <2>1, <2>2
  <1>7. Followed(ws) /\ ws[1].file = "session" => rest # <<>> /\ Head(rest) = SummaryWrite(ws[1])
    BY <1>4 DEF Followed
  <1>8. Preceded(ws) /\ ws[1].file # "session" /\ rest # <<>> => Head(rest).file # "summary"
    BY <1>4 DEF Preceded
  <1> QED
    BY <1>1, <1>5, <1>6, <1>7, <1>8 DEF rest

\* And of the session and the context of one id.
LEMMA NextOf ==
  ASSUME NEW ws \in Seq(File), ws # <<>>, NEW id
  PROVE  /\ OneContext(ws, id) => OneContext(Tail(ws), id)
         /\ OneContext(ws, id) /\ Head(ws).file = "context" /\ Head(ws).id = id =>
              NoContext(Tail(ws), id) /\ NoSession(Tail(ws), id) /\ NoSession(ws, id)
         /\ ~(Head(ws).file = "context" /\ Head(ws).id = id) /\ NoContext(Tail(ws), id) =>
              NoContext(ws, id)
         /\ ~(Head(ws).file = "session" /\ Head(ws).id = id) /\ NoSession(Tail(ws), id) =>
              NoSession(ws, id)
         /\ OneContext(ws, id) /\ Head(ws).file = "session" /\ Head(ws).id = id
              /\ NoSession(Tail(ws), id) =>
              \A k \in DOMAIN Tail(ws) : Tail(ws)[k].file = "context" /\ Tail(ws)[k].id = id =>
                                           Head(ws).to.turns = Tail(ws)[k].to
         /\ \A k \in DOMAIN Tail(ws) : \E l \in DOMAIN ws : Tail(ws)[k] = ws[l]
  <1> DEFINE rest == Tail(ws)
  <1>1. Len(ws) \in Nat /\ Len(ws) > 0 /\ DOMAIN ws = 1 .. Len(ws) /\ Head(ws) = ws[1]
    BY EmptySeq
  <1>2. /\ rest \in Seq(File) /\ Len(rest) = Len(ws) - 1
        /\ \A k \in 1 .. Len(rest) : rest[k] = ws[k + 1]
    BY HeadTailProperties
  <1>3. DOMAIN rest = 1 .. Len(rest)
    BY <1>2
  <1> HIDE DEF rest
  <1>4. /\ 1 \in DOMAIN ws
        /\ \A k \in DOMAIN rest : k \in Nat /\ k + 1 > 1 /\ k + 1 \in DOMAIN ws /\ rest[k] = ws[k + 1]
        /\ \A k \in DOMAIN ws : k \in Nat /\ (k # 1 => k - 1 \in DOMAIN rest /\ ws[k] = rest[k - 1])
    BY <1>1, <1>2, <1>3
  <1>5. ~(ws[1].file = "context" /\ ws[1].id = id) /\ NoContext(rest, id) => NoContext(ws, id)
    BY <1>4 DEF NoContext
  <1>6. ~(ws[1].file = "session" /\ ws[1].id = id) /\ NoSession(rest, id) => NoSession(ws, id)
    BY <1>4 DEF NoSession
  <1>7. OneContext(ws, id) /\ ws[1].file = "context" /\ ws[1].id = id =>
          NoContext(rest, id) /\ NoSession(rest, id) /\ NoSession(ws, id)
    <2> SUFFICES ASSUME OneContext(ws, id), ws[1].file = "context", ws[1].id = id
                 PROVE  NoContext(rest, id) /\ NoSession(rest, id)
      BY <1>6
    <2>1. /\ \A j \in DOMAIN ws : j # 1 => ~(ws[j].file = "context" /\ ws[j].id = id)
          /\ \A j \in DOMAIN ws : j > 1 => ~(ws[j].file = "session" /\ ws[j].id = id)
      BY <1>4 DEF OneContext
    <2> QED
      BY <1>4, <2>1 DEF NoContext, NoSession
  <1>8. \A j \in DOMAIN rest : Latest(rest, id, j) => Latest(ws, id, j + 1)
    <2> SUFFICES ASSUME NEW j \in DOMAIN rest, Latest(rest, id, j), NEW i \in DOMAIN ws, i > j + 1
                 PROVE  ~(ws[i].file = "session" /\ ws[i].id = id)
      BY <1>4 DEF Latest
    <2>1. i # 1 /\ i - 1 > j
      BY <1>4
    <2> QED
      BY <1>4, <2>1 DEF Latest
  <1>9. OneContext(ws, id) => OneContext(rest, id)
    <2> SUFFICES ASSUME OneContext(ws, id), NEW k \in DOMAIN rest, rest[k].file = "context",
                        rest[k].id = id
                 PROVE  /\ \A j \in DOMAIN rest : j # k => ~(rest[j].file = "context" /\ rest[j].id = id)
                        /\ \A j \in DOMAIN rest : j > k => ~(rest[j].file = "session" /\ rest[j].id = id)
                        /\ \A j \in DOMAIN rest : Latest(rest, id, j) => rest[j].to.turns = rest[k].to
      BY DEF OneContext
    <2>1. /\ \A j \in DOMAIN ws : j # k + 1 => ~(ws[j].file = "context" /\ ws[j].id = id)
          /\ \A j \in DOMAIN ws : j > k + 1 => ~(ws[j].file = "session" /\ ws[j].id = id)
          /\ \A j \in DOMAIN ws : Latest(ws, id, j) => ws[j].to.turns = ws[k + 1].to
      BY <1>4 DEF OneContext
    <2>2. \A j \in DOMAIN rest : (j # k => j + 1 # k + 1) /\ (j > k => j + 1 > k + 1)
      BY <1>4
    <2> QED
      BY <1>4, <1>8, <2>1, <2>2
  <1>10. ASSUME OneContext(ws, id), ws[1].file = "session", ws[1].id = id, NoSession(rest, id),
                NEW k \in DOMAIN rest, rest[k].file = "context", rest[k].id = id
         PROVE  ws[1].to.turns = rest[k].to
    <2>1. Latest(ws, id, 1)
      <3>1. \A j \in DOMAIN ws : j > 1 => ~(ws[j].file = "session" /\ ws[j].id = id)
        <4> SUFFICES ASSUME NEW j \in DOMAIN ws, j > 1
                     PROVE  ~(ws[j].file = "session" /\ ws[j].id = id)
          OBVIOUS
        <4>1. j # 1
          BY <1>4
        <4> QED
          BY <1>4, <1>10, <4>1 DEF NoSession
      <3> QED
        BY <1>4, <1>10, <3>1 DEF Latest
    <2>2. k + 1 \in DOMAIN ws /\ ws[k + 1] = rest[k]
      BY <1>4
    <2> QED
      BY <1>4, <1>10, <2>1, <2>2 DEF OneContext
  <1>11. \A k \in DOMAIN rest : \E l \in DOMAIN ws : rest[k] = ws[l]
    BY <1>4
  <1> QED
    BY <1>1, <1>5, <1>6, <1>7, <1>9, <1>10, <1>11 DEF rest

-----------------------------------------------------------------------------
(* The invariant of the files *)

\* The next write is of the summary of id.
SummaryNext(id) == writes # <<>> /\ Head(writes).file = "summary" /\ Head(writes).id = id

\* A summary that is written next is that of the session file.
SummariesMatch ==
  \A id \in Ids : SummaryNext(id) =>
    id \in Sessions /\ Head(writes).to = SummaryOf(session[id])

\* A summary is its session's, or older: it is written next, or the server died before it was.
SummariesFollow ==
  \A id \in Sessions :
    \/ summary[id] \in {None, SummaryOf(session[id])}
    \/ summary[id].updated < session[id].updated /\ (id \in lagging \/ SummaryNext(id))

\* No file is from a later time, and none is a summary without a session.
FilesAreDated ==
  \A id \in Ids :
    /\ id \in Sessions => session[id].updated <= time
    /\ summary[id] # None => id \in Sessions

\* What is still to be written is newer than the files, or tells the same.
WritesAreNewer ==
  \A id \in Ids, t \in Session : Writing(writes, id, t) =>
    /\ t.updated = time
    /\ id \in Sessions => session[id].updated < time \/ SummaryOf(session[id]) = SummaryOf(t)
    /\ summary[id] = None \/ summary[id].updated < time \/ summary[id] = SummaryOf(t)
    /\ \A u \in Session : Writing(writes, id, u) => SummaryOf(u) = SummaryOf(t)

SummaryInv ==
  /\ Followed(writes) /\ Preceded(writes)
  /\ SummariesMatch /\ SummariesFollow /\ FilesAreDated /\ WritesAreNewer

\* The context of id has the turns of the session, once what is still to be written is written.
ContextFollows(id) ==
  /\ OneContext(writes, id)
  /\ NoContext(writes, id) =>
       /\ id \in Sessions => session[id].turns = context[id]
       /\ \A t \in Session : Writing(writes, id, t) => t.turns = context[id]
  /\ NoSession(writes, id) =>
       \A k \in DOMAIN writes : writes[k].file = "context" /\ writes[k].id = id =>
         id \in Sessions /\ session[id].turns = writes[k].to

\* So do the copies of a run.
RunFollows(id) == run[id] # None => run[id].turns = run[id].session.turns

ContextInv == \A id \in Ids \ behind : ContextFollows(id) /\ RunFollows(id)

-----------------------------------------------------------------------------
(* Summaries *)

LEMMA SummaryFacts ==
  ASSUME NEW s \in Session
  PROVE  /\ SummaryOf(s) \in Summary /\ SummaryOf(s).name = s.name
         /\ SummaryOf(s).group = s.group /\ SummaryOf(s).updated = s.updated
         /\ s.updated \in Nat /\ s.turns \in Nat
  BY DEF SummaryOf, Summary, Session

\* What an operation does to the files and to what is still to be written.
Saves ==
  /\ writes = <<>> /\ Whole(writes')
  /\ UNCHANGED <<session, lagging>>
  /\ summary' \in {summary, Listed}
  /\ time' \in {time, time + 1}
  /\ \A id \in Ids, t \in Session : Writing(writes', id, t) =>
       /\ time' = time + 1 /\ t.updated = time'
       /\ \A u \in Session : Writing(writes', id, u) => SummaryOf(u) = SummaryOf(t)

LEMMA SavesSummaries ==
  ASSUME IInv, SummaryInv, Saves
  PROVE  SummaryInv'
  <1>1. /\ writes = <<>> /\ session' = session /\ lagging' = lagging
        /\ time \in Nat /\ time' \in Nat /\ time <= time' /\ Sessions' = Sessions
    BY DEF Saves, Sessions, IInv, TypeOK
  <1>2. /\ Followed(writes') /\ Preceded(writes')
        /\ \A id : ~(writes' # <<>> /\ Head(writes').file = "summary" /\ Head(writes').id = id)
    <2>1. writes' \in Seq(File) /\ (1 \in DOMAIN writes' => writes'[1].file # "summary")
      BY DEF Saves, Whole
    <2>2. writes' # <<>> => 1 \in DOMAIN writes' /\ Head(writes') = writes'[1]
      BY <2>1, EmptySeq
    <2> QED
      BY <2>1, <2>2 DEF Saves, Whole
  <1>3. \A id : ~SummaryNext(id) /\ ~SummaryNext(id)'
    BY <1>1, <1>2 DEF SummaryNext
  <1>4. \A id \in Sessions :
          /\ id \in Ids /\ session[id] \in Session /\ session[id].updated \in Nat
          /\ SummaryOf(session[id]).updated = session[id].updated
    BY SessionFacts, SummaryFacts
  <1>5. \A id \in Ids :
          /\ id \in Sessions /\ summary[id] = None =>
               summary'[id] \in {None, SummaryOf(session[id])}
          /\ id \notin Sessions \/ summary[id] # None => summary'[id] = summary[id]
    BY DEF Saves, Listed
  <1>6. SummariesMatch'
    BY <1>3 DEF SummariesMatch
  <1>7. SummariesFollow'
    <2> SUFFICES ASSUME NEW id \in Sessions
                 PROVE  \/ summary'[id] \in {None, SummaryOf(session[id])}
                        \/ summary'[id].updated < session[id].updated /\ id \in lagging
      BY <1>1 DEF SummariesFollow
    <2> QED
      BY <1>3, <1>4, <1>5 DEF SummaryInv, SummariesFollow
  <1>8. FilesAreDated'
    <2> SUFFICES ASSUME NEW id \in Ids
                 PROVE  /\ id \in Sessions => session[id].updated <= time'
                        /\ summary'[id] # None => id \in Sessions
      BY <1>1 DEF FilesAreDated
    <2>1. id \in Sessions => session[id].updated <= time
      BY DEF SummaryInv, FilesAreDated
    <2>2. summary[id] # None => id \in Sessions
      BY DEF SummaryInv, FilesAreDated
    <2> QED
      BY <1>1, <1>4, <1>5, <2>1, <2>2
  <1>9. WritesAreNewer'
    <2> SUFFICES ASSUME NEW id \in Ids, NEW t \in Session, Writing(writes', id, t)
                 PROVE  /\ t.updated = time'
                        /\ id \in Sessions => session[id].updated < time'
                        /\ summary'[id] = None \/ summary'[id].updated < time'
                        /\ \A u \in Session : Writing(writes', id, u) => SummaryOf(u) = SummaryOf(t)
      BY <1>1, WritingLater DEF WritesAreNewer
    <2>1. /\ time' = time + 1 /\ t.updated = time'
          /\ \A u \in Session : Writing(writes', id, u) => SummaryOf(u) = SummaryOf(t)
      BY DEF Saves
    <2>2. id \in Sessions => session[id].updated < time'
      BY <1>1, <1>4, <2>1 DEF SummaryInv, FilesAreDated
    <2>3. summary'[id] = None \/ summary'[id].updated < time'
      <3>1. CASE id \notin Sessions
        BY <1>5, <3>1 DEF SummaryInv, FilesAreDated
      <3>2. CASE id \in Sessions
        <4>1. \/ summary'[id] \in {None, SummaryOf(session[id])}
              \/ summary[id] # None /\ summary'[id] = summary[id]
                 /\ summary[id].updated < session[id].updated
          BY <1>3, <1>5, <3>2 DEF SummaryInv, SummariesFollow
        <4>2. summary[id] # None => summary[id].updated \in Nat
          BY DEF IInv, TypeOK, Summary
        <4> QED
          BY <1>1, <1>4, <2>2, <3>2, <4>1, <4>2
      <3> QED
        BY <3>1, <3>2
    <2> QED
      BY <2>1, <2>2, <2>3
  <1> QED
    BY <1>2, <1>6, <1>7, <1>8, <1>9 DEF SummaryInv

LEMMA WriteSummaries ==
  ASSUME IInv, SummaryInv, Write
  PROVE  SummaryInv'
  <1> DEFINE w == Head(writes)
  <1>1. /\ writes # <<>> /\ writes' = Tail(writes)
        /\ session' = IF w.file = "session" THEN [session EXCEPT ![w.id] = w.to] ELSE session
        /\ summary' = IF w.file = "summary" THEN [summary EXCEPT ![w.id] = w.to] ELSE summary
        /\ UNCHANGED <<time, lagging>>
    BY DEF Write, history
  <1>2. /\ w \in File
        /\ \A i, t : Writing(writes', i, t) => Writing(writes, i, t)
        /\ w.file = "session" => Writing(writes, w.id, w.to)
    BY <1>1, TailFacts DEF IInv, TypeOK
  <1>3. /\ Followed(writes') /\ Preceded(writes')
        /\ w.file = "session" => writes' # <<>> /\ Head(writes') = SummaryWrite(w)
        /\ w.file # "session" => (writes' # <<>> => Head(writes').file # "summary")
    BY <1>1, NextFacts DEF IInv, TypeOK, SummaryInv
  <1> HIDE DEF w
  <1>4. /\ w.id \in Ids
        /\ w.file = "session" => w.to \in Session
        /\ w.file = "summary" => w.to \in Summary
        /\ w.file \in {"session", "summary", "context"}
    BY <1>2 DEF File
  <1>5. /\ w.file = "session" => session'[w.id] = w.to
        /\ w.file = "summary" => summary'[w.id] = w.to
        /\ \A id \in Ids : w.file # "session" \/ id # w.id => session'[id] = session[id]
        /\ \A id \in Ids : w.file # "summary" \/ id # w.id => summary'[id] = summary[id]
    BY <1>1, <1>4 DEF IInv, TypeOK
  <1>6. /\ \A id : SummaryNext(id) <=> w.file = "summary" /\ w.id = id
        /\ \A id : SummaryNext(id)' <=> w.file = "session" /\ w.id = id
        /\ w.file = "session" => Head(writes').to = SummaryOf(w.to)
    <2>1. \A id : SummaryNext(id) <=> w.file = "summary" /\ w.id = id
      BY <1>1 DEF SummaryNext, w
    <2>2. /\ SummaryWrite(w).file = "summary" /\ SummaryWrite(w).id = w.id
          /\ SummaryWrite(w).to = SummaryOf(w.to)
      BY DEF SummaryWrite
    <2>3. \A id : SummaryNext(id)' <=> writes' # <<>> /\ Head(writes').file = "summary"
                                         /\ Head(writes').id = id
      BY DEF SummaryNext
    <2> QED
      BY <1>3, <2>1, <2>2, <2>3
  <1>7. /\ time \in Nat
        /\ \A id \in Ids : id \in Sessions' <=> id \in Sessions \/ (w.file = "session" /\ w.id = id)
    <2>1. \A id \in Ids : (id \in Sessions <=> session[id] # None)
                            /\ (id \in Sessions' <=> session'[id] # None)
      BY DEF Sessions
    <2>2. w.file = "session" => w.to # None
      BY <1>4, NoneAssumption
    <2> QED
      BY <1>4, <1>5, <2>1, <2>2 DEF IInv, TypeOK
  <1>8. \A id \in Sessions : /\ session[id] \in Session /\ session[id].updated \in Nat
                             /\ SummaryOf(session[id]).updated = session[id].updated
    BY SessionFacts, SummaryFacts
  <1>9. w.file = "session" =>
          /\ w.to.updated = time /\ SummaryOf(w.to).updated = time
          /\ w.id \in Sessions =>
               session[w.id].updated < time \/ SummaryOf(session[w.id]) = SummaryOf(w.to)
          /\ \/ summary[w.id] = None \/ summary[w.id].updated < time
             \/ summary[w.id] = SummaryOf(w.to)
          /\ \A u \in Session : Writing(writes, w.id, u) => SummaryOf(u) = SummaryOf(w.to)
    BY <1>2, <1>4, SummaryFacts DEF SummaryInv, WritesAreNewer
  <1>10. w.file = "summary" => w.id \in Sessions /\ w.to = SummaryOf(session[w.id])
    BY <1>4, <1>6 DEF SummaryInv, SummariesMatch, w
  <1>11. SummariesMatch'
    <2> SUFFICES ASSUME NEW id \in Ids, SummaryNext(id)'
                 PROVE  id \in Sessions' /\ Head(writes').to = SummaryOf(session'[id])
      BY DEF SummariesMatch
    <2> QED
      BY <1>4, <1>5, <1>6, <1>7
  <1>12. SummariesFollow'
    <2> SUFFICES ASSUME NEW id \in Ids, id \in Sessions'
                 PROVE  \/ summary'[id] \in {None, SummaryOf(session'[id])}
                        \/ /\ summary'[id].updated < session'[id].updated
                           /\ id \in lagging \/ SummaryNext(id)'
      BY <1>1 DEF SummariesFollow, Sessions
    <2>1. CASE w.file = "session" /\ w.id = id
      BY <1>5, <1>6, <1>9, <2>1
    <2>2. CASE w.file = "summary" /\ w.id = id
      BY <1>5, <1>10, <2>2
    <2>3. CASE ~(w.file \in {"session", "summary"} /\ w.id = id)
      <3>1. session'[id] = session[id] /\ summary'[id] = summary[id] /\ id \in Sessions
        BY <1>5, <1>7, <2>3
      <3>2. ~SummaryNext(id)
        BY <1>6, <2>3
      <3> QED
        BY <3>1, <3>2 DEF SummaryInv, SummariesFollow
    <2> QED
      BY <2>1, <2>2, <2>3
  <1>13. FilesAreDated'
    <2> SUFFICES ASSUME NEW id \in Ids
                 PROVE  /\ id \in Sessions' => session'[id].updated <= time
                        /\ summary'[id] # None => id \in Sessions'
      BY <1>1 DEF FilesAreDated
    <2>1. /\ id \in Sessions => session[id].updated <= time
          /\ summary[id] # None => id \in Sessions
      BY DEF SummaryInv, FilesAreDated
    <2>2. id \in Sessions' => session'[id].updated <= time
      <3>1. CASE w.file = "session" /\ w.id = id
        BY <1>5, <1>7, <1>9, <3>1
      <3>2. CASE ~(w.file = "session" /\ w.id = id)
        BY <1>5, <1>7, <2>1, <3>2
      <3> QED
        BY <3>1, <3>2
    <2>3. summary'[id] # None => id \in Sessions'
      BY <1>5, <1>7, <1>10, <2>1
    <2> QED
      BY <2>2, <2>3
  <1>14. WritesAreNewer'
    <2> SUFFICES ASSUME NEW id \in Ids, NEW t \in Session, Writing(writes', id, t)
                 PROVE  /\ t.updated = time
                        /\ id \in Sessions' =>
                             \/ session'[id].updated < time
                             \/ SummaryOf(session'[id]) = SummaryOf(t)
                        /\ \/ summary'[id] = None \/ summary'[id].updated < time
                           \/ summary'[id] = SummaryOf(t)
                        /\ \A u \in Session : Writing(writes', id, u) => SummaryOf(u) = SummaryOf(t)
      BY <1>1, WritingLater DEF WritesAreNewer
    <2>1. /\ t.updated = time
          /\ id \in Sessions => session[id].updated < time \/ SummaryOf(session[id]) = SummaryOf(t)
          /\ summary[id] = None \/ summary[id].updated < time \/ summary[id] = SummaryOf(t)
          /\ \A u \in Session : Writing(writes, id, u) => SummaryOf(u) = SummaryOf(t)
      BY <1>2 DEF SummaryInv, WritesAreNewer
    <2>2. CASE w.file = "session" /\ w.id = id
      <3>1. SummaryOf(w.to) = SummaryOf(t)
        BY <1>2, <1>4, <2>1, <2>2
      <3> QED
        BY <1>2, <1>5, <2>1, <2>2, <3>1
    <2>3. CASE w.file = "summary" /\ w.id = id
      BY <1>2, <1>5, <1>7, <1>8, <1>10, <2>1, <2>3
    <2>4. CASE ~(w.file \in {"session", "summary"} /\ w.id = id)
      BY <1>2, <1>5, <1>7, <2>1, <2>4
    <2> QED
      BY <2>2, <2>3, <2>4
  <1> QED
    BY <1>3, <1>11, <1>12, <1>13, <1>14 DEF SummaryInv

LEMMA CrashSummaries ==
  ASSUME IInv, SummaryInv, Crash
  PROVE  SummaryInv'
  <1>1. /\ writes' = <<>> /\ session' = session /\ summary' = summary /\ time' = time
        /\ lagging \subseteq lagging'
        /\ \A id \in Ids : SummaryNext(id) /\ summary[id] # None => id \in lagging'
    BY DEF Crash, files, SummaryNext
  <1>2. Followed(<<>>) /\ Preceded(<<>>)
    BY DEF Followed, Preceded
  <1>3. /\ \A id : ~SummaryNext(id)' /\ \A t : ~Writing(writes, id, t)'
        /\ Sessions' = Sessions
    BY <1>1, NothingFacts, WritingLater DEF SummaryNext, Sessions
  <1>4. SummariesMatch' /\ FilesAreDated' /\ WritesAreNewer'
    BY <1>1, <1>3 DEF SummaryInv, SummariesMatch, FilesAreDated, WritesAreNewer
  <1>5. SummariesFollow'
    <2> SUFFICES ASSUME NEW id \in Sessions
                 PROVE  \/ summary[id] \in {None, SummaryOf(session[id])}
                        \/ summary[id].updated < session[id].updated /\ id \in lagging'
      BY <1>1, <1>3 DEF SummariesFollow
    <2> QED
      BY <1>1, SessionFacts DEF SummaryInv, SummariesFollow
  <1> QED
    BY <1>1, <1>2, <1>4, <1>5 DEF SummaryInv

-----------------------------------------------------------------------------
(* Contexts *)

\* What an operation does to the context of id.
SavesContext(id) ==
  /\ OneContext(writes', id)
  /\ NoContext(writes', id) =>
       \A t \in Session : Writing(writes', id, t) => id \in Sessions /\ t.turns = session[id].turns
  /\ NoSession(writes', id) => NoContext(writes', id)

LEMMA SavesContexts ==
  ASSUME NEW id \in Ids, ContextFollows(id), writes = <<>>, UNCHANGED <<session, context>>,
         SavesContext(id)
  PROVE  ContextFollows(id)'
  <1>1. id \in Sessions => session[id].turns = context[id]
    BY DEF ContextFollows, NoContext
  <1>2. /\ OneContext(writes', id) <=> OneContext(writes, id)'
        /\ NoContext(writes', id) <=> NoContext(writes, id)'
        /\ NoSession(writes', id) <=> NoSession(writes, id)'
    BY DEF OneContext, NoContext, NoSession, Latest
  <1>3. Sessions' = Sessions
    BY DEF Sessions
  <1>4. NoContext(writes', id) =>
          \A t \in Session : Writing(writes', id, t) => t.turns = context[id]
    BY <1>1 DEF SavesContext
  <1>5. NoSession(writes', id) =>
          \A k \in DOMAIN writes' : ~(writes'[k].file = "context" /\ writes'[k].id = id)
    BY DEF SavesContext, NoContext
  <1> QED
    BY <1>1, <1>2, <1>3, <1>4, <1>5, WritingLater DEF ContextFollows, SavesContext

LEMMA WriteContexts ==
  ASSUME IInv, ContextInv, Write
  PROVE  ContextInv'
  <1> DEFINE w == Head(writes)
  <1>1. /\ writes # <<>> /\ writes' = Tail(writes)
        /\ session' = IF w.file = "session" THEN [session EXCEPT ![w.id] = w.to] ELSE session
        /\ context' = IF w.file = "context" THEN [context EXCEPT ![w.id] = w.to] ELSE context
        /\ UNCHANGED <<run, behind>>
    BY DEF Write, history
  <1>2. /\ w \in File
        /\ \A i, t : Writing(writes', i, t) => Writing(writes, i, t)
        /\ w.file = "session" => Writing(writes, w.id, w.to)
    BY <1>1, TailFacts DEF IInv, TypeOK
  <1>3. SUFFICES ASSUME NEW id \in Ids \ behind
                 PROVE  ContextFollows(id)' /\ RunFollows(id)'
    BY <1>1 DEF ContextInv
  <1>4. /\ OneContext(writes, id) => OneContext(writes', id)
        /\ OneContext(writes, id) /\ w.file = "context" /\ w.id = id =>
             NoContext(writes', id) /\ NoSession(writes', id) /\ NoSession(writes, id)
        /\ ~(w.file = "context" /\ w.id = id) /\ NoContext(writes', id) => NoContext(writes, id)
        /\ ~(w.file = "session" /\ w.id = id) /\ NoSession(writes', id) => NoSession(writes, id)
        /\ OneContext(writes, id) /\ w.file = "session" /\ w.id = id /\ NoSession(writes', id) =>
             \A k \in DOMAIN writes' : writes'[k].file = "context" /\ writes'[k].id = id =>
                                         w.to.turns = writes'[k].to
        /\ \A k \in DOMAIN writes' : \E l \in DOMAIN writes : writes'[k] = writes[l]
    BY <1>1, NextOf DEF IInv, TypeOK
  <1>5. w.file = "context" /\ w.id = id => 1 \in DOMAIN writes /\ w = writes[1]
    BY <1>1, EmptySeq DEF IInv, TypeOK
  <1> HIDE DEF w
  <1>6. w.id \in Ids /\ (w.file = "session" => w.to \in Session)
    BY <1>2 DEF File
  <1>7. /\ w.file = "session" => session'[w.id] = w.to
        /\ w.file = "context" => context'[w.id] = w.to
        /\ w.file # "session" \/ id # w.id => session'[id] = session[id]
        /\ w.file # "context" \/ id # w.id => context'[id] = context[id]
    BY <1>1, <1>6 DEF IInv, TypeOK
  <1>8. id \in Sessions' <=> id \in Sessions \/ (w.file = "session" /\ w.id = id)
    <2>1. (id \in Sessions <=> session[id] # None) /\ (id \in Sessions' <=> session'[id] # None)
      BY DEF Sessions
    <2>2. w.file = "session" => w.to # None
      BY <1>6, NoneAssumption
    <2> QED
      BY <1>6, <1>7, <2>1, <2>2 DEF IInv, TypeOK
  <1>9. /\ OneContext(writes, id)
        /\ NoContext(writes, id) =>
             /\ id \in Sessions => session[id].turns = context[id]
             /\ \A t \in Session : Writing(writes, id, t) => t.turns = context[id]
        /\ NoSession(writes, id) =>
             \A k \in DOMAIN writes : writes[k].file = "context" /\ writes[k].id = id =>
               id \in Sessions /\ session[id].turns = writes[k].to
    BY DEF ContextInv, ContextFollows
  <1>10. NoContext(writes', id) =>
           /\ id \in Sessions' => session'[id].turns = context'[id]
           /\ \A t \in Session : Writing(writes', id, t) => t.turns = context'[id]
    <2> SUFFICES ASSUME NoContext(writes', id)
                 PROVE  /\ id \in Sessions' => session'[id].turns = context'[id]
                        /\ \A t \in Session : Writing(writes', id, t) => t.turns = context'[id]
      OBVIOUS
    <2>1. CASE w.file = "context" /\ w.id = id
      <3>1. NoSession(writes', id) /\ session[id].turns = w.to
        BY <1>4, <1>5, <1>9, <2>1
      <3>2. \A t : ~Writing(writes', id, t)
        BY <3>1 DEF NoSession, Writing
      <3> QED
        BY <1>7, <2>1, <3>1, <3>2
    <2>2. CASE ~(w.file = "context" /\ w.id = id)
      <3>1. NoContext(writes, id) /\ context'[id] = context[id]
        BY <1>4, <1>7, <2>2
      <3>2. \A t \in Session : Writing(writes, id, t) => t.turns = context[id]
        BY <1>9, <3>1
      <3>3. CASE w.file = "session" /\ w.id = id
        BY <1>2, <1>6, <1>7, <3>1, <3>2, <3>3
      <3>4. CASE ~(w.file = "session" /\ w.id = id)
        BY <1>2, <1>7, <1>8, <1>9, <3>1, <3>2, <3>4
      <3> QED
        BY <3>3, <3>4
    <2> QED
      BY <2>1, <2>2
  <1>11. NoSession(writes', id) =>
           \A k \in DOMAIN writes' : writes'[k].file = "context" /\ writes'[k].id = id =>
             id \in Sessions' /\ session'[id].turns = writes'[k].to
    <2> SUFFICES ASSUME NoSession(writes', id), NEW k \in DOMAIN writes',
                        writes'[k].file = "context", writes'[k].id = id
                 PROVE  id \in Sessions' /\ session'[id].turns = writes'[k].to
      OBVIOUS
    <2>1. CASE w.file = "session" /\ w.id = id
      BY <1>4, <1>7, <1>8, <1>9, <2>1
    <2>2. CASE ~(w.file = "session" /\ w.id = id)
      <3>1. NoSession(writes, id) /\ session'[id] = session[id]
        BY <1>4, <1>7, <2>2
      <3>2. PICK l \in DOMAIN writes : writes'[k] = writes[l]
        BY <1>4
      <3> QED
        BY <1>8, <1>9, <3>1, <3>2
    <2> QED
      BY <2>1, <2>2
  <1>12. /\ OneContext(writes', id) <=> OneContext(writes, id)'
         /\ NoContext(writes', id) <=> NoContext(writes, id)'
         /\ NoSession(writes', id) <=> NoSession(writes, id)'
    BY DEF OneContext, NoContext, NoSession, Latest
  <1>13. ContextFollows(id)'
    BY <1>4, <1>9, <1>10, <1>11, <1>12, WritingLater DEF ContextFollows
  <1>14. RunFollows(id)'
    BY <1>1 DEF ContextInv, RunFollows
  <1> QED
    BY <1>13, <1>14

LEMMA CrashContexts ==
  ASSUME IInv, ContextInv, Crash
  PROVE  ContextInv'
  <1>1. /\ writes' = <<>> /\ run' = [id \in Ids |-> None] /\ UNCHANGED <<session, context>>
        /\ behind' = behind \cup {w.id : w \in {x \in ToSet(writes) : x.file = "context"}}
    BY DEF Crash, files
  <1> SUFFICES ASSUME NEW id \in Ids \ behind'
               PROVE  ContextFollows(id)' /\ RunFollows(id)'
    BY DEF ContextInv
  <1>2. id \notin behind /\ NoContext(writes, id)
    BY <1>1 DEF NoContext, ToSet
  <1>3. id \in Sessions => session[id].turns = context[id]
    BY <1>2 DEF ContextInv, ContextFollows
  <1>4. /\ OneContext(writes, id)' /\ Sessions' = Sessions
        /\ \A k \in DOMAIN writes' : FALSE
    BY <1>1 DEF OneContext, Sessions
  <1>5. \A t : ~Writing(writes, id, t)'
    BY <1>1, NothingFacts, WritingLater
  <1>6. ContextFollows(id)'
    BY <1>1, <1>3, <1>4, <1>5 DEF ContextFollows
  <1>7. RunFollows(id)'
    BY <1>1 DEF RunFollows
  <1> QED
    BY <1>6, <1>7

-----------------------------------------------------------------------------
(* Names *)

\* A session keeps its name.
OneName ==
  \A id \in Ids : \A s, t \in Session : Held(id, s) /\ Held(id, t) => s.name = t.name

\* s is in the session file of id, or will be in it.
Stored(id, s) == session[id] = s \/ Writing(writes, id, s)

\* Made by open, which knew the names that are taken.
Opened(id) == id \notin Forks \cup lagging \cup misplaced

\* Of two sessions that open made, one name is in two groups.
NamesDiffer ==
  \A a, b \in Ids : \A s, t \in Session :
    a # b /\ Opened(a) /\ Opened(b) /\ Stored(a, s) /\ Stored(b, t) /\ s.name = t.name =>
      s.group # t.group

\* What an operation does to the names.
SavesNames ==
  /\ Forks \subseteq Forks' /\ misplaced \subseteq misplaced'
  /\ \A id \in Ids :
       run'[id] \in {None, run[id]} \/ (id \in Sessions /\ Writing(writes', id, run'[id].session))
  /\ \A id \in Ids, t \in Session : Writing(writes', id, t) =>
       /\ id \in made => \E c \in Session : Held(id, c) /\ c.name = t.name
       /\ \/ id \in Forks' \cup misplaced'
          \/ /\ id \in Sessions /\ t.name = session[id].name
             /\ t.group = session[id].group \/ t.group \notin made \cup {None}
          \/ /\ id \notin made
             /\ \A b \in Sessions \ lagging :
                  ~(session[b].name = t.name /\ session[b].group = t.group)
       /\ \A other \in Ids, u \in Session :
            Writing(writes', other, u) /\ other # id => {id, other} \cap Forks' # {}

\* A run is of a session that is there.
RunsAreOfSessions == \A id \in Ids : run[id] # None => id \in Sessions

NameInv == OneName /\ NamesDiffer /\ RunsAreOfSessions

LEMMA SavesTheNames ==
  ASSUME IInv, NameInv, Saves, SavesNames
  PROVE  NameInv'
  <1>1. /\ writes = <<>> /\ UNCHANGED <<session, lagging>>
        /\ \A i, t : ~Writing(writes, i, t)
        /\ \A i, t : Writing(writes, i, t)' <=> Writing(writes', i, t)
    BY NothingFacts, WritingLater DEF Saves
  <1>2. \A i \in Ids, t \in Session : Held(i, t)' => Held(i, t) \/ Writing(writes', i, t)
    <2> SUFFICES ASSUME NEW i \in Ids, NEW t \in Session, Held(i, t)'
                 PROVE  Held(i, t) \/ Writing(writes', i, t)
      OBVIOUS
    <2>1. session[i] = t \/ Writing(writes', i, t) \/ (run'[i] # None /\ run'[i].session = t)
      BY <1>1 DEF Held
    <2>2. run'[i] \in {None, run[i]} \/ Writing(writes', i, run'[i].session)
      BY DEF SavesNames
    <2> QED
      BY <2>1, <2>2 DEF Held
  <1>3. OneName'
    <2> SUFFICES ASSUME NEW id \in Ids, NEW s \in Session, NEW t \in Session,
                        Held(id, s)', Held(id, t)'
                 PROVE  s.name = t.name
      BY DEF OneName
    <2>1. CASE id \in made
      <3>1. PICK c \in Session : Held(id, c) /\ c.name = s.name
        BY <1>2, <2>1 DEF SavesNames
      <3>2. PICK d \in Session : Held(id, d) /\ d.name = t.name
        BY <1>2, <2>1 DEF SavesNames
      <3> QED
        BY <3>1, <3>2 DEF NameInv, OneName
    <2>2. CASE id \notin made
      <3>1. Writing(writes', id, s) /\ Writing(writes', id, t)
        BY <1>2, <2>2 DEF IInv, Facts, HeldIsMade
      <3>2. SummaryOf(s) = SummaryOf(t)
        BY <3>1 DEF Saves
      <3> QED
        BY <3>2, SummaryFacts
    <2> QED
      BY <2>1, <2>2
  <1>4. NamesDiffer'
    <2>1. SUFFICES ASSUME NEW a \in Ids, NEW b \in Ids, NEW s \in Session, NEW t \in Session,
                          a # b, Opened(a)', Opened(b)', Stored(a, s)', Stored(b, t)',
                          s.name = t.name, s.group = t.group,
                          session[a] = s => session[b] = t
                   PROVE  FALSE
      <3>1. ASSUME NEW a \in Ids, NEW b \in Ids, NEW s \in Session, NEW t \in Session,
                   a # b, Opened(a)', Opened(b)', Stored(a, s)', Stored(b, t)',
                   s.name = t.name, s.group = t.group
            PROVE  FALSE
        BY <2>1, <3>1
      <3> QED
        BY <3>1 DEF NamesDiffer
    <2>2. /\ Opened(a) /\ Opened(b)
          /\ a \notin Forks' \cup misplaced' \cup lagging /\ b \notin Forks' \cup misplaced' \cup lagging
      BY <1>1, <2>1 DEF Opened, SavesNames
    <2>3. /\ session[a] = s \/ Writing(writes', a, s)
          /\ session[b] = t \/ Writing(writes', b, t)
      BY <1>1, <2>1 DEF Stored
    <2>4. /\ session[a] \in Session => Stored(a, session[a])
          /\ session[b] \in Session => Stored(b, session[b])
          /\ session[b] \in Session => Held(b, session[b])
          /\ \A i \in Ids : i \in Sessions <=> session[i] \in Session
      BY NoneAssumption DEF Stored, Held, Sessions, IInv, TypeOK
    <2>5. CASE session[a] = s
      BY <2>1, <2>2, <2>4, <2>5 DEF NameInv, NamesDiffer
    <2>6. CASE session[a] # s
      <3>1. Writing(writes', a, s)
        BY <2>3, <2>6
      <3>2. session[b] = t
        BY <2>1, <2>2, <2>3, <3>1 DEF SavesNames
      <3>3. t.group \in made \cup {None} /\ b \in Sessions \ lagging
        BY <2>2, <2>4, <3>2 DEF IInv, Facts, HeldIsMade
      <3>4. \/ /\ a \in Sessions /\ s.name = session[a].name
               /\ s.group = session[a].group \/ s.group \notin made \cup {None}
            \/ \A c \in Sessions \ lagging :
                 ~(session[c].name = s.name /\ session[c].group = s.group)
        BY <2>2, <3>1 DEF SavesNames
      <3>5. session[a] \in Session /\ session[a].name = t.name /\ session[a].group = t.group
        BY <2>1, <2>4, <3>2, <3>3, <3>4
      <3> QED
        BY <2>1, <2>2, <2>4, <3>2, <3>5 DEF NameInv, NamesDiffer
    <2> QED
      BY <2>5, <2>6
  <1>5. RunsAreOfSessions'
    <2>1. Sessions' = Sessions
      BY <1>1 DEF Sessions
    <2> QED
      BY <2>1 DEF SavesNames, NameInv, RunsAreOfSessions
  <1> QED
    BY <1>3, <1>4, <1>5 DEF NameInv

\* Nothing that was not stored or held is, and no more sessions count as opened.
LEMMA NamesStay ==
  ASSUME NameInv,
         \A id \in Ids, s \in Session : Held(id, s)' => Held(id, s),
         \A id \in Ids, s \in Session : Stored(id, s)' => Stored(id, s),
         \A id \in Ids : Opened(id)' => Opened(id),
         Sessions \subseteq Sessions', \A id \in Ids : run'[id] \in {None, run[id]}
  PROVE  NameInv'
  <1>1. OneName'
    BY DEF NameInv, OneName
  <1>2. NamesDiffer'
    BY DEF NameInv, NamesDiffer
  <1>3. RunsAreOfSessions'
    BY DEF NameInv, RunsAreOfSessions
  <1> QED
    BY <1>1, <1>2, <1>3 DEF NameInv

LEMMA WriteNames ==
  ASSUME IInv, NameInv, Write
  PROVE  NameInv'
  <1> DEFINE w == Head(writes)
  <1>1. /\ writes # <<>> /\ writes' = Tail(writes)
        /\ session' = IF w.file = "session" THEN [session EXCEPT ![w.id] = w.to] ELSE session
        /\ UNCHANGED <<run, source, lagging, misplaced>>
    BY DEF Write, history
  <1>2. /\ w \in File
        /\ \A i, t : Writing(writes', i, t) => Writing(writes, i, t)
        /\ w.file = "session" => Writing(writes, w.id, w.to)
    BY <1>1, TailFacts DEF IInv, TypeOK
  <1> HIDE DEF w
  <1>3. w.id \in Ids
    BY <1>2 DEF File
  <1>4. \A id \in Ids : session'[id] = session[id] \/ Writing(writes, id, session'[id])
    BY <1>1, <1>2, <1>3 DEF IInv, TypeOK
  <1>5. \A i, t : Writing(writes, i, t)' => Writing(writes, i, t)
    BY <1>2, WritingLater
  <1>6. \A id \in Ids, s \in Session : /\ Held(id, s)' => Held(id, s)
                                       /\ Stored(id, s)' => Stored(id, s)
    BY <1>1, <1>4, <1>5 DEF Held, Stored
  <1>7. \A id \in Ids : Opened(id)' => Opened(id)
    BY <1>1 DEF Opened, Forks
  <1>8. Sessions \subseteq Sessions'
    <2>1. \A id \in Ids : session[id] # None => session'[id] # None
      <3>1. w.file = "session" => w.to # None
        BY <1>2, NoneAssumption DEF File
      <3> QED
        BY <1>1, <1>3, <3>1 DEF IInv, TypeOK
    <2> QED
      BY <2>1 DEF Sessions
  <1> QED
    BY <1>1, <1>6, <1>7, <1>8, NamesStay

LEMMA CrashNames ==
  ASSUME IInv, NameInv, Crash
  PROVE  NameInv'
  <1>1. /\ writes' = <<>> /\ run' = [id \in Ids |-> None] /\ lagging \subseteq lagging'
        /\ UNCHANGED <<session, source, misplaced>>
    BY DEF Crash, files
  <1>2. \A i, t : ~Writing(writes, i, t)'
    BY <1>1, NothingFacts, WritingLater
  <1>3. \A id \in Ids, s \in Session : /\ Held(id, s)' => Held(id, s)
                                       /\ Stored(id, s)' => Stored(id, s)
    BY <1>1, <1>2 DEF Held, Stored
  <1>4. \A id \in Ids : Opened(id)' => Opened(id)
    BY <1>1 DEF Opened, Forks
  <1>5. Sessions' = Sessions
    BY <1>1 DEF Sessions
  <1> QED
    BY <1>1, <1>3, <1>4, <1>5, NamesStay

-----------------------------------------------------------------------------
(* The operations *)

\* An operation, and the three parts of the invariant.
Operates ==
  /\ Saves /\ SavesNames /\ context' = context /\ behind \subseteq behind'
  /\ \A id \in Ids \ behind' : SavesContext(id) /\ RunFollows(id)'

FilesInv == SummaryInv /\ ContextInv /\ NameInv

LEMMA OperatesSafely ==
  ASSUME IInv, FilesInv, Operates
  PROVE  FilesInv'
  <1>1. ContextInv'
    <2> SUFFICES ASSUME NEW id \in Ids \ behind'
                 PROVE  ContextFollows(id)' /\ RunFollows(id)'
      BY DEF ContextInv
    <2>1. ContextFollows(id) /\ SavesContext(id) /\ RunFollows(id)'
      BY DEF Operates, FilesInv, ContextInv
    <2>2. writes = <<>> /\ UNCHANGED <<session, context>>
      BY DEF Operates, Saves
    <2> QED
      BY <2>1, <2>2, SavesContexts
  <1> QED
    BY <1>1, SavesSummaries, SavesTheNames DEF FilesInv, Operates

\* The copies of a session that operations save.
Updated(s, now) == [s EXCEPT !.updated = now]
Said(s, now)    == [s EXCEPT !.turns = @ + 1, !.updated = now]

LEMMA CopyFields ==
  ASSUME NEW s \in Session, NEW now \in Nat
  PROVE  /\ Updated(s, now) \in Session /\ Updated(s, now).name = s.name
         /\ Updated(s, now).group = s.group /\ Updated(s, now).turns = s.turns
         /\ Updated(s, now).updated = now
         /\ Said(s, now) \in Session /\ Said(s, now).name = s.name
         /\ Said(s, now).group = s.group /\ Said(s, now).turns = s.turns + 1
         /\ Said(s, now).updated = now
  <1> USE DEF Session
  <1>1. /\ Updated(s, now) \in Session /\ Updated(s, now).name = s.name
        /\ Updated(s, now).group = s.group /\ Updated(s, now).turns = s.turns
        /\ Updated(s, now).updated = now
    BY DEF Updated
  <1>2. /\ Said(s, now) \in Session /\ Said(s, now).name = s.name
        /\ Said(s, now).group = s.group /\ Said(s, now).turns = s.turns + 1
        /\ Said(s, now).updated = now
    <2>1. s.turns + 1 \in Nat
      OBVIOUS
    <2>2. \A m \in Nat : [s EXCEPT !.turns = m, !.updated = now] \in Session
      OBVIOUS
    <2> QED
      BY <2>1, <2>2 DEF Said
  <1> QED
    BY <1>1, <1>2

LEMMA ForkFields ==
  ASSUME NEW s \in Session, NEW name \in Names, NEW group \in Groups, NEW now \in Nat
  PROVE  /\ Moved(s, group, now) \in Session /\ Moved(s, group, now).name = s.name
         /\ Moved(s, group, now).group = group /\ Moved(s, group, now).turns = s.turns
         /\ Moved(s, group, now).updated = now
         /\ Forked(s, name, group, now) \in Session /\ Forked(s, name, group, now).turns = 0
         /\ Forked(s, name, group, now).updated = now
  <1> USE DEF Session
  <1>1. /\ Moved(s, group, now) \in Session /\ Moved(s, group, now).name = s.name
        /\ Moved(s, group, now).group = group /\ Moved(s, group, now).turns = s.turns
        /\ Moved(s, group, now).updated = now
    BY DEF Moved
  <1>2. /\ Forked(s, name, group, now) \in Session /\ Forked(s, name, group, now).turns = 0
        /\ Forked(s, name, group, now).updated = now
    BY DEF Forked
  <1> QED
    BY <1>1, <1>2

LEMMA HeirFields ==
  ASSUME NEW s \in Session, NEW n \in Nat
  PROVE  /\ Heir(s, n) \in Session /\ Heir(s, n).turns = n /\ Heir(s, n).updated = s.updated
         /\ SummaryOf(Heir(s, n)) = SummaryOf(s)
  <1>1. /\ Heir(s, n) \in Session /\ Heir(s, n).turns = n /\ Heir(s, n).updated = s.updated
        /\ Heir(s, n).name = s.name /\ Heir(s, n).group = s.group
    BY DEF Heir, Session
  <1>2. SummaryOf(Heir(s, n)) = SummaryOf(s)
    BY <1>1 DEF SummaryOf
  <1> QED
    BY <1>1, <1>2

LEMMA EmptyFacts ==
  /\ Whole(<<>>) /\ \A i, t : ~Writing(<<>>, i, t)
  /\ \A i : NoSession(<<>>, i) /\ NoContext(<<>>, i)
  <1>1. Whole(<<>>)
    BY NothingFacts DEF Whole, Followed, Preceded
  <1>2. \A i : NoSession(<<>>, i) /\ NoContext(<<>>, i)
    BY DEF NoSession, NoContext
  <1> QED
    BY <1>1, <1>2, NothingFacts

\* A session is saved, and after it contexts.
LEMMA SavedOne ==
  ASSUME NEW id \in Ids, NEW s \in Session, NEW rest, Whole(rest), \A i, t : ~Writing(rest, i, t),
         writes = <<>>, writes' = Saved(id, s) \o rest, time' = time + 1, s.updated = time + 1,
         UNCHANGED <<session, lagging>>, summary' \in {summary, Listed}
  PROVE  /\ Saves
         /\ \A i, t : Writing(writes', i, t) <=> i = id /\ t = s
         /\ \A i : i # id /\ NoContext(rest, i) => SavesContext(i)
  <1>1. rest \in Seq(File) /\ Saved(id, s) \in Seq(File) /\ Whole(Saved(id, s))
    BY SavedFacts, UnitFacts DEF Whole
  <1>2. \A i, t : Writing(writes', i, t) <=> i = id /\ t = s
    BY <1>1, SavedFirst
  <1>3. Whole(writes')
    BY <1>1, WholeJoin
  <1>4. Saves
    BY <1>2, <1>3 DEF Saves
  <1>5. ASSUME NEW i, i # id, NoContext(rest, i) PROVE SavesContext(i)
    <2>1. NoContext(Saved(id, s), i)
      BY UnitFacts
    <2>2. NoContext(writes', i)
      BY <1>1, <1>5, <2>1, NoneJoin
    <2> QED
      BY <1>2, <1>5, <2>2, NoContextIsFine DEF SavesContext
  <1> QED
    BY <1>2, <1>4, <1>5

\* Its context is saved with it.
LEMMA SavedWithContext ==
  ASSUME NEW id \in Ids, NEW s \in Session,
         writes' = Saved(id, s) \o SavedContext(id, s.turns)
  PROVE  SavesContext(id)
  <1>1. s.turns \in Nat
    BY SummaryFacts
  <1>2. OneContext(writes', id) /\ ~NoSession(writes', id)
    BY PairFacts
  <1>3. Saved(id, s) \in Seq(File) /\ SavedContext(id, s.turns) \in Seq(File)
    BY <1>1, SavedFacts, ContextFacts
  <1>4. ~NoContext(SavedContext(id, s.turns), id)
    BY <1>1, UnitFacts
  <1>5. ~NoContext(writes', id)
    BY <1>3, <1>4, NoneJoin
  <1> QED
    BY <1>2, <1>5 DEF SavesContext

\* Of a session that is there and is not behind, the context is there.
LEMMA LoadedOf ==
  ASSUME IInv, ContextInv, writes = <<>>, NEW from \in Sessions
  PROVE  /\ Whole(LoadedContext(from))
         /\ \A i, t : ~Writing(LoadedContext(from), i, t)
         /\ \A i : NoSession(LoadedContext(from), i)
         /\ \A i : i # from => NoContext(LoadedContext(from), i)
         /\ from \notin behind => /\ LoadedContext(from) = <<>>
                                  /\ context[from] = session[from].turns /\ context[from] # None
                                  /\ ContextOf(from) = session[from].turns
  <1>1. from \in Ids /\ session[from] \in Session /\ session[from].turns \in Nat
    BY SessionFacts
  <1>2. \/ LoadedContext(from) = <<>>
        \/ LoadedContext(from) = SavedContext(from, session[from].turns)
    BY DEF LoadedContext
  <1>3. /\ Whole(LoadedContext(from))
        /\ \A i : NoSession(LoadedContext(from), i)
        /\ \A i : i # from => NoContext(LoadedContext(from), i)
    <2>1. CASE LoadedContext(from) = <<>>
      BY <2>1, EmptyFacts
    <2>2. CASE LoadedContext(from) = SavedContext(from, session[from].turns)
      <3> DEFINE n == session[from].turns
      <3>1. n \in Nat
        BY <1>1
      <3> HIDE DEF n
      <3>2. /\ Whole(SavedContext(from, n))
            /\ \A i : NoSession(SavedContext(from, n), i)
            /\ \A i : i # from => NoContext(SavedContext(from, n), i)
        BY <1>1, <3>1, UnitFacts
      <3> QED
        BY <2>2, <3>2 DEF n
    <2> QED
      BY <1>2, <2>1, <2>2
  <1>4. \A i, t : ~Writing(LoadedContext(from), i, t)
    BY LoadedFacts DEF IInv
  <1>5. ASSUME from \notin behind
        PROVE  /\ LoadedContext(from) = <<>>
               /\ context[from] = session[from].turns /\ context[from] # None
               /\ ContextOf(from) = session[from].turns
    <2>1. context[from] = session[from].turns
      BY <1>1, <1>5 DEF ContextInv, ContextFollows, NoContext
    <2>2. context[from] # None
      BY <1>1, <2>1, NoneAssumption
    <2> QED
      BY <2>1, <2>2 DEF LoadedContext, ContextOf
  <1> QED
    BY <1>3, <1>4, <1>5

LEMMA ListOperates ==
  ASSUME IInv, FilesInv, List \/ \E name \in Names, group \in Groups : OpenFound(name, group)
  PROVE  Operates
  <1>1. /\ UNCHANGED <<session, context, run, time, made, history>>
        /\ summary' = Listed /\ writes = <<>>
        /\ writes' = <<>> \/ \E id \in Sessions : writes' = LoadedContext(id)
    BY DEF List, OpenFound, Newest, Named
  <1>2. /\ Whole(writes') /\ \A i, t : ~Writing(writes', i, t)
        /\ \A i \in Ids \ behind : NoContext(writes', i)
    <2>1. CASE writes' = <<>>
      BY <2>1, EmptyFacts
    <2>2. ASSUME NEW id \in Sessions, writes' = LoadedContext(id)
          PROVE  /\ Whole(writes') /\ \A i, t : ~Writing(writes', i, t)
                 /\ \A i \in Ids \ behind : NoContext(writes', i)
      BY <1>1, <2>2, LoadedOf, EmptyFacts DEF FilesInv
    <2> QED
      BY <1>1, <2>1, <2>2
  <1>3. Saves
    BY <1>1, <1>2 DEF Saves, history
  <1>4. SavesNames
    BY <1>1, <1>2 DEF SavesNames, history, Forks
  <1>5. \A id \in Ids \ behind' : SavesContext(id)
    BY <1>1, <1>2, NoContextIsFine DEF SavesContext, history
  <1>6. \A id \in Ids \ behind' : RunFollows(id)'
    BY <1>1 DEF FilesInv, ContextInv, RunFollows, history
  <1> QED
    BY <1>1, <1>3, <1>4, <1>5, <1>6 DEF Operates, history

LEMMA UpdateOperates ==
  ASSUME IInv, FilesInv, NEW id \in Ids, Update(id)
  PROVE  Operates
  <1> DEFINE s == Updated(session[id], time + 1)
  <1>1. /\ writes = <<>> /\ id \in Sessions
        /\ writes' = Saved(id, s) /\ time' = time + 1
        /\ UNCHANGED <<session, summary, context, run, made, source, lagging, behind, misplaced>>
    BY DEF Update, Ready, files, history, Updated
  <1>2. s \in Session /\ s.name = session[id].name /\ s.group = session[id].group
        /\ s.turns = session[id].turns /\ s.updated = time + 1
    <2>1. session[id] \in Session /\ time + 1 \in Nat
      BY <1>1, SessionFacts DEF IInv, TypeOK
    <2> QED
      BY <2>1, CopyFields
  <1> HIDE DEF s
  <1>3. Saved(id, s) \in Seq(File)
    BY <1>2, SavedFacts
  <1>4. Saved(id, s) \o <<>> = Saved(id, s)
    BY <1>3, ConcatEmptySeq
  <1>5. Whole(<<>>) /\ \A i, t : ~Writing(<<>>, i, t)
    BY EmptyFacts
  <1>6. Saves /\ \A i, t : Writing(writes', i, t) <=> i = id /\ t = s
    BY <1>1, <1>2, <1>4, <1>5, SavedOne
  <1>7. \A i : NoContext(writes', i)
    BY <1>1, <1>2, UnitFacts
  <1>8. SavesNames
    <2>1. Held(id, session[id]) /\ session[id] \in Session
      BY <1>1, SessionFacts
    <2> QED
      BY <1>1, <1>2, <1>6, <2>1 DEF SavesNames, Forks
  <1>9. \A i \in Ids \ behind' : SavesContext(i)
    BY <1>1, <1>2, <1>6, <1>7, NoContextIsFine DEF SavesContext
  <1>10. \A i \in Ids \ behind' : RunFollows(i)'
    BY <1>1 DEF FilesInv, ContextInv, RunFollows
  <1> QED
    BY <1>1, <1>6, <1>8, <1>9, <1>10 DEF Operates

LEMMA ChatBeginsOperates ==
  ASSUME IInv, FilesInv, NEW id \in Ids, ChatBegins(id)
  PROVE  Operates
  <1> DEFINE s     == Said(session[id], time + 1)
             first == IF context[id] = None THEN SavedContext(id, s.turns) ELSE <<>>
             turns == (IF context[id] = None THEN s.turns ELSE context[id]) + 1
             last  == SavedContext(id, turns)
             rest  == first \o last
             copy  == [session |-> s, turns |-> turns]
  <1>1. /\ writes = <<>> /\ id \in Sessions
        /\ run' = [run EXCEPT ![id] = copy] /\ time' = time + 1
        /\ writes' = Saved(id, s) \o first \o last
        /\ UNCHANGED <<session, summary, context, made, source, lagging, behind, misplaced>>
    BY DEF ChatBegins, Ready, files, history, Said
  <1>2. /\ s \in Session /\ s.name = session[id].name /\ s.group = session[id].group
        /\ s.turns = session[id].turns + 1 /\ s.updated = time + 1 /\ s.turns \in Nat
    <2>1. session[id] \in Session /\ time + 1 \in Nat
      BY <1>1, SessionFacts DEF IInv, TypeOK
    <2>2. \A n \in Nat : /\ Said(session[id], n) \in Session /\ Said(session[id], n).updated = n
                         /\ Said(session[id], n).name = session[id].name
                         /\ Said(session[id], n).group = session[id].group
                         /\ Said(session[id], n).turns = session[id].turns + 1
      BY <2>1, CopyFields
    <2>3. s \in Session => s.turns \in Nat
      BY DEF Session
    <2> QED
      BY <2>1, <2>2, <2>3
  <1> HIDE DEF s
  <1>3. turns \in Nat
    BY <1>2 DEF IInv, TypeOK
  <1>4. id \notin behind => turns = s.turns /\ first = <<>>
    <2>1. id \notin behind => context[id] = session[id].turns /\ context[id] # None
      BY <1>1, LoadedOf DEF FilesInv
    <2> QED
      BY <1>2, <2>1
  <1> HIDE DEF turns
  <1>5. /\ Whole(first) /\ \A i, t : ~Writing(first, i, t)
        /\ \A i : i # id => NoContext(first, i)
    <2>1. CASE context[id] = None
      BY <1>2, <2>1, UnitFacts, ContextFacts
    <2>2. CASE context[id] # None
      BY <2>2, EmptyFacts
    <2> QED
      BY <2>1, <2>2
  <1>6. /\ Whole(last) /\ \A i, t : ~Writing(last, i, t)
        /\ \A i : i # id => NoContext(last, i)
    BY <1>2, <1>3, UnitFacts, ContextFacts
  <1>7. first \in Seq(File) /\ last \in Seq(File) /\ Saved(id, s) \in Seq(File)
    BY <1>2, <1>5, <1>6, SavedFacts DEF Whole
  <1> HIDE DEF first, last
  <1>8. writes' = Saved(id, s) \o rest
    BY <1>1, <1>7, ConcatAssociative
  <1>9. /\ Whole(rest) /\ \A i, t : ~Writing(rest, i, t)
        /\ \A i : i # id => NoContext(rest, i)
    BY <1>5, <1>6, <1>7, WholeJoin, ConcatFacts, NoneJoin
  <1>10. id \notin behind => rest = SavedContext(id, s.turns)
    BY <1>4, <1>7, ConcatEmptySeq DEF last
  <1> HIDE DEF rest
  <1>11. /\ Saves /\ \A i, t : Writing(writes', i, t) <=> i = id /\ t = s
         /\ \A i : i # id => SavesContext(i)
    BY <1>1, <1>2, <1>8, <1>9, SavedOne
  <1>12. id \notin behind => SavesContext(id)
    BY <1>2, <1>8, <1>10, SavedWithContext
  <1>13. SavesNames
    <2>1. Held(id, session[id]) /\ session[id] \in Session
      BY <1>1, SessionFacts
    <2>2. \A i \in Ids : run'[i] = run[i] \/ (i = id /\ run'[i].session = s)
      BY <1>1 DEF IInv, TypeOK
    <2> QED
      BY <1>1, <1>2, <1>11, <2>1, <2>2 DEF SavesNames, Forks
  <1>14. \A i \in Ids \ behind' : RunFollows(i)'
    <2> SUFFICES ASSUME NEW i \in Ids \ behind
                 PROVE  run'[i] # None => run'[i].turns = run'[i].session.turns
      BY <1>1 DEF RunFollows
    <2>1. CASE i = id
      BY <1>1, <1>4, <2>1 DEF IInv, TypeOK
    <2>2. CASE i # id
      BY <1>1, <2>2 DEF IInv, TypeOK, FilesInv, ContextInv, RunFollows
    <2> QED
      BY <2>1, <2>2
  <1> QED
    BY <1>1, <1>11, <1>12, <1>13, <1>14 DEF Operates

LEMMA ChatEndsOperates ==
  ASSUME IInv, FilesInv, NEW id \in Ids, ChatEnds(id)
  PROVE  Operates
  <1> DEFINE c    == run[id].session
             s    == Said(c, time + 1)
             last == SavedContext(id, run[id].turns + 1)
  <1>1. /\ writes = <<>> /\ run[id] # None
        /\ run' = [run EXCEPT ![id] = None] /\ time' = time + 1
        /\ writes' = Saved(id, s) \o last
        /\ misplaced' = IF s.group = session[id].group THEN misplaced ELSE misplaced \cup {id}
        /\ UNCHANGED <<session, summary, context, made, source, lagging, behind>>
    BY DEF ChatEnds, Ready, files, Said
  <1>2. c \in Session /\ Held(id, c) /\ run[id].turns \in Nat
    BY <1>1 DEF IInv, TypeOK, Run, Held
  <1>3. id \notin behind => run[id].turns = c.turns
    BY <1>1 DEF FilesInv, ContextInv, RunFollows
  <1> HIDE DEF c
  <1>4. /\ s \in Session /\ s.name = c.name /\ s.group = c.group
        /\ s.turns = c.turns + 1 /\ s.updated = time + 1
    <2>1. time + 1 \in Nat
      BY DEF IInv, TypeOK
    <2> QED
      BY <1>2, <2>1, CopyFields
  <1> HIDE DEF s
  <1>5. /\ Whole(last) /\ \A i, t : ~Writing(last, i, t)
        /\ \A i : i # id => NoContext(last, i)
    <2> DEFINE n == run[id].turns + 1
    <2>1. n \in Nat
      BY <1>2
    <2> HIDE DEF n
    <2>2. Whole(SavedContext(id, n)) /\ \A i : i # id => NoContext(SavedContext(id, n), i)
      BY <1>2, <2>1, UnitFacts
    <2>3. \A i, t : ~Writing(SavedContext(id, n), i, t)
      BY <2>1, ContextFacts
    <2>4. last = SavedContext(id, n)
      BY DEF n
    <2> QED
      BY <2>2, <2>3, <2>4
  <1>6. id \notin behind => last = SavedContext(id, s.turns)
    BY <1>3, <1>4
  <1> HIDE DEF last
  <1>7. /\ Saves /\ \A i, t : Writing(writes', i, t) <=> i = id /\ t = s
        /\ \A i : i # id => SavesContext(i)
    BY <1>1, <1>4, <1>5, SavedOne
  <1>8. id \notin behind => SavesContext(id)
    BY <1>1, <1>4, <1>6, SavedWithContext
  <1>9. SavesNames
    <2>1. \A i \in Ids : run'[i] \in {None, run[i]}
      BY <1>1 DEF IInv, TypeOK
    <2>2. id \in Sessions /\ s.name = session[id].name
      <3>1. id \in Sessions
        BY <1>1 DEF FilesInv, NameInv, RunsAreOfSessions
      <3>2. session[id] \in Session /\ Held(id, session[id])
        BY <3>1, SessionFacts
      <3> QED
        BY <1>2, <1>4, <3>1, <3>2 DEF FilesInv, NameInv, OneName
    <2>3. Forks' = Forks /\ misplaced \subseteq misplaced'
      BY <1>1 DEF Forks
    <2>4. s.group = session[id].group \/ id \in misplaced'
      BY <1>1
    <2>5. Held(id, c) /\ c \in Session /\ c.name = s.name
      BY <1>2, <1>4
    <2> QED
      BY <1>7, <2>1, <2>2, <2>3, <2>4, <2>5 DEF SavesNames
  <1>10. \A i \in Ids \ behind' : RunFollows(i)'
    BY <1>1 DEF IInv, TypeOK, FilesInv, ContextInv, RunFollows
  <1> QED
    BY <1>1, <1>7, <1>8, <1>9, <1>10 DEF Operates

\* A session that no crash left behind is listed as what it is.
LEMMA ListedAsIs ==
  ASSUME SummaryInv, writes = <<>>, NEW id \in Sessions \ lagging
  PROVE  Listed[id] = SummaryOf(session[id])
  <1>1. id \in Ids /\ summary[id] \in {None, SummaryOf(session[id])}
    BY DEF SummaryInv, SummariesFollow, SummaryNext, Sessions
  <1> QED
    BY <1>1 DEF Listed

LEMMA OpenNewOperates ==
  ASSUME IInv, FilesInv, NEW name \in Names, NEW group \in Groups, OpenNew(name, group)
  PROVE  Operates
  <1>1. /\ writes = <<>> /\ summary' = Listed /\ Named(name, group) = {}
        /\ UNCHANGED <<session, context, run, source, lagging, behind>>
    BY DEF OpenNew, Ready
  <1>2. time + 1 \in Nat
    BY DEF IInv, TypeOK
  <1>3. PICK id \in Ids \ made, s \in Session :
          /\ Make(id, s) /\ misplaced \subseteq misplaced'
          /\ s.name = name /\ s.turns = 0 /\ s.updated = time + 1
          /\ s.group = group \/ id \in misplaced'
    <2>1. CASE group = None
      <3>1. PICK id \in Ids \ made, db \in Ids \cup {Shared} :
              /\ Make(id, [name |-> name, group |-> None, db |-> db, turns |-> 0,
                           updated |-> time + 1])
              /\ UNCHANGED misplaced
        BY <2>1 DEF OpenNew
      <3> DEFINE s == [name |-> name, group |-> None, db |-> db, turns |-> 0, updated |-> time + 1]
      <3>2. /\ s \in Session /\ s.name = name /\ s.turns = 0 /\ s.updated = time + 1
            /\ s.group = group
        BY <1>2, <2>1 DEF Session, Groups
      <3> QED
        BY <3>1, <3>2
    <2>2. CASE group # None
      <3>1. PICK id \in Ids \ made :
              \E m \in Newest(InGroup(group)) :
                /\ Make(id, Joined(id, m, name))
                /\ misplaced' = IF session[m].group = group THEN misplaced ELSE misplaced \cup {id}
        BY <2>2 DEF OpenNew
      <3>2. PICK m \in Newest(InGroup(group)) :
              /\ Make(id, Joined(id, m, name))
              /\ misplaced' = IF session[m].group = group THEN misplaced ELSE misplaced \cup {id}
        BY <3>1
      <3>3. session[m] \in Session
        BY SessionFacts DEF Newest, InGroup
      <3>4. \A t \in Session, now \in Nat :
              /\ [t EXCEPT !.name = name, !.turns = 0, !.updated = now] \in Session
              /\ [t EXCEPT !.name = name, !.turns = 0, !.updated = now].name = name
              /\ [t EXCEPT !.name = name, !.turns = 0, !.updated = now].turns = 0
              /\ [t EXCEPT !.name = name, !.turns = 0, !.updated = now].updated = now
              /\ [t EXCEPT !.name = name, !.turns = 0, !.updated = now].group = t.group
        BY DEF Session
      <3>5. /\ Joined(id, m, name) \in Session /\ Joined(id, m, name).name = name
            /\ Joined(id, m, name).turns = 0 /\ Joined(id, m, name).updated = time + 1
            /\ Joined(id, m, name).group = session[m].group
        BY <1>2, <3>3, <3>4 DEF Joined
      <3> QED
        BY <3>2, <3>5
    <2> QED
      BY <2>1, <2>2
  <1>4. /\ made' = made \cup {id} /\ time' = time + 1
        /\ writes' = Saved(id, s) \o SavedContext(id, 0)
    BY <1>3 DEF Make
  <1>5. /\ Whole(SavedContext(id, 0)) /\ \A i, t : ~Writing(SavedContext(id, 0), i, t)
        /\ \A i : i # id => NoContext(SavedContext(id, 0), i)
    BY UnitFacts, ContextFacts
  <1>6. /\ Saves /\ \A i, t : Writing(writes', i, t) <=> i = id /\ t = s
        /\ \A i : i # id => SavesContext(i)
    BY <1>1, <1>3, <1>4, <1>5, SavedOne
  <1>7. SavesContext(id)
    BY <1>3, <1>4, SavedWithContext
  <1>8. SavesNames
    <2>1. \A b \in Sessions \ lagging : ~(session[b].name = name /\ session[b].group = group)
      <3> SUFFICES ASSUME NEW b \in Sessions \ lagging, session[b].name = name,
                          session[b].group = group
                   PROVE  FALSE
        OBVIOUS
      <3>1. Listed[b] = SummaryOf(session[b]) /\ session[b] \in Session
        BY <1>1, ListedAsIs, SessionFacts DEF FilesInv
      <3>2. b \in Named(name, group)
        BY <3>1, SummaryFacts DEF Named
      <3> QED
        BY <1>1, <3>2
    <2>2. Forks' = Forks
      BY <1>1 DEF Forks
    <2> QED
      BY <1>1, <1>3, <1>6, <2>1, <2>2 DEF SavesNames
  <1>9. \A i \in Ids \ behind' : RunFollows(i)'
    BY <1>1 DEF FilesInv, ContextInv, RunFollows
  <1> QED
    BY <1>1, <1>6, <1>7, <1>8, <1>9 DEF Operates

LEMMA ForkOperates ==
  ASSUME IInv, FilesInv, NEW from \in Ids, NEW name \in Names, NEW inherit \in BOOLEAN,
         Fork(from, name, inherit)
  PROVE  Operates
  <1>1. /\ writes = <<>> /\ from \in Sessions /\ time' = time + 1 /\ time + 1 \in Nat
        /\ UNCHANGED <<session, summary, context, run, lagging, misplaced>>
    <2>1. /\ writes = <<>> /\ from \in Sessions /\ time' = time + 1
          /\ UNCHANGED <<session, summary, context, run, lagging, misplaced>>
      BY DEF Fork, Ready, files
    <2>2. time + 1 \in Nat
      BY DEF IInv, TypeOK
    <2> QED
      BY <2>1, <2>2
  <1>2. PICK id \in Ids \ made :
          LET group == IF session[from].group = None THEN id ELSE session[from].group
              fork  == [session[from] EXCEPT !.name = name, !.group = group, !.turns = 0,
                                             !.updated = time + 1]
              first == IF session[from].group = None
                       THEN Saved(from, [session[from] EXCEPT !.group = group, !.updated = time + 1])
                       ELSE <<>>
              rest  == IF inherit
                       THEN LoadedContext(from)
                              \o Saved(id, [fork EXCEPT !.turns = session[from].turns])
                              \o SavedContext(id, ContextOf(from))
                       ELSE SavedContext(id, 0)
          IN  /\ made' = made \cup {id}
              /\ writes' = first \o Saved(id, fork) \o rest
              /\ source' = [source EXCEPT ![id] = from]
              /\ behind' = IF from \in behind /\ inherit THEN behind \cup {id} ELSE behind
    BY DEF Fork
  <1> DEFINE group == IF session[from].group = None THEN id ELSE session[from].group
             now   == time + 1
             moved == Moved(session[from], group, now)
             fork  == Forked(session[from], name, group, now)
             heir  == Heir(fork, session[from].turns)
             first == IF session[from].group = None THEN Saved(from, moved) ELSE <<>>
             own   == Saved(id, fork)
             load  == LoadedContext(from)
             kept  == Saved(id, heir)
             last  == SavedContext(id, ContextOf(from))
             rest  == IF inherit THEN load \o kept \o last ELSE SavedContext(id, 0)
  <1>3. /\ session[from] \in Session /\ session[from].turns \in Nat /\ from \in made
        /\ session[from].group \in made \cup {None} /\ from # id
    BY <1>1, SessionFacts
  <1>4. /\ made \subseteq Ids /\ group \in Groups
        /\ session[from].group = None => group \notin made \cup {None}
    BY <1>3, SessionDirectoryAssumption DEF IInv, TypeOK, Groups
  <1>5. writes' = first \o own \o rest
    BY <1>2 DEF Moved, Forked, Heir
  <1> HIDE DEF group
  <1>6. /\ moved \in Session /\ moved.name = session[from].name /\ moved.group = group
        /\ moved.turns = session[from].turns /\ moved.updated = now
        /\ fork \in Session /\ fork.turns = 0 /\ fork.updated = now
        /\ heir \in Session /\ heir.turns = session[from].turns /\ heir.updated = now
        /\ SummaryOf(heir) = SummaryOf(fork)
    <2>1. now \in Nat
      BY <1>1
    <2> HIDE DEF now
    <2>2. \A s \in Session, g \in Groups, n \in Nat :
            /\ Moved(s, g, n) \in Session /\ Moved(s, g, n).name = s.name
            /\ Moved(s, g, n).group = g /\ Moved(s, g, n).turns = s.turns
            /\ Moved(s, g, n).updated = n
            /\ Forked(s, name, g, n) \in Session /\ Forked(s, name, g, n).turns = 0
            /\ Forked(s, name, g, n).updated = n
      BY ForkFields
    <2> DEFINE c == session[from]
    <2>3. c \in Session /\ group \in Groups
      BY <1>3, <1>4
    <2>4. /\ moved \in Session /\ moved.name = session[from].name /\ moved.group = group
          /\ moved.turns = session[from].turns /\ moved.updated = now
          /\ fork \in Session /\ fork.turns = 0 /\ fork.updated = now
      <3> HIDE DEF c
      <3>1. /\ Moved(c, group, now) \in Session /\ Moved(c, group, now).name = c.name
            /\ Moved(c, group, now).group = group /\ Moved(c, group, now).turns = c.turns
            /\ Moved(c, group, now).updated = now
            /\ Forked(c, name, group, now) \in Session /\ Forked(c, name, group, now).turns = 0
            /\ Forked(c, name, group, now).updated = now
        BY <2>1, <2>2, <2>3
      <3> QED
        BY <3>1 DEF c
    <2> HIDE DEF fork
    <2>5. /\ heir \in Session /\ heir.turns = session[from].turns /\ heir.updated = fork.updated
          /\ SummaryOf(heir) = SummaryOf(fork)
      BY <1>3, <2>4, HeirFields
    <2> QED
      BY <2>4, <2>5
  <1> HIDE DEF moved, fork, heir, now
  \* The parts.
  <1>7. /\ Whole(first) /\ first \in Seq(File)
        /\ \A i, t : Writing(first, i, t) <=> session[from].group = None /\ i = from /\ t = moved
        /\ \A i : NoContext(first, i) /\ (i # from => NoSession(first, i))
    <2>1. CASE session[from].group = None
      BY <1>6, <2>1, UnitFacts, SavedFacts
    <2>2. CASE session[from].group # None
      BY <2>2, EmptyFacts DEF Whole
    <2> QED
      BY <2>1, <2>2
  <1>8. /\ Whole(own) /\ own \in Seq(File) /\ \A i, t : Writing(own, i, t) <=> i = id /\ t = fork
        /\ \A i : NoContext(own, i)
        /\ Whole(kept) /\ kept \in Seq(File)
        /\ \A i, t : Writing(kept, i, t) <=> i = id /\ t = heir
        /\ \A i : NoContext(kept, i)
    BY <1>6, UnitFacts, SavedFacts
  <1>9. /\ Whole(load) /\ load \in Seq(File) /\ \A i, t : ~Writing(load, i, t)
        /\ \A i : i # from => NoContext(load, i)
        /\ from \notin behind => load = <<>> /\ ContextOf(from) = session[from].turns
    BY <1>1, LoadedOf DEF FilesInv, Whole
  <1>10. ContextOf(from) \in Nat
    BY <1>1, LoadedFacts DEF IInv
  <1>11. \A n \in Nat : /\ Whole(SavedContext(id, n)) /\ SavedContext(id, n) \in Seq(File)
                        /\ \A i, t : ~Writing(SavedContext(id, n), i, t)
                        /\ \A i : i # id => NoContext(SavedContext(id, n), i)
                        /\ ~NoContext(SavedContext(id, n), id)
    BY <1>6, UnitFacts, ContextFacts
  <1>12. from \notin behind /\ inherit => rest = Saved(id, heir) \o SavedContext(id, heir.turns)
    <2> SUFFICES ASSUME from \notin behind, inherit
                 PROVE  load \o kept \o last = kept \o SavedContext(id, heir.turns)
      OBVIOUS
    <2>1. load = <<>> /\ last = SavedContext(id, heir.turns)
      BY <1>6, <1>9
    <2>2. <<>> \o kept = kept
      BY <1>8, ConcatEmptySeq
    <2> QED
      BY <2>1, <2>2
  <1> HIDE DEF load
  <1>13. /\ Whole(rest) /\ rest \in Seq(File)
         /\ \A i, t : Writing(rest, i, t) => i = id /\ t = heir
         /\ \A i : i # id /\ i # from => NoContext(rest, i)
         /\ from \notin behind => NoContext(rest, from)
    <2>1. CASE ~inherit
      BY <1>3, <1>11, <2>1
    <2>2. CASE inherit
      <3>1. /\ Whole(last) /\ last \in Seq(File) /\ \A i, t : ~Writing(last, i, t)
            /\ \A i : i # id => NoContext(last, i)
        BY <1>10, <1>11
      <3> DEFINE both == load \o kept
      <3>2. rest = both \o last
        BY <2>2
      <3> HIDE DEF rest, last, kept
      <3>3. /\ Whole(both) /\ both \in Seq(File)
            /\ \A i, t : Writing(both, i, t) => i = id /\ t = heir
            /\ \A i : i # from => NoContext(both, i)
            /\ from \notin behind => NoContext(both, from)
        <4>1. Whole(both)
          BY <1>8, <1>9, WholeJoin
        <4>2. both \in Seq(File) /\ \A i, t : Writing(both, i, t) => i = id /\ t = heir
          BY <1>8, <1>9, ConcatFacts
        <4>3. \A i : NoContext(load, i) => NoContext(both, i)
          BY <1>8, <1>9, NoneJoin
        <4>4. from \notin behind => NoContext(load, from)
          BY <1>9, EmptyFacts
        <4> QED
          BY <1>9, <4>1, <4>2, <4>3, <4>4
      <3> HIDE DEF both
      <3>4. Whole(rest) /\ rest \in Seq(File)
        BY <3>1, <3>2, <3>3, WholeJoin, ConcatFacts
      <3>5. \A i, t : Writing(rest, i, t) => i = id /\ t = heir
        BY <3>1, <3>2, <3>3, ConcatFacts
      <3>6. \A i : i # id /\ NoContext(both, i) => NoContext(rest, i)
        BY <3>1, <3>2, <3>3, NoneJoin
      <3> QED
        BY <1>3, <3>3, <3>4, <3>5, <3>6
    <2> QED
      BY <2>1, <2>2
  <1> DEFINE head == first \o own
  <1>14. /\ Whole(head) /\ head \in Seq(File)
         /\ \A i, t : Writing(head, i, t) => \/ session[from].group = None /\ i = from /\ t = moved
                                             \/ i = id /\ t = fork
         /\ \A i : NoContext(head, i)
    <2> HIDE DEF first, own
    <2>1. Whole(head) /\ head \in Seq(File)
      BY <1>7, <1>8, WholeJoin, ConcatFacts
    <2>2. \A i, t : Writing(head, i, t) <=> Writing(first, i, t) \/ Writing(own, i, t)
      BY <1>7, <1>8, ConcatFacts
    <2>3. \A i : NoContext(head, i)
      BY <1>7, <1>8, NoneJoin
    <2> QED
      BY <1>7, <1>8, <2>1, <2>2, <2>3
  <1>15. writes' = head \o rest
    BY <1>5
  <1>16. ~inherit => writes' = first \o (Saved(id, fork) \o SavedContext(id, fork.turns))
    <2> SUFFICES ASSUME ~inherit
                 PROVE  (first \o own) \o rest = first \o (own \o SavedContext(id, fork.turns))
      BY <1>15
    <2>1. rest = SavedContext(id, fork.turns)
      BY <1>6
    <2> DEFINE new == SavedContext(id, fork.turns)
    <2>2. first \in Seq(File) /\ own \in Seq(File) /\ new \in Seq(File)
      BY <1>7, <1>8, <1>13, <2>1
    <2> HIDE DEF first, own, new
    <2>3. (first \o own) \o new = first \o (own \o new)
      BY <2>2, ConcatAssociative
    <2> QED
      BY <2>1, <2>3 DEF new
  <1> HIDE DEF head, rest, first
  \* The whole.
  <1>17. /\ Whole(writes')
         /\ \A i, t : Writing(writes', i, t) => \/ session[from].group = None /\ i = from /\ t = moved
                                                \/ i = id /\ t \in {fork, heir}
         /\ \A i : i # id /\ i # from => NoContext(writes', i)
         /\ from \notin behind => NoContext(writes', from)
    <2>1. Whole(writes')
      BY <1>13, <1>14, <1>15, WholeJoin
    <2>2. \A i, t : Writing(writes', i, t) <=> Writing(head, i, t) \/ Writing(rest, i, t)
      BY <1>13, <1>14, <1>15, ConcatFacts
    <2>3. \A i : NoContext(rest, i) => NoContext(writes', i)
      BY <1>13, <1>14, <1>15, NoneJoin
    <2> QED
      BY <1>13, <1>14, <2>1, <2>2, <2>3
  <1>18. Saves
    BY <1>1, <1>3, <1>6, <1>17 DEF Saves, now
  <1>19. behind \subseteq behind' /\ (from \in behind /\ inherit => id \in behind')
    BY <1>2
  <1>20. ASSUME NEW i \in Ids \ behind', i # id PROVE SavesContext(i)
    <2>1. NoContext(writes', i)
      BY <1>17, <1>19, <1>20
    <2>2. \A t \in Session : Writing(writes', i, t) => i \in Sessions /\ t.turns = session[i].turns
      BY <1>1, <1>6, <1>17, <1>20
    <2> QED
      BY <2>1, <2>2, NoContextIsFine DEF SavesContext
  <1>21. ASSUME id \notin behind' PROVE SavesContext(id)
    <2>1. ASSUME NEW s \in Session, NEW before \in Seq(File), NoContext(before, id),
                 writes' = before \o (Saved(id, s) \o SavedContext(id, s.turns))
          PROVE  SavesContext(id)
      <3> DEFINE pair == Saved(id, s) \o SavedContext(id, s.turns)
      <3>1. s.turns \in Nat
        BY SummaryFacts
      <3>2. OneContext(pair, id) /\ ~NoSession(pair, id) /\ pair \in Seq(File)
        BY PairFacts DEF Whole
      <3>3. ~NoContext(pair, id)
        <4>1. /\ Saved(id, s) \in Seq(File) /\ SavedContext(id, s.turns) \in Seq(File)
              /\ ~NoContext(SavedContext(id, s.turns), id)
          BY <3>1, UnitFacts, SavedFacts, ContextFacts
        <4> QED
          BY <4>1, NoneJoin
      <3>4. writes' = before \o pair
        BY <2>1
      <3> HIDE DEF pair
      <3>5. OneContext(writes', id) /\ ~NoSession(writes', id) /\ ~NoContext(writes', id)
        BY <2>1, <3>2, <3>3, <3>4, OneJoin, NoneJoin
      <3> QED
        BY <3>5 DEF SavesContext
    <2>2. CASE inherit
      BY <1>6, <1>12, <1>14, <1>15, <1>19, <1>21, <2>1, <2>2
    <2>3. CASE ~inherit
      BY <1>6, <1>7, <1>16, <2>1, <2>3
    <2> QED
      BY <2>2, <2>3
  <1>22. SavesNames
    <2>1. Forks \subseteq Forks' /\ id \in Forks'
      BY <1>2, SessionDirectoryAssumption DEF Forks, IInv, TypeOK
    <2>2. Held(from, session[from])
      BY <1>1, SessionFacts
    <2> QED
      BY <1>1, <1>3, <1>4, <1>6, <1>17, <2>1, <2>2 DEF SavesNames
  <1>23. \A i \in Ids \ behind' : RunFollows(i)'
    BY <1>1, <1>19 DEF FilesInv, ContextInv, RunFollows
  <1> QED
    BY <1>1, <1>18, <1>19, <1>20, <1>21, <1>22, <1>23 DEF Operates

-----------------------------------------------------------------------------

\* There are no files yet.
LEMMA InitFiles == Init => FilesInv
  <1> SUFFICES ASSUME Init PROVE FilesInv
    OBVIOUS
  <1>1. /\ Sessions = {} /\ writes = <<>> /\ \A id : ~SummaryNext(id)
        /\ \A i, t : ~Writing(writes, i, t)
        /\ \A i \in Ids : session[i] = None /\ summary[i] = None /\ run[i] = None
    BY NothingFacts DEF Init, Sessions, SummaryNext
  <1>2. \A i \in Ids, t \in Session : ~Held(i, t) /\ ~Stored(i, t)
    BY <1>1, NoneAssumption DEF Held, Stored
  <1>3. SummaryInv
    BY <1>1 DEF SummaryInv, Followed, Preceded, SummariesMatch, SummariesFollow, FilesAreDated,
                WritesAreNewer
  <1>4. ContextInv
    <2>1. \A id : OneContext(writes, id)
      BY <1>1 DEF OneContext
    <2> QED
      BY <1>1, <2>1 DEF ContextInv, ContextFollows, RunFollows
  <1>5. NameInv
    BY <1>1, <1>2 DEF NameInv, OneName, NamesDiffer, RunsAreOfSessions
  <1> QED
    BY <1>3, <1>4, <1>5 DEF FilesInv

LEMMA NextFiles == IInv /\ FilesInv /\ [Next]_vars => FilesInv'
  <1> SUFFICES ASSUME IInv, FilesInv, [Next]_vars PROVE FilesInv'
    OBVIOUS
  <1>1. CASE Write
    BY <1>1, WriteSummaries, WriteContexts, WriteNames DEF FilesInv
  <1>2. CASE Crash
    BY <1>2, CrashSummaries, CrashContexts, CrashNames DEF FilesInv
  <1>3. CASE Operation
    <2>1. CASE List
      BY <2>1, ListOperates, OperatesSafely
    <2>2. ASSUME NEW name \in Names, NEW group \in Groups, OpenFound(name, group) PROVE FilesInv'
      BY <2>2, ListOperates, OperatesSafely
    <2>3. ASSUME NEW name \in Names, NEW group \in Groups, OpenNew(name, group) PROVE FilesInv'
      BY <2>3, OpenNewOperates, OperatesSafely
    <2>4. ASSUME NEW id \in Ids, NEW name \in Names, NEW inherit \in BOOLEAN,
                 Fork(id, name, inherit)
          PROVE  FilesInv'
      BY <2>4, ForkOperates, OperatesSafely
    <2>5. ASSUME NEW id \in Ids, Update(id) \/ ChatBegins(id) \/ ChatEnds(id) PROVE FilesInv'
      BY <2>5, UpdateOperates, ChatBeginsOperates, ChatEndsOperates, OperatesSafely
    <2> QED
      BY <1>3, <2>1, <2>2, <2>3, <2>4, <2>5 DEF Operation
  <1>4. CASE UNCHANGED vars
    <2>1. UNCHANGED <<session, summary, context, writes, run, time, made, source, lagging, behind,
                      misplaced>>
      BY <1>4 DEF vars, files, history
    <2>2. /\ \A id, s : /\ Held(id, s)' <=> Held(id, s)
                        /\ Stored(id, s)' <=> Stored(id, s)
                        /\ Writing(writes, id, s)' <=> Writing(writes, id, s)
          /\ \A id : /\ SummaryNext(id)' <=> SummaryNext(id)
                     /\ OneContext(writes, id)' <=> OneContext(writes, id)
                     /\ NoContext(writes, id)' <=> NoContext(writes, id)
                     /\ NoSession(writes, id)' <=> NoSession(writes, id)
                     /\ Opened(id)' <=> Opened(id)
          /\ Sessions' = Sessions /\ (Followed(writes)' <=> Followed(writes))
          /\ Preceded(writes)' <=> Preceded(writes)
      BY <2>1 DEF Held, Stored, Writing, SummaryNext, OneContext, Latest, NoContext, NoSession, Opened,
                  Forks, Sessions, Followed, Preceded
    <2>3. SummaryInv'
      BY <2>1, <2>2 DEF FilesInv, SummaryInv, SummariesMatch, SummariesFollow, FilesAreDated,
                        WritesAreNewer
    <2>4. ContextInv'
      BY <2>1, <2>2 DEF FilesInv, ContextInv, ContextFollows, RunFollows
    <2>5. NameInv'
      BY <2>1, <2>2, NamesStay DEF FilesInv
    <2> QED
      BY <2>3, <2>4, <2>5 DEF FilesInv
  <1> QED
    BY <1>1, <1>2, <1>3, <1>4 DEF Next

-----------------------------------------------------------------------------
(* Theorems *)

THEOREM FilesInvariant == Spec => []FilesInv
  BY InitFiles, NextFiles, Invariant, PTL DEF Spec

\* Whatever operations run, and whichever files of one a crash leaves unwritten: when no operation
\* is at work, a session's summary is its own or, after such a crash, an older one, and its
\* context has as many turns as the session, unless the server died before it was written.
THEOREM FilesAlwaysAgree == Spec => []FilesAgree
  <1>1. IInv /\ FilesInv => FilesAgree
    <2> SUFFICES ASSUME IInv, FilesInv, writes = <<>>, NEW id \in Sessions
                 PROVE  /\ \/ summary[id] \in {None, SummaryOf(session[id])}
                           \/ id \in lagging /\ summary[id].updated < session[id].updated
                        /\ id \in behind \/ context[id] = session[id].turns
      BY DEF FilesAgree
    <2>1. \/ summary[id] \in {None, SummaryOf(session[id])}
          \/ id \in lagging /\ summary[id].updated < session[id].updated
      BY DEF FilesInv, SummaryInv, SummariesFollow, SummaryNext
    <2>2. id \in Ids /\ NoContext(writes, id)
      BY DEF NoContext, Sessions
    <2>3. id \in behind \/ context[id] = session[id].turns
      BY <2>2 DEF FilesInv, ContextInv, ContextFollows
    <2> QED
      BY <2>1, <2>3
  <1> QED
    BY <1>1, Invariant, FilesInvariant, PTL

\* open does not give a name out twice in a group, however many sessions there are, because the
\* summaries it looks in agree with the sessions; the exceptions are the forks, what a crash left
\* with an older summary, and a session that is not in the group it was put in.
THEOREM NamesStayUnique == Spec => []NamesAreUnique
  <1>1. IInv /\ FilesInv => NamesAreUnique
    <2> SUFFICES ASSUME IInv, FilesInv, NEW a \in Sessions, NEW b \in Sessions, a # b,
                        session[a].name = session[b].name, session[a].group = session[b].group,
                        {a, b} \cap (Forks \cup lagging \cup misplaced) = {}
                 PROVE  FALSE
      BY DEF NamesAreUnique
    <2>1. /\ a \in Ids /\ b \in Ids /\ session[a] \in Session /\ session[b] \in Session
          /\ Opened(a) /\ Opened(b) /\ Stored(a, session[a]) /\ Stored(b, session[b])
      BY SessionFacts DEF Opened, Stored
    <2> QED
      BY <2>1 DEF FilesInv, NameInv, NamesDiffer
  <1> QED
    BY <1>1, Invariant, FilesInvariant, PTL
=============================================================================
