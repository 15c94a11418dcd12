------------------------ MODULE TranscriptLines_proofs ------------------------
(***************************************************************************)
(* Proofs about TranscriptLines, for any transcripts, lines and bounds:    *)
(* the variables keep their types, rows and calls are those of the first   *)
(* lines that name them wherever readings ended, and so is the count of    *)
(* prompts of a session.                                                   *)
(***************************************************************************)
EXTENDS TranscriptLines, TLAPS

-----------------------------------------------------------------------------
\* Types.

\* A row made from a line has the type of its table.
LEMMA RowType ==
    ASSUME NEW f \in Files, NEW l \in Line, Yields(l)
    PROVE  Row(f, l) \in Message
BY ConstantsOk DEF Row, Message, Line, Yields, AgentOf, Agent, Kind, Files, Types

\* So has a row of each of its tool calls.
LEMMA CallType ==
    ASSUME NEW f \in Files, NEW l \in Line, Yields(l), NEW t \in l.tools
    PROVE  CallRow(f, l, t) \in Call
BY ConstantsOk DEF CallRow, Call, Line, Yields, AgentOf, Agent, Files, Types

\* A transaction keeps its type over a line.
LEMMA ApplyType ==
    ASSUME NEW f \in Files, NEW l \in Line,
           NEW t \in [messages : SUBSET Message, calls : SUBSET Call,
                      title : Titles \cup {None}, cwd : Dirs \cup {None}]
    PROVE  ApplyLine(f, l, t) \in [messages : SUBSET Message, calls : SUBSET Call,
                                   title : Titles \cup {None}, cwd : Dirs \cup {None}]
<1> DEFINE u == Learn(f, l, t)
<1>1. u \in [messages : SUBSET Message, calls : SUBSET Call,
             title : Titles \cup {None}, cwd : Dirs \cup {None}]
  BY DEF Learn, Line
<1>2. CASE ~Yields(l)
  BY <1>1, <1>2 DEF ApplyLine, Store
<1>3. CASE Yields(l)
  <2>1. InsertMessage(u.messages, Row(f, l)) \in SUBSET Message
    BY <1>1, <1>3, RowType DEF InsertMessage
  <2>2. InsertToolCalls(u.calls, f, l) \in SUBSET Call
    BY <1>1, <1>3, CallType DEF InsertToolCalls
  <2> HIDE DEF u
  <2> QED BY <1>1, <1>3, <2>1, <2>2 DEF ApplyLine, Store, u
<1> QED BY <1>2, <1>3

LEMMA TypeInit == Init => TypeOK
BY DEF Init, TypeOK, NoTx, Files

LEMMA TypeNext == TypeOK /\ [Next]_vars => TypeOK'
<1> SUFFICES ASSUME TypeOK, [Next]_vars PROVE TypeOK'
  OBVIOUS
<1> USE DEF TypeOK, Files
<1>1. ASSUME NEW f \in Files, NEW l \in LinesOf[f], Append1(f, l) PROVE TypeOK'
  <2>1. l \in Line BY ConstantsOk
  <2>2. Append(disk[f], l) \in Seq(Line) BY <2>1
  <2> QED BY <1>1, <2>2 DEF Append1, scanVars, rowVars, sessVars, readVars
<1>2. ASSUME NEW f \in Files, Truncate(f) \/ Remove(f) PROVE TypeOK'
  <2>1. << >> \in Seq(Line) OBVIOUS
  <2>2. disk' \in [Files -> Seq(Line)]
    <3>1. CASE Truncate(f) BY <2>1, <3>1 DEF Truncate
    <3>2. CASE Remove(f) BY <2>1, <3>2 DEF Remove
    <3> QED BY <1>2, <3>1, <3>2
  <2>3. CASE Truncate(f)
    BY <2>2, <2>3 DEF Truncate, scanVars, rowVars, sessVars, readVars
  <2>4. CASE Remove(f)
    BY <2>2, <2>4 DEF Remove, scanVars, rowVars, sessVars, readVars
  <2> QED BY <1>2, <2>3, <2>4
<1>3. ASSUME NEW f \in Files, Wipe(f) PROVE TypeOK'
  BY <1>3 DEF Wipe, diskVars, sessVars, readVars
<1>4. ASSUME NEW f \in Files, BeginRead(f) PROVE TypeOK'
  <2>1. tx' \in [messages : SUBSET Message, calls : SUBSET Call,
                 title : Titles \cup {None}, cwd : Dirs \cup {None}]
    BY <1>4 DEF BeginRead, NoTx
  <2>2. stat' \in Nat /\ pos' \in Nat
    BY <1>4 DEF BeginRead
  <2> QED BY <1>4, <2>1, <2>2 DEF BeginRead, diskVars, scanVars, rowVars, sessVars
<1>5. CASE ReadLine
  <2>1. reading \in Files /\ disk[reading][pos + 1] \in Line
    BY <1>5 DEF ReadLine
  <2>2. tx' \in [messages : SUBSET Message, calls : SUBSET Call,
                 title : Titles \cup {None}, cwd : Dirs \cup {None}]
    BY <1>5, <2>1, ApplyType DEF ReadLine
  <2> QED BY <1>5, <2>2 DEF ReadLine, diskVars, scanVars, rowVars, sessVars
<1>6. CASE Commit
  <2>1. reading \in Files /\ Session(reading) \in Mains
    BY <1>6, ConstantsOk DEF Commit, Session
  <2>2. Prompts(tx.messages, Session(reading)) \in SUBSET Ids
    BY DEF Prompts, Message
  <2>3. Coalesce(tx.title, title[Session(reading)]) \in Titles \cup {None}
    BY <2>1 DEF Coalesce
  <2>4. Coalesce(tx.cwd, cwd[Session(reading)]) \in Dirs \cup {None}
    BY <2>1 DEF Coalesce
  <2> QED BY <1>6, <2>1, <2>2, <2>3, <2>4 DEF Commit, diskVars, NoTx
<1>7. CASE Rollback
  BY <1>7 DEF Rollback, diskVars, scanVars, rowVars, sessVars, NoTx
<1>8. CASE PruneMissing
  BY <1>8 DEF PruneMissing, diskVars, readVars
<1>9. CASE UNCHANGED vars
  BY <1>9 DEF vars, diskVars, scanVars, rowVars, sessVars, readVars
<1> QED BY <1>1, <1>2, <1>3, <1>4, <1>5, <1>6, <1>7, <1>8, <1>9
        DEF Next, Writing, Scanning

\* Every variable keeps its type.
THEOREM TypeCorrect == Spec => []TypeOK
BY TypeInit, TypeNext, PTL DEF Spec

-----------------------------------------------------------------------------
\* Rows and calls.

\* Whatever is named at all is named first somewhere.  That a least line exists would
\* need induction; along the readings it is an invariant.
HasFirst(ls, n) ==
    /\ \A i \in 1..n : Yields(ls[i]) => \E j \in FirstLines(ls, n) : ls[j].id = ls[i].id
    /\ \A i \in 1..n : Yields(ls[i]) =>
          \A t \in ls[i].tools : \E c \in FirstCalls(ls, n) : c[2] = t

\* The tables ms and cs have of f what its first n lines say.
Agrees(f, ls, ms, cs, n) ==
    /\ n <= Len(ls) /\ HasFirst(ls, n)
    /\ {r \in ms : r.file = f} = RowsFor(f, ls, n)
    /\ {c \in cs : c.file = f} = CallsFor(f, ls, n)

\* Ids are those of lines the transcript of a row may hold.
Owned(ms, cs) ==
    /\ \A r \in ms : \E l \in LinesOf[r.file] :
          Yields(l) /\ l.id = r.id /\ r.agent = AgentOf(r.file, l)
    /\ \A c \in cs : \E l \in LinesOf[c.file] : Yields(l) /\ c.id \in l.tools

Held == \A f \in Files : \A i \in 1..Len(disk[f]) : disk[f][i] \in LinesOf[f]

Stored ==
    /\ \A f \in onDisk : ~Shrunk(f) => Agrees(f, disk[f], messages, calls, Consumed(f))
    /\ Owned(messages, calls)

InTx ==
    reading # None =>
        /\ reading \in onDisk /\ ~Shrunk(reading) /\ stat <= Len(disk[reading])
        /\ Agrees(reading, disk[reading], tx.messages, tx.calls, pos)
        /\ Owned(tx.messages, tx.calls)
        /\ \A f \in Files \ {reading} :
              /\ {r \in tx.messages : r.file = f} = {r \in messages : r.file = f}
              /\ {c \in tx.calls : c.file = f} = {c \in calls : c.file = f}

RowInv == Held /\ Stored /\ InTx

\* Only the first n lines matter to what they say.
LEMMA SamePrefix ==
    ASSUME NEW f, NEW ms, NEW cs, NEW ls \in Seq(Line), NEW ks \in Seq(Line), NEW n \in Nat,
           n <= Len(ks), \A i \in 1..n : ks[i] = ls[i], Agrees(f, ls, ms, cs, n)
    PROVE  Agrees(f, ks, ms, cs, n)
<1>1. FirstLines(ks, n) = FirstLines(ls, n)
  <2>1. \A i \in 1..n : \A j \in 1..i - 1 : j \in 1..n
    OBVIOUS
  <2> QED BY <2>1, Zenon DEF FirstLines
<1>2. FirstCalls(ks, n) = FirstCalls(ls, n)
  <2>1. \A i \in 1..n : \A j \in 1..i - 1 : j \in 1..n
    OBVIOUS
  <2> QED BY <2>1, Zenon DEF FirstCalls
<1>3. \A c \in FirstCalls(ls, n) : c[1] \in 1..n
  BY DEF FirstCalls
<1>4. \A i \in FirstLines(ls, n) : i \in 1..n
  BY DEF FirstLines
<1>5. RowsFor(f, ks, n) = RowsFor(f, ls, n)
  BY <1>1, <1>4 DEF RowsFor
<1>6. CallsFor(f, ks, n) = CallsFor(f, ls, n)
  BY <1>2, <1>3 DEF CallsFor
<1>7. HasFirst(ks, n)
  BY <1>1, <1>2, <1>4 DEF Agrees, HasFirst
<1> QED BY <1>5, <1>6, <1>7 DEF Agrees

\* A transcript of which nothing was read has no rows.
LEMMA NothingRead ==
    ASSUME NEW f, NEW ls \in Seq(Line)
    PROVE  /\ HasFirst(ls, 0)
           /\ RowsFor(f, ls, 0) = {} /\ CallsFor(f, ls, 0) = {}
BY DEF HasFirst, RowsFor, CallsFor, FirstLines, FirstCalls

LEMMA NoRows ==
    ASSUME NEW f, NEW ls \in Seq(Line), NEW ms, NEW cs,
           {r \in ms : r.file = f} = {}, {c \in cs : c.file = f} = {}
    PROVE  Agrees(f, ls, ms, cs, 0)
<1>1. 0 <= Len(ls) OBVIOUS
<1> QED BY <1>1, NothingRead DEF Agrees

\* One more line that yields a row: it is first, or its id is there.
LEMMA OneMoreRow ==
    ASSUME NEW f \in Files, NEW ls \in Seq(Line), NEW n \in Nat, n < Len(ls),
           HasFirst(ls, n), Yields(ls[n + 1])
    PROVE  /\ RowsFor(f, ls, n + 1) = InsertMessage(RowsFor(f, ls, n), Row(f, ls[n + 1]))
           /\ \A i \in 1..n + 1 : Yields(ls[i]) =>
                 \E j \in FirstLines(ls, n + 1) : ls[j].id = ls[i].id
<1> DEFINE l == ls[n + 1]
<1>1. \A i : i \in 1..n + 1 <=> i \in 1..n \/ i = n + 1
  OBVIOUS
<1>2. \A r \in RowsFor(f, ls, n) : \E i \in FirstLines(ls, n) : r = Row(f, ls[i])
  BY DEF RowsFor
<1>3. Row(f, l).id = l.id /\ \A i : Row(f, ls[i]).id = ls[i].id
  BY DEF Row
<1>4. CASE \E i \in 1..n : Yields(ls[i]) /\ ls[i].id = l.id
  <2>1. FirstLines(ls, n + 1) = FirstLines(ls, n)
    BY <1>1, <1>4 DEF FirstLines
  <2>2. \E j \in FirstLines(ls, n) : ls[j].id = l.id
    BY <1>4 DEF HasFirst
  <2>3. \E x \in RowsFor(f, ls, n) : x.id = Row(f, l).id
    BY <2>2, <1>3 DEF RowsFor
  <2>4. RowsFor(f, ls, n + 1) = RowsFor(f, ls, n)
    BY <2>1 DEF RowsFor
  <2> QED BY <1>1, <2>1, <2>2, <2>3, <2>4 DEF InsertMessage, HasFirst
<1>5. CASE \A i \in 1..n : Yields(ls[i]) => ls[i].id # l.id
  <2>1. FirstLines(ls, n + 1) = FirstLines(ls, n) \cup {n + 1}
    BY <1>1, <1>5 DEF FirstLines
  <2>2. \A x \in RowsFor(f, ls, n) : x.id # Row(f, l).id
    BY <1>2, <1>3, <1>5 DEF FirstLines
  <2>3. RowsFor(f, ls, n + 1) = RowsFor(f, ls, n) \cup {Row(f, l)}
    BY <2>1 DEF RowsFor
  <2> QED BY <1>1, <2>1, <2>2, <2>3 DEF InsertMessage, HasFirst
<1> QED BY <1>4, <1>5

\* The same of the calls it names.
LEMMA OneMoreCall ==
    ASSUME NEW f \in Files, NEW ls \in Seq(Line), NEW n \in Nat, n < Len(ls),
           HasFirst(ls, n), Yields(ls[n + 1])
    PROVE  /\ CallsFor(f, ls, n + 1) = InsertToolCalls(CallsFor(f, ls, n), f, ls[n + 1])
           /\ \A i \in 1..n + 1 : Yields(ls[i]) =>
                 \A t \in ls[i].tools : \E c \in FirstCalls(ls, n + 1) : c[2] = t
<1> DEFINE l == ls[n + 1]
           new == {t \in l.tools : \A j \in 1..n : Yields(ls[j]) => t \notin ls[j].tools}
<1>1. \A i : i \in 1..n + 1 <=> i \in 1..n \/ i = n + 1
  OBVIOUS
<1>2. l \in Line /\ l.tools \subseteq Tools
  <2>1. l \in Line OBVIOUS
  <2> HIDE DEF l
  <2> QED BY <2>1 DEF Line
<1>3. FirstCalls(ls, n + 1) = FirstCalls(ls, n) \cup {<<n + 1, t>> : t \in new}
  <2>1. \A i \in 1..n, t \in Tools : <<i, t>> \in FirstCalls(ls, n + 1) <=> <<i, t>> \in FirstCalls(ls, n)
    BY DEF FirstCalls
  <2>2. \A t \in Tools : <<n + 1, t>> \in FirstCalls(ls, n + 1) <=> t \in new
    BY <1>2 DEF FirstCalls
  <2>3. \A c \in FirstCalls(ls, n + 1) : \E i \in 1..n + 1, t \in Tools : c = <<i, t>>
    BY DEF FirstCalls
  <2>4. \A c \in FirstCalls(ls, n) : \E i \in 1..n, t \in Tools : c = <<i, t>>
    BY DEF FirstCalls
  <2> HIDE DEF l, new
  <2>5. new \subseteq Tools
    BY <1>2 DEF new
  <2> QED BY <1>1, <2>1, <2>2, <2>3, <2>4, <2>5
<1>4. \A u \in l.tools : (\A x \in CallsFor(f, ls, n) : x.id # u) <=> u \in new
  <2>1. ASSUME NEW u \in l.tools, u \notin new PROVE \E x \in CallsFor(f, ls, n) : x.id = u
    <3>1. PICK c \in FirstCalls(ls, n) : c[2] = u
      <4>1. PICK j \in 1..n : Yields(ls[j]) /\ u \in ls[j].tools
        BY <2>1
      <4> QED BY <4>1, Zenon DEF HasFirst
    <3>2. CallRow(f, ls[c[1]], c[2]) \in CallsFor(f, ls, n)
      BY <3>1, Zenon DEF CallsFor
    <3>3. CallRow(f, ls[c[1]], c[2]).id = c[2]
      BY DEF CallRow
    <3> QED BY <3>1, <3>2, <3>3
  <2>2. ASSUME NEW u \in new, NEW x \in CallsFor(f, ls, n) PROVE x.id # u
    <3>1. PICK c \in FirstCalls(ls, n) : x = CallRow(f, ls[c[1]], c[2])
      BY DEF CallsFor
    <3>2. x.id = c[2] /\ c[1] \in 1..n /\ Yields(ls[c[1]]) /\ c[2] \in ls[c[1]].tools
      BY <3>1 DEF CallRow, FirstCalls
    <3> QED BY <3>2
  <2> QED BY <2>1, <2>2
<1>5. CallsFor(f, ls, n + 1) = CallsFor(f, ls, n) \cup {CallRow(f, l, t) : t \in new}
  <2> DEFINE R(c) == CallRow(f, ls[c[1]], c[2])
  <2>1. \A t : R(<<n + 1, t>>) = CallRow(f, l, t)
    OBVIOUS
  <2> HIDE DEF R, new
  <2>2. {R(c) : c \in FirstCalls(ls, n + 1)}
          = {R(c) : c \in FirstCalls(ls, n)} \cup {R(<<n + 1, t>>) : t \in new}
    BY <1>3
  <2> QED BY <2>1, <2>2 DEF CallsFor, R
<1>6. {u \in l.tools : \A x \in CallsFor(f, ls, n) : x.id # u} = new
  BY <1>4
<1>7. \A i \in 1..n + 1 : Yields(ls[i]) =>
        \A t \in ls[i].tools : \E c \in FirstCalls(ls, n + 1) : c[2] = t
  <2> SUFFICES ASSUME NEW i \in 1..n + 1, Yields(ls[i]), NEW t \in ls[i].tools
               PROVE  \E c \in FirstCalls(ls, n + 1) : c[2] = t
    OBVIOUS
  <2>1. CASE \E j \in 1..n : Yields(ls[j]) /\ t \in ls[j].tools
    BY <2>1, <1>3 DEF HasFirst
  <2>2. CASE \A j \in 1..n : Yields(ls[j]) => t \notin ls[j].tools
    <3>1. i = n + 1 BY <1>1, <2>2
    <3>2. t \in new BY <3>1, <2>2
    <3>3. <<n + 1, t>> \in FirstCalls(ls, n + 1)
      BY <1>3, <3>2
    <3> QED BY <3>3
  <2> QED BY <2>1, <2>2
<1> QED BY <1>5, <1>6, <1>7 DEF InsertToolCalls

\* One more line that yields nothing.
LEMMA OneMoreIdle ==
    ASSUME NEW f, NEW ms, NEW cs, NEW ls \in Seq(Line), NEW n \in Nat, n < Len(ls),
           Agrees(f, ls, ms, cs, n), ~Yields(ls[n + 1])
    PROVE  Agrees(f, ls, ms, cs, n + 1)
<1>1. \A i : i \in 1..n + 1 <=> i \in 1..n \/ i = n + 1
  OBVIOUS
<1>2. FirstLines(ls, n + 1) = FirstLines(ls, n)
  BY <1>1 DEF FirstLines
<1>3. FirstCalls(ls, n + 1) = FirstCalls(ls, n)
  <2>1. \A c : c \in (1..n + 1) \X Tools /\ Yields(ls[c[1]]) <=> c \in (1..n) \X Tools /\ Yields(ls[c[1]])
    BY <1>1
  <2> QED BY <2>1, Zenon DEF FirstCalls
<1>4. n + 1 <= Len(ls)
  OBVIOUS
<1> QED BY <1>1, <1>2, <1>3, <1>4 DEF Agrees, HasFirst, RowsFor, CallsFor

\* A line as ReadLine takes it, and what that does to the tables of a transaction.
Applied(f, l, t) == IF l.type = "malformed" THEN t ELSE ApplyLine(f, l, t)

LineDone(f, ls, n, t, u) ==
    /\ Agrees(f, ls, u.messages, u.calls, n)
    /\ Owned(u.messages, u.calls)
    /\ \A g \in Files \ {f} :
          /\ {r \in u.messages : r.file = g} = {r \in t.messages : r.file = g}
          /\ {c \in u.calls : c.file = g} = {c \in t.calls : c.file = g}

\* Rows are ignored by id, and those with the id are of the same transcript.
LEMMA InsertOwn ==
    ASSUME NEW rows, NEW r, NEW f, r.file = f, \A x \in rows : x.id = r.id => x.file = f
    PROVE  {x \in InsertMessage(rows, r) : x.file = f} = InsertMessage({x \in rows : x.file = f}, r)
<1>1. CASE \E x \in rows : x.id = r.id
  BY <1>1 DEF InsertMessage
<1>2. CASE ~\E x \in rows : x.id = r.id
  BY <1>2 DEF InsertMessage
<1> QED BY <1>1, <1>2

\* A line that is read brings its transcript's rows on by that line and no other's.
LEMMA LineStep ==
    ASSUME NEW f \in Files, NEW ls \in Seq(Line), NEW n \in Nat, n < Len(ls),
           NEW l \in LinesOf[f], l = ls[n + 1],
           NEW t \in [messages : SUBSET Message, calls : SUBSET Call,
                      title : Titles \cup {None}, cwd : Dirs \cup {None}],
           Agrees(f, ls, t.messages, t.calls, n), Owned(t.messages, t.calls)
    PROVE  LineDone(f, ls, n + 1, t, Applied(f, l, t))
<1> DEFINE u == Applied(f, l, t)
           ms == t.messages
           cs == t.calls
<1> USE DEF Applied
<1> SUFFICES /\ Agrees(f, ls, u.messages, u.calls, n + 1)
             /\ Owned(u.messages, u.calls)
             /\ \A g \in Files \ {f} :
                  /\ {r \in u.messages : r.file = g} = {r \in t.messages : r.file = g}
                  /\ {c \in u.calls : c.file = g} = {c \in t.calls : c.file = g}
  BY Zenon DEF LineDone
<1>1. CASE ~Yields(l)
  <2>1. u.messages = ms /\ u.calls = cs
    BY <1>1 DEF ApplyLine, Store, Learn
  <2>2. Agrees(f, ls, ms, cs, n + 1)
    BY <1>1, OneMoreIdle
  <2> QED BY <2>1, <2>2
<1>2. CASE Yields(l)
  <2>1. /\ u.messages = InsertMessage(ms, Row(f, l))
        /\ u.calls = InsertToolCalls(cs, f, l)
    BY <1>2 DEF ApplyLine, Store, Learn, Yields
  <2>2. /\ \A x \in ms : x.id = l.id => x.file = f
        /\ \A x \in cs : x.id \in l.tools => x.file = f
    <3>1. ASSUME NEW x \in ms, x.id = l.id PROVE x.file = f
      <4>1. x.file \in Files BY DEF Message
      <4>2. PICK k \in LinesOf[x.file] : Yields(k) /\ k.id = x.id BY DEF Owned
      <4> HIDE DEF ms
      <4> QED BY <1>2, <3>1, <4>1, <4>2, ConstantsOk
    <3>2. ASSUME NEW x \in cs, x.id \in l.tools PROVE x.file = f
      <4>1. x.file \in Files BY DEF Call
      <4>2. PICK k \in LinesOf[x.file] : Yields(k) /\ x.id \in k.tools BY DEF Owned
      <4> HIDE DEF cs
      <4> QED BY <1>2, <3>2, <4>1, <4>2, ConstantsOk
    <3> QED BY <3>1, <3>2
  <2>3. Row(f, l).id = l.id /\ Row(f, l).file = f /\ Row(f, l).agent = AgentOf(f, l)
    BY DEF Row
  <2>4. \A v : CallRow(f, l, v).id = v /\ CallRow(f, l, v).file = f
    BY DEF CallRow
  <2> DEFINE mine == {r \in ms : r.file = f}
             made == {c \in cs : c.file = f}
  <2>5. {r \in u.messages : r.file = f} = InsertMessage(mine, Row(f, l))
    <3> DEFINE row == Row(f, l)
    <3>1. u.messages = InsertMessage(ms, row) /\ row.file = f /\ \A x \in ms : x.id = row.id => x.file = f
      BY <2>1, <2>2, <2>3
    <3>2. {x \in InsertMessage(ms, row) : x.file = f} = InsertMessage(mine, row)
      <4> HIDE DEF ms, row
      <4> QED BY <3>1, InsertOwn
    <3> HIDE DEF u
    <3> QED BY <3>1, <3>2
  <2>6. {c \in u.calls : c.file = f} = InsertToolCalls(made, f, l)
    <3>1. {v \in l.tools : \A x \in cs : x.id # v} = {v \in l.tools : \A x \in made : x.id # v}
      BY <2>2
    <3> QED BY <2>1, <2>4, <3>1 DEF InsertToolCalls
  <2>7. mine = RowsFor(f, ls, n) /\ made = CallsFor(f, ls, n) /\ HasFirst(ls, n)
    BY DEF Agrees
  <2>8. /\ RowsFor(f, ls, n + 1) = InsertMessage(mine, Row(f, l))
        /\ CallsFor(f, ls, n + 1) = InsertToolCalls(made, f, l)
        /\ HasFirst(ls, n + 1)
    <3>1. /\ RowsFor(f, ls, n + 1) = InsertMessage(RowsFor(f, ls, n), Row(f, ls[n + 1]))
          /\ \A i \in 1..n + 1 : Yields(ls[i]) =>
                \E j \in FirstLines(ls, n + 1) : ls[j].id = ls[i].id
      BY <1>2, <2>7, OneMoreRow
    <3>2. /\ CallsFor(f, ls, n + 1) = InsertToolCalls(CallsFor(f, ls, n), f, ls[n + 1])
          /\ \A i \in 1..n + 1 : Yields(ls[i]) =>
                \A v \in ls[i].tools : \E c \in FirstCalls(ls, n + 1) : c[2] = v
      BY <1>2, <2>7, OneMoreCall
    <3>3. HasFirst(ls, n + 1)
      BY <3>1, <3>2 DEF HasFirst
    <3>4. /\ InsertMessage(RowsFor(f, ls, n), Row(f, ls[n + 1])) = InsertMessage(mine, Row(f, l))
          /\ InsertToolCalls(CallsFor(f, ls, n), f, ls[n + 1]) = InsertToolCalls(made, f, l)
      BY <2>7
    <3> HIDE DEF mine, made
    <3> QED BY <3>1, <3>2, <3>3, <3>4
  <2>9. Agrees(f, ls, u.messages, u.calls, n + 1)
    BY <2>5, <2>6, <2>8 DEF Agrees
  <2>10. Owned(u.messages, u.calls)
    <3>1. \A r \in u.messages : r \in ms \/ r = Row(f, l)
      BY <2>1 DEF InsertMessage
    <3>2. \A c \in u.calls : c \in cs \/ \E v \in l.tools : c = CallRow(f, l, v)
      BY <2>1 DEF InsertToolCalls
    <3> QED BY <1>2, <2>3, <2>4, <3>1, <3>2 DEF Owned
  <2>11. \A g \in Files \ {f} : {r \in u.messages : r.file = g} = {r \in ms : r.file = g}
    BY <2>1, <2>3 DEF InsertMessage
  <2>12. \A g \in Files \ {f} : {c \in u.calls : c.file = g} = {c \in cs : c.file = g}
    BY <2>1, <2>4 DEF InsertToolCalls
  <2> QED BY <2>9, <2>10, <2>11, <2>12
<1> QED BY <1>1, <1>2

-----------------------------------------------------------------------------
\* The steps.

LEMMA RowsInit == Init => RowInv
<1> SUFFICES ASSUME Init PROVE RowInv
  OBVIOUS
<1>1. << >> \in Seq(Line)
  OBVIOUS
<1>2. \A f \in Files : Agrees(f, << >>, {}, {}, 0)
  BY <1>1, NoRows
<1> QED BY <1>2 DEF Init, RowInv, Held, Stored, InTx, Owned, Consumed, Shrunk

\* Of a transcript that has no cursor there are no rows.
LEMMA Unread ==
    ASSUME TypeOK, Stored, NEW f \in onDisk, f \notin known
    PROVE  {r \in messages : r.file = f} = {} /\ {c \in calls : c.file = f} = {}
<1>1. f \in Files /\ disk[f] \in Seq(Line) BY DEF TypeOK
<1>2. Agrees(f, disk[f], messages, calls, 0) BY DEF Stored, Shrunk, Consumed
<1> QED BY <1>1, <1>2, NothingRead DEF Agrees

LEMMA RowsAppend ==
    ASSUME TypeOK, TypeOK', RowInv, NEW f \in Files, NEW l \in LinesOf[f], Append1(f, l)
    PROVE  RowInv'
<1>1. /\ disk[f] \in Seq(Line) /\ disk'[f] \in Seq(Line) /\ Len(disk'[f]) = Len(disk[f]) + 1
      /\ \A i \in 1..Len(disk[f]) : disk'[f][i] = disk[f][i]
      /\ disk'[f][Len(disk[f]) + 1] = l
      /\ \A g \in Files \ {f} : disk'[g] = disk[g]
  <2>1. disk[f] \in Seq(Line) /\ l \in Line BY ConstantsOk DEF TypeOK
  <2>2. disk'[f] = Append(disk[f], l) BY DEF Append1, TypeOK
  <2> QED BY <2>1, <2>2 DEF Append1, TypeOK
<1>2. UNCHANGED <<onDisk, known, size, offset, messages, calls, reading, stat, pos, tx>>
  BY DEF Append1, scanVars, rowVars, sessVars, readVars
<1>3. Held'
  <2> SUFFICES ASSUME NEW g \in Files, NEW i \in 1..Len(disk'[g]) PROVE disk'[g][i] \in LinesOf[g]
    BY DEF Held
  <2>1. CASE g # f
    BY <1>1, <2>1 DEF RowInv, Held
  <2>2. CASE g = f
    <3>1. i \in 1..Len(disk[f]) \/ i = Len(disk[f]) + 1 BY <1>1, <2>2
    <3> QED BY <1>1, <2>2, <3>1 DEF RowInv, Held
  <2> QED BY <2>1, <2>2
<1>4. \A g \in Files : /\ Consumed(g)' = Consumed(g)
                       /\ Shrunk(g)' => Shrunk(g)
                       /\ Shrunk(g) => Shrunk(g)'
  BY <1>1, <1>2 DEF Consumed, Shrunk, Append1, TypeOK
<1>5. \A n \in Nat : \A ms, cs : Agrees(f, disk[f], ms, cs, n) => Agrees(f, disk'[f], ms, cs, n)
  <2> SUFFICES ASSUME NEW n \in Nat, NEW ms, NEW cs, Agrees(f, disk[f], ms, cs, n)
               PROVE  Agrees(f, disk'[f], ms, cs, n)
    OBVIOUS
  <2>1. n <= Len(disk[f]) BY DEF Agrees
  <2>2. n <= Len(disk'[f]) /\ \A i \in 1..n : disk'[f][i] = disk[f][i] BY <1>1, <2>1
  <2> QED BY <1>1, <2>2, SamePrefix
<1>6. \A g \in Files : Consumed(g) \in Nat
  BY DEF Consumed, TypeOK
<1>7. Stored'
  <2>1. ASSUME NEW g \in onDisk, ~Shrunk(g)
        PROVE  Agrees(g, disk'[g], messages, calls, Consumed(g))
    <3>1. Agrees(g, disk[g], messages, calls, Consumed(g)) BY <2>1 DEF RowInv, Stored
    <3>2. g \in Files BY DEF TypeOK
    <3>3. CASE g = f BY <1>5, <1>6, <3>1, <3>2, <3>3
    <3>4. CASE g # f BY <1>1, <3>1, <3>2, <3>4
    <3> QED BY <3>3, <3>4
  <2> QED BY <1>2, <1>4, <2>1 DEF RowInv, Stored, TypeOK
<1>8. InTx'
  <2> SUFFICES ASSUME reading # None PROVE InTx'
    BY <1>2 DEF InTx
  <2>1. reading \in Files /\ pos \in Nat /\ stat \in Nat BY DEF TypeOK
  <2>2. Agrees(reading, disk'[reading], tx.messages, tx.calls, pos)
    BY <1>1, <1>5, <2>1 DEF RowInv, InTx
  <2>3. stat <= Len(disk'[reading])
    <3>1. stat <= Len(disk[reading]) /\ Len(disk[f]) \in Nat BY <1>1 DEF RowInv, InTx
    <3> QED BY <1>1, <2>1, <3>1
  <2> QED BY <1>2, <1>4, <2>1, <2>2, <2>3 DEF RowInv, InTx
<1> QED BY <1>3, <1>7, <1>8 DEF RowInv

LEMMA RowsTruncate ==
    ASSUME TypeOK, TypeOK', RowInv, NEW f \in Files, Truncate(f) \/ Remove(f)
    PROVE  RowInv'
<1>1. /\ disk'[f] = << >> /\ \A g \in Files \ {f} : disk'[g] = disk[g]
      /\ f \in onDisk /\ f # reading /\ onDisk' \subseteq onDisk /\ onDisk \ {f} \subseteq onDisk'
      /\ UNCHANGED <<known, size, offset, messages, calls, reading, stat, pos, tx>>
  BY DEF Truncate, Remove, scanVars, rowVars, sessVars, readVars, TypeOK
<1>2. Held'
  <2> SUFFICES ASSUME NEW g \in Files, NEW i \in 1..Len(disk'[g]) PROVE disk'[g][i] \in LinesOf[g]
    BY DEF Held
  <2>1. g # f BY <1>1
  <2> QED BY <1>1, <2>1 DEF RowInv, Held
<1>3. \A g \in Files : Consumed(g)' = Consumed(g)
  BY <1>1 DEF Consumed
<1>4. \A g \in Files \ {f} : Shrunk(g)' = Shrunk(g)
  BY <1>1 DEF Shrunk
<1>5. ASSUME f \in onDisk', ~Shrunk(f)' PROVE Agrees(f, disk'[f], messages, calls, Consumed(f))
  <2>1. Truncate(f) BY <1>5 DEF Remove
  <2>2. f \notin known BY <1>1, <1>5, <2>1 DEF Truncate, Shrunk, TypeOK
  <2>3. {r \in messages : r.file = f} = {} /\ {c \in calls : c.file = f} = {}
    BY <1>1, <2>2, Unread DEF RowInv
  <2>4. << >> \in Seq(Line) OBVIOUS
  <2>5. Consumed(f) = 0 BY <2>2 DEF Consumed
  <2> QED BY <1>1, <2>3, <2>4, <2>5, NoRows
<1>6. Stored'
  <2>1. ASSUME NEW g \in onDisk', ~Shrunk(g)'
        PROVE  Agrees(g, disk'[g], messages, calls, Consumed(g))
    BY <1>1, <1>4, <1>5, <2>1 DEF RowInv, Stored, TypeOK
  <2> QED BY <1>1, <1>3, <2>1 DEF RowInv, Stored, TypeOK
<1>7. InTx'
  BY <1>1, <1>4 DEF RowInv, InTx, TypeOK
<1> QED BY <1>2, <1>6, <1>7 DEF RowInv

LEMMA RowsWipe ==
    ASSUME TypeOK, TypeOK', RowInv, NEW f \in Files, Wipe(f)
    PROVE  RowInv'
<1>1. /\ UNCHANGED <<onDisk, disk, reading>> /\ reading = None /\ known' = known \ {f}
      /\ messages' = {r \in messages : r.file # f} /\ calls' = {c \in calls : c.file # f}
      /\ \A g \in Files \ {f} : size'[g] = size[g] /\ offset'[g] = offset[g]
  BY DEF Wipe, diskVars, sessVars, readVars, TypeOK
<1>2. Held'
  BY <1>1 DEF RowInv, Held
<1>3. Owned(messages, calls)'
  BY <1>1 DEF RowInv, Stored, Owned
<1>4. ASSUME NEW g \in onDisk, ~Shrunk(g)'
      PROVE  Agrees(g, disk[g], messages', calls', Consumed(g)')
  <2>1. g \in Files /\ disk[g] \in Seq(Line) BY DEF TypeOK
  <2>2. CASE g = f
    <3>1. {r \in messages' : r.file = g} = {} /\ {c \in calls' : c.file = g} = {}
      BY <1>1, <2>2
    <3>2. Consumed(g)' = 0 BY <1>1, <2>2 DEF Consumed
    <3> QED BY <2>1, <3>1, <3>2, NoRows
  <2>3. CASE g # f
    <3>1. ~Shrunk(g) /\ Consumed(g)' = Consumed(g)
      BY <1>1, <1>4, <2>1, <2>3 DEF Shrunk, Consumed
    <3>2. /\ {r \in messages' : r.file = g} = {r \in messages : r.file = g}
          /\ {c \in calls' : c.file = g} = {c \in calls : c.file = g}
      BY <1>1, <2>3
    <3> QED BY <3>1, <3>2 DEF RowInv, Stored, Agrees
  <2> QED BY <2>2, <2>3
<1> QED BY <1>1, <1>2, <1>3, <1>4 DEF RowInv, Stored, InTx

LEMMA RowsBegin ==
    ASSUME TypeOK, TypeOK', RowInv, NEW f \in Files, BeginRead(f)
    PROVE  RowInv'
<1>1. /\ UNCHANGED <<onDisk, disk, known, size, offset, messages, calls>>
      /\ reading' = f /\ f \in onDisk /\ stat' = Len(disk[f]) /\ pos' = Consumed(f)
      /\ tx'.messages = messages /\ tx'.calls = calls
  BY DEF BeginRead, diskVars, scanVars, rowVars, sessVars, NoTx, Consumed
<1>2. ~Shrunk(f)
  BY DEF BeginRead, Shrunk, TypeOK
<1>3. Agrees(f, disk[f], messages, calls, Consumed(f)) /\ Owned(messages, calls)
  BY <1>1, <1>2 DEF RowInv, Stored
<1>4. Len(disk[f]) \in Nat
  BY DEF TypeOK
<1>5. Held' /\ Stored' /\ Shrunk(f)' = Shrunk(f)
  BY <1>1 DEF RowInv, Held, Stored, Shrunk, Consumed
<1>6. InTx'
  BY <1>1, <1>2, <1>3, <1>4, <1>5 DEF InTx
<1> QED BY <1>5, <1>6 DEF RowInv

LEMMA RowsReadLine ==
    ASSUME TypeOK, TypeOK', RowInv, ReadLine
    PROVE  RowInv'
<1>1. /\ UNCHANGED <<onDisk, disk, known, size, offset, messages, calls, reading, stat>>
      /\ reading \in Files /\ reading # None /\ pos' = pos + 1 /\ pos \in Nat
      /\ disk[reading] \in Seq(Line) /\ pos < Len(disk[reading])
  BY DEF ReadLine, diskVars, scanVars, rowVars, sessVars, TypeOK
<1>2. disk[reading][pos + 1] \in LinesOf[reading]
  BY <1>1 DEF RowInv, Held
<1>3. /\ Agrees(reading, disk[reading], tx.messages, tx.calls, pos)
      /\ Owned(tx.messages, tx.calls)
  BY <1>1 DEF RowInv, InTx
<1>4. LineDone(reading, disk[reading], pos + 1, tx, tx')
  <2>1. PICK l \in LinesOf[reading] : l = disk[reading][pos + 1]
    BY <1>2
  <2>2. tx' = Applied(reading, l, tx)
    BY <2>1 DEF ReadLine, Applied
  <2>3. tx \in [messages : SUBSET Message, calls : SUBSET Call,
                title : Titles \cup {None}, cwd : Dirs \cup {None}]
    BY DEF TypeOK
  <2>4. LineDone(reading, disk[reading], pos + 1, tx, Applied(reading, l, tx))
    BY <1>1, <1>3, <2>1, <2>3, LineStep
  <2> QED BY <2>2, <2>4
<1>5. Held' /\ Stored' /\ Shrunk(reading)' = Shrunk(reading)
  BY <1>1 DEF RowInv, Held, Stored, Shrunk, Consumed
<1>6. InTx'
  BY <1>1, <1>4, <1>5 DEF RowInv, InTx, LineDone
<1> QED BY <1>5, <1>6 DEF RowInv

LEMMA RowsCommit ==
    ASSUME TypeOK, TypeOK', RowInv, Commit
    PROVE  RowInv'
<1>1. /\ UNCHANGED <<onDisk, disk>> /\ reading \in Files /\ reading # None /\ reading' = None
      /\ messages' = tx.messages /\ calls' = tx.calls
      /\ known' = known \cup {reading}
      /\ size'[reading] = stat /\ offset'[reading] = pos
      /\ \A g \in Files \ {reading} : size'[g] = size[g] /\ offset'[g] = offset[g]
  BY DEF Commit, diskVars, TypeOK
<1>2. Held'
  BY <1>1 DEF RowInv, Held
<1>3. Owned(messages, calls)'
  BY <1>1 DEF RowInv, InTx
<1>4. ASSUME NEW g \in onDisk, ~Shrunk(g)'
      PROVE  Agrees(g, disk[g], messages', calls', Consumed(g)')
  <2>1. CASE g = reading
    <3>1. Consumed(g)' = pos BY <1>1, <2>1 DEF Consumed
    <3> QED BY <1>1, <2>1, <3>1 DEF RowInv, InTx
  <2>2. CASE g # reading
    <3>1. g \in Files BY DEF TypeOK
    <3>2. ~Shrunk(g) /\ Consumed(g)' = Consumed(g)
      BY <1>1, <1>4, <2>2, <3>1 DEF Shrunk, Consumed
    <3>3. /\ {r \in messages' : r.file = g} = {r \in messages : r.file = g}
          /\ {c \in calls' : c.file = g} = {c \in calls : c.file = g}
      BY <1>1, <2>2, <3>1 DEF RowInv, InTx
    <3> QED BY <3>2, <3>3 DEF RowInv, Stored, Agrees
  <2> QED BY <2>1, <2>2
<1> QED BY <1>1, <1>2, <1>3, <1>4 DEF RowInv, Stored, InTx

LEMMA RowsPrune ==
    ASSUME TypeOK, TypeOK', RowInv, PruneMissing
    PROVE  RowInv'
<1> DEFINE gone == {f \in known : Unlisted(f)}
<1>1. /\ UNCHANGED <<onDisk, disk, reading>> /\ reading = None /\ known' = known \ gone
      /\ messages' = {r \in messages : r.file \notin gone /\ Session(r.file) \notin gone}
      /\ calls' = {c \in calls : c.file \notin gone /\ Session(c.file) \notin gone}
      /\ \A g \in Files \ gone : size'[g] = size[g] /\ offset'[g] = offset[g]
  BY DEF PruneMissing, diskVars, readVars, TypeOK
<1>2. Held'
  BY <1>1 DEF RowInv, Held
<1>3. Owned(messages, calls)'
  BY <1>1 DEF RowInv, Stored, Owned
<1>4. ASSUME NEW g \in onDisk, ~Shrunk(g)'
      PROVE  Agrees(g, disk[g], messages', calls', Consumed(g)')
  <2>1. g \in Files /\ disk[g] \in Seq(Line) BY DEF TypeOK
  <2>2. CASE g \in gone \/ Session(g) \in gone
    <3>1. g \notin known'
      <4>1. Session(Session(g)) = Session(g) /\ Session(g) \in Files
        BY <2>1, ConstantsOk DEF Session, Files
      <4>2. Session(g) \in gone => Unlisted(g)
        BY <4>1 DEF Unlisted
      <4> QED BY <1>1, <2>2, <4>2
    <3>2. {r \in messages' : r.file = g} = {} /\ {c \in calls' : c.file = g} = {}
      BY <1>1, <2>2
    <3>3. Consumed(g)' = 0 BY <3>1 DEF Consumed
    <3> QED BY <2>1, <3>2, <3>3, NoRows
  <2>3. CASE g \notin gone /\ Session(g) \notin gone
    <3>1. ~Shrunk(g) /\ Consumed(g)' = Consumed(g)
      BY <1>1, <1>4, <2>1, <2>3 DEF Shrunk, Consumed
    <3>2. /\ {r \in messages' : r.file = g} = {r \in messages : r.file = g}
          /\ {c \in calls' : c.file = g} = {c \in calls : c.file = g}
      BY <1>1, <2>3
    <3> QED BY <3>1, <3>2 DEF RowInv, Stored, Agrees
  <2> QED BY <2>2, <2>3
<1> QED BY <1>1, <1>2, <1>3, <1>4 DEF RowInv, Stored, InTx

LEMMA RowsNext == TypeOK /\ TypeOK' /\ RowInv /\ [Next]_vars => RowInv'
<1> SUFFICES ASSUME TypeOK, TypeOK', RowInv, [Next]_vars PROVE RowInv'
  OBVIOUS
<1>1. ASSUME NEW f \in Files, NEW l \in LinesOf[f], Append1(f, l) PROVE RowInv'
  BY <1>1, RowsAppend
<1>2. ASSUME NEW f \in Files, Truncate(f) \/ Remove(f) PROVE RowInv'
  BY <1>2, RowsTruncate
<1>3. ASSUME NEW f \in Files, Wipe(f) PROVE RowInv'
  BY <1>3, RowsWipe
<1>4. ASSUME NEW f \in Files, BeginRead(f) PROVE RowInv'
  BY <1>4, RowsBegin
<1>5. CASE ReadLine BY <1>5, RowsReadLine
<1>6. CASE Commit BY <1>6, RowsCommit
<1>7. CASE Rollback
  BY <1>7 DEF Rollback, diskVars, scanVars, rowVars, sessVars,
              RowInv, Held, Stored, InTx, Shrunk, Consumed
<1>8. CASE PruneMissing BY <1>8, RowsPrune
<1>9. CASE UNCHANGED vars
  BY <1>9 DEF vars, diskVars, scanVars, rowVars, sessVars, readVars,
              RowInv, Held, Stored, InTx, Shrunk, Consumed
<1> QED BY <1>1, <1>2, <1>3, <1>4, <1>5, <1>6, <1>7, <1>8, <1>9 DEF Next, Writing, Scanning

\* Wherever readings end, fail or are repeated, for any lines: a message has one row, as
\* the first of its lines says, and each of its tool calls one.
THEOREM RowsOfFirstLines == Spec => []RowsAreFirstLines
<1>1. RowInv => RowsAreFirstLines
  BY DEF RowInv, Stored, Agrees, RowsAreFirstLines
<1> QED BY <1>1, TypeInit, TypeNext, RowsInit, RowsNext, PTL DEF Spec

-----------------------------------------------------------------------------
\* The count of prompts.

\* The prompts among the rows of one main transcript.
OwnPrompts(own) ==
    {r.id : r \in {x \in own : x.role = "user" /\ x.kind = "prompt" /\ x.agent = None}}

CountInv == \A s \in Mains \cap known : prompts[s] = OwnPrompts({x \in messages : x.file = s})

\* Subagents' rows have an agent, so the rows of a session's own transcript are all that
\* its count depends on.
LEMMA PromptsOfMain ==
    ASSUME NEW rows \in SUBSET Message, NEW cs, Owned(rows, cs), NEW s \in Mains
    PROVE  Prompts(rows, s) = OwnPrompts({x \in rows : x.file = s})
<1>1. ASSUME NEW x \in rows, Session(x.file) = s, x.agent = None PROVE x.file = s
  <2>1. x.file \in Files BY DEF Message
  <2>2. PICK l \in LinesOf[x.file] : x.agent = AgentOf(x.file, l) BY DEF Owned
  <2>3. x.file \notin Subs
    BY <1>1, <2>1, <2>2, ConstantsOk DEF AgentOf, Agent, Files
  <2> QED BY <1>1, <2>1, <2>3 DEF Session, Files
<1>2. \A x \in rows : x.file = s => Session(x.file) = s
  BY DEF Session
<1>3. {x \in rows : Session(x.file) = s /\ x.role = "user" /\ x.kind = "prompt" /\ x.agent = None}
        = {x \in {y \in rows : y.file = s} : x.role = "user" /\ x.kind = "prompt" /\ x.agent = None}
  BY <1>1, <1>2
<1> QED BY <1>3 DEF Prompts, OwnPrompts

LEMMA CountNext == ASSUME TypeOK, RowInv, CountInv, [Next]_vars PROVE CountInv'
<1>1. ASSUME NEW gone, known' \subseteq known \ gone,
             \A s \in Mains \ gone : prompts'[s] = prompts[s],
             \A s \in Mains \ gone : {x \in messages' : x.file = s} = {x \in messages : x.file = s}
      PROVE  CountInv'
  BY <1>1 DEF CountInv
<1>2. ASSUME UNCHANGED <<known, messages, prompts>> PROVE CountInv'
  BY <1>2 DEF CountInv
<1>3. ASSUME NEW f \in Files, Wipe(f) PROVE CountInv'
  BY <1>1, <1>3 DEF Wipe, sessVars
<1>4. CASE PruneMissing
  <2> DEFINE gone == {f \in known : Unlisted(f)}
  <2>1. /\ known' = known \ gone
        /\ messages' = {r \in messages : r.file \notin gone /\ Session(r.file) \notin gone}
        /\ \A s \in Mains \ gone : prompts'[s] = prompts[s]
    BY <1>4 DEF PruneMissing, TypeOK
  <2>2. \A s \in Mains : Session(s) = s BY DEF Session
  <2> HIDE DEF gone
  <2> QED BY <1>1, <2>1, <2>2
<1>5. CASE Commit
  <2> DEFINE s == Session(reading)
  <2>1. /\ reading \in Files /\ reading # None /\ known' = known \cup {reading}
        /\ messages' = tx.messages /\ tx.messages \in SUBSET Message
        /\ Owned(tx.messages, tx.calls)
        /\ \A g \in Files \ {reading} :
              {r \in tx.messages : r.file = g} = {r \in messages : r.file = g}
    BY <1>5 DEF Commit, TypeOK, RowInv, InTx
  <2>2. s \in Mains /\ (reading \in Mains => reading = s) /\ (reading \notin Mains => reading \notin known' \cap Mains)
    BY <2>1, ConstantsOk DEF Session, Files
  <2>3. prompts' = [prompts EXCEPT ![s] = Prompts(tx.messages, s)]
    BY <1>5 DEF Commit
  <2> HIDE DEF s
  <2>4. prompts'[s] = OwnPrompts({x \in messages' : x.file = s})
    BY <2>1, <2>2, <2>3, PromptsOfMain DEF TypeOK
  <2>5. ASSUME NEW t \in Mains \cap known', t # s
        PROVE  prompts'[t] = OwnPrompts({x \in messages' : x.file = t})
    BY <2>1, <2>2, <2>3, <2>5 DEF CountInv, TypeOK, Files
  <2> QED BY <2>4, <2>5 DEF CountInv
<1>6. ASSUME NEW f \in Files, \/ \E l \in LinesOf[f] : Append1(f, l)
                              \/ Truncate(f) \/ Remove(f) \/ BeginRead(f)
      PROVE  CountInv'
  BY <1>2, <1>6 DEF Append1, Truncate, Remove, BeginRead, scanVars, rowVars, sessVars
<1>7. CASE ReadLine \/ Rollback
  BY <1>2, <1>7 DEF ReadLine, Rollback, scanVars, rowVars, sessVars
<1>8. CASE UNCHANGED vars
  BY <1>2, <1>8 DEF vars, scanVars, rowVars, sessVars
<1> QED BY <1>3, <1>4, <1>5, <1>6, <1>7, <1>8 DEF Next, Writing, Scanning

\* Whatever a session's subagents were told and wherever readings ended, its count is that
\* of the distinct prompts in the lines read (UpdateSessionFacts, applyLine).
THEOREM PromptsOfLines == Spec => []PromptsExact
<1>1. TypeOK /\ RowInv /\ CountInv => PromptsExact
  <2> SUFFICES ASSUME TypeOK, RowInv, CountInv, NEW s \in Mains \cap onDisk \cap known, ~Shrunk(s)
               PROVE  prompts[s] = {disk[s][i].id : i \in
                          {j \in FirstLines(disk[s], offset[s]) :
                              /\ disk[s][j].type = "user" /\ disk[s][j].agent = None
                              /\ "tool_result" \notin disk[s][j].content}}
    BY DEF PromptsExact
  <2> DEFINE ls == disk[s]
             first == FirstLines(ls, offset[s])
  <2>1. prompts[s] = OwnPrompts(RowsFor(s, ls, offset[s]))
    BY DEF CountInv, RowInv, Stored, Agrees, Consumed
  <2>2. Agent(s) = None
    BY ConstantsOk DEF Agent
  <2>3. ASSUME NEW l
        PROVE  LET r == Row(s, l)
               IN  /\ r.id = l.id
                   /\ r.role = "user" /\ r.kind = "prompt" /\ r.agent = None
                        <=> /\ l.type = "user" /\ l.agent = None
                            /\ "tool_result" \notin l.content
    <3>1. Row(s, l).kind = IF l.type = "user" THEN Kind(l.content) ELSE "response"
      BY DEF Row
    <3>2. Kind(l.content) = "prompt" <=> "tool_result" \notin l.content
      BY DEF Kind
    <3>3. Row(s, l).agent = None <=> l.agent = None
      BY <2>2 DEF Row, AgentOf
    <3> QED BY <3>1, <3>2, <3>3 DEF Row
  <2>4. RowsFor(s, ls, offset[s]) = {Row(s, ls[i]) : i \in first}
    BY DEF RowsFor
  <2> HIDE DEF first, ls
  <2>5. OwnPrompts({Row(s, ls[i]) : i \in first})
          = {ls[i].id : i \in {j \in first : /\ ls[j].type = "user" /\ ls[j].agent = None
                                             /\ "tool_result" \notin ls[j].content}}
    BY <2>3 DEF OwnPrompts
  <2> QED BY <2>1, <2>4, <2>5 DEF ls, first
<1>2. Init => CountInv
  BY DEF Init, CountInv
<1> QED BY <1>1, <1>2, TypeInit, TypeNext, RowsInit, RowsNext, CountNext, PTL DEF Spec

-----------------------------------------------------------------------------
\* The title and the directory.

\* On record, and as they will be on record when the open transaction commits.
FactInv ==
    /\ \A s \in Mains \cap onDisk \cap known :
          ~Shrunk(s) => FactsOf(disk[s], offset[s], title[s], cwd[s])
    /\ reading \in Mains =>
          FactsOf(disk[reading], pos, Coalesce(tx.title, title[reading]),
                  Coalesce(tx.cwd, cwd[reading]))
    /\ reading \in Mains /\ tx.title # None =>
          AiTitles(disk[reading], pos) \cup Summaries(disk[reading], pos) # {}
    /\ reading \in Subs => tx.title = None /\ tx.cwd = None

\* Only the first n lines matter to the facts, and none of them says nothing.
LEMMA SameFacts ==
    ASSUME NEW ls, NEW ks, NEW n \in Nat, \A i \in 1..n : ks[i] = ls[i], NEW t, NEW c
    PROVE  /\ FactsOf(ls, n, t, c) => FactsOf(ks, n, t, c)
           /\ AiTitles(ks, n) = AiTitles(ls, n) /\ Summaries(ks, n) = Summaries(ls, n)
<1>1. /\ DirLines(ks, n) = DirLines(ls, n) /\ DirLines(ls, n) \subseteq 1..n
      /\ AiTitles(ks, n) = AiTitles(ls, n) /\ AiTitles(ls, n) \subseteq 1..n
      /\ Summaries(ks, n) = Summaries(ls, n) /\ Summaries(ls, n) \subseteq 1..n
  BY DEF DirLines, AiTitles, Summaries
<1> QED BY <1>1 DEF FactsOf

LEMMA NoFacts == ASSUME NEW ls, NEW t, NEW c PROVE FactsOf(ls, 0, t, c)
BY DEF FactsOf, DirLines, AiTitles, Summaries

\* A line that is read takes the facts from those of n lines to those of one more.
LEMMA FactStep ==
    ASSUME NEW f \in Mains, NEW ls, NEW n \in Nat, NEW l \in Line, l = ls[n + 1],
           NEW t \in [messages : SUBSET Message, calls : SUBSET Call,
                      title : Titles \cup {None}, cwd : Dirs \cup {None}],
           NEW T, NEW C,
           FactsOf(ls, n, Coalesce(t.title, T), Coalesce(t.cwd, C)),
           t.title # None => AiTitles(ls, n) \cup Summaries(ls, n) # {}
    PROVE  LET u == Applied(f, l, t)
           IN  /\ FactsOf(ls, n + 1, Coalesce(u.title, T), Coalesce(u.cwd, C))
               /\ u.title # None => AiTitles(ls, n + 1) \cup Summaries(ls, n + 1) # {}
<1> DEFINE u == Applied(f, l, t)
           names == l.type \in {"user", "assistant"} /\ l.message /\ l.cwd # None
           ai == l.type = "ai-title" /\ l.name # None
           sums == l.type = "summary" /\ l.name # None
           t0 == Coalesce(t.title, T)
           t1 == Coalesce(u.title, T)
<1>1. /\ u.title = IF ai \/ (sums /\ t.title = None) THEN l.name ELSE t.title
      /\ u.cwd = IF names THEN l.cwd ELSE t.cwd
  BY DEF Applied, ApplyLine, Store, Learn
<1>2. /\ DirLines(ls, n + 1) = DirLines(ls, n) \cup (IF names THEN {n + 1} ELSE {})
      /\ AiTitles(ls, n + 1) = AiTitles(ls, n) \cup (IF ai THEN {n + 1} ELSE {})
      /\ Summaries(ls, n + 1) = Summaries(ls, n) \cup (IF sums THEN {n + 1} ELSE {})
  <2>1. \A i : i \in 1..n + 1 <=> i \in 1..n \/ i = n + 1
    OBVIOUS
  <2> QED BY <2>1 DEF DirLines, AiTitles, Summaries
<1>3. /\ DirLines(ls, n) \subseteq 1..n /\ AiTitles(ls, n) \subseteq 1..n
      /\ Summaries(ls, n) \subseteq 1..n
  BY DEF DirLines, AiTitles, Summaries
<1>4. \A i \in DirLines(ls, n + 1) : IsLast(i, DirLines(ls, n + 1)) => Coalesce(u.cwd, C) = ls[i].cwd
  <2>1. CASE names
    <3>1. \A i \in DirLines(ls, n + 1) : IsLast(i, DirLines(ls, n + 1)) => i = n + 1
      BY <1>2, <1>3, <2>1 DEF IsLast
    <3> QED BY <1>1, <2>1, <3>1 DEF Coalesce
  <2>2. CASE ~names
    BY <1>1, <1>2, <2>2 DEF FactsOf
  <2> QED BY <2>1, <2>2
<1> DEFINE A == AiTitles(ls, n)
           S == Summaries(ls, n)
           A1 == AiTitles(ls, n + 1)
           S1 == Summaries(ls, n + 1)
<1>5. ASSUME A1 \cup S1 # {}
      PROVE  \E i \in A1 \cup S1 : /\ t1 = ls[i].name
                                   /\ \A j \in A1 : j <= i
                                   /\ S1 = {} => IsLast(i, A1)
  <2>1. CASE ai \/ (sums /\ t.title = None)
    <3>1. n + 1 \in A1 \cup S1 /\ \A j \in A1 : j <= n + 1
      BY <1>2, <1>3, <2>1
    <3>2. t1 = ls[n + 1].name
      BY <1>1, <2>1 DEF Coalesce
    <3>3. S1 = {} => IsLast(n + 1, A1)
      BY <3>1 DEF IsLast
    <3> QED BY <3>1, <3>2, <3>3
  <2>2. CASE ~ai /\ sums /\ t.title # None
    <3>1. t1 = t.title /\ t0 = t.title
      BY <1>1, <2>2 DEF Coalesce
    <3>2. A1 = A /\ S1 = S \cup {n + 1}
      BY <1>2, <2>2
    <3>3. PICK i \in A \cup S : t0 = ls[i].name /\ \A j \in A : j <= i
      BY <2>2 DEF FactsOf
    <3> QED BY <3>1, <3>2, <3>3
  <2>3. CASE ~ai /\ ~sums
    <3>1. t1 = t0 /\ A1 = A /\ S1 = S
      BY <1>1, <1>2, <2>3
    <3> QED BY <3>1, <1>5 DEF FactsOf
  <2> QED BY <2>1, <2>2, <2>3
<1>6. u.title # None => A1 \cup S1 # {}
  BY <1>1, <1>2
<1> QED BY <1>4, <1>5, <1>6 DEF FactsOf

LEMMA FactNext ==
    ASSUME TypeOK, TypeOK', RowInv, FactInv, [Next]_vars
    PROVE  FactInv'
<1>1. \A f \in Files : reading = f => reading # None
  BY ConstantsOk
<1>2. ASSUME NEW f \in Files, NEW l \in LinesOf[f], Append1(f, l) PROVE FactInv'
  <2>1. /\ \A g \in Files \ {f} : disk'[g] = disk[g]
        /\ Len(disk[f]) \in Nat /\ \A i \in 1..Len(disk[f]) : disk'[f][i] = disk[f][i]
        /\ Shrunk(f) => Shrunk(f)'
        /\ UNCHANGED <<onDisk, known, size, offset, title, cwd, reading, pos, tx>>
    <3>1. disk[f] \in Seq(Line) /\ l \in Line BY ConstantsOk DEF TypeOK
    <3>2. disk' = [disk EXCEPT ![f] = Append(disk[f], l)] BY <1>2 DEF Append1
    <3>3. disk'[f] = Append(disk[f], l) /\ Len(disk'[f]) = Len(disk[f]) + 1
      BY <3>1, <3>2 DEF TypeOK
    <3> QED BY <1>2, <3>1, <3>2, <3>3 DEF Append1, Shrunk, TypeOK, scanVars, sessVars, readVars
  <2>2. ASSUME NEW n \in Nat, n <= Len(disk[f]), NEW t, NEW c
        PROVE  /\ FactsOf(disk[f], n, t, c) => FactsOf(disk'[f], n, t, c)
               /\ AiTitles(disk'[f], n) = AiTitles(disk[f], n)
               /\ Summaries(disk'[f], n) = Summaries(disk[f], n)
    <3>1. \A i \in 1..n : disk'[f][i] = disk[f][i] BY <2>1, <2>2
    <3> QED BY <3>1, SameFacts
  <2>3. ASSUME NEW s \in Mains \cap onDisk' \cap known', ~Shrunk(s)'
        PROVE  FactsOf(disk'[s], offset'[s], title'[s], cwd'[s])
    <3>1. CASE s = f
      <4>1. ~Shrunk(f) BY <2>1, <2>3, <3>1
      <4>2. offset[f] <= Len(disk[f]) /\ offset[f] \in Nat
        BY <2>1, <2>3, <3>1, <4>1 DEF RowInv, Stored, Agrees, Consumed, TypeOK
      <4>3. FactsOf(disk[f], offset[f], title[f], cwd[f])
        BY <2>1, <2>3, <3>1, <4>1 DEF FactInv
      <4> QED BY <2>1, <2>2, <3>1, <4>2, <4>3
    <3>2. CASE s # f
      BY <2>1, <2>3, <3>2 DEF FactInv, Shrunk, Files
    <3> QED BY <3>1, <3>2
  <2>4. CASE reading = f
    <3>1. pos \in Nat /\ pos <= Len(disk[f])
      BY <1>1, <2>4 DEF RowInv, InTx, Agrees, TypeOK
    <3> QED BY <2>1, <2>2, <2>3, <2>4, <3>1 DEF FactInv
  <2>5. CASE reading # f
    BY <2>1, <2>3, <2>5 DEF FactInv, Files
  <2> QED BY <2>4, <2>5
<1>3. ASSUME NEW f \in Files, Truncate(f) \/ Remove(f) PROVE FactInv'
  <2>1. /\ disk'[f] = << >> /\ \A g \in Files \ {f} : disk'[g] = disk[g]
        /\ f # reading /\ onDisk' \subseteq onDisk
        /\ f \in onDisk' /\ f \in known => size[f] > 0 /\ size[f] \in Nat
        /\ UNCHANGED <<known, size, offset, title, cwd, reading, pos, tx>>
    BY <1>3 DEF Truncate, Remove, scanVars, sessVars, readVars, TypeOK
  <2>2. ASSUME NEW s \in Mains \cap onDisk' \cap known', ~Shrunk(s)'
        PROVE  FactsOf(disk'[s], offset'[s], title'[s], cwd'[s])
    <3>1. s # f BY <2>1, <2>2 DEF Shrunk
    <3> QED BY <2>1, <2>2, <3>1 DEF FactInv, Shrunk, Files
  <2> QED BY <2>1, <2>2 DEF FactInv, Files
<1>4. ASSUME NEW f \in Files, Wipe(f) PROVE FactInv'
  <2>1. /\ reading' = None /\ known' = known \ {f} /\ UNCHANGED <<onDisk, disk, title, cwd>>
        /\ \A g \in Files \ {f} : size'[g] = size[g] /\ offset'[g] = offset[g]
    BY <1>4 DEF Wipe, diskVars, sessVars, readVars, TypeOK
  <2>2. None \notin Mains \cup Subs BY ConstantsOk DEF Files
  <2> QED BY <2>1, <2>2 DEF FactInv, Shrunk, Files
<1>5. ASSUME NEW f \in Files, BeginRead(f) PROVE FactInv'
  <2>1. /\ reading' = f /\ f \in onDisk /\ ~Shrunk(f)
        /\ pos' = (IF f \in known THEN offset[f] ELSE 0)
        /\ tx'.title = None /\ tx'.cwd = None
        /\ UNCHANGED <<onDisk, disk, known, size, offset, title, cwd>>
    BY <1>5 DEF BeginRead, NoTx, Shrunk, TypeOK, diskVars, scanVars, sessVars
  <2>2. f \in Mains => FactsOf(disk[f], pos', title[f], cwd[f])
    BY <2>1, NoFacts DEF FactInv
  <2>3. \A x : Coalesce(None, x) = x BY DEF Coalesce
  <2> QED BY <2>1, <2>2, <2>3 DEF FactInv, Shrunk
<1>6. CASE ReadLine
  <2>1. /\ UNCHANGED <<onDisk, disk, known, size, offset, title, cwd, reading>>
        /\ reading \in Files /\ pos \in Nat /\ pos' = pos + 1 /\ pos < Len(disk[reading])
        /\ disk[reading] \in Seq(Line)
        /\ tx' = Applied(reading, disk[reading][pos + 1], tx)
    BY <1>6 DEF ReadLine, Applied, TypeOK, diskVars, scanVars, sessVars
  <2>2. PICK l \in Line : l = disk[reading][pos + 1]
    BY <2>1
  <2>3. tx \in [messages : SUBSET Message, calls : SUBSET Call,
                title : Titles \cup {None}, cwd : Dirs \cup {None}]
    BY DEF TypeOK
  <2>4. CASE reading \in Mains
    <3>1. /\ FactsOf(disk[reading], pos + 1, Coalesce(tx'.title, title[reading]),
                     Coalesce(tx'.cwd, cwd[reading]))
          /\ tx'.title # None =>
                AiTitles(disk[reading], pos + 1) \cup Summaries(disk[reading], pos + 1) # {}
      <4>1. /\ FactsOf(disk[reading], pos, Coalesce(tx.title, title[reading]),
                       Coalesce(tx.cwd, cwd[reading]))
            /\ tx.title # None => AiTitles(disk[reading], pos) \cup Summaries(disk[reading], pos) # {}
        BY <2>4 DEF FactInv
      <4> QED BY <2>1, <2>2, <2>3, <2>4, <4>1, FactStep
    <3>2. reading \notin Subs BY <2>4, ConstantsOk
    <3> QED BY <2>1, <3>1, <3>2 DEF FactInv, Shrunk
  <2>5. CASE reading \in Subs
    <3>1. reading \notin Mains BY <2>5, ConstantsOk
    <3>2. tx'.title = tx.title /\ tx'.cwd = tx.cwd
      BY <2>1, <2>3, <3>1 DEF Applied, ApplyLine, Store, Learn
    <3> QED BY <2>1, <2>5, <3>1, <3>2 DEF FactInv, Shrunk
  <2> QED BY <2>1, <2>4, <2>5 DEF Files
<1>7. CASE Commit
  <2>1. /\ UNCHANGED <<onDisk, disk>> /\ reading \in Files /\ reading' = None
        /\ known' = known \cup {reading}
        /\ offset'[reading] = pos
        /\ \A g \in Files \ {reading} : size'[g] = size[g] /\ offset'[g] = offset[g]
        /\ title' = [title EXCEPT ![Session(reading)] = Coalesce(tx.title, title[Session(reading)])]
        /\ cwd' = [cwd EXCEPT ![Session(reading)] = Coalesce(tx.cwd, cwd[Session(reading)])]
    BY <1>7 DEF Commit, diskVars, TypeOK
  <2>2. None \notin Mains \cup Subs BY ConstantsOk DEF Files
  <2>3. \A x : Coalesce(None, x) = x BY DEF Coalesce
  <2>4. ASSUME NEW s \in Mains \cap onDisk' \cap known', ~Shrunk(s)'
        PROVE  FactsOf(disk'[s], offset'[s], title'[s], cwd'[s])
    <3>1. CASE s = reading
      <4>1. /\ title'[s] = Coalesce(tx.title, title[s]) /\ cwd'[s] = Coalesce(tx.cwd, cwd[s])
        BY <2>1, <3>1 DEF Session, TypeOK
      <4> QED BY <2>1, <3>1, <4>1 DEF FactInv
    <3>2. CASE s # reading
      <4>1. title'[s] = title[s] /\ cwd'[s] = cwd[s]
        <5>1. CASE reading \in Mains
          BY <2>1, <3>2, <5>1 DEF Session, TypeOK
        <5>2. CASE reading \in Subs
          BY <2>1, <2>3, <5>2 DEF FactInv, TypeOK
        <5> QED BY <2>1, <5>1, <5>2 DEF Files
      <4> QED BY <2>1, <2>4, <3>2, <4>1 DEF FactInv, Shrunk, Files
    <3> QED BY <3>1, <3>2
  <2> QED BY <2>1, <2>2, <2>4 DEF FactInv
<1>8. CASE PruneMissing
  <2> DEFINE gone == {f \in known : Unlisted(f)}
  <2>1. /\ UNCHANGED <<onDisk, disk, reading>> /\ reading = None /\ known' = known \ gone
        /\ \A g \in Files \ gone : size'[g] = size[g] /\ offset'[g] = offset[g]
        /\ \A s \in Mains \ gone : title'[s] = title[s] /\ cwd'[s] = cwd[s]
    BY <1>8 DEF PruneMissing, diskVars, readVars, TypeOK
  <2>2. None \notin Mains \cup Subs BY ConstantsOk DEF Files
  <2> HIDE DEF gone
  <2> QED BY <2>1, <2>2 DEF FactInv, Shrunk, Files
<1>9. CASE Rollback
  <2>1. None \notin Mains \cup Subs BY ConstantsOk DEF Files
  <2> QED BY <1>9, <2>1 DEF Rollback, diskVars, scanVars, sessVars, FactInv, Shrunk
<1>10. CASE UNCHANGED vars
  BY <1>10 DEF vars, diskVars, scanVars, sessVars, readVars, FactInv, Shrunk
<1> QED BY <1>2, <1>3, <1>4, <1>5, <1>6, <1>7, <1>8, <1>9, <1>10 DEF Next, Writing, Scanning

\* A session's directory is the last its main transcript names, and no later batch loses its
\* title (applyLine, COALESCE in UpdateSessionFacts).
THEOREM FactsOfLines == Spec => []FactsFollowLines
<1>1. FactInv => FactsFollowLines
  BY DEF FactInv, FactsFollowLines
<1>2. Init => FactInv
  BY ConstantsOk DEF Init, FactInv, Files
<1> QED BY <1>1, <1>2, TypeInit, TypeNext, RowsInit, RowsNext, FactNext, PTL DEF Spec
=============================================================================
