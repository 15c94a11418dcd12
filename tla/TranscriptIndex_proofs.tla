----------------------- MODULE TranscriptIndex_proofs -----------------------
(***************************************************************************)
(* Proofs about TranscriptIndex, for any set of transcripts, any content   *)
(* and any faults.                                                         *)
(***************************************************************************)
EXTENDS TranscriptIndex, TLAPS

\* A content stays well typed when a line is appended or only the first k lines remain.
LEMMA ContentType ==
    ASSUME NEW d \in Content, NEW t \in Nat, NEW l \in Lines, NEW k \in Nat
    PROVE  /\ Size(d) \in Nat
           /\ [d EXCEPT !.lines = Append(@, l), !.tail = FALSE, !.mtime = t] \in Content
           /\ [d EXCEPT !.tail = TRUE, !.mtime = t] \in Content
           /\ [born |-> t, mtime |-> t, lines |-> << >>, tail |-> FALSE] \in Content
           /\ 2 * k < Size(d) =>
                [born |-> t, mtime |-> t, tail |-> FALSE, lines |-> SubSeq(d.lines, 1, k)] \in Content
<1>1. Size(d) \in Nat
  BY DEF Size, Content
<1>2. 2 * k < Size(d) => SubSeq(d.lines, 1, k) \in Seq(Lines)
  <2> SUFFICES ASSUME 2 * k < Size(d) PROVE SubSeq(d.lines, 1, k) \in Seq(Lines)
    OBVIOUS
  <2>1. k <= Len(d.lines)
    BY DEF Size, Content
  <2>2. QED
    BY <2>1 DEF Content
<1>3. [d EXCEPT !.lines = Append(@, l), !.tail = FALSE, !.mtime = t] \in Content
  <2>1. Append(d.lines, l) \in Seq(Lines)
    BY DEF Content
  <2>2. QED
    BY <2>1 DEF Content
<1>4. [d EXCEPT !.tail = TRUE, !.mtime = t] \in Content
  BY DEF Content
<1>5. [born |-> t, mtime |-> t, lines |-> << >>, tail |-> FALSE] \in Content
  BY DEF Content
<1>6. 2 * k < Size(d) =>
        [born |-> t, mtime |-> t, tail |-> FALSE, lines |-> SubSeq(d.lines, 1, k)] \in Content
  BY <1>2 DEF Content
<1>7. QED
  BY <1>1, <1>3, <1>4, <1>5, <1>6

\* The constants as the other proofs use them.
LEMMA SessionType == \A f \in Files : Session(f) \in Mains
BY ConstantsOk DEF ConstantsOk, Session, Files

\* The events of the outside world keep the types.
LEMMA WorldType == ASSUME TypeOK, World PROVE TypeOK'
<1>w. ASSUME NEW f \in Files, NEW d \in Content, Write(f, d), onDisk' \subseteq Files, dirs' \in BOOLEAN
      PROVE  TypeOK'
  <2>1. now' \in Nat /\ disk' \in [Files -> Content]
    BY <1>w DEF Write, Tick, TypeOK
  <2>2. QED
    BY <2>1, <1>w DEF Write, TypeOK, dbVars, fileRows, countVars, agentVars, rollups, listVars, fileVars
<1>t. now \in Nat /\ now + 1 \in Nat /\ Empty \in [born : Nat, mtime : Nat, lines : Seq(Lines), tail : BOOLEAN]
  BY DEF TypeOK, Empty
<1>1. ASSUME NEW f \in Files, NEW l \in Lines, AppendLine(f, l) PROVE TypeOK'
  <2>1. [disk[f] EXCEPT !.lines = Append(@, l), !.tail = FALSE, !.mtime = now + 1] \in Content
    BY <1>t, ContentType DEF TypeOK
  <2>2. QED
    BY <2>1, <1>1, <1>w DEF AppendLine, TypeOK
<1>2. ASSUME NEW f \in Files, AppendPart(f) PROVE TypeOK'
  <2>1. [disk[f] EXCEPT !.tail = TRUE, !.mtime = now + 1] \in Content
    BY <1>t DEF TypeOK, Content
  <2>2. QED
    BY <2>1, <1>2, <1>w DEF AppendPart, TypeOK
<1>3. ASSUME NEW f \in Files, NEW k \in 0..MaxLines, Rewrite(f, k) PROVE TypeOK'
  <2>1. k \in Nat
    BY ConstantsOk DEF ConstantsOk
  <2>2. [born |-> now + 1, mtime |-> now + 1, tail |-> FALSE,
         lines |-> SubSeq(disk[f].lines, 1, k)] \in Content
    <3>1. disk[f] \in Content /\ NoMsg \in Lines
      BY DEF TypeOK, Lines
    <3>2. QED
      BY <3>1, <2>1, <1>t, <1>3, ContentType DEF Rewrite
  <2>3. QED
    BY <2>2, <1>3, <1>w DEF Rewrite, TypeOK
<1>4. ASSUME NEW f \in Files, Create(f) PROVE TypeOK'
  BY <1>4, <1>t, <1>w DEF Create, TypeOK, Content
<1>5. ASSUME NEW f \in Files, Remove(f) PROVE TypeOK'
  BY <1>5, <1>t DEF Remove, Tick, TypeOK, Content, dbVars, fileRows, countVars, agentVars, rollups, listVars, fileVars
<1>6. ASSUME RemoveAll PROVE TypeOK'
  BY <1>6, <1>t DEF RemoveAll, Tick, TypeOK, Content, dbVars, fileRows, countVars, agentVars, rollups, listVars, fileVars
<1>7. QED
  BY <1>1, <1>2, <1>3, <1>4, <1>5, <1>6 DEF World

\* The end of a pass resets what the pass has of its own.
LEMMA EndPassType ==
    ASSUME TypeOK, NEW outcome \in {"idle", "done"}, EndPass(outcome)
    PROVE  /\ pc' \in {"idle", "done"}
           /\ todo' \subseteq Mains /\ subTodo' \subseteq Subs /\ keep' \subseteq Files
           /\ nonEmpty' \in BOOLEAN /\ clean' \in BOOLEAN
           /\ cur' \in Files \cup {NoFile} /\ stat' \in [size : Nat, mtime : Nat] /\ base' \in Nat
BY DEF EndPass, NoStat

\* The wipe and the prune leave only rows that were there.
LEMMA DeleteRowsType ==
    ASSUME TypeOK, NEW F, NEW S, DeleteRows(F, S)
    PROVE  /\ scanned' \subseteq scanned /\ cursor' = cursor /\ messages' \subseteq messages
           /\ agents' \subseteq agents /\ agentMsgs' \in [Subs -> SUBSET Msgs] /\ daily' = daily
BY DEF DeleteRows, TypeOK

\* The steps of a pass, and its faults, keep the types.
LEMMA ScanType == ASSUME TypeOK, ScanStep \/ ScanFault PROVE TypeOK'
<1> USE DEF TypeOK
<1>1. ASSUME ListProjects PROVE TypeOK'
  BY <1>1 DEF ListProjects, diskVars, dbVars, fileRows, countVars, agentVars, rollups, fileVars
<1>2. ASSUME NEW f \in Files, SkipUnchanged(f) PROVE TypeOK'
  BY <1>2 DEF SkipUnchanged, Take, Succeed, NoStat, Files,
              diskVars, dbVars, fileRows, countVars, agentVars, rollups
<1>3. ASSUME NEW f \in Files, StatChanged(f) PROVE TypeOK'
  <2>1. Size(disk[f]) \in Nat /\ disk[f].mtime \in Nat
    <3>1. disk[f] \in Content
      OBVIOUS
    <3>2. QED
      BY <3>1 DEF Content, Size
  <2>2. ResumeOffset(f) \in Nat
    BY DEF ResumeOffset, Cursor
  <2>3. QED
    BY <1>3, <2>1, <2>2 DEF StatChanged, Take,
              diskVars, dbVars, fileRows, countVars, agentVars, rollups
<1>4. ASSUME NEW f \in Files, StatFails(f) PROVE TypeOK'
  <2>1. now' \in Nat
    BY <1>4 DEF StatFails, Fault, Tick
  <2>2. QED
    BY <1>4, <2>1 DEF StatFails, Take, GiveUp, NoStat, Files,
              diskVars, dbVars, fileRows, countVars, agentVars, rollups
<1>5. ASSUME WipeRows PROVE TypeOK'
  BY <1>5, DeleteRowsType DEF WipeRows, diskVars, countVars, listVars, fileVars
<1>6. ASSUME ReadLines PROVE TypeOK'
  <2>1. cur \in Files /\ Session(cur) \in Mains
    BY <1>6, SessionType DEF ReadLines
  <2>2. messages' \subseteq Msgs
    BY <1>6 DEF ReadLines, IdsFrom
  <2>3. cursor' \in [Files -> Cursor]
    <3>1. disk[cur] \in Content /\ cursor[cur] \in Cursor
      BY <2>1
    <3>2. Consumed(disk[cur], base) \in Nat
      BY <3>1 DEF Consumed, Content
    <3>3. NewCursor(disk[cur]) \in Cursor
      BY <3>1, <3>2 DEF NewCursor, Cursor, Content
    <3>4. QED
      BY <1>6, <2>1, <3>3 DEF ReadLines
  <2>4. counted' \in [Mains -> SUBSET Msgs] /\ subCount' \in [Mains -> SUBSET Subs]
    BY <1>6, <2>2 DEF ReadLines, UpdateSessionFacts, SessionRows, AgentsOf
  <2>5. QED
    BY <1>6, <2>1, <2>2, <2>3, <2>4
       DEF ReadLines, Succeed, NoStat, Files, diskVars, agentVars, rollups
<1>7. ASSUME ReadFails PROVE TypeOK'
  <2>1. now' \in Nat
    BY <1>7 DEF ReadFails, Fault, Tick
  <2>2. QED
    BY <1>7, <2>1 DEF ReadFails, GiveUp, NoStat,
              diskVars, dbVars, fileRows, countVars, agentVars, rollups
<1>8. ASSUME ListSubagents PROVE TypeOK'
  <2>1. subTodo' \subseteq Subs
    BY <1>8 DEF ListSubagents
  <2>2. clean' \in BOOLEAN
    <3>1. clean' = clean
      BY <1>8 DEF ListSubagents
    <3>2. QED
      BY <3>1, Zenon
  <2>3. pc' = "file" /\ cur' \in Files \cup {NoFile}
    BY <1>8 DEF ListSubagents
  <2>4. UNCHANGED <<now, onDisk, dirs, disk, scanned, cursor, messages, sessions, counted, subCount,
                    agents, agentMsgs, daily, usage, todo, stat, base, keep, nonEmpty>>
    BY <1>8 DEF ListSubagents, diskVars, dbVars, fileRows, countVars, agentVars, rollups
  <2>5. QED
    BY <2>1, <2>2, <2>3, <2>4
<1>15. ASSUME ListSubagentsFails PROVE TypeOK'
  <2>1. now' \in Nat
    BY <1>15 DEF ListSubagentsFails, Fault, Tick
  <2>2. subTodo' \subseteq Subs /\ clean' \in BOOLEAN
    BY <1>15 DEF ListSubagentsFails
  <2>3. pc' = "file" /\ cur' \in Files \cup {NoFile}
    BY <1>15 DEF ListSubagentsFails
  <2>4. UNCHANGED <<onDisk, dirs, disk, scanned, cursor, messages, sessions, counted, subCount,
                    agents, agentMsgs, daily, usage, todo, stat, base, keep, nonEmpty>>
    BY <1>15 DEF ListSubagentsFails, diskVars, dbVars, fileRows, countVars, agentVars, rollups
  <2>5. QED
    BY <2>1, <2>2, <2>3, <2>4
<1>9. ASSUME RecordSubagent PROVE TypeOK'
  BY <1>9 DEF RecordSubagent, AgentsOf, RowsOf,
              diskVars, fileRows, rollups, listVars
<1>10. ASSUME RecordSubagentFails PROVE TypeOK'
  BY <1>10 DEF RecordSubagentFails, Fault, Tick,
              diskVars, dbVars, fileRows, countVars, agentVars, rollups, listVars
<1>11. ASSUME PruneMissing PROVE TypeOK'
  BY <1>11, DeleteRowsType DEF PruneMissing, diskVars, listVars, fileVars
<1>12. ASSUME RebuildRollups PROVE TypeOK'
  BY <1>12, EndPassType DEF RebuildRollups, SessionRows,
              diskVars, fileRows, countVars, agentVars
<1>13. ASSUME ListProjectsFails \/ Interrupted PROVE TypeOK'
  BY <1>13, EndPassType DEF ListProjectsFails, Interrupted, Fault, Tick,
              diskVars, dbVars, fileRows, countVars, agentVars, rollups
<1>14. QED
  BY <1>1, <1>2, <1>3, <1>4, <1>5, <1>6, <1>7, <1>8, <1>9, <1>10, <1>11, <1>12, <1>13, <1>15
     DEF ScanStep, ScanFault

\* The first state is well typed.
LEMMA InitType == Init => TypeOK
<1> SUFFICES ASSUME Init PROVE TypeOK
  OBVIOUS
<1>1. disk \in [Files -> Content]
  BY ConstantsOk DEF ConstantsOk, Init, Content
<1>2. cursor \in [Files -> Cursor]
  BY DEF Init, Cursor
<1>3. QED
  BY <1>1, <1>2 DEF Init, TypeOK, NoStat

\* The variables always have their types, and the transcript in hand is of the
\* kind the program counter says.
THEOREM TypeCorrect == Spec => []TypeOK
<1>2. TypeOK /\ [Next]_vars => TypeOK'
  <2>1. TypeOK /\ UNCHANGED vars => TypeOK'
    BY DEF TypeOK, vars, diskVars, dbVars, fileRows, countVars, agentVars, rollups, listVars, fileVars
  <2>2. QED
    BY <2>1, WorldType, ScanType DEF Next
<1>3. QED
  BY InitType, <1>2, PTL DEF Spec

-----------------------------------------------------------------------------
\* The inductive invariant.

\* A message id occurs in its owner only, and births are in the past, so that a
\* new content never has the birth a cursor remembers.
DiskInv ==
    \A f \in Files :
        /\ \A i \in 1..Len(disk[f].lines) :
              disk[f].lines[i] \in Msgs => Owner[disk[f].lines[i]] = f
        /\ disk[f].born <= now
        /\ cursor[f].born <= now

\* A cursor stands between two lines, within the content it was taken from, and
\* one at the beginning of its file has yielded no rows.
CursorInv ==
    \A f \in scanned :
        /\ cursor[f].offset % 2 = 0
        /\ cursor[f].offset = 0 => RowsOf(f) = {}
        /\ cursor[f].born = disk[f].born => cursor[f].offset <= 2 * Len(disk[f].lines)
        /\ Session(f) \in sessions

\* What the pass holds of the transcript in hand agrees with the database.
HandInv ==
    /\ pc = "wipe" => base = 0
    /\ pc = "read" => base = ResumeOffset(cur)
    /\ pc \in {"wipe", "read", "sublist", "record"} => cur \in keep
    /\ pc = "record" => Parent[cur] \in sessions
    /\ pc \in {"wipe", "read"} /\ cur \in Mains => subTodo = {}
    /\ pc = "sublist" => subTodo = {}

\* A subagent transcript is kept only together with its main transcript.
KeepInv ==
    /\ \A f \in keep : Session(f) \in keep
    /\ \A a \in subTodo : Parent[a] \in keep

\* A pass that has met no failure will have everything intact in keep.
SeenInv ==
    pc \in {"file", "wipe", "read", "sublist", "record"} /\ clean =>
        /\ \A s \in Mains : Whole(s) => s \in todo \cup keep
        /\ \A a \in Subs : Intact(a) =>
              \/ a \in subTodo \cup keep
              \/ Parent[a] \in todo
              \/ pc \in {"wipe", "read", "sublist"} /\ cur = Parent[a]

IndInv ==
    /\ TypeOK
    /\ DiskInv
    /\ CursorInv
    /\ HandInv
    /\ KeepInv
    /\ SeenInv
    /\ IndexMatchesCursor
    /\ CountsNeverLag
    /\ RollupsFresh

-----------------------------------------------------------------------------
\* It holds at first.
LEMMA InitInd == Init => IndInv
<1> SUFFICES ASSUME Init PROVE IndInv
  OBVIOUS
<1>1. TypeOK
  BY InitType
<1>2. DiskInv
  BY ConstantsOk DEF ConstantsOk, Init, DiskInv
<1>3. CursorInv /\ HandInv /\ KeepInv /\ SeenInv
  BY DEF Init, CursorInv, HandInv, KeepInv, SeenInv
<1>4. IndexMatchesCursor /\ CountsNeverLag /\ RollupsFresh
  BY DEF Init, IndexMatchesCursor, RowsOf, CountsNeverLag, RollupsFresh
<1>5. QED
  BY <1>1, <1>2, <1>3, <1>4 DEF IndInv

\* A step that touches neither the transcripts nor the tables keeps what relates them.
LEMMA TablesInd ==
    ASSUME IndInv, UNCHANGED <<disk, dbVars>>, now' \in {now, now + 1}
    PROVE  DiskInv' /\ CursorInv' /\ IndexMatchesCursor' /\ CountsNeverLag'
<1>1. DiskInv'
  <2>1. ASSUME NEW f \in Files PROVE disk[f].born \in Nat /\ cursor[f].born \in Nat /\ now \in Nat
    BY DEF IndInv, TypeOK, Content, Cursor
  <2>2. QED
    BY <2>1 DEF IndInv, DiskInv, dbVars, fileRows
<1>2. CursorInv' /\ IndexMatchesCursor'
  BY DEF IndInv, CursorInv, IndexMatchesCursor, RowsOf, IdsUpTo, dbVars, fileRows, countVars
<1>3. CountsNeverLag'
  BY DEF IndInv, CountsNeverLag, dbVars, fileRows, countVars, agentVars
<1>4. QED
  BY <1>1, <1>2, <1>3

\* What a step may make of one transcript: its lines grow, or its birth is new.
Grown(f) == /\ disk'[f].born = disk[f].born
            /\ Len(disk[f].lines) <= Len(disk'[f].lines)
            /\ \A i \in 1..Len(disk[f].lines) : disk'[f].lines[i] = disk[f].lines[i]
Fresh(f) == disk'[f].born = now + 1
Owned(f) == \A i \in 1..Len(disk'[f].lines) :
               disk'[f].lines[i] \in Msgs => Owner[disk'[f].lines[i]] = f

\* The outside world leaves the lines a cursor has passed, or gives a new birth.
LEMMA WorldGrows ==
    ASSUME IndInv, World
    PROVE  \A f \in Files : /\ Grown(f) \/ Fresh(f)
                            /\ Owned(f)
                            /\ f \in onDisk' /\ f \notin onDisk => Fresh(f)
<1> USE DEF Grown, Fresh, Owned
<1>n. ASSUME NEW f \in Files
      PROVE  /\ now \in Nat /\ disk[f].born \in Nat /\ cursor[f].born \in Nat /\ cursor[f].offset \in Nat
             /\ disk[f].lines \in Seq(Lines) /\ disk[f] \in Content
  BY DEF IndInv, TypeOK, Content, Cursor
<1>0. ASSUME NEW f \in Files, disk'[f] = disk[f] PROVE Grown(f) /\ Owned(f)
  BY <1>0, <1>n DEF IndInv, DiskInv
<1>1. QED
  <2> SUFFICES ASSUME NEW f \in Files
               PROVE  /\ Grown(f) \/ Fresh(f)
                      /\ Owned(f)
                      /\ f \in onDisk' /\ f \notin onDisk => Fresh(f)
    OBVIOUS
  <2> disk \in [Files -> Content]
    BY DEF IndInv, TypeOK
  <2>e. Empty.born = now + 1 /\ Empty.lines = << >>
    BY DEF Empty
  <2>1. ASSUME NEW g \in Files, NEW l \in Lines, AppendLine(g, l)
        PROVE  Grown(f) /\ Owned(f) /\ onDisk' = onDisk
    <3>1. CASE f # g
      BY <2>1, <3>1, <1>0 DEF AppendLine, Write
    <3>2. CASE f = g
      <4>1. disk'[f].born = disk[f].born /\ disk'[f].lines = Append(disk[f].lines, l)
        BY <2>1, <3>2, <1>n DEF AppendLine, Write, Content
      <4>2. \A i \in 1..Len(disk[f].lines) : disk[f].lines[i] \in Msgs => Owner[disk[f].lines[i]] = f
        BY DEF IndInv, DiskInv
      <4>3. l \in Msgs => Owner[l] = f
        BY <2>1, <3>2 DEF AppendLine
      <4>4. QED
        BY <4>1, <4>2, <4>3, <1>n, <2>1 DEF AppendLine
    <3>3. QED
      BY <3>1, <3>2
  <2>2. ASSUME NEW g \in Files, AppendPart(g)
        PROVE  Grown(f) /\ Owned(f) /\ onDisk' = onDisk
    <3>1. disk'[f].born = disk[f].born /\ disk'[f].lines = disk[f].lines
      BY <2>2, <1>n DEF AppendPart, Write, Content
    <3>2. QED
      BY <3>1, <2>2, <1>n DEF AppendPart, IndInv, DiskInv
  <2>3. ASSUME NEW g \in Files, NEW k \in 0..MaxLines, Rewrite(g, k)
        PROVE  (Grown(f) \/ Fresh(f)) /\ Owned(f) /\ onDisk' = onDisk
    <3>1. CASE f # g
      BY <2>3, <3>1, <1>0 DEF Rewrite, Write
    <3>2. CASE f = g
      <4>1. Fresh(f) /\ disk'[f].lines = SubSeq(disk[f].lines, 1, k)
        BY <2>3, <3>2, <1>n DEF Rewrite, Write
      <4>2. k \in Nat /\ k <= Len(disk[f].lines)
        <5>1. k \in Nat /\ Len(disk[f].lines) \in Nat
          BY <1>n, ConstantsOk DEF ConstantsOk
        <5>2. 2 * k < 2 * Len(disk[f].lines) + 1 \/ 2 * k < 2 * Len(disk[f].lines) + 0
          BY <2>3, <3>2 DEF Rewrite, Size
        <5>3. QED
          BY <5>1, <5>2
      <4>3. \A i \in 1..k : disk'[f].lines[i] = disk[f].lines[i]
        BY <4>1, <4>2, <1>n
      <4>4. Len(disk'[f].lines) = k
        BY <4>1, <4>2, <1>n
      <4>5. Owned(f)
        BY SMTT(30), <4>2, <4>3, <4>4, <1>n DEF IndInv, DiskInv
      <4>6. QED
        BY <4>1, <4>5, <2>3 DEF Rewrite
    <3>3. QED
      BY <3>1, <3>2
  <2>4. ASSUME NEW g \in Files, Create(g)
        PROVE  (Grown(f) \/ Fresh(f)) /\ Owned(f) /\ (f \in onDisk' /\ f \notin onDisk => Fresh(f))
    BY <2>4, <2>e, <1>0 DEF Create, Write
  <2>5. ASSUME NEW g \in Files, Remove(g)
        PROVE  (Grown(f) \/ Fresh(f)) /\ Owned(f) /\ onDisk' \subseteq onDisk
    BY <2>5, <2>e, <1>0 DEF Remove
  <2>6. ASSUME RemoveAll
        PROVE  Fresh(f) /\ Owned(f)
    BY <2>6, <2>e DEF RemoveAll
  <2>7. QED
    BY <2>1, <2>2, <2>3, <2>4, <2>5, <2>6 DEF World

\* The outside world never touches the tables.
LEMMA WorldInd == ASSUME IndInv, World PROVE IndInv'
<1>t. TypeOK'
  BY WorldType DEF IndInv
<1>u. UNCHANGED <<dbVars, pc, listVars, fileVars>> /\ now' = now + 1
  BY DEF World, AppendLine, AppendPart, Rewrite, Create, Remove, RemoveAll, Write, Tick
<1>n. ASSUME NEW f \in Files
      PROVE  /\ now \in Nat /\ disk[f].born \in Nat /\ cursor[f].born \in Nat /\ cursor[f].offset \in Nat
             /\ disk[f].lines \in Seq(Lines) /\ disk[f] \in Content
  BY DEF IndInv, TypeOK, Content, Cursor
<1>1. \A f \in Files : /\ Grown(f) \/ Fresh(f)
                       /\ Owned(f)
                       /\ f \in onDisk' /\ f \notin onDisk => Fresh(f)
  BY WorldGrows
<1>3. DiskInv'
  <2> SUFFICES ASSUME NEW f \in Files
               PROVE  Owned(f) /\ disk'[f].born <= now' /\ cursor'[f].born <= now'
    BY DEF DiskInv, Owned
  <2>1. disk[f].born <= now /\ cursor[f].born <= now
    BY DEF IndInv, DiskInv
  <2>2. QED
    BY <1>1, <1>u, <1>n, <2>1 DEF Grown, Fresh, dbVars, fileRows
<1>4. ASSUME NEW f \in Files, cursor'[f].born = disk'[f].born
      PROVE  Grown(f) /\ cursor[f].born = disk[f].born
  <2>1. cursor[f].born <= now
    BY DEF IndInv, DiskInv
  <2>2. QED
    BY <1>1, <1>4, <1>u, <1>n, <2>1 DEF Grown, Fresh, dbVars, fileRows
<1>5. CursorInv' /\ IndexMatchesCursor'
  <2>1. ASSUME NEW f \in Files
        PROVE  /\ RowsOf(f)' = RowsOf(f) /\ (f \in scanned)' = (f \in scanned)
               /\ cursor'[f] = cursor[f] /\ (Session(f) \in sessions)' = (Session(f) \in sessions)
    BY <1>u DEF RowsOf, dbVars, fileRows, countVars
  <2>2. ASSUME NEW f \in Files, f \in scanned, cursor'[f].born = disk'[f].born
        PROVE  /\ cursor'[f].offset <= 2 * Len(disk'[f].lines)
               /\ RowsOf(f)' = IdsUpTo(disk'[f], cursor'[f].offset)
    <3>1. /\ cursor[f].offset <= 2 * Len(disk[f].lines)
          /\ RowsOf(f) = IdsUpTo(disk[f], cursor[f].offset)
      BY <2>2, <1>4 DEF IndInv, CursorInv, IndexMatchesCursor
    <3>2. Grown(f) /\ cursor'[f] = cursor[f]
      BY <2>1, <2>2, <1>4
    <3>3. Len(disk'[f].lines) \in Nat /\ Len(disk[f].lines) \in Nat
      BY SMTT(30), <1>t, <1>n DEF TypeOK, Content
    <3>4. IdsUpTo(disk'[f], cursor[f].offset) = IdsUpTo(disk[f], cursor[f].offset)
      <4>1. ASSUME NEW i \in Nat, 1 <= i, 2 * i <= cursor[f].offset
            PROVE  i \in 1..Len(disk[f].lines) /\ i \in 1..Len(disk'[f].lines)
        BY SMTT(30), <4>1, <3>1, <3>2, <3>3, <1>n DEF Grown
      <4>2. ASSUME NEW m \in Msgs
            PROVE  m \in IdsUpTo(disk'[f], cursor[f].offset) <=> m \in IdsUpTo(disk[f], cursor[f].offset)
        <5>1. ASSUME NEW i \in Nat, 1 <= i, 2 * i <= cursor[f].offset
              PROVE  disk'[f].lines[i] = disk[f].lines[i]
          BY <4>1, <5>1, <3>2 DEF Grown
        <5>2. ASSUME m \in IdsUpTo(disk'[f], cursor[f].offset) PROVE m \in IdsUpTo(disk[f], cursor[f].offset)
          <6>1. PICK i \in 1..Len(disk'[f].lines) : disk'[f].lines[i] = m /\ 2 * i <= cursor[f].offset
            BY <5>2 DEF IdsUpTo
          <6>2. i \in Nat /\ 1 <= i
            BY <3>3
          <6>3. QED
            BY <6>1, <6>2, <5>1, <4>1 DEF IdsUpTo
        <5>3. ASSUME m \in IdsUpTo(disk[f], cursor[f].offset) PROVE m \in IdsUpTo(disk'[f], cursor[f].offset)
          <6>1. PICK i \in 1..Len(disk[f].lines) : disk[f].lines[i] = m /\ 2 * i <= cursor[f].offset
            BY <5>3 DEF IdsUpTo
          <6>2. i \in Nat /\ 1 <= i
            BY <3>3
          <6>3. QED
            BY <6>1, <6>2, <5>1, <4>1 DEF IdsUpTo
        <5>4. QED
          BY <5>2, <5>3
      <4>3. QED
        BY <4>2 DEF IdsUpTo
    <3>5. QED
      BY SMTT(30), <3>1, <3>2, <3>3, <3>4, <2>1, <1>n DEF Grown
  <2>3. scanned' = scanned /\ scanned \subseteq Files
    BY <1>u DEF IndInv, TypeOK, dbVars, fileRows
  <2>4. CursorInv'
    BY <2>1, <2>2, <2>3 DEF IndInv, CursorInv
  <2>5. IndexMatchesCursor'
    BY <2>1, <2>2, <2>3 DEF IndInv, IndexMatchesCursor
  <2>6. QED
    BY <2>4, <2>5
<1>6. CountsNeverLag'
  BY <1>u DEF IndInv, CountsNeverLag, dbVars, fileRows, countVars, agentVars
<1>7. RollupsFresh'
  BY <1>u DEF IndInv, RollupsFresh, SessionRows, dbVars, fileRows, rollups
<1>8. HandInv' /\ KeepInv'
  BY <1>u DEF IndInv, HandInv, KeepInv, ResumeOffset, dbVars, fileRows, countVars, listVars, fileVars
<1>9. SeenInv'
  <2>1. ASSUME NEW f \in Files, Whole(f)' PROVE Whole(f)
    <3>1. f \in onDisk' /\ f \in scanned' /\ cursor'[f].born = disk'[f].born
      BY <2>1 DEF Whole
    <3>2. Grown(f) /\ cursor[f].born = disk[f].born /\ disk[f].born <= now
      BY <3>1, <1>4 DEF IndInv, DiskInv
    <3>3. ~Fresh(f)
      BY <3>2, <1>n DEF Grown, Fresh
    <3>4. QED
      BY <3>1, <3>2, <3>3, <1>1, <1>u DEF Whole, dbVars, fileRows
  <2>2. QED
    BY <2>1, <1>u, SessionType DEF IndInv, SeenInv, Intact, Files, listVars, fileVars
<1>10. QED
  BY <1>t, <1>3, <1>5, <1>6, <1>7, <1>8, <1>9 DEF IndInv

\* What a transcript is to the pass does not change with the pass.
LEMMA WholeSame ==
    ASSUME UNCHANGED <<diskVars, scanned, cursor>>
    PROVE  \A f \in Files : Whole(f)' = Whole(f) /\ Intact(f)' = Intact(f)
BY DEF Whole, Intact, diskVars

\* The end of a pass, with the tables as they were or rebuilt.
LEMMA EndPassInd ==
    ASSUME NEW outcome \in {"idle", "done"}, EndPass(outcome)
    PROVE  HandInv' /\ KeepInv' /\ SeenInv'
BY DEF EndPass, HandInv, KeepInv, SeenInv

\* Taking a path keeps keep closed and forgets nothing the pass has to see.
LEMMA TakeInd ==
    ASSUME IndInv, NEW f \in Files, Take(f), UNCHANGED <<diskVars, scanned, cursor>>
    PROVE  /\ KeepInv'
           /\ f \in keep' /\ Session(f) \in keep'
           /\ f \in Mains => subTodo' = {}
           /\ pc' = "file" /\ clean' = FALSE => SeenInv'
           /\ clean' = clean /\ cur' = f /\ (f \in Mains => pc' \in {"wipe", "read", "sublist"}) => SeenInv'
<1>1. todo \subseteq Mains /\ subTodo \subseteq Subs /\ Mains \cap Subs = {} /\ keep \subseteq Files
  BY ConstantsOk DEF ConstantsOk, IndInv, TypeOK
<1>2. Session(f) \in keep'
  BY <1>1 DEF IndInv, KeepInv, Take, Listed, Session
<1>3. KeepInv'
  <2>1. \A g \in keep' : Session(g) \in keep'
    BY <1>2 DEF IndInv, KeepInv, Take
  <2>2. \A a \in subTodo' : Parent[a] \in keep'
    BY DEF IndInv, KeepInv, Take
  <2>3. QED
    BY <2>1, <2>2 DEF KeepInv
<1>4. f \in keep' /\ (f \in Mains => subTodo' = {})
  BY <1>1 DEF Take, Listed
<1>5. ASSUME clean' = clean, cur' = f, f \in Mains => pc' \in {"wipe", "read", "sublist"}
      PROVE  SeenInv'
  <2> SUFFICES ASSUME clean' PROVE
        /\ \A s \in Mains : Whole(s) => s \in todo' \cup keep'
        /\ \A a \in Subs : Intact(a) =>
              \/ a \in subTodo' \cup keep'
              \/ Parent[a] \in todo'
              \/ pc' \in {"wipe", "read", "sublist"} /\ f = Parent[a]
    BY <1>5, WholeSame DEF SeenInv, Files
  <2>1. /\ \A s \in Mains : Whole(s) => s \in todo \cup keep
        /\ \A a \in Subs : Intact(a) => a \in subTodo \cup keep \/ Parent[a] \in todo
    BY <1>5 DEF IndInv, SeenInv, Take
  <2>2. /\ \A s \in Mains : s \in todo \cup keep => s \in todo' \cup keep'
        /\ \A a \in Subs : a \in subTodo \cup keep => a \in subTodo' \cup keep'
        /\ \A a \in Subs : Parent[a] \in todo => Parent[a] \in todo' \/ (f \in Mains /\ Parent[a] = f)
    BY <1>1 DEF Take
  <2>3. QED
    BY <2>1, <2>2, <1>5
<1>6. QED
  BY <1>2, <1>3, <1>4, <1>5 DEF SeenInv

\* The steps of a pass that leave the tables alone.
LEMMA LookInd ==
    ASSUME IndInv, UNCHANGED <<diskVars, dbVars>>,
           \/ ListProjects
           \/ \E f \in Files : SkipUnchanged(f) \/ StatChanged(f) \/ StatFails(f)
           \/ ReadFails
           \/ ListSubagents
           \/ ScanFault
    PROVE  HandInv' /\ KeepInv' /\ SeenInv' /\ RollupsFresh' /\ now' \in {now, now + 1}
<1>s. UNCHANGED <<diskVars, scanned, cursor, sessions>>
  BY DEF dbVars, fileRows, countVars
<1>m. Mains \cap Subs = {} /\ Parent \in [Subs -> Mains]
  BY ConstantsOk DEF ConstantsOk
<1>1. ASSUME ListProjects PROVE HandInv' /\ KeepInv' /\ SeenInv' /\ pc' # "done" /\ now' = now
  <2>1. HandInv' /\ KeepInv'
    BY <1>1 DEF ListProjects, IndInv, HandInv, KeepInv
  <2>2. SeenInv'
    BY <1>1, <1>s, <1>m, WholeSame DEF ListProjects, SeenInv, Whole, Intact, Session, Files, diskVars
  <2>3. QED
    BY <1>1, <2>1, <2>2 DEF ListProjects
<1>2. ASSUME NEW f \in Files, SkipUnchanged(f)
      PROVE  HandInv' /\ KeepInv' /\ SeenInv' /\ pc' # "done" /\ now' = now
  <2>1. Take(f) /\ Succeed(f) /\ now' = now /\ f \in scanned
    BY <1>2 DEF SkipUnchanged, Unchanged
  <2>2. KeepInv' /\ SeenInv' /\ f \in keep' /\ (f \in Mains => subTodo' = {})
    BY <2>1, <1>s, TakeInd DEF Succeed
  <2>3. HandInv'
    <3>1. Session(f) \in sessions
      BY <2>1 DEF IndInv, CursorInv
    <3>2. QED
      BY <2>1, <2>2, <3>1, <1>s DEF Succeed, HandInv, Session
  <2>4. QED
    BY <2>1, <2>2, <2>3 DEF Succeed
<1>3. ASSUME NEW f \in Files, StatChanged(f)
      PROVE  HandInv' /\ KeepInv' /\ SeenInv' /\ pc' # "done" /\ now' = now
  <2>1. Take(f) /\ cur' = f /\ clean' = clean /\ now' = now /\ pc' \in {"wipe", "read"}
    BY <1>3 DEF StatChanged
  <2>2. KeepInv' /\ SeenInv' /\ f \in keep' /\ (f \in Mains => subTodo' = {})
    BY <2>1, <1>s, TakeInd
  <2>3. HandInv'
    BY <1>3, <2>1, <2>2, <1>s DEF StatChanged, HandInv, ResumeOffset
  <2>4. QED
    BY <2>1, <2>2, <2>3
<1>4. ASSUME NEW f \in Files, StatFails(f)
      PROVE  HandInv' /\ KeepInv' /\ SeenInv' /\ pc' # "done" /\ now' \in {now, now + 1}
  <2>1. Take(f) /\ pc' = "file" /\ clean' = FALSE /\ now' \in {now, now + 1}
    BY <1>4 DEF StatFails, GiveUp, Fault, Tick
  <2>2. KeepInv' /\ SeenInv'
    BY <2>1, <1>s, TakeInd
  <2>3. QED
    BY <2>1, <2>2 DEF HandInv
<1>5. ASSUME ReadFails PROVE HandInv' /\ KeepInv' /\ SeenInv' /\ pc' # "done" /\ now' \in {now, now + 1}
  BY <1>5 DEF ReadFails, GiveUp, Fault, Tick, IndInv, HandInv, KeepInv, SeenInv
<1>6. ASSUME ListSubagents PROVE HandInv' /\ KeepInv' /\ SeenInv' /\ pc' # "done" /\ now' = now
  <2>1. pc = "sublist" /\ pc' = "file" /\ now' = now /\ cur \in keep /\ subTodo = {}
    BY <1>6 DEF ListSubagents, IndInv, HandInv
  <2>2. KeepInv'
    BY <1>6, <2>1 DEF ListSubagents, IndInv, KeepInv
  <2>3. SeenInv'
    <3> SUFFICES ASSUME clean' PROVE
          /\ \A s \in Mains : Whole(s) => s \in todo' \cup keep'
          /\ \A a \in Subs : Intact(a) => a \in subTodo' \cup keep' \/ Parent[a] \in todo'
      BY <1>s, WholeSame DEF SeenInv, Files
    <3>1. clean /\ todo' = todo /\ keep' = keep
      BY <1>6 DEF ListSubagents
    <3>2. /\ \A s \in Mains : Whole(s) => s \in todo \cup keep
          /\ \A a \in Subs : Intact(a) => a \in keep \/ Parent[a] \in todo \/ cur = Parent[a]
      BY <2>1, <3>1 DEF IndInv, SeenInv
    <3>3. \A a \in Subs : Intact(a) /\ cur = Parent[a] => a \in subTodo'
      BY <1>6 DEF ListSubagents, Intact, Whole
    <3>4. QED
      BY <3>1, <3>2, <3>3
  <2>4. QED
    BY <2>1, <2>2, <2>3 DEF HandInv
<1>7. ASSUME ListSubagentsFails
      PROVE  HandInv' /\ KeepInv' /\ SeenInv' /\ pc' # "done" /\ now' = now + 1
  BY <1>7 DEF ListSubagentsFails, Fault, Tick, IndInv, HandInv, KeepInv, SeenInv
<1>8. ASSUME RecordSubagentFails
      PROVE  HandInv' /\ KeepInv' /\ SeenInv' /\ pc' # "done" /\ now' = now + 1
  <2>1. HandInv' /\ KeepInv' /\ pc' = "file" /\ now' = now + 1
    BY <1>8 DEF RecordSubagentFails, listVars, Fault, Tick, IndInv, HandInv, KeepInv
  <2>2. SeenInv'
    BY <1>8, <1>s, WholeSame DEF RecordSubagentFails, listVars, IndInv, SeenInv, Files
  <2>3. QED
    BY <2>1, <2>2
<1>9. ASSUME ListProjectsFails \/ Interrupted
      PROVE  HandInv' /\ KeepInv' /\ SeenInv' /\ pc' # "done" /\ now' = now + 1
  BY <1>9, EndPassInd DEF ListProjectsFails, Interrupted, EndPass, Fault, Tick
<1>10. QED
  BY <1>1, <1>2, <1>3, <1>4, <1>5, <1>6, <1>7, <1>8, <1>9 DEF ScanFault, RollupsFresh

\* A cursor between two lines splits the lines into those passed and those to come.
LEMMA LinesSplit ==
    ASSUME NEW d \in Content, NEW b \in Nat, b % 2 = 0, b <= 2 * Len(d.lines)
    PROVE  /\ IdsUpTo(d, b) \cup IdsFrom(d, b) = IdsUpTo(d, 2 * Len(d.lines))
           /\ Consumed(d, b) = 2 * Len(d.lines)
<1>1. Len(d.lines) \in Nat
  BY DEF Content
<1>2. ASSUME NEW i \in 1..Len(d.lines)
      PROVE  (2 * i <= b \/ 2 * (i - 1) >= b) /\ 2 * i <= 2 * Len(d.lines)
  BY <1>1
<1>3. IdsUpTo(d, b) \cup IdsFrom(d, b) = IdsUpTo(d, 2 * Len(d.lines))
  <2>1. \A m \in Msgs : m \in IdsUpTo(d, b) \cup IdsFrom(d, b) <=> m \in IdsUpTo(d, 2 * Len(d.lines))
    BY <1>2 DEF IdsUpTo, IdsFrom
  <2>2. QED
    BY <2>1 DEF IdsUpTo, IdsFrom
<1>4. QED
  BY <1>1, <1>3 DEF Consumed

\* The wipe of a rewritten transcript.
LEMMA WipeInd == ASSUME IndInv, WipeRows PROVE IndInv'
<1>t. TypeOK'
  BY ScanType DEF IndInv, ScanStep
<1>0. cur \in Files /\ cur \in keep /\ base = 0 /\ ConstantsOk
  BY ConstantsOk DEF IndInv, TypeOK, WipeRows, HandInv
<1>1. /\ scanned' = scanned \ {cur}
      /\ messages' = {m \in messages : Owner[m] # cur}
      /\ agents' = {a \in agents : a # cur}
      /\ UNCHANGED <<now, diskVars, cursor, countVars, rollups, listVars, fileVars>>
      /\ pc = "wipe" /\ pc' = "read"
  BY DEF WipeRows, DeleteRows, rollups
<1>2. DiskInv'
  BY <1>1 DEF IndInv, DiskInv, diskVars
<1>3. \A f \in Files : RowsOf(f)' = IF f = cur THEN {} ELSE RowsOf(f)
  BY <1>1 DEF RowsOf
<1>4. CursorInv' /\ IndexMatchesCursor'
  BY <1>1, <1>3 DEF IndInv, CursorInv, IndexMatchesCursor, TypeOK, diskVars, countVars
<1>5. CountsNeverLag'
  BY <1>1 DEF IndInv, CountsNeverLag, countVars
<1>6. HandInv' /\ KeepInv'
  BY <1>0, <1>1 DEF IndInv, HandInv, KeepInv, ResumeOffset, listVars, fileVars
<1>7. SeenInv'
  <2>1. \A f \in Files : (Whole(f)' => Whole(f)) /\ (Intact(f)' => Intact(f))
    BY <1>1 DEF Whole, Intact, diskVars
  <2>2. QED
    BY <2>1, <1>1 DEF IndInv, SeenInv, Files, listVars, fileVars
<1>8. QED
  BY <1>t, <1>1, <1>2, <1>4, <1>5, <1>6, <1>7 DEF IndInv, RollupsFresh

\* The reading of the new lines, or of all lines.
LEMMA ReadInd == ASSUME IndInv, ReadLines PROVE IndInv'
<1>t. TypeOK'
  BY ScanType DEF IndInv, ScanStep
<1> DEFINE d == disk[cur]
           s == Session(cur)
<1>0. /\ cur \in Files /\ s \in Mains /\ cur \in keep /\ pc = "read"
      /\ d \in Content /\ base \in Nat /\ base = ResumeOffset(cur)
      /\ now \in Nat /\ scanned \subseteq Files /\ cursor \in [Files -> Cursor]
      /\ counted \in [Mains -> SUBSET Msgs] /\ subCount \in [Mains -> SUBSET Subs]
      /\ messages \subseteq Msgs /\ agents \subseteq Subs
  BY SessionType DEF IndInv, TypeOK, ReadLines, HandInv
<1>c. Mains \cap Subs = {} /\ Files = Mains \cup Subs /\ Owner \in [Msgs -> Files]
  BY ConstantsOk DEF ConstantsOk, Files
<1>1. /\ messages' = messages \cup IdsFrom(d, base)
      /\ scanned' = scanned \cup {cur}
      /\ cursor' = [cursor EXCEPT ![cur] = NewCursor(d)]
      /\ sessions' = sessions \cup {s}
      /\ counted' = [counted EXCEPT ![s] = SessionRows(messages', s)]
      /\ subCount' = [subCount EXCEPT ![s] = AgentsOf(agents, s)]
      /\ UNCHANGED <<now, diskVars, agentVars, rollups, todo, subTodo, keep, nonEmpty, clean>>
      /\ pc' = IF cur \in Mains THEN "sublist" ELSE "record"
      /\ cur' = cur
  BY DEF ReadLines, UpdateSessionFacts, Succeed
<1> HIDE DEF d, s
\* The new cursor and the rows it stands for.
<1>2. \A m \in IdsFrom(d, base) : m \in Msgs /\ Owner[m] = cur
  <2> SUFFICES ASSUME NEW m \in IdsFrom(d, base) PROVE m \in Msgs /\ Owner[m] = cur
    OBVIOUS
  <2>1. PICK i \in 1..Len(d.lines) : d.lines[i] = m /\ m \in Msgs
    BY DEF IdsFrom
  <2>2. QED
    BY <1>0, <2>1 DEF IndInv, DiskInv, d
<1>3. \A f \in Files : RowsOf(f)' = IF f = cur THEN RowsOf(cur) \cup IdsFrom(d, base) ELSE RowsOf(f)
  BY <1>1, <1>2 DEF RowsOf
<1>4. /\ Len(d.lines) \in Nat
      /\ base % 2 = 0
      /\ base = 0 => RowsOf(cur) = {}
      /\ base # 0 => cur \in scanned /\ base = cursor[cur].offset
  <2>1. CASE cur \in scanned
    BY <1>0, <2>1 DEF IndInv, CursorInv, ResumeOffset, Content
  <2>2. CASE cur \notin scanned
    BY <1>0, <2>2 DEF IndInv, IndexMatchesCursor, ResumeOffset, Content
  <2>3. QED
    BY <2>1, <2>2
<1>5. /\ cursor'[cur].offset = Consumed(d, base)
      /\ cursor'[cur].born = IF base = 0 THEN d.born ELSE cursor[cur].born
      /\ \A f \in Files \ {cur} : cursor'[f] = cursor[f]
  BY <1>0, <1>1 DEF NewCursor
<1>6. ASSUME cursor'[cur].born = disk'[cur].born
      PROVE  /\ RowsOf(cur)' = IdsUpTo(d, 2 * Len(d.lines))
             /\ cursor'[cur].offset = 2 * Len(d.lines)
  <2>1. d.born = disk'[cur].born /\ disk[cur] = d
    BY <1>1 DEF d, diskVars
  <2>2. base <= 2 * Len(d.lines) /\ RowsOf(cur) = IdsUpTo(d, base)
    <3>1. CASE base = 0
      <4>1. IdsUpTo(d, base) = {}
        BY <3>1, <1>4 DEF IdsUpTo
      <4>2. RowsOf(cur) = {}
        BY <3>1, <1>4
      <4>3. base <= 2 * Len(d.lines)
        BY <3>1, <1>4
      <4>4. QED
        BY <4>1, <4>2, <4>3
    <3>2. CASE base # 0
      BY <3>2, <2>1, <1>0, <1>4, <1>5, <1>6 DEF IndInv, CursorInv, IndexMatchesCursor
    <3>3. QED
      BY <3>1, <3>2
  <2>3. /\ IdsUpTo(d, base) \cup IdsFrom(d, base) = IdsUpTo(d, 2 * Len(d.lines))
        /\ Consumed(d, base) = 2 * Len(d.lines)
    BY <2>2, <1>0, <1>4, LinesSplit
  <2>4. QED
    <3>1. RowsOf(cur)' = RowsOf(cur) \cup IdsFrom(d, base)
      BY <1>1, <1>2 DEF RowsOf
    <3>2. QED
      BY <2>2, <2>3, <3>1, <1>5
<1>7. DiskInv'
  <2>1. cursor'[cur].born <= now
    BY <1>0, <1>5 DEF IndInv, DiskInv, d
  <2>2. QED
    BY <2>1, <1>1, <1>5 DEF IndInv, DiskInv, diskVars
<1>8. CursorInv'
  <2>1. Consumed(d, base) % 2 = 0 /\ (Consumed(d, base) = 0 => base = 0 /\ Len(d.lines) = 0)
    BY <1>0, <1>4 DEF Consumed
  <2>2. cursor'[cur].offset = 0 => RowsOf(cur)' = {}
    <3>1. Len(d.lines) = 0 => IdsFrom(d, base) = {}
      BY DEF IdsFrom
    <3>2. RowsOf(cur)' = RowsOf(cur) \cup IdsFrom(d, base)
      BY <1>1, <1>2 DEF RowsOf
    <3>3. ASSUME cursor'[cur].offset = 0 PROVE RowsOf(cur) = {} /\ IdsFrom(d, base) = {}
      BY <3>1, <3>3, <2>1, <1>4, <1>5
    <3>4. QED
      BY <3>2, <3>3
  <2>3. cursor'[cur].born = disk'[cur].born => cursor'[cur].offset <= 2 * Len(disk'[cur].lines)
    BY <1>1, <1>4, <1>6 DEF diskVars, d
  <2>4. ASSUME NEW f \in scanned', f # cur
        PROVE  /\ cursor'[f].offset % 2 = 0
               /\ cursor'[f].offset = 0 => RowsOf(f)' = {}
               /\ cursor'[f].born = disk'[f].born => cursor'[f].offset <= 2 * Len(disk'[f].lines)
               /\ Session(f) \in sessions'
    BY <2>4, <1>0, <1>1, <1>3, <1>5 DEF IndInv, CursorInv, diskVars
  <2>5. QED
    BY <2>1, <2>2, <2>3, <2>4, <1>0, <1>1, <1>5 DEF CursorInv, s
<1>9. IndexMatchesCursor'
  <2>1. ASSUME NEW f \in Files, f # cur
        PROVE  /\ f \notin scanned' => RowsOf(f)' = {}
               /\ f \in scanned' /\ cursor'[f].born = disk'[f].born
                    => RowsOf(f)' = IdsUpTo(disk'[f], cursor'[f].offset)
    BY <2>1, <1>1, <1>3, <1>5 DEF IndInv, IndexMatchesCursor, diskVars
  <2>2. cursor'[cur].born = disk'[cur].born => RowsOf(cur)' = IdsUpTo(disk'[cur], cursor'[cur].offset)
    BY <1>1, <1>6 DEF diskVars, d
  <2>3. QED
    BY <2>1, <2>2, <1>1 DEF IndexMatchesCursor
<1>10. CountsNeverLag'
  <2>1. ASSUME NEW m \in messages'
        PROVE  Session(Owner[m]) \in sessions' /\ m \in counted'[Session(Owner[m])]
    <3>1. m \in Msgs /\ Session(Owner[m]) \in Mains
      BY <1>0, <1>1, <1>2, <1>c, SessionType
    <3>2. CASE Session(Owner[m]) = s
      BY <3>1, <3>2, <1>0, <1>1 DEF SessionRows
    <3>3. CASE Session(Owner[m]) # s
      <4>1. m \in messages
        BY <3>3, <1>1, <1>2 DEF s
      <4>2. QED
        BY <4>1, <3>1, <3>3, <1>0, <1>1 DEF IndInv, CountsNeverLag
    <3>4. QED
      BY <3>2, <3>3
  <2>2. ASSUME NEW a \in agents' PROVE Parent[a] \in sessions' /\ a \in subCount'[Parent[a]]
    BY <1>0, <1>1 DEF IndInv, CountsNeverLag, AgentsOf, agentVars
  <2>3. QED
    BY <2>1, <2>2 DEF CountsNeverLag
<1>11. HandInv' /\ KeepInv'
  <2>1. cur \in Mains => subTodo = {}
    BY <1>0 DEF IndInv, HandInv
  <2>2. HandInv'
    BY <2>1, <1>0, <1>1 DEF HandInv, Session, s
  <2>3. KeepInv'
    BY <1>1 DEF IndInv, KeepInv
  <2>4. QED
    BY <2>2, <2>3
<1>12. SeenInv'
  <2>1. ASSUME NEW f \in Files, f # cur PROVE Whole(f)' = Whole(f)
    BY <2>1, <1>1, <1>5 DEF Whole, diskVars
  <2> SUFFICES ASSUME clean PROVE
        /\ \A r \in Mains : Whole(r)' => r \in todo \cup keep
        /\ \A a \in Subs : Intact(a)' =>
              \/ a \in subTodo \cup keep
              \/ Parent[a] \in todo
              \/ cur \in Mains /\ cur = Parent[a]
    BY <1>1 DEF SeenInv
  <2>2. \A r \in Mains : Whole(r)' => r \in todo \cup keep
    BY <2>1, <1>0, <1>c DEF IndInv, SeenInv
  <2>3. ASSUME NEW a \in Subs, Intact(a)', a # cur, Parent[a] # cur
        PROVE  a \in subTodo \cup keep \/ Parent[a] \in todo
    <3>1. Session(a) = Parent[a] /\ Parent[a] \in Files /\ a \in Files
      BY <1>c, ConstantsOk DEF ConstantsOk, Session
    <3>2. Intact(a)
      BY <2>1, <2>3, <3>1 DEF Intact
    <3>3. QED
      BY <2>3, <3>2, <1>0 DEF IndInv, SeenInv
  <2>4. QED
    BY <2>2, <2>3, <1>0, <1>c, ConstantsOk DEF ConstantsOk
<1>13. RollupsFresh'
  BY <1>1 DEF RollupsFresh
<1>14. QED
  BY <1>t, <1>7, <1>8, <1>9, <1>10, <1>11, <1>12, <1>13 DEF IndInv

\* The row of a subagent, whose session has its row already.
LEMMA RecordInd == ASSUME IndInv, RecordSubagent PROVE IndInv'
<1>t. TypeOK'
  BY ScanType DEF IndInv, ScanStep
<1>0. /\ cur \in Subs /\ cur \in keep /\ Parent[cur] \in sessions /\ Parent \in [Subs -> Mains]
      /\ agents \subseteq Subs /\ subCount \in [Mains -> SUBSET Subs] /\ Mains \cap Subs = {}
  BY ConstantsOk DEF ConstantsOk, IndInv, TypeOK, RecordSubagent, HandInv
<1>1. /\ agents' = agents \cup {cur}
      /\ subCount' = [subCount EXCEPT ![Parent[cur]] = AgentsOf(agents', Parent[cur])]
      /\ UNCHANGED <<now, diskVars, fileRows, sessions, counted, rollups, listVars>>
      /\ pc = "record" /\ pc' = "file"
  BY DEF RecordSubagent
<1>2. DiskInv'
  BY <1>1 DEF IndInv, DiskInv, diskVars, fileRows
<1>3. CursorInv' /\ IndexMatchesCursor'
  BY <1>1 DEF IndInv, CursorInv, IndexMatchesCursor, RowsOf, diskVars, fileRows
<1>4. CountsNeverLag'
  <2>1. \A m \in messages' : Session(Owner[m]) \in sessions' /\ m \in counted'[Session(Owner[m])]
    BY <1>1 DEF IndInv, CountsNeverLag, fileRows
  <2>2. ASSUME NEW a \in agents' PROVE Parent[a] \in sessions' /\ a \in subCount'[Parent[a]]
    <3>1. Parent[a] \in sessions
      BY <1>0, <1>1 DEF IndInv, CountsNeverLag
    <3>2. CASE Parent[a] = Parent[cur]
      BY <3>1, <3>2, <1>0, <1>1 DEF AgentsOf
    <3>3. CASE Parent[a] # Parent[cur]
      BY <3>1, <3>3, <1>0, <1>1 DEF IndInv, CountsNeverLag
    <3>4. QED
      BY <3>2, <3>3
  <2>3. QED
    BY <2>1, <2>2 DEF CountsNeverLag
<1>5. HandInv' /\ KeepInv'
  BY <1>1 DEF IndInv, HandInv, KeepInv, listVars
<1>6. SeenInv'
  <2>1. \A f \in Files : Whole(f)' = Whole(f) /\ Intact(f)' = Intact(f)
    BY <1>1, WholeSame DEF fileRows
  <2>2. QED
    BY <2>1, <1>0, <1>1 DEF IndInv, SeenInv, Files, listVars
<1>7. QED
  BY <1>t, <1>1, <1>2, <1>3, <1>4, <1>5, <1>6 DEF IndInv, RollupsFresh

\* What is pruned is pruned with all its rows, and what stays keeps all of its rows:
\* the cascade from a session reaches no transcript that is kept.
LEMMA PruneRows ==
    ASSUME IndInv, PruneMissing, NEW f \in Files
    PROVE  /\ Gone # {} => (f \in keep => f \notin Gone /\ Session(f) \notin Gone)
           /\ f \in scanned' => /\ RowsOf(f)' = RowsOf(f)
                                /\ f \notin Gone /\ Session(f) \notin Gone
           /\ f \notin scanned' => RowsOf(f)' = {}
<1>1. /\ scanned' = scanned \ Gone
      /\ messages' = {m \in messages : ~(Owner[m] \in Gone \/ Session(Owner[m]) \in Gone \cap Mains)}
  BY DEF PruneMissing, DeleteRows
<1>2. f \in keep => f \notin Gone /\ Session(f) \notin Gone
  BY DEF Gone, IndInv, KeepInv
<1>3. ASSUME f \in scanned' PROVE f \notin Gone /\ Session(f) \notin Gone
  <2>1. f \notin Gone /\ (Gone = {} \/ f \in keep)
    BY <1>1, <1>3 DEF Gone
  <2>2. QED
    BY <2>1, <1>2
<1>4. ASSUME f \in scanned' PROVE RowsOf(f)' = RowsOf(f)
  BY <1>1, <1>3, <1>4 DEF RowsOf
<1>5. ASSUME f \notin scanned' PROVE RowsOf(f)' = {}
  <2>1. CASE f \in Gone
    BY <2>1, <1>1 DEF RowsOf
  <2>2. CASE f \notin Gone
    BY <2>2, <1>1, <1>5 DEF RowsOf, IndInv, IndexMatchesCursor
  <2>3. QED
    BY <2>1, <2>2
<1>6. QED
  BY <1>2, <1>3, <1>4, <1>5

\* The prune.
LEMMA PruneInd == ASSUME IndInv, PruneMissing PROVE IndInv'
<1>t. TypeOK'
  BY ScanType DEF IndInv, ScanStep
<1>0. /\ sessions \subseteq Mains /\ scanned \subseteq Files /\ messages \subseteq Msgs
      /\ Parent \in [Subs -> Mains] /\ Owner \in [Msgs -> Files] /\ Mains \cap Subs = {}
      /\ agents \subseteq Subs
  BY ConstantsOk DEF ConstantsOk, IndInv, TypeOK
<1>1. /\ scanned' = scanned \ Gone
      /\ messages' = {m \in messages : ~(Owner[m] \in Gone \/ Session(Owner[m]) \in Gone \cap Mains)}
      /\ agents' = {a \in agents : ~(a \in Gone \/ Session(a) \in Gone \cap Mains)}
      /\ sessions' = sessions \ Gone
      /\ counted' = [r \in Mains |-> IF r \in Gone THEN {} ELSE counted[r]]
      /\ subCount' = [r \in Mains |-> IF r \in Gone THEN {} ELSE subCount[r]]
      /\ UNCHANGED <<now, diskVars, cursor, listVars, fileVars>>
      /\ pc' = "rollup"
  BY DEF PruneMissing, DeleteRows
<1>2. DiskInv'
  BY <1>1 DEF IndInv, DiskInv, diskVars
<1>3. CursorInv'
  <2> SUFFICES ASSUME NEW f \in scanned'
               PROVE  /\ cursor'[f].offset % 2 = 0
                      /\ cursor'[f].offset = 0 => RowsOf(f)' = {}
                      /\ cursor'[f].born = disk'[f].born => cursor'[f].offset <= 2 * Len(disk'[f].lines)
                      /\ Session(f) \in sessions'
    BY DEF CursorInv
  <2>1. f \in Files /\ f \in scanned
    BY <1>0, <1>1
  <2>2. RowsOf(f)' = RowsOf(f) /\ Session(f) \notin Gone
    BY <2>1, PruneRows
  <2>3. QED
    BY <2>1, <2>2, <1>1 DEF IndInv, CursorInv, diskVars
<1>4. IndexMatchesCursor'
  <2> SUFFICES ASSUME NEW f \in Files
               PROVE  /\ f \notin scanned' => RowsOf(f)' = {}
                      /\ f \in scanned' /\ cursor'[f].born = disk'[f].born
                           => RowsOf(f)' = IdsUpTo(disk'[f], cursor'[f].offset)
    BY DEF IndexMatchesCursor
  <2>1. f \in scanned' => f \in scanned /\ RowsOf(f)' = RowsOf(f)
    BY <1>1, PruneRows
  <2>2. f \notin scanned' => RowsOf(f)' = {}
    BY PruneRows
  <2>3. QED
    BY <2>1, <2>2, <1>1 DEF IndInv, IndexMatchesCursor, diskVars
<1>5. CountsNeverLag'
  <2>1. ASSUME NEW m \in messages'
        PROVE  Session(Owner[m]) \in sessions' /\ m \in counted'[Session(Owner[m])]
    <3>1. m \in messages /\ Session(Owner[m]) \in Mains
      BY <1>0, <1>1, SessionType
    <3>2. Session(Owner[m]) \notin Gone
      BY <3>1, <1>1
    <3>3. QED
      BY <3>1, <3>2, <1>1 DEF IndInv, CountsNeverLag
  <2>2. ASSUME NEW a \in agents' PROVE Parent[a] \in sessions' /\ a \in subCount'[Parent[a]]
    <3>1. a \in agents /\ a \in Subs /\ Session(a) = Parent[a] /\ Parent[a] \in Mains
      BY <1>0, <1>1 DEF Session
    <3>2. Parent[a] \notin Gone
      BY <3>1, <1>1
    <3>3. QED
      BY <3>1, <3>2, <1>1 DEF IndInv, CountsNeverLag
  <2>3. QED
    BY <2>1, <2>2 DEF CountsNeverLag
<1>6. HandInv' /\ KeepInv' /\ SeenInv' /\ RollupsFresh'
  BY <1>1 DEF IndInv, HandInv, KeepInv, SeenInv, RollupsFresh, listVars
<1>7. QED
  BY <1>t, <1>2, <1>3, <1>4, <1>5, <1>6 DEF IndInv

\* The rollups are taken from the messages; a session without a row has none.
LEMMA RollupInd == ASSUME IndInv, RebuildRollups PROVE IndInv'
<1>t. TypeOK'
  BY ScanType DEF IndInv, ScanStep
<1>1. UNCHANGED <<now, diskVars, fileRows, countVars, agentVars>> /\ EndPass("done")
  BY DEF RebuildRollups
<1>2. DiskInv' /\ CursorInv' /\ IndexMatchesCursor'
  BY <1>1 DEF IndInv, DiskInv, CursorInv, IndexMatchesCursor, RowsOf, IdsUpTo, diskVars, fileRows, countVars
<1>3. CountsNeverLag'
  BY <1>1 DEF IndInv, CountsNeverLag, fileRows, countVars, agentVars
<1>4. HandInv' /\ KeepInv' /\ SeenInv'
  BY <1>1, EndPassInd
<1>5. RollupsFresh'
  <2>1. \A r \in Mains : r \notin sessions => SessionRows(messages, r) = {}
    BY DEF IndInv, CountsNeverLag, SessionRows
  <2>2. QED
    BY <2>1, <1>1 DEF RebuildRollups, RollupsFresh, SessionRows, fileRows
<1>6. QED
  BY <1>t, <1>2, <1>3, <1>4, <1>5 DEF IndInv

\* Every step keeps the inductive invariant.
LEMMA StepInd == IndInv /\ [Next]_vars => IndInv'
<1> SUFFICES ASSUME IndInv, [Next]_vars PROVE IndInv'
  OBVIOUS
<1>1. ASSUME \/ ListProjects
             \/ \E f \in Files : SkipUnchanged(f) \/ StatChanged(f) \/ StatFails(f)
             \/ ReadFails
             \/ ListSubagents
             \/ ScanFault
      PROVE  IndInv'
  <2>1. TypeOK'
    BY <1>1, ScanType DEF IndInv, ScanStep
  <2>2. UNCHANGED <<diskVars, dbVars>>
    BY <1>1 DEF ListProjects, SkipUnchanged, StatChanged, StatFails, ReadFails, ListSubagents,
               ScanFault, ListProjectsFails, ListSubagentsFails, RecordSubagentFails, Interrupted
  <2>3. HandInv' /\ KeepInv' /\ SeenInv' /\ RollupsFresh' /\ now' \in {now, now + 1}
    BY <1>1, <2>2, LookInd
  <2>4. DiskInv' /\ CursorInv' /\ IndexMatchesCursor' /\ CountsNeverLag'
    BY <2>2, <2>3, TablesInd DEF diskVars
  <2>5. QED
    BY <2>1, <2>3, <2>4 DEF IndInv
<1>2. CASE UNCHANGED vars
  <2>1. TypeOK'
    BY <1>2 DEF IndInv, TypeOK, vars, diskVars, dbVars, fileRows, countVars, agentVars, rollups,
               listVars, fileVars
  <2>2. DiskInv' /\ CursorInv' /\ IndexMatchesCursor' /\ CountsNeverLag'
    BY <1>2, TablesInd DEF vars, diskVars
  <2>3. HandInv' /\ KeepInv' /\ RollupsFresh'
    BY <1>2 DEF IndInv, HandInv, KeepInv, ResumeOffset, RollupsFresh, SessionRows,
               vars, dbVars, fileRows, countVars, rollups, listVars, fileVars
  <2>4. SeenInv'
    BY <1>2, WholeSame DEF IndInv, SeenInv, Files, vars, dbVars, fileRows, listVars, fileVars
  <2>5. QED
    BY <2>1, <2>2, <2>3, <2>4 DEF IndInv
<1>3. QED
  BY <1>1, <1>2, WorldInd, WipeInd, ReadInd, RecordInd, PruneInd, RollupInd DEF Next, ScanStep

LEMMA IndInvariant == Spec => []IndInv
BY InitInd, StepInd, PTL DEF Spec

-----------------------------------------------------------------------------
\* The properties.

\* The rows of a transcript are exactly the messages of the lines its cursor has
\* passed (scanTranscript, DeleteFileRows, PruneMissing).
THEOREM RowsMatchCursor == Spec => []IndexMatchesCursor
<1>1. IndInv => IndexMatchesCursor
  BY DEF IndInv
<1>2. QED
  BY <1>1, IndInvariant, PTL

\* A session's counts miss nothing that is in the tables (UpdateSessionFacts,
\* UpsertSubagent and the cascade of PruneMissing).
THEOREM CountsCoverRows == Spec => []CountsNeverLag
<1>1. IndInv => CountsNeverLag
  BY DEF IndInv
<1>2. QED
  BY <1>1, IndInvariant, PTL

\* The rollups of a finished pass are those of the messages (RebuildRollups).
THEOREM RollupsFollowRows == Spec => []RollupsFresh
<1>1. IndInv => RollupsFresh
  BY DEF IndInv
<1>2. QED
  BY <1>1, IndInvariant, PTL

\* A pass without a failed transcript or listing prunes nothing that is intact
\* (Scan's keep list and PruneMissing).
THEOREM PruneSparesIntact == Spec => NothingIntactPruned
<1>1. IndInv /\ [Next]_vars => [AllRead /\ clean => \A f \in Files : Intact(f) => KeepsRows(f)]_vars
  <2> SUFFICES ASSUME IndInv, Next, AllRead, clean, NEW f \in Files, Intact(f)
               PROVE  KeepsRows(f)
    OBVIOUS
  <2>1. ASSUME UNCHANGED <<scanned, messages>> PROVE KeepsRows(f)
    BY <2>1 DEF KeepsRows, RowsOf, Intact, Whole
  <2>2. ASSUME PruneMissing PROVE KeepsRows(f)
    <3>1. f \in keep
      <4>1. Session(f) \in keep /\ Session(f) \in Mains
        BY SessionType DEF IndInv, SeenInv, AllRead, Intact
      <4>2. QED
        BY <4>1, ConstantsOk DEF ConstantsOk, IndInv, SeenInv, AllRead, Files, Session, Intact
    <3>2. f \in scanned'
      BY <2>2, <3>1 DEF PruneMissing, DeleteRows, Gone, Intact, Whole
    <3>3. QED
      BY <2>2, <3>2, PruneRows DEF KeepsRows
  <2>3. World => UNCHANGED <<scanned, messages>>
    BY DEF World, AppendLine, AppendPart, Rewrite, Create, Remove, RemoveAll, Write, dbVars, fileRows
  <2>4. ScanFault => UNCHANGED <<scanned, messages>>
    BY DEF ScanFault, ListProjectsFails, ListSubagentsFails, RecordSubagentFails, Interrupted,
           dbVars, fileRows
  <2>5. ScanStep => PruneMissing
    BY DEF ScanStep, AllRead, ListProjects, SkipUnchanged, StatChanged, StatFails, Take, Listed,
           WipeRows, ReadLines, ReadFails, ListSubagents, RecordSubagent, RebuildRollups
  <2>6. QED
    BY <2>1, <2>2, <2>3, <2>4, <2>5 DEF Next
<1>2. QED
  BY <1>1, IndInvariant, PTL DEF Spec, NothingIntactPruned

\* A cursor only moves forward within one content (scanTranscript, PutScanState).
THEOREM CursorIsMonotonic == Spec => CursorMovesForward
<1> DEFINE Forward == \A f \in Files :
          f \in scanned /\ f \in scanned' /\ cursor'[f].born = cursor[f].born
             => cursor'[f].offset >= cursor[f].offset
<1>1. IndInv /\ [Next]_vars => [Forward]_vars
  <2> SUFFICES ASSUME IndInv, Next PROVE Forward
    OBVIOUS
  <2>t. cursor \in [Files -> Cursor] /\ disk \in [Files -> Content] /\ base \in Nat
    BY DEF IndInv, TypeOK
  <2>1. ASSUME cursor' = cursor PROVE Forward
    BY <2>1, <2>t DEF Cursor
  <2>2. ASSUME ReadLines PROVE Forward
    <3>1. /\ cur \in Files /\ base = ResumeOffset(cur) /\ disk[cur] \in Content
          /\ cursor' = [cursor EXCEPT ![cur] = NewCursor(disk[cur])]
      BY <2>2, <2>t DEF ReadLines, IndInv, TypeOK, HandInv
    <3>2. NewCursor(disk[cur]).offset >= base
      BY <3>1, <2>t DEF NewCursor, Consumed, Content
    <3>3. \A f \in Files : cursor[f].offset \in Nat
      BY <2>t DEF Cursor
    <3>4. QED
      BY <3>1, <3>2, <3>3, <2>t DEF ResumeOffset
  <2>3. World \/ ScanFault => cursor' = cursor
    BY DEF World, AppendLine, AppendPart, Rewrite, Create, Remove, RemoveAll, Write,
           ScanFault, ListProjectsFails, ListSubagentsFails, RecordSubagentFails, Interrupted,
           dbVars, fileRows
  <2>4. ScanStep => ReadLines \/ cursor' = cursor
    BY DEF ScanStep, ListProjects, SkipUnchanged, StatChanged, StatFails, WipeRows, DeleteRows,
           ReadFails, ListSubagents, RecordSubagent, PruneMissing, RebuildRollups, dbVars, fileRows
  <2>5. QED
    BY <2>1, <2>2, <2>3, <2>4 DEF Next
<1>2. QED
  BY <1>1, IndInvariant, PTL DEF Spec, CursorMovesForward

-----------------------------------------------------------------------------
\* Where a reading resumes.

\* What a transcript that was rewritten since the reading behind its cursor looks like:
\* shorter than the size on record, as long as ShrinksShow holds.
ShownInv ==
    \A f \in scanned \cap onDisk :
        cursor[f].born # disk[f].born => Size(disk[f]) < cursor[f].size

\* What os.Stat said of the transcript in hand is no less than what is on record, and
\* no less than what was read of it.
MeasuredInv ==
    pc = "read" /\ cur \in scanned =>
        /\ cursor[cur].size <= stat.size
        /\ cursor[cur].offset <= stat.size

\* The size of a content covers its complete lines.
LEMMA SizeCovers ==
    ASSUME NEW d \in Content
    PROVE  Size(d) \in Nat /\ 2 * Len(d.lines) <= Size(d)
<1>1. Len(d.lines) \in Nat
  BY DEF Content
<1>2. CASE d.tail
  BY <1>1, <1>2 DEF Size
<1>3. CASE ~d.tail
  BY <1>1, <1>3 DEF Size
<1> QED
  BY <1>2, <1>3

\* The outside world gives no transcript a new birth that Scan would not notice.
LEMMA WorldShows ==
    ASSUME ShrinksShow, IndInv, ShownInv, World
    PROVE  ShownInv' /\ UNCHANGED <<scanned, cursor, pc, cur, stat>>
<1>1. UNCHANGED <<scanned, cursor, pc, cur, stat>>
  BY DEF World, AppendLine, AppendPart, Rewrite, Create, Remove, RemoveAll, Write,
         dbVars, fileRows, fileVars
<1>2. ASSUME NEW f \in Files, NEW d, Write(f, d), NEW g \in scanned, g \in onDisk \/ g = f,
             cursor[g].born # disk'[g].born
      PROVE  Size(disk'[g]) < cursor[g].size
  <2>1. disk' = [disk EXCEPT ![f] = d] /\ Shows(f, d) /\ disk \in [Files -> Content]
    BY <1>2 DEF Write, IndInv, TypeOK
  <2>2. CASE g = f
    <3>1. disk'[g] = d
      BY <2>1, <2>2
    <3>2. QED
      BY <3>1, <2>1, <2>2, <1>2 DEF Shows
  <2>3. CASE g # f
    <3>1. disk'[g] = disk[g]
      BY <2>1, <2>3, <1>2
    <3>2. QED
      BY <3>1, <2>3, <1>2 DEF ShownInv
  <2>4. QED
    BY <2>2, <2>3
<1>3. ASSUME NEW f \in Files, NEW d, Write(f, d), onDisk' \subseteq onDisk \cup {f} PROVE ShownInv'
  BY <1>1, <1>2, <1>3 DEF ShownInv
<1>4. ASSUME NEW f \in Files, Remove(f) PROVE ShownInv'
  <2>1. \A g \in onDisk' : g \in onDisk /\ disk'[g] = disk[g]
    BY <1>4 DEF Remove, IndInv, TypeOK
  <2>2. QED
    BY <2>1, <1>1 DEF ShownInv
<1>5. ASSUME RemoveAll PROVE ShownInv'
  BY <1>5 DEF RemoveAll, ShownInv
<1>6. ASSUME NEW f \in Files, NEW l \in Lines, AppendLine(f, l) PROVE ShownInv'
  BY <1>6, <1>3 DEF AppendLine
<1>7. ASSUME NEW f \in Files, AppendPart(f) PROVE ShownInv'
  BY <1>7, <1>3 DEF AppendPart
<1>8. ASSUME NEW f \in Files, NEW k \in 0..MaxLines, Rewrite(f, k) PROVE ShownInv'
  BY <1>8, <1>3 DEF Rewrite
<1>9. ASSUME NEW f \in Files, Create(f) PROVE ShownInv'
  BY <1>9, <1>3 DEF Create
<1>10. QED
  BY <1>1, <1>4, <1>5, <1>6, <1>7, <1>8, <1>9 DEF World

\* A transcript that is to be read from its cursor on is at least as long as what was
\* read of it, because one that is not is taken for a rewritten one.
LEMMA StatMeasures ==
    ASSUME IndInv, ShownInv, NEW f \in Files, StatChanged(f) PROVE MeasuredInv'
<1> SUFFICES ASSUME pc' = "read", cur' \in scanned'
             PROVE  cursor'[cur'].size <= stat'.size /\ cursor'[cur'].offset <= stat'.size
  BY DEF MeasuredInv
<1>1. /\ cur' = f /\ f \in scanned /\ f \in onDisk /\ cursor' = cursor
      /\ stat'.size = Size(disk[f]) /\ ~Shrunk(f)
  BY DEF StatChanged, dbVars, fileRows
<1>2. disk[f] \in Content /\ cursor[f] \in Cursor
  BY DEF IndInv, TypeOK
<1>3. Len(disk[f].lines) \in Nat /\ cursor[f].size \in Nat /\ cursor[f].offset \in Nat
  BY <1>2 DEF Content, Cursor
<1>4. 2 * Len(disk[f].lines) <= Size(disk[f]) /\ Size(disk[f]) \in Nat
  BY <1>2, SizeCovers
<1>5. cursor[f].size <= Size(disk[f])
  BY <1>1, <1>3, <1>4 DEF Shrunk
<1>6. cursor[f].born = disk[f].born
  BY <1>1, <1>3, <1>4, <1>5 DEF ShownInv
<1>7. cursor[f].offset <= Size(disk[f])
  BY <1>1, <1>3, <1>4, <1>6 DEF IndInv, CursorInv
<1>8. QED
  BY <1>1, <1>5, <1>7

\* A reading that resumes leaves a cursor of the same content and no smaller size.
LEMMA ReadShows == ASSUME IndInv, ShownInv, MeasuredInv, ReadLines PROVE ShownInv'
<1>1. /\ cur \in Files /\ cur \in onDisk /\ onDisk' = onDisk /\ disk' = disk
      /\ scanned' = scanned \cup {cur} /\ base = ResumeOffset(cur)
      /\ cursor' = [cursor EXCEPT ![cur] = NewCursor(disk[cur])] /\ pc = "read"
  BY DEF ReadLines, IndInv, TypeOK, HandInv, diskVars
<1>2. /\ cursor \in [Files -> Cursor] /\ disk[cur] \in Content /\ scanned \subseteq Files
      /\ stat \in [size : Nat, mtime : Nat]
  BY <1>1 DEF IndInv, TypeOK
<1>3. ASSUME NEW f \in scanned' \cap onDisk', f # cur, cursor'[f].born # disk'[f].born
      PROVE  Size(disk'[f]) < cursor'[f].size
  BY <1>1, <1>2, <1>3 DEF ShownInv
<1>4. ASSUME cursor'[cur].born # disk'[cur].born PROVE Size(disk'[cur]) < cursor'[cur].size
  <2>1. cursor'[cur] = NewCursor(disk[cur])
    BY <1>1, <1>2
  <2>2. /\ base # 0 /\ cursor'[cur].born = cursor[cur].born /\ cursor'[cur].size = stat.size
    BY <1>4, <1>1, <2>1 DEF NewCursor
  <2>3. cur \in scanned
    BY <1>1, <2>2 DEF ResumeOffset
  <2>4. Size(disk[cur]) < cursor[cur].size /\ cursor[cur].size <= stat.size
    BY <1>1, <1>4, <2>2, <2>3 DEF ShownInv, MeasuredInv
  <2>5. Size(disk[cur]) \in Nat /\ cursor[cur].size \in Nat /\ stat.size \in Nat
    BY <1>1, <1>2, SizeCovers DEF Cursor
  <2>6. QED
    BY <1>1, <2>2, <2>4, <2>5
<1>5. QED
  BY <1>3, <1>4 DEF ShownInv

\* Every step keeps both.
LEMMA ResumeInd ==
    ASSUME ShrinksShow, IndInv, ShownInv, MeasuredInv, [Next]_vars
    PROVE  ShownInv' /\ MeasuredInv'
<1>1. ASSUME UNCHANGED <<onDisk, disk, cursor>>, scanned' \subseteq scanned PROVE ShownInv'
  BY <1>1 DEF ShownInv
<1>2. CASE World
  BY <1>2, WorldShows DEF MeasuredInv
<1>3. CASE UNCHANGED vars
  BY <1>3 DEF vars, diskVars, dbVars, fileRows, fileVars, ShownInv, MeasuredInv
<1>4. ASSUME NEW f \in Files, StatChanged(f) PROVE ShownInv' /\ MeasuredInv'
  BY <1>4, <1>1, StatMeasures DEF StatChanged, diskVars, dbVars, fileRows
<1>5. CASE ReadLines
  BY <1>5, ReadShows DEF ReadLines, Succeed, MeasuredInv
<1>6. CASE WipeRows
  BY <1>6, <1>1 DEF WipeRows, DeleteRows, diskVars, fileVars, MeasuredInv
<1>7. CASE PruneMissing
  BY <1>7, <1>1 DEF PruneMissing, DeleteRows, diskVars, MeasuredInv
<1>8. ASSUME pc' # "read", UNCHANGED <<diskVars, fileRows>> PROVE ShownInv' /\ MeasuredInv'
  BY <1>8, <1>1 DEF diskVars, fileRows, MeasuredInv
<1>9. ASSUME \/ ListProjects \/ ReadFails \/ ListSubagents \/ RecordSubagent \/ RebuildRollups
             \/ \E f \in Files : SkipUnchanged(f) \/ StatFails(f)
             \/ ScanFault
      PROVE  pc' # "read" /\ UNCHANGED <<diskVars, fileRows>>
  BY <1>9 DEF ListProjects, ReadFails, GiveUp, ListSubagents, RecordSubagent, RebuildRollups, EndPass,
         SkipUnchanged, Succeed, StatFails, ScanFault, ListProjectsFails, ListSubagentsFails,
         RecordSubagentFails, Interrupted, dbVars
<1>10. QED
  BY <1>2, <1>3, <1>4, <1>5, <1>6, <1>7, <1>8, <1>9 DEF Next, ScanStep

\* Where a rewritten transcript shows by its size, a reading that resumes starts within the
\* file os.Stat has measured (the shrink test of scanTranscript).
THEOREM ResumesWithinFile == ASSUME ShrinksShow PROVE Spec => []NoResumePastEnd
<1> DEFINE Inv == IndInv /\ ShownInv /\ MeasuredInv
<1>1. Init => Inv
  BY InitInd DEF Init, ShownInv, MeasuredInv
<1>2. Inv /\ [Next]_vars => Inv'
  BY StepInd, ResumeInd
<1>3. Inv => NoResumePastEnd
  BY DEF IndInv, HandInv, MeasuredInv, NoResumePastEnd, ResumeOffset
<1>4. QED
  BY <1>1, <1>2, <1>3, PTL DEF Spec

-----------------------------------------------------------------------------
\* The refinement.

\* At first nothing is known, whatever the transcripts hold.
LEMMA MirrorInit == Init => Mirror!Init
<1> SUFFICES ASSUME Init PROVE Mirror!Init
  OBVIOUS
<1>1. disk \in [Files -> Content] /\ cursor \in [Files -> Cursor]
  BY InitType DEF TypeOK
<1>2. [f \in Files |-> IdsFrom(disk[f], 0)] \in [Files -> SUBSET Msgs]
  BY DEF IdsFrom
<1>3. /\ [f \in Files |-> disk[f].born] \in [Files -> Nat]
      /\ [f \in Files |-> cursor[f].born] \in [Files -> Nat]
  BY <1>1 DEF Content, Cursor
<1>4. scanned = {} /\ [f \in Files |-> RowsOf(f)] = [f \in Files |-> {}]
  BY DEF Init, RowsOf
<1>5. QED
  BY <1>2, <1>3, <1>4 DEF Mirror!Init

\* A transcript that only grew has every message it had.
LEMMA MirrorWrite == ASSUME IndInv, World PROVE Mirror!Write
<1>1. UNCHANGED <<scanned, cursor, messages>>
  BY DEF World, AppendLine, AppendPart, Rewrite, Create, Remove, RemoveAll, Write, dbVars, fileRows
<1>2. ASSUME NEW f \in Files
      PROVE  /\ disk'[f].born = disk[f].born => IdsFrom(disk[f], 0) \subseteq IdsFrom(disk'[f], 0)
             /\ disk'[f].born # disk[f].born => disk'[f].born # cursor[f].born
  <2>1. /\ now \in Nat /\ disk[f].born \in Nat /\ cursor[f].born \in Nat
        /\ disk[f].born <= now /\ cursor[f].born <= now
        /\ disk[f].lines \in Seq(Lines) /\ disk'[f].lines \in Seq(Lines)
    <3>1. disk' \in [Files -> Content]
      BY WorldType DEF IndInv, TypeOK
    <3>2. QED
      BY <3>1 DEF IndInv, TypeOK, DiskInv, Content, Cursor
  <2>2. CASE Fresh(f)
    BY <2>1, <2>2 DEF Fresh
  <2>3. CASE Grown(f)
    <3>1. \A i \in 1..Len(disk[f].lines) :
             i \in 1..Len(disk'[f].lines) /\ disk'[f].lines[i] = disk[f].lines[i]
      BY <2>1, <2>3 DEF Grown
    <3>2. QED
      BY <2>3, <3>1 DEF Grown, IdsFrom
  <2>4. QED
    BY <2>2, <2>3, WorldGrows
<1>3. [f \in Files |-> IdsFrom(disk[f], 0)]' = [f \in Files |-> IdsFrom(disk'[f], 0)]
  OBVIOUS
<1>4. /\ [f \in Files |-> RowsOf(f)]' = [f \in Files |-> RowsOf(f)]
      /\ [f \in Files |-> cursor[f].born]' = [f \in Files |-> cursor[f].born]
  BY <1>1 DEF RowsOf
<1>5. QED
  BY <1>1, <1>2, <1>3, <1>4 DEF Mirror!Write

\* Reading on from the cursor comes to reading all, unless the content was replaced.
LEMMA MirrorRead ==
    ASSUME IndInv, ReadLines
    PROVE  Mirror!Refresh(cur) \/ Mirror!Patch(cur)
<1> DEFINE d == disk[cur]
<1>0. /\ cur \in Files /\ d \in Content /\ base \in Nat /\ base = ResumeOffset(cur)
      /\ scanned \subseteq Files /\ cursor \in [Files -> Cursor] /\ messages \subseteq Msgs
      /\ Len(d.lines) \in Nat
  BY DEF IndInv, TypeOK, ReadLines, HandInv, Content
<1>1. /\ messages' = messages \cup IdsFrom(d, base)
      /\ scanned' = scanned \cup {cur}
      /\ cursor' = [cursor EXCEPT ![cur] = NewCursor(d)]
      /\ disk' = disk /\ cur' = cur
  BY DEF ReadLines, Succeed, diskVars
<1>2. \A m \in IdsFrom(d, base) : Owner[m] = cur
  <2> SUFFICES ASSUME NEW m \in IdsFrom(d, base) PROVE Owner[m] = cur
    OBVIOUS
  <2>1. PICK i \in 1..Len(d.lines) : d.lines[i] = m /\ m \in Msgs
    BY DEF IdsFrom
  <2>2. QED
    BY <1>0, <2>1 DEF IndInv, DiskInv
<1>3. \A f \in Files :
        RowsOf(f)' = IF f = cur THEN RowsOf(cur) \cup IdsFrom(d, base) ELSE RowsOf(f)
  BY <1>1, <1>2 DEF RowsOf
<1>4. /\ cursor'[cur].born = IF base = 0 THEN d.born ELSE cursor[cur].born
      /\ \A f \in Files \ {cur} : cursor'[f] = cursor[f]
  BY <1>0, <1>1 DEF NewCursor
<1>5. /\ base % 2 = 0
      /\ base = 0 => RowsOf(cur) = {}
      /\ base # 0 => cur \in scanned /\ base = cursor[cur].offset
  <2>1. CASE cur \in scanned
    BY <1>0, <2>1 DEF IndInv, CursorInv, ResumeOffset
  <2>2. CASE cur \notin scanned
    BY <1>0, <2>2 DEF IndInv, IndexMatchesCursor, ResumeOffset
  <2>3. QED
    BY <2>1, <2>2
<1> HIDE DEF d
<1>6. IdsUpTo(d, 2 * Len(d.lines)) = IdsFrom(d, 0)
  BY <1>0 DEF IdsUpTo, IdsFrom
<1>7. CASE base # 0 /\ cursor[cur].born # d.born
  <2>1. IdsFrom(d, base) \in SUBSET IdsFrom(d, 0)
    BY <1>0 DEF IdsFrom
  <2>2. [f \in Files |-> RowsOf(f)]' =
          [[f \in Files |-> RowsOf(f)] EXCEPT ![cur] = @ \cup IdsFrom(d, base)]
    <3>1. [f \in Files |-> RowsOf(f)]' =
            [f \in Files |-> IF f = cur THEN RowsOf(cur) \cup IdsFrom(d, base) ELSE RowsOf(f)]
      BY <1>3
    <3>2. QED
      BY <1>0, <3>1
  <2>3. scanned' = scanned /\ [f \in Files |-> cursor[f].born]' = [f \in Files |-> cursor[f].born]
    BY <1>1, <1>4, <1>5, <1>7
  <2>4. QED
    BY <1>0, <1>1, <1>5, <1>7, <2>1, <2>2, <2>3 DEF Mirror!Patch, d
<1>8. CASE base = 0 \/ cursor[cur].born = d.born
  <2>1. RowsOf(cur) \cup IdsFrom(d, base) = IdsFrom(d, 0)
    <3>1. CASE base = 0
      BY <3>1, <1>5
    <3>2. CASE base # 0
      <4>1. base <= 2 * Len(d.lines) /\ RowsOf(cur) = IdsUpTo(d, base)
        BY <3>2, <1>5, <1>8, <1>0 DEF IndInv, CursorInv, IndexMatchesCursor, d
      <4>2. QED
        BY <4>1, <1>0, <1>5, <1>6, LinesSplit
    <3>3. QED
      BY <3>1, <3>2
  <2>2. [f \in Files |-> RowsOf(f)]' = [[f \in Files |-> RowsOf(f)] EXCEPT ![cur] = IdsFrom(d, 0)]
    <3>1. [f \in Files |-> RowsOf(f)]' =
            [f \in Files |-> IF f = cur THEN IdsFrom(d, 0) ELSE RowsOf(f)]
      BY <1>3, <2>1
    <3>2. QED
      BY <1>0, <3>1
  <2>3. [f \in Files |-> cursor[f].born]' = [[f \in Files |-> cursor[f].born] EXCEPT ![cur] = d.born]
    BY <1>0, <1>4, <1>8
  <2>4. cur \in scanned /\ cursor[cur].born # d.born => RowsOf(cur) = {}
    BY <1>5, <1>8
  <2>5. QED
    BY <1>0, <1>1, <2>2, <2>3, <2>4 DEF Mirror!Refresh, d
<1>9. QED
  BY <1>7, <1>8

\* The wipe and the prune forget transcripts as a whole.
LEMMA MirrorDrop ==
    ASSUME IndInv, WipeRows \/ PruneMissing
    PROVE  \E F \in SUBSET Files : Mirror!Drop(F)
<1>1. scanned \subseteq Files
  BY DEF IndInv, TypeOK
<1>2. scanned' \subseteq scanned /\ cursor' = cursor /\ disk' = disk
  BY DEF WipeRows, PruneMissing, DeleteRows, diskVars
<1>3. \A f \in Files : RowsOf(f)' = IF f \in scanned' THEN RowsOf(f) ELSE {}
  <2>1. CASE PruneMissing
    BY <2>1, PruneRows
  <2>2. CASE WipeRows
    <3>1. /\ scanned' = scanned \ {cur} /\ messages' = {m \in messages : Owner[m] # cur}
          /\ cur' = cur
      BY <2>2 DEF WipeRows, DeleteRows, fileVars
    <3>2. \A f \in Files \ {cur} : RowsOf(f)' = RowsOf(f)
      BY <3>1 DEF RowsOf
    <3>3. \A f \in Files \ scanned : RowsOf(f) = {}
      BY DEF IndInv, IndexMatchesCursor
    <3>4. RowsOf(cur)' = {}
      BY <3>1 DEF RowsOf
    <3>5. QED
      BY <3>1, <3>2, <3>3, <3>4
  <2>3. QED
    BY <2>1, <2>2
<1>4. [f \in Files |-> RowsOf(f)]' =
        [f \in Files |-> IF f \in Files \ scanned' THEN {} ELSE [g \in Files |-> RowsOf(g)][f]]
  BY <1>3
<1>5. Mirror!Drop(Files \ scanned')
  BY <1>1, <1>2, <1>4 DEF Mirror!Drop
<1>6. QED
  BY <1>5

\* Resuming at offsets, over passes that fail or stop anywhere, implements reading
\* every transcript as a whole (scanTranscript, DeleteFileRows, PruneMissing).
THEOREM IndexMirrorsFiles == Spec => ImplementsMirror
<1>1. IndInv /\ [Next]_vars => [Mirror!Next]_(Mirror!mirrorVars)
  <2> SUFFICES ASSUME IndInv, [Next]_vars PROVE [Mirror!Next]_(Mirror!mirrorVars)
    OBVIOUS
  <2>1. ASSUME UNCHANGED <<disk, scanned, cursor, messages>> PROVE UNCHANGED Mirror!mirrorVars
    BY <2>1 DEF Mirror!mirrorVars, RowsOf
  <2>2. CASE World
    BY <2>2, MirrorWrite DEF Mirror!Next
  <2>3. CASE ReadLines
    <3>1. cur \in Files
      BY <2>3 DEF ReadLines, IndInv, TypeOK
    <3>2. Mirror!Refresh(cur) \/ Mirror!Patch(cur)
      BY <2>3, MirrorRead
    <3>3. \E f \in Files : Mirror!Refresh(f) \/ Mirror!Patch(f)
      BY <3>1, <3>2 DEF Mirror!Refresh, Mirror!Patch
    <3>4. Mirror!Next
      BY <3>3 DEF Mirror!Next
    <3>5. QED
      BY <3>4
  <2>4. CASE WipeRows \/ PruneMissing
    BY <2>4, MirrorDrop DEF Mirror!Next
  <2>5. ScanStep => \/ ReadLines \/ WipeRows \/ PruneMissing
                    \/ UNCHANGED <<disk, scanned, cursor, messages>>
    BY DEF ScanStep, ListProjects, SkipUnchanged, StatChanged, StatFails,
           ReadFails, ListSubagents, RecordSubagent, RebuildRollups, dbVars, fileRows, diskVars
  <2>6. ScanFault \/ UNCHANGED vars => UNCHANGED <<disk, scanned, cursor, messages>>
    BY DEF ScanFault, ListProjectsFails, ListSubagentsFails, RecordSubagentFails, Interrupted,
           vars, dbVars, fileRows, diskVars
  <2>7. QED
    BY <2>1, <2>2, <2>3, <2>4, <2>5, <2>6 DEF Next
<1>2. QED
  BY <1>1, MirrorInit, IndInvariant, PTL DEF Spec, ImplementsMirror, Mirror!Spec
=============================================================================
