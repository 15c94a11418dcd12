--------------------------- MODULE TranscriptIndex ---------------------------
(***************************************************************************)
(* The transcript index: Indexer.Scan and scanTranscript                   *)
(* (internal/indexer/indexer.go) and the tables they write                 *)
(* (internal/store/queries_index.go), against transcripts that Claude Code *)
(* appends to, rewrites and removes while a pass is running.               *)
(*                                                                         *)
(* Every SQLite transaction is one step, because each is committed on its  *)
(* own and the process may stop between two of them.  Scan holds scanMu,   *)
(* so there is one pass at a time; a pass is the program counter pc and    *)
(* the local variables of Scan and scanTranscript.                         *)
(*                                                                         *)
(* Sizes and offsets are in half lines: a complete line is 2, a trailing   *)
(* partial line (no newline yet) is 1.  Counts are kept as the sets they   *)
(* count.  Titles, working directories and token figures are left out.     *)
(***************************************************************************)
EXTENDS Naturals, Sequences

CONSTANTS
    Mains,       \* main transcripts; each is also the id of its session
    Subs,        \* subagent transcripts
    Parent,      \* the main transcript a subagent transcript belongs to
    Msgs,        \* message ids
    Owner,       \* the one transcript a message id occurs in
    NoMsg,       \* a line that yields no row: malformed, blank, a title, no id
    NoFile,      \* no transcript is being read
    InitLines,   \* what the transcripts hold when the program first runs
    MaxTime,     \* bound on writes, faults and restarts
    MaxLines,    \* bound on the lines of a transcript
    FaultKinds,  \* the faults that may happen
    ShrinksShow  \* a rewritten transcript stays shorter than the size on
                 \* record until it is read again (docs/PLAN.md:227-230)

Files == Mains \cup Subs
Lines == Msgs \cup {NoMsg}

ASSUME ConstantsOk ==
    /\ Mains \cap Subs = {}
    /\ Parent \in [Subs -> Mains]
    /\ Owner \in [Msgs -> Files]
    /\ NoMsg \notin Msgs /\ NoFile \notin Files
    /\ InitLines \in [Files -> Seq(Lines)]
    /\ \A f \in Files : \A i \in 1..Len(InitLines[f]) :
          InitLines[f][i] \in Msgs => Owner[InitLines[f][i]] = f
    /\ MaxTime \in Nat /\ MaxLines \in Nat
    /\ ShrinksShow \in BOOLEAN

VARIABLES
    \* The file system.
    now,        \* how many events the outside world has produced
    onDisk,     \* the transcripts that exist
    dirs,       \* projects/ holds at least one project directory
    disk,       \* content, modification time and birth of each transcript
    \* The database.
    scanned,    \* paths with a scan_state row
    cursor,     \* the scan_state rows
    messages,   \* ids in messages (tool_calls rows go with them)
    sessions,   \* ids in sessions
    counted,    \* the messages a session's counts and timestamps stand for
    subCount,   \* the subagents its subagent_count stands for
    agents,     \* ids in subagents
    agentMsgs,  \* the messages a subagent's msg_count stands for
    daily,      \* the messages in daily_usage and hour_counts
    usage,      \* the messages in each session_usage row
    \* The pass.
    pc,         \* where Scan is; "idle" and "done" are between two passes
    todo,       \* listed main transcripts not scanned yet
    subTodo,    \* listed subagents of the current session not scanned yet
    cur,        \* the transcript scanTranscript works on
    stat,       \* what os.Stat said of it
    base,       \* the offset its reading starts at
    keep,       \* the paths PruneMissing must keep
    nonEmpty,   \* ListProjects returned a project
    clean       \* the pass has logged no failed transcript or listing

diskVars  == <<onDisk, dirs, disk>>
fileRows  == <<scanned, cursor, messages>>
countVars == <<sessions, counted, subCount>>
agentVars == <<agents, agentMsgs>>
rollups   == <<daily, usage>>
dbVars    == <<fileRows, countVars, agentVars, rollups>>
listVars  == <<todo, subTodo, keep, nonEmpty, clean>>
fileVars  == <<cur, stat, base>>
vars == <<now, diskVars, dbVars, pc, listVars, fileVars>>

Content == [born : Nat, mtime : Nat, lines : Seq(Lines), tail : BOOLEAN]
Cursor  == [size : Nat, mtime : Nat, offset : Nat, born : Nat]
NoStat  == [size |-> 0, mtime |-> 0]

TypeOK ==
    /\ now \in Nat
    /\ onDisk \subseteq Files
    /\ dirs \in BOOLEAN
    /\ disk \in [Files -> Content]
    /\ scanned \subseteq Files
    /\ cursor \in [Files -> Cursor]
    /\ messages \subseteq Msgs
    /\ sessions \subseteq Mains
    /\ counted \in [Mains -> SUBSET Msgs]
    /\ subCount \in [Mains -> SUBSET Subs]
    /\ agents \subseteq Subs
    /\ agentMsgs \in [Subs -> SUBSET Msgs]
    /\ daily \subseteq Msgs
    /\ usage \in [Mains -> SUBSET Msgs]
    /\ pc \in {"idle", "file", "wipe", "read", "sublist", "record", "rollup", "done"}
    /\ todo \subseteq Mains
    /\ subTodo \subseteq Subs
    /\ cur \in Files \cup {NoFile}
    /\ pc \in {"wipe", "read"} => cur \in Files
    /\ pc = "sublist" => cur \in Mains
    /\ pc = "record" => cur \in Subs
    /\ stat \in [size : Nat, mtime : Nat]
    /\ base \in Nat
    /\ keep \subseteq Files
    /\ nonEmpty \in BOOLEAN
    /\ clean \in BOOLEAN

-----------------------------------------------------------------------------
\* Helpers.

\* The session a transcript feeds: mainTranscriptPath and SessionID.
Session(f) == IF f \in Mains THEN f ELSE Parent[f]

Size(d) == 2 * Len(d.lines) + (IF d.tail THEN 1 ELSE 0)

RowsOf(f) == {m \in messages : Owner[m] = f}
SessionRows(ms, s) == {m \in ms : Session(Owner[m]) = s}
AgentsOf(as, s) == {a \in as : Parent[a] = s}

\* The messages of the complete lines that start at offset b or later.
IdsFrom(d, b) ==
    {m \in Msgs : \E i \in 1..Len(d.lines) : d.lines[i] = m /\ 2 * (i - 1) >= b}

\* The messages of the complete lines that end at offset o or before.
IdsUpTo(d, o) ==
    {m \in Msgs : \E i \in 1..Len(d.lines) : d.lines[i] = m /\ 2 * i <= o}

\* The outside world does one more thing.
Tick == now < MaxTime /\ now' = now + 1
Fault(kind) == kind \in FaultKinds /\ Tick

Init ==
    /\ now = 0
    /\ onDisk = Files
    /\ dirs = TRUE
    /\ disk = [f \in Files |->
                [born |-> 0, mtime |-> 0, lines |-> InitLines[f], tail |-> FALSE]]
    /\ scanned = {}
    /\ cursor = [f \in Files |-> [size |-> 0, mtime |-> 0, offset |-> 0, born |-> 0]]
    /\ messages = {}
    /\ sessions = {}
    /\ counted = [s \in Mains |-> {}]
    /\ subCount = [s \in Mains |-> {}]
    /\ agents = {}
    /\ agentMsgs = [a \in Subs |-> {}]
    /\ daily = {}
    /\ usage = [s \in Mains |-> {}]
    /\ pc = "idle"
    /\ todo = {} /\ subTodo = {} /\ keep = {}
    /\ nonEmpty = FALSE /\ clean = TRUE
    /\ cur = NoFile /\ stat = NoStat /\ base = 0

-----------------------------------------------------------------------------
\* Claude Code, the other process that owns the transcripts.

\* Under ShrinksShow a transcript that is no longer the one on record is shorter.
Shows(f, d) ==
    ShrinksShow /\ f \in scanned /\ cursor[f].born # d.born => Size(d) < cursor[f].size

Write(f, d) ==
    /\ Tick
    /\ Shows(f, d)
    /\ disk' = [disk EXCEPT ![f] = d]
    /\ UNCHANGED <<dbVars, pc, listVars, fileVars>>

\* A whole line is appended, or the rest of a partial one.
AppendLine(f, l) ==
    /\ f \in onDisk /\ Len(disk[f].lines) < MaxLines
    /\ l \in Msgs => Owner[l] = f
    /\ Write(f, [disk[f] EXCEPT !.lines = Append(@, l), !.tail = FALSE, !.mtime = now + 1])
    /\ UNCHANGED <<onDisk, dirs>>

\* The beginning of a line is appended.
AppendPart(f) ==
    /\ f \in onDisk /\ ~disk[f].tail
    /\ Write(f, [disk[f] EXCEPT !.tail = TRUE, !.mtime = now + 1])
    /\ UNCHANGED <<onDisk, dirs>>

\* The transcript is replaced by its first k lines: fewer bytes than before.
Rewrite(f, k) ==
    /\ f \in onDisk /\ 2 * k < Size(disk[f])
    /\ Write(f, [born |-> now + 1, mtime |-> now + 1, tail |-> FALSE,
                 lines |-> SubSeq(disk[f].lines, 1, k)])
    /\ UNCHANGED <<onDisk, dirs>>

Empty == [born |-> now + 1, mtime |-> now + 1, lines |-> << >>, tail |-> FALSE]

Create(f) ==
    /\ f \notin onDisk
    /\ Write(f, Empty)
    /\ onDisk' = onDisk \cup {f}
    /\ dirs' = TRUE

\* cleanupPeriodDays has passed, or the user deletes a transcript ...
Remove(f) ==
    /\ f \in onDisk
    /\ Tick
    /\ disk' = [disk EXCEPT ![f] = Empty]
    /\ onDisk' = onDisk \ {f}
    /\ UNCHANGED <<dirs, dbVars, pc, listVars, fileVars>>

\* ... or everything under projects/.
RemoveAll ==
    /\ dirs
    /\ Tick
    /\ disk' = [f \in Files |-> Empty]
    /\ onDisk' = {}
    /\ dirs' = FALSE
    /\ UNCHANGED <<dbVars, pc, listVars, fileVars>>

World ==
    \/ \E f \in Files : \/ \E l \in Lines : AppendLine(f, l)
                        \/ AppendPart(f)
                        \/ \E k \in 0..MaxLines : Rewrite(f, k)
                        \/ Create(f)
                        \/ Remove(f)
    \/ RemoveAll

-----------------------------------------------------------------------------
\* Scan.

\* The pass is over: its local variables are gone.
EndPass(outcome) ==
    /\ pc' = outcome
    /\ todo' = {} /\ subTodo' = {} /\ keep' = {}
    /\ nonEmpty' = FALSE /\ clean' = TRUE
    /\ cur' = NoFile /\ stat' = NoStat /\ base' = 0

ListProjects ==
    /\ pc \in {"idle", "done"}
    /\ pc' = "file"
    /\ todo' = onDisk \cap Mains
    /\ nonEmpty' = dirs
    /\ UNCHANGED <<now, diskVars, dbVars, subTodo, keep, clean, fileVars>>

\* A listing that fails ends the pass before anything is pruned.
ListProjectsFails ==
    /\ pc \in {"idle", "done"}
    /\ Fault("list")
    /\ EndPass("idle")
    /\ UNCHANGED <<diskVars, dbVars>>

\* Both loops take the next path and put it in keep before reading it.
Listed == IF subTodo # {} THEN subTodo ELSE todo

\* (Mutant: the subagents are forgotten in keep.)
TakeKeepsMains(f) ==
    /\ pc = "file"
    /\ f \in Listed
    /\ todo' = todo \ {f}
    /\ subTodo' = subTodo \ {f}
    /\ keep' = keep \cup ({f} \cap Mains)
    /\ UNCHANGED nonEmpty

Take(f) ==
    /\ pc = "file"
    /\ f \in Listed
    /\ todo' = todo \ {f}
    /\ subTodo' = subTodo \ {f}
    /\ keep' = keep \cup {f}
    /\ UNCHANGED nonEmpty

\* (Mutant: agentID is not looked at.)
SucceedAsMain(f) ==
    /\ pc' = "sublist"
    /\ cur' = f /\ stat' = NoStat /\ base' = 0
    /\ UNCHANGED clean

\* scanTranscript succeeded: the subagents of a main transcript come next, and
\* the row of a subagent.
Succeed(f) ==
    /\ pc' = IF f \in Mains THEN "sublist" ELSE "record"
    /\ cur' = f /\ stat' = NoStat /\ base' = 0
    /\ UNCHANGED clean

\* scanTranscript failed: Scan logs a warning and continues with the next path.
GiveUp ==
    /\ pc' = "file"
    /\ clean' = FALSE
    /\ cur' = NoFile /\ stat' = NoStat /\ base' = 0

StatFails(f) ==
    /\ Take(f)
    /\ IF f \in onDisk THEN Fault("file") ELSE UNCHANGED now
    /\ GiveUp
    /\ UNCHANGED <<diskVars, dbVars>>

\* (Mutant: only growth is looked for.)
NeverShrunk(f) == FALSE

Shrunk(f) == f \in scanned /\ Size(disk[f]) < cursor[f].size

Unchanged(f) ==
    /\ f \in scanned
    /\ Size(disk[f]) = cursor[f].size
    /\ disk[f].mtime = cursor[f].mtime

SkipUnchanged(f) ==
    /\ Take(f) /\ f \in onDisk /\ Unchanged(f)
    /\ Succeed(f)
    /\ UNCHANGED <<now, diskVars, dbVars>>

\* (Mutant: the size on record is taken for what was read.)
ResumeAtSize(f) == IF f \in scanned THEN cursor[f].size ELSE 0

ResumeOffset(f) == IF f \in scanned THEN cursor[f].offset ELSE 0

\* os.Stat and GetScanState: the size and modification time noted here are
\* what PutScanState stores after the reading.
StatChanged(f) ==
    /\ Take(f) /\ f \in onDisk /\ ~Unchanged(f)
    /\ cur' = f
    /\ stat' = [size |-> Size(disk[f]), mtime |-> disk[f].mtime]
    /\ IF Shrunk(f) THEN pc' = "wipe" /\ base' = 0
                    ELSE pc' = "read" /\ base' = ResumeOffset(f)
    /\ UNCHANGED <<now, diskVars, dbVars, clean>>

\* DeleteFileRows for every path in F, and the cascade from the sessions in S.
DeleteRows(F, S) ==
    LET Hit(f) == f \in F \/ Session(f) \in S
    IN  /\ scanned' = scanned \ F
        /\ messages' = {m \in messages : ~Hit(Owner[m])}
        /\ agents' = {a \in agents : ~Hit(a)}
        /\ agentMsgs' = [a \in Subs |-> IF Hit(a) THEN {} ELSE agentMsgs[a]]
        /\ UNCHANGED <<cursor, daily>>

\* (Mutant: the cursor is reset, the rows stay.)
WipeCursor ==
    /\ pc = "wipe"
    /\ scanned' = scanned \ {cur}
    /\ pc' = "read"
    /\ UNCHANGED <<now, diskVars, cursor, messages, agentVars, countVars, rollups,
                   listVars, fileVars>>

\* The transaction that drops what a rewritten transcript had yielded.
WipeRows ==
    /\ pc = "wipe"
    /\ DeleteRows({cur}, {})
    /\ pc' = "read"
    /\ UNCHANGED <<now, diskVars, countVars, usage, listVars, fileVars>>

\* (Mutant: a trailing partial line is consumed as well.)
ConsumedWithPartial(d, b) == IF Size(d) > b THEN Size(d) ELSE b

\* Where the reading stopped: after the last complete line, if any was read.
Consumed(d, b) == IF 2 * Len(d.lines) > b THEN 2 * Len(d.lines) ELSE b

\* (Mutant: the bytes of this reading are stored as the offset.)
RelativeCursor(d) ==
    [size |-> stat.size, mtime |-> stat.mtime, offset |-> Consumed(d, base) - base,
     born |-> IF base = 0 THEN d.born ELSE cursor[cur].born]

\* What PutScanState stores; born is not stored, it is the content the rows
\* come from.
NewCursor(d) ==
    [size |-> stat.size, mtime |-> stat.mtime, offset |-> Consumed(d, base),
     born |-> IF base = 0 THEN d.born ELSE cursor[cur].born]

\* (Mutant: the counts are taken before the rows are in.)
UpdateFactsFirst(s) ==
    /\ counted' = [counted EXCEPT ![s] = SessionRows(messages, s)]
    /\ subCount' = [subCount EXCEPT ![s] = AgentsOf(agents, s)]

\* Counts and timestamps are recomputed from the rows.
UpdateSessionFacts(s) ==
    /\ counted' = [counted EXCEPT ![s] = SessionRows(messages', s)]
    /\ subCount' = [subCount EXCEPT ![s] = AgentsOf(agents, s)]

\* The transaction that reads the new lines and moves the cursor.
ReadLines ==
    /\ pc = "read" /\ cur \in onDisk
    /\ messages' = messages \cup IdsFrom(disk[cur], base)
    /\ sessions' = sessions \cup {Session(cur)}
    /\ UpdateSessionFacts(Session(cur))
    /\ scanned' = scanned \cup {cur}
    /\ cursor' = [cursor EXCEPT ![cur] = NewCursor(disk[cur])]
    /\ Succeed(cur)
    /\ UNCHANGED <<now, diskVars, agentVars, rollups, todo, subTodo, keep, nonEmpty>>

\* The transcript cannot be opened or read, or is gone: its transaction rolls back.
ReadFails ==
    /\ \/ pc = "read" /\ cur \notin onDisk /\ UNCHANGED now
       \/ pc \in {"wipe", "read"} /\ Fault("file")
    /\ GiveUp
    /\ UNCHANGED <<diskVars, dbVars, todo, subTodo, keep, nonEmpty>>

ListSubagents ==
    /\ pc = "sublist"
    /\ subTodo' = {a \in onDisk \cap Subs : Parent[a] = cur}
    /\ pc' = "file" /\ cur' = NoFile
    /\ UNCHANGED <<now, diskVars, dbVars, todo, keep, nonEmpty, clean, stat, base>>

\* A listing of subagents that fails is only logged.
ListSubagentsFails ==
    /\ pc = "sublist"
    /\ Fault("sublist")
    /\ subTodo' = {}
    /\ clean' = FALSE
    /\ pc' = "file" /\ cur' = NoFile
    /\ UNCHANGED <<diskVars, dbVars, todo, keep, nonEmpty, stat, base>>

\* recordSubagent: the row, its msg_count and the session's subagent_count.
RecordSubagent ==
    /\ pc = "record"
    /\ agents' = agents \cup {cur}
    /\ agentMsgs' = [agentMsgs EXCEPT ![cur] = RowsOf(cur)]
    /\ subCount' = [subCount EXCEPT ![Parent[cur]] = AgentsOf(agents', Parent[cur])]
    /\ pc' = "file" /\ cur' = NoFile
    /\ UNCHANGED <<now, diskVars, fileRows, sessions, counted, rollups, listVars, stat, base>>

\* Its transaction fails, which is only logged.
RecordSubagentFails ==
    /\ pc = "record"
    /\ Fault("record")
    /\ pc' = "file" /\ cur' = NoFile
    /\ UNCHANGED <<diskVars, dbVars, listVars, stat, base>>

AllRead == pc = "file" /\ todo = {} /\ subTodo = {}

\* The paths on record that the pass has not seen; none when projects/ lists empty.
Gone == IF nonEmpty THEN scanned \ keep ELSE {}

\* A main transcript's session goes with it, and what refers to the session.
PruneMissing ==
    /\ AllRead
    /\ DeleteRows(Gone, Gone \cap Mains)
    /\ sessions' = sessions \ Gone
    /\ counted' = [s \in Mains |-> IF s \in Gone THEN {} ELSE counted[s]]
    /\ subCount' = [s \in Mains |-> IF s \in Gone THEN {} ELSE subCount[s]]
    /\ usage' = [s \in Mains |-> IF s \in Gone THEN {} ELSE usage[s]]
    /\ pc' = "rollup"
    /\ UNCHANGED <<now, diskVars, listVars, fileVars>>

\* (Mutant: days are added to, never cleared.)
AddToRollups ==
    /\ pc = "rollup"
    /\ daily' = daily \cup messages
    /\ usage' = [s \in Mains |-> IF s \in sessions THEN SessionRows(messages, s) ELSE {}]
    /\ EndPass("done")
    /\ UNCHANGED <<now, diskVars, fileRows, countVars, agentVars>>

\* The last step that touches these tables; scanMeta, scanConfig and
\* scanLiveSessions follow.
RebuildRollups ==
    /\ pc = "rollup"
    /\ daily' = messages
    /\ usage' = [s \in Mains |-> IF s \in sessions THEN SessionRows(messages, s) ELSE {}]
    /\ EndPass("done")
    /\ UNCHANGED <<now, diskVars, fileRows, countVars, agentVars>>

\* ctx is done, a database call fails that ends the pass, or the process dies:
\* the database is what the last commit left.  A process that died starts again.
Interrupted ==
    /\ pc \notin {"idle", "done"}
    /\ Fault("stop")
    /\ EndPass("idle")
    /\ UNCHANGED <<diskVars, dbVars>>

ScanStep ==
    \/ ListProjects
    \/ \E f \in Files : SkipUnchanged(f) \/ StatChanged(f) \/ StatFails(f)
    \/ WipeRows
    \/ ReadLines \/ ReadFails
    \/ ListSubagents
    \/ RecordSubagent
    \/ PruneMissing
    \/ RebuildRollups

ScanFault ==
    \/ ListProjectsFails
    \/ ListSubagentsFails
    \/ RecordSubagentFails
    \/ Interrupted

Next == World \/ ScanStep \/ ScanFault

Spec == Init /\ [][Next]_vars

\* Run starts a pass again and again (ticker and watcher), and a pass goes on.
FairSpec == Spec /\ WF_vars(ScanStep)

-----------------------------------------------------------------------------
\* What must hold.

\* The rows of a transcript are exactly the messages of the lines its cursor has
\* passed, no line twice and none skipped, as long as the content is the one the
\* rows came from; a path without a cursor has no rows.  This is what makes
\* resuming at byte_offset sound (docs/PLAN.md:148-150).
IndexMatchesCursor ==
    \A f \in Files :
        /\ f \notin scanned => RowsOf(f) = {}
        /\ f \in scanned /\ cursor[f].born = disk[f].born
             => RowsOf(f) = IdsUpTo(disk[f], cursor[f].offset)

\* A session's counts never miss a message or subagent that is in the tables,
\* and every row has its session row: what a page shows is at most too high.
CountsNeverLag ==
    /\ \A m \in messages : /\ Session(Owner[m]) \in sessions
                           /\ m \in counted[Session(Owner[m])]
    /\ \A a \in agents : /\ Parent[a] \in sessions
                         /\ a \in subCount[Parent[a]]

\* After a pass that ended well, the rollups are those of the messages table,
\* whatever earlier passes left behind when they were interrupted.
RollupsFresh ==
    pc = "done" => /\ daily = messages
                   /\ usage = [s \in Mains |-> SessionRows(messages, s)]

\* A transcript that exists, unchanged in birth since it was read, and whose
\* main transcript is so as well.
Whole(f)  == f \in onDisk /\ f \in scanned /\ cursor[f].born = disk[f].born
Intact(f) == Whole(f) /\ Whole(Session(f))

KeepsRows(f) == f \in scanned' /\ RowsOf(f) \subseteq RowsOf(f)'

\* PruneMissing, in a pass that could read and list everything, removes no row
\* and no cursor of a transcript that is still there, itself or by the cascade.
\* (WipeRows may: a file rewritten between os.Stat and the reading looks shrunk
\* to the next pass, which reads it again.)
NothingIntactPruned ==
    [][AllRead /\ clean => \A f \in Files : Intact(f) => KeepsRows(f)]_vars

\* The same of every pass: what cannot be listed is not pruned
\* (indexer.go:148-149, dir.go:117-118).
NothingPresentPruned ==
    [][AllRead => \A f \in Files : Intact(f) => KeepsRows(f)]_vars

\* Within one content the cursor only moves forward, so no line is read twice.
CursorMovesForward ==
    [][\A f \in Files :
          f \in scanned /\ f \in scanned' /\ cursor'[f].born = cursor[f].born
             => cursor'[f].offset >= cursor[f].offset]_vars

\* Reading never starts behind the end of the file os.Stat has just measured:
\* a file shorter than what was read of it has shrunk, and is read from the start.
NoResumePastEnd == pc = "read" /\ base > 0 => base <= stat.size

\* The index implements the one that reads every transcript as a whole: resuming at
\* an offset, over passes that fail or stop anywhere, comes to the same as reading
\* all of the file at the moment of the reading (scanTranscript, docs/PLAN.md:148-150).
Mirror == INSTANCE TranscriptMirror WITH
    text   <- [f \in Files |-> IdsFrom(disk[f], 0)],
    born   <- [f \in Files |-> disk[f].born],
    known  <- scanned,
    origin <- [f \in Files |-> cursor[f].born],
    rows   <- [f \in Files |-> RowsOf(f)]

ImplementsMirror == Mirror!Spec

\* After a pass that ended well, a session's counts are those of its rows.
CountsExact ==
    pc = "done" => \A s \in sessions : /\ counted[s] = SessionRows(messages, s)
                                       /\ subCount[s] = AgentsOf(agents, s)

\* The index shows what is on disk: all complete lines of the transcripts Scan
\* can reach, nothing of the others.
Reachable(f) == f \in onDisk /\ Session(f) \in onDisk

Mirrored ==
    /\ \A f \in Files :
          IF Reachable(f)
          THEN /\ f \in scanned
               /\ cursor[f].offset = 2 * Len(disk[f].lines)
               /\ RowsOf(f) = IdsUpTo(disk[f], cursor[f].offset)
          ELSE f \notin scanned /\ RowsOf(f) = {}
    /\ agents = {a \in Subs : Reachable(a)}
    /\ daily = messages

\* Once the transcripts and the faults come to rest, the index comes to mirror
\* the disk and stays so, whatever was interrupted or lost before.
Converges == <>[](dirs => Mirrored)
=============================================================================
