--------------------------- MODULE TranscriptLines ---------------------------
(***************************************************************************)
(* What becomes of the lines of a transcript: jsonl.Scan hands them one by *)
(* one to applyLine (internal/indexer/indexer.go) inside a transaction,    *)
(* which fills messages and tool_calls and at its end the session row.     *)
(*                                                                         *)
(* One API response is written as several lines that share its id, and a   *)
(* reading may end between any two of them, or fail and be repeated, while *)
(* lines are appended.  What is stored must not depend on where readings   *)
(* ended.  How passes, sizes and births interleave with writes is in       *)
(* TranscriptIndex; here a transcript is rewritten or removed only between *)
(* two readings, and sizes and offsets are numbers of complete lines.      *)
(***************************************************************************)
EXTENDS Naturals, Sequences

CONSTANTS
    Mains,     \* main transcripts; each is also the id of its session
    Subs,      \* subagent transcripts; each is also the id of its agent
    Parent,    \* the main transcript a subagent transcript belongs to
    Ids,       \* message ids
    Tools,     \* tool call ids
    Dirs,      \* working directories
    Titles,    \* texts of ai-title and summary lines
    None,      \* a field that is absent or empty, and no transcript
    LinesOf,   \* the lines a transcript may hold
    MaxLines   \* bound on their number, for each transcript

Files == Mains \cup Subs

Types == {"user", "assistant", "ai-title", "summary", "other", "malformed"}

\* The envelope of a line.  A line that is blank, no JSON or has no type is malformed.
Line == [type : Types,
         message : BOOLEAN,         \* it has a message
         id : Ids \cup {None},      \* of the line for a user, of the message otherwise
         content : SUBSET {"string", "text", "tool_result", "other"},
         tools : SUBSET Tools,      \* its tool_use blocks that have an id
         cwd : Dirs \cup {None},
         agent : Subs \cup {None},
         name : Titles \cup {None},
         ts : Nat]

\* applyLine stores a row for it.
Yields(l) == l.type \in {"user", "assistant"} /\ l.message /\ l.id # None

ASSUME ConstantsOk ==
    /\ Mains \cap Subs = {} /\ None \notin Files
    /\ Parent \in [Subs -> Mains]
    /\ None \notin Ids \cup Dirs \cup Titles
    /\ LinesOf \in [Files -> SUBSET Line]
    /\ \A f, g \in Files : f # g =>
          \A l \in LinesOf[f], k \in LinesOf[g] :
             Yields(l) /\ Yields(k) => l.id # k.id /\ l.tools \cap k.tools = {}
    /\ MaxLines \in [Files -> Nat]

VARIABLES
    onDisk,    \* the transcripts that exist
    disk,      \* the complete lines of each
    known,     \* paths with a scan_state row
    size,      \* its size when the last reading began ...
    offset,    \* ... and the resume offset
    messages,  \* rows of messages
    calls,     \* rows of tool_calls
    sessions,  \* ids in sessions
    title, cwd,\* of each session
    prompts,   \* the messages its user_msg_count stands for
    reading,   \* the transcript whose transaction is open
    stat,      \* its size according to os.Stat
    pos,       \* the lines read so far, with those before the offset
    tx         \* the rows as the transaction has them, and the facts of this batch

diskVars == <<onDisk, disk>>
scanVars == <<known, size, offset>>
rowVars  == <<messages, calls>>
sessVars == <<sessions, title, cwd, prompts>>
readVars == <<reading, stat, pos, tx>>
vars == <<diskVars, scanVars, rowVars, sessVars, readVars>>

\* (Mutant: a subagent's transcript makes a session.)
SessionItself(f) == f

Session(f) == IF f \in Mains THEN f ELSE Parent[f]
Agent(f)   == IF f \in Subs THEN f ELSE None

Message == [id : Ids, file : Files, agent : Subs \cup {None}, role : {"user", "assistant"},
            kind : {"prompt", "tool_result", "mixed", "response"}, ts : Nat]
Call    == [id : Tools, message : Ids, file : Files, agent : Subs \cup {None}, ts : Nat]
NoTx    == [messages |-> {}, calls |-> {}, title |-> None, cwd |-> None]

TypeOK ==
    /\ onDisk \subseteq Files
    /\ disk \in [Files -> Seq(Line)]
    /\ known \subseteq Files
    /\ size \in [Files -> Nat] /\ offset \in [Files -> Nat]
    /\ messages \subseteq Message
    /\ calls \subseteq Call
    /\ sessions \subseteq Mains
    /\ title \in [Mains -> Titles \cup {None}]
    /\ cwd \in [Mains -> Dirs \cup {None}]
    /\ prompts \in [Mains -> SUBSET Ids]
    /\ reading \in Files \cup {None}
    /\ stat \in Nat /\ pos \in Nat
    /\ tx \in [messages : SUBSET Message, calls : SUBSET Call,
               title : Titles \cup {None}, cwd : Dirs \cup {None}]

Init ==
    /\ onDisk = Files
    /\ disk = [f \in Files |-> << >>]
    /\ known = {} /\ size = [f \in Files |-> 0] /\ offset = [f \in Files |-> 0]
    /\ messages = {} /\ calls = {} /\ sessions = {}
    /\ title = [s \in Mains |-> None] /\ cwd = [s \in Mains |-> None]
    /\ prompts = [s \in Mains |-> {}]
    /\ reading = None /\ stat = 0 /\ pos = 0 /\ tx = NoTx

-----------------------------------------------------------------------------
\* The transcripts.

\* It is shorter than the size on record.
Shrunk(f) == f \in known /\ Len(disk[f]) < size[f]

\* A line is added; a rewritten transcript is read before it has grown back
\* (docs/PLAN.md:227-230).
Append1(f, l) ==
    /\ f \in onDisk /\ Len(disk[f]) < MaxLines[f]
    /\ Shrunk(f) => Len(disk[f]) + 1 < size[f]
    /\ disk' = [disk EXCEPT ![f] = Append(@, l)]
    /\ UNCHANGED <<onDisk, scanVars, rowVars, sessVars, readVars>>

\* It is rewritten, from its first line on.
Truncate(f) ==
    /\ f \in onDisk /\ f # reading
    /\ disk[f] # << >>
    /\ f \in known => size[f] > 0
    /\ disk' = [disk EXCEPT ![f] = << >>]
    /\ UNCHANGED <<onDisk, scanVars, rowVars, sessVars, readVars>>

Remove(f) ==
    /\ f \in onDisk /\ f # reading
    /\ onDisk' = onDisk \ {f}
    /\ disk' = [disk EXCEPT ![f] = << >>]
    /\ UNCHANGED <<scanVars, rowVars, sessVars, readVars>>

-----------------------------------------------------------------------------
\* One line.

\* Content.Kind.
Kind(content) ==
    IF "tool_result" \notin content THEN "prompt"
    ELSE IF "text" \in content THEN "mixed" ELSE "tool_result"

\* The agent of a line comes first.
AgentOf(f, l) == IF l.agent # None THEN l.agent ELSE Agent(f)

Row(f, l) ==
    [id |-> l.id, file |-> f, agent |-> AgentOf(f, l), role |-> l.type,
     kind |-> IF l.type = "user" THEN Kind(l.content) ELSE "response", ts |-> l.ts]

CallRow(f, l, t) ==
    [id |-> t, message |-> l.id, file |-> f, agent |-> AgentOf(f, l), ts |-> l.ts]

\* (Mutant: INSERT OR REPLACE.)
ReplaceMessage(rows, r) == {x \in rows : x.id # r.id} \cup {r}

\* INSERT OR IGNORE, here and for the tool calls.
InsertMessage(rows, r) ==
    IF \E x \in rows : x.id = r.id THEN rows ELSE rows \cup {r}

InsertToolCalls(rows, f, l) ==
    rows \cup {CallRow(f, l, t) : t \in {u \in l.tools : \A x \in rows : x.id # u}}

\* (Mutant: a subagent's directory counts.)
LearnFromAll(f, l, facts) ==
    [facts EXCEPT
       !.title = IF f \in Mains /\ l.name # None
                      /\ (l.type = "ai-title" \/ (l.type = "summary" /\ @ = None))
                 THEN l.name ELSE @,
       !.cwd   = IF l.type \in {"user", "assistant"} /\ l.message /\ l.cwd # None
                 THEN l.cwd ELSE @]

\* The facts of a batch: any ai-title, the first summary unless there was a title,
\* the last directory; of main transcripts only.
Learn(f, l, facts) ==
    [facts EXCEPT
       !.title = IF f \in Mains /\ l.name # None
                      /\ (l.type = "ai-title" \/ (l.type = "summary" /\ @ = None))
                 THEN l.name ELSE @,
       !.cwd   = IF f \in Mains /\ l.type \in {"user", "assistant"} /\ l.message /\ l.cwd # None
                 THEN l.cwd ELSE @]

Store(f, l, t) ==
    IF Yields(l)
    THEN [t EXCEPT !.messages = InsertMessage(@, Row(f, l)),
                   !.calls = InsertToolCalls(@, f, l)]
    ELSE t

ApplyLine(f, l, t) == Store(f, l, Learn(f, l, t))

-----------------------------------------------------------------------------
\* One reading: the part of scanTranscript after os.Stat, and jsonl.Scan.

\* DeleteFileRows for a transcript that has shrunk.
Wipe(f) ==
    /\ reading = None /\ f \in onDisk /\ Shrunk(f)
    /\ known' = known \ {f}
    /\ messages' = {r \in messages : r.file # f}
    /\ calls' = {c \in calls : c.file # f}
    /\ size' = [size EXCEPT ![f] = 0] /\ offset' = [offset EXCEPT ![f] = 0]
    /\ UNCHANGED <<diskVars, sessVars, readVars>>

\* The reading starts where the last one ended; a subagent's after its session's.
BeginRead(f) ==
    /\ reading = None /\ f \in onDisk
    /\ f \in Subs => Parent[f] \in onDisk \cap known
    /\ f \in known => Len(disk[f]) > size[f]
    /\ reading' = f /\ stat' = Len(disk[f])
    /\ pos' = IF f \in known THEN offset[f] ELSE 0
    /\ tx' = [NoTx EXCEPT !.messages = messages, !.calls = calls]
    /\ UNCHANGED <<diskVars, scanVars, rowVars, sessVars>>

\* Malformed lines are counted and passed.
ReadLine ==
    /\ reading # None /\ pos < Len(disk[reading])
    /\ pos' = pos + 1
    /\ tx' = IF disk[reading][pos + 1].type = "malformed" THEN tx
             ELSE ApplyLine(reading, disk[reading][pos + 1], tx)
    /\ UNCHANGED <<diskVars, scanVars, rowVars, sessVars, reading, stat>>

\* (Mutant: agents' messages are counted.)
PromptsOfAll(rows, s) ==
    {r.id : r \in {x \in rows : Session(x.file) = s /\ x.role = "user" /\ x.kind = "prompt"}}

\* The typed prompts of the main thread.
Prompts(rows, s) ==
    {r.id : r \in {x \in rows : Session(x.file) = s /\ x.role = "user"
                                /\ x.kind = "prompt" /\ x.agent = None}}

\* COALESCE: a fact that was not seen in this batch stays.
Coalesce(new, old) == IF new # None THEN new ELSE old

\* Of EnsureSession, UpdateSessionFacts and PutScanState, at the end of the file.
Commit ==
    /\ reading # None /\ pos >= Len(disk[reading])
    /\ LET s == Session(reading)
       IN  /\ sessions' = sessions \cup {s}
           /\ title' = [title EXCEPT ![s] = Coalesce(tx.title, @)]
           /\ cwd' = [cwd EXCEPT ![s] = Coalesce(tx.cwd, @)]
           /\ prompts' = [prompts EXCEPT ![s] = Prompts(tx.messages, s)]
    /\ messages' = tx.messages /\ calls' = tx.calls
    /\ known' = known \cup {reading}
    /\ size' = [size EXCEPT ![reading] = stat]
    /\ offset' = [offset EXCEPT ![reading] = pos]
    /\ reading' = None /\ stat' = 0 /\ pos' = 0 /\ tx' = NoTx
    /\ UNCHANGED diskVars

\* A failed read or statement, a cancelled context, a stop of the process.
Rollback ==
    /\ reading # None
    /\ reading' = None /\ stat' = 0 /\ pos' = 0 /\ tx' = NoTx
    /\ UNCHANGED <<diskVars, scanVars, rowVars, sessVars>>

\* PruneMissing at the end of a pass: subagents are listed only with their session, and
\* the row of a session takes those of its messages along.
Unlisted(f) == f \notin onDisk \/ Session(f) \notin onDisk

PruneMissing ==
    LET gone == {f \in known : Unlisted(f)}
    IN  /\ reading = None /\ gone # {}
        /\ known' = known \ gone
        /\ messages' = {r \in messages : r.file \notin gone /\ Session(r.file) \notin gone}
        /\ calls' = {c \in calls : c.file \notin gone /\ Session(c.file) \notin gone}
        /\ sessions' = sessions \ gone
        /\ title' = [s \in Mains |-> IF s \in gone THEN None ELSE title[s]]
        /\ cwd' = [s \in Mains |-> IF s \in gone THEN None ELSE cwd[s]]
        /\ prompts' = [s \in Mains |-> IF s \in gone THEN {} ELSE prompts[s]]
        /\ size' = [f \in Files |-> IF f \in gone THEN 0 ELSE size[f]]
        /\ offset' = [f \in Files |-> IF f \in gone THEN 0 ELSE offset[f]]
        /\ UNCHANGED <<diskVars, readVars>>

-----------------------------------------------------------------------------

Writing ==
    \E f \in Files :
       \/ \E l \in LinesOf[f] : Append1(f, l)
       \/ Truncate(f) \/ Remove(f)

Scanning ==
    \/ \E f \in Files : Wipe(f) \/ BeginRead(f)
    \/ ReadLine \/ Commit \/ Rollback
    \/ PruneMissing

Next == Writing \/ Scanning

Spec == Init /\ [][Next]_vars

-----------------------------------------------------------------------------
\* What must hold.

\* The lines of f that the index stands for, of a content that it has seen.
Consumed(f) == IF f \in known THEN offset[f] ELSE 0

\* The first of the lines that share an id.
FirstLines(ls, n) ==
    {i \in 1..n : Yields(ls[i]) /\ \A j \in 1..i - 1 : Yields(ls[j]) => ls[j].id # ls[i].id}

\* The calls with the line that names each first.
FirstCalls(ls, n) ==
    {c \in (1..n) \X Tools :
        /\ Yields(ls[c[1]]) /\ c[2] \in ls[c[1]].tools
        /\ \A j \in 1..c[1] - 1 : Yields(ls[j]) => c[2] \notin ls[j].tools}

\* The rows that the first n lines ls of f make.
RowsFor(f, ls, n)  == {Row(f, ls[i]) : i \in FirstLines(ls, n)}
CallsFor(f, ls, n) == {CallRow(f, ls[c[1]], c[2]) : c \in FirstCalls(ls, n)}

\* Wherever readings ended or failed: a message has one row, as the first of its lines
\* says, and every tool call of any of its lines has one row; nothing else has any
\* (jsonl.go:9-12, queries_index.go:119-120).
RowsAreFirstLines ==
    \A f \in onDisk : ~Shrunk(f) =>
        /\ {r \in messages : r.file = f} = RowsFor(f, disk[f], Consumed(f))
        /\ {c \in calls : c.file = f} = CallsFor(f, disk[f], Consumed(f))

\* The count of prompts of a session is that of the distinct prompts a person typed in
\* the lines that have been read, whatever its subagents were told.
PromptsExact ==
    \A s \in Mains \cap onDisk \cap known : ~Shrunk(s) =>
        prompts[s] = {disk[s][i].id : i \in
            {j \in FirstLines(disk[s], offset[s]) :
                /\ disk[s][j].type = "user" /\ disk[s][j].agent = None
                /\ "tool_result" \notin disk[s][j].content}}

\* Of the first n lines, those that name a directory, carry an ai-title, or a summary.
DirLines(ls, n) ==
    {i \in 1..n : ls[i].type \in {"user", "assistant"} /\ ls[i].message /\ ls[i].cwd # None}
AiTitles(ls, n)  == {i \in 1..n : ls[i].type = "ai-title" /\ ls[i].name # None}
Summaries(ls, n) == {i \in 1..n : ls[i].type = "summary" /\ ls[i].name # None}

IsLast(i, S) == i \in S /\ \A j \in S : j <= i

\* The title t and the directory c are such as the first n lines give.
FactsOf(ls, n, t, c) ==
    /\ \A i \in DirLines(ls, n) : IsLast(i, DirLines(ls, n)) => c = ls[i].cwd
    /\ AiTitles(ls, n) \cup Summaries(ls, n) # {} =>
          \E i \in AiTitles(ls, n) \cup Summaries(ls, n) :
             /\ t = ls[i].name
             /\ \A j \in AiTitles(ls, n) : j <= i
             /\ Summaries(ls, n) = {} => IsLast(i, AiTitles(ls, n))

\* The directory of a session is the last one its main transcript names; its title is
\* the last ai-title, or a summary after it: which one depends on where readings ended,
\* that no later batch loses it does not.
FactsFollowLines ==
    \A s \in Mains \cap onDisk \cap known :
        ~Shrunk(s) => FactsOf(disk[s], offset[s], title[s], cwd[s])
=============================================================================
