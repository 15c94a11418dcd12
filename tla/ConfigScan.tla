------------------------------ MODULE ConfigScan ------------------------------
(***************************************************************************)
(* What a pass learns beside the transcripts' rows: the real path of each  *)
(* project, what that directory configures, skills, the single-file        *)
(* sources and the prompt history (Scan, scanMeta and scanLiveSessions in  *)
(* internal/indexer/indexer.go, internal/indexer/config.go,                *)
(* internal/store/queries_config.go), against files that change under it.  *)
(*                                                                         *)
(* A transcript is reduced to the working directory its unread lines name: *)
(* once read they are not read again (module TranscriptIndex).  What is    *)
(* read anew in every pass is read and stored in one step; the history,    *)
(* which is gated by a cursor, in three.  Every write gives history.jsonl  *)
(* a new modification time, which also stands for its content.             *)
(***************************************************************************)
EXTENDS Naturals

CONSTANTS
    Projects,     \* directories under projects/, which are always listed
    Transcripts,  \* main transcripts
    ProjectOf,    \* the project of a transcript
    Roots,        \* directories sessions are started in
    Home,         \* the one whose .claude is the directory claudepulse reads
    NoRoot,       \* no directory known, or none named
    InitCwd,      \* what the transcripts name when the program first runs
    Read,         \* all lines of a transcript have been read
    Scopes,       \* settings.json and settings.local.json
    Docs,         \* settings documents, valid and not
    NotJSON,      \* the documents among them that do not parse
    ErrorDoc,     \* what is stored in their place
    Names,        \* skill names
    User,         \* owner of the skills that belong to no project
    Metas,        \* single files kept in the meta table
    Account,      \* the one of them whose row goes with its file
    Tables,       \* sources that fill a table: plugins, plans, live sessions
    History,      \* the prompt history, which comes among the tables
    Values,       \* contents of a source
    Broken,       \* a source that cannot be read or stored
    Absent,       \* no such file, no such row
    MaxTime,      \* bound on writes, faults and restarts
    FaultKinds    \* the faults that may happen

Paths == Roots \X Scopes     \* of settings files
SkillPaths == Roots \X Names
Sources == Metas \cup Tables

ASSUME ConstantsOk ==
    /\ ProjectOf \in [Transcripts -> Projects]
    /\ Home \in Roots /\ NoRoot \notin Roots
    /\ Read \notin Roots \cup {NoRoot}
    /\ InitCwd \in [Transcripts -> Roots \cup {NoRoot}]
    /\ NotJSON \subseteq Docs /\ Absent \notin Docs \cup {ErrorDoc} \cup Values \cup Projects
    /\ User \notin Projects \cup {Absent}
    /\ Account \in Metas /\ Metas \cap Tables = {} /\ History \notin Sources
    /\ Broken \notin Values \cup {Absent}
    /\ MaxTime \in Nat

VARIABLES
    \* The file system.
    now,         \* how many events the outside world has produced
    unread,      \* the directory the unread lines of a transcript name last
    dirs,        \* the roots that exist
    docs,        \* the settings files
    skillFiles,  \* the SKILL.md files
    content,     \* the single-file sources
    hist,        \* history.jsonl
    \* The database.
    sessCwd,     \* sessions.cwd
    realPath,    \* projects.real_path
    exists,      \* the projects with exists_on_disk
    configured,  \* the projects with a project_config row
    config,      \* the skill names in it, for all it says
    snapDoc,     \* settings_snapshots by path: the document,
    snapOwner,   \* and its project
    skillOwner,  \* skills by path: the project, or User
    row,         \* the meta rows and the tables of the sources
    histRows,    \* the content history_entries were read from, 0 for none
    histSeen,    \* there is a scan_state row of history.jsonl
    histCursor,  \* its size and time
    \* The pass.
    pc,          \* where Scan is
    cur,         \* the project whose transcripts are read
    learned,     \* realPath in the loop of Scan
    todo,        \* what the current loop has not come to
    files,       \* transcripts of cur not come to
    histStat,    \* what os.Stat said of history.jsonl
    histRead,    \* the content ReadHistory returned
    failed       \* a configuration transaction of this pass has failed

rootVars == <<dirs, docs, skillFiles>>
diskVars == <<unread, rootVars, content, hist>>
pathVars == <<sessCwd, realPath, exists>>
confVars == <<configured, config, snapDoc, snapOwner>>
histVars == <<histRows, histSeen, histCursor>>
dbVars == <<pathVars, confVars, skillOwner, row, histVars>>
readVars == <<cur, learned, files>>
handVars == <<histStat, histRead>>
passVars == <<pc, readVars, todo, handVars, failed>>
vars == <<now, diskVars, dbVars, passVars>>

FileStat == [size : Nat, mtime : Nat]
NoStat == [size |-> 0, mtime |-> 0]

FilesOK ==
    /\ now \in Nat
    /\ unread \in [Transcripts -> Roots \cup {NoRoot, Read}]
    /\ dirs \subseteq Roots
    /\ docs \in [Paths -> Docs \cup {Absent}]
    /\ skillFiles \subseteq SkillPaths
    /\ content \in [Sources -> Values \cup {Absent, Broken}]
    /\ hist \in [here : BOOLEAN, size : Nat, mtime : Nat]

RowsOK ==
    /\ sessCwd \in [Transcripts -> Roots \cup {NoRoot}]
    /\ realPath \in [Projects -> Roots \cup {NoRoot}]
    /\ exists \subseteq Projects
    /\ configured \subseteq Projects
    /\ config \in [Projects -> SUBSET Names]
    /\ snapDoc \in [Paths -> Docs \cup {ErrorDoc, Absent}]
    /\ snapOwner \in [Paths -> Projects \cup {Absent}]
    /\ \A k \in Paths : snapDoc[k] = Absent <=> snapOwner[k] = Absent
    /\ skillOwner \in [SkillPaths -> Projects \cup {User, Absent}]
    /\ row \in [Sources -> Values \cup {Absent}]
    /\ histRows \in Nat /\ histSeen \in BOOLEAN /\ histCursor \in FileStat

PassOK ==
    /\ pc \in {"idle", "list", "files", "meta", "projects", "skills", "tables",
               "hread", "hstore", "done"}
    /\ cur \in Projects \cup {NoRoot}
    /\ pc = "files" => cur \in Projects
    /\ learned \in Roots \cup {NoRoot}
    /\ todo \subseteq Projects \cup Sources \cup {History}
    /\ pc \in {"list", "files", "projects"} => todo \subseteq Projects
    /\ pc = "meta" => todo \subseteq Metas
    /\ pc \in {"tables", "hread", "hstore"} => todo \subseteq Tables \cup {History}
    /\ files \subseteq Transcripts
    /\ histStat \in FileStat /\ histRead \in Nat
    /\ failed \in BOOLEAN

TypeOK == FilesOK /\ RowsOK /\ PassOK

Init ==
    /\ now = 0
    /\ unread = InitCwd
    /\ dirs = Roots
    /\ docs = [k \in Paths |-> Absent]
    /\ skillFiles = {}
    /\ content = [s \in Sources |-> Absent]
    /\ hist = [here |-> FALSE, size |-> 0, mtime |-> 0]
    /\ sessCwd = [t \in Transcripts |-> NoRoot]
    /\ realPath = [p \in Projects |-> NoRoot]
    /\ exists = {}
    /\ configured = {} /\ config = [p \in Projects |-> {}]
    /\ snapDoc = [k \in Paths |-> Absent] /\ snapOwner = [k \in Paths |-> Absent]
    /\ skillOwner = [k \in SkillPaths |-> Absent]
    /\ row = [s \in Sources |-> Absent]
    /\ histRows = 0 /\ histSeen = FALSE /\ histCursor = NoStat
    /\ pc = "idle"
    /\ cur = NoRoot /\ learned = NoRoot /\ todo = {} /\ files = {}
    /\ histStat = NoStat /\ histRead = 0
    /\ failed = FALSE

Tick == now < MaxTime /\ now' = now + 1
Fault(kind) == kind \in FaultKinds /\ Tick

-----------------------------------------------------------------------------
\* Claude Code and the user.

\* New lines, which name directory c or none.
AppendLines(t, c) ==
    /\ Tick
    /\ unread' = [unread EXCEPT ![t] = IF c = NoRoot /\ @ \in Roots THEN @ ELSE c]
    /\ UNCHANGED <<rootVars, content, hist, dbVars, passVars>>

PutDoc(k, d) ==
    /\ k[1] \in dirs /\ docs[k] # d
    /\ Tick
    /\ docs' = [docs EXCEPT ![k] = d]
    /\ UNCHANGED <<unread, dirs, skillFiles, content, hist, dbVars, passVars>>

PutSkill(k) ==
    /\ k[1] \in dirs
    /\ Tick
    /\ skillFiles' = IF k \in skillFiles THEN skillFiles \ {k} ELSE skillFiles \cup {k}
    /\ UNCHANGED <<unread, dirs, docs, content, hist, dbVars, passVars>>

MakeRoot(r) ==
    /\ r \notin dirs
    /\ Tick
    /\ dirs' = dirs \cup {r}
    /\ UNCHANGED <<unread, docs, skillFiles, content, hist, dbVars, passVars>>

RemoveRoot(r) ==
    /\ r \in dirs \ {Home}
    /\ Tick
    /\ dirs' = dirs \ {r}
    /\ docs' = [k \in Paths |-> IF k[1] = r THEN Absent ELSE docs[k]]
    /\ skillFiles' = {k \in skillFiles : k[1] # r}
    /\ UNCHANGED <<unread, content, hist, dbVars, passVars>>

PutSource(s, v) ==
    /\ content[s] # v
    /\ Tick
    /\ content' = [content EXCEPT ![s] = v]
    /\ UNCHANGED <<unread, rootVars, hist, dbVars, passVars>>

\* history.jsonl grows, or is rewritten, here with the same number of bytes.
WriteHistory ==
    /\ Tick
    /\ \E n \in {hist.size, hist.size + 1} :
          hist' = [here |-> TRUE, size |-> n, mtime |-> now + 1]
    /\ UNCHANGED <<unread, rootVars, content, dbVars, passVars>>

RemoveHistory ==
    /\ hist.here
    /\ Tick
    /\ hist' = [hist EXCEPT !.here = FALSE]
    /\ UNCHANGED <<unread, rootVars, content, dbVars, passVars>>

World ==
    \/ \E t \in Transcripts, c \in Roots \cup {NoRoot} : AppendLines(t, c)
    \/ \E k \in Paths, d \in Docs \cup {Absent} : PutDoc(k, d)
    \/ \E k \in SkillPaths : PutSkill(k)
    \/ \E r \in Roots : MakeRoot(r) \/ RemoveRoot(r)
    \/ \E s \in Sources, v \in Values \cup {Absent, Broken} : PutSource(s, v)
    \/ WriteHistory
    \/ RemoveHistory

-----------------------------------------------------------------------------
\* The loop over the projects.

EndPass(outcome) ==
    /\ pc' = outcome
    /\ cur' = NoRoot /\ learned' = NoRoot /\ todo' = {} /\ files' = {}
    /\ histStat' = NoStat /\ histRead' = 0

ListProjects ==
    /\ pc \in {"idle", "done"}
    /\ pc' = "list"
    /\ todo' = Projects
    /\ failed' = FALSE
    /\ UNCHANGED <<now, diskVars, dbVars, readVars, handVars>>

ListProjectsFails ==
    /\ pc \in {"idle", "done"}
    /\ Fault("list")
    /\ EndPass("idle")
    /\ UNCHANGED <<diskVars, dbVars, failed>>

OpenProject(p) ==
    /\ pc = "list" /\ p \in todo
    /\ pc' = "files"
    /\ todo' = todo \ {p}
    /\ cur' = p
    /\ learned' = NoRoot
    /\ files' = {t \in Transcripts : ProjectOf[t] = p}
    /\ UNCHANGED <<now, diskVars, dbVars, handVars, failed>>

\* Only what is read in this pass can name the real path; the last one read wins.
ReadTranscript(t) ==
    /\ pc = "files" /\ t \in files
    /\ files' = files \ {t}
    /\ unread' = [unread EXCEPT ![t] = Read]
    /\ IF unread[t] \in Roots
       THEN /\ learned' = unread[t]
            /\ sessCwd' = [sessCwd EXCEPT ![t] = unread[t]]
       ELSE UNCHANGED <<learned, sessCwd>>
    /\ UNCHANGED <<now, rootVars, content, hist, realPath, exists, confVars, skillOwner, row,
                   histVars, pc, cur, todo, handVars, failed>>

\* A transcript that cannot be read is left for the next pass.
TranscriptFails(t) ==
    /\ pc = "files" /\ t \in files /\ unread[t] # Read
    /\ Fault("file")
    /\ files' = files \ {t}
    /\ UNCHANGED <<diskVars, dbVars, pc, cur, learned, todo, handVars, failed>>

\* (Mutant: without a changed transcript no path is known.)
OnlyLearned(p) == learned

\* The path this pass has learned, or else the one on record.
PathOf(p) == IF learned # NoRoot THEN learned ELSE realPath[p]

\* ProjectRealPath, projectMeta and UpdateProjectMeta.
UpdateProject ==
    /\ pc = "files" /\ files = {}
    /\ LET r == PathOf(cur)
       IN  /\ realPath' = [realPath EXCEPT ![cur] = IF r # NoRoot THEN r ELSE @]
           /\ exists' = IF r \in dirs THEN exists \cup {cur} ELSE exists \ {cur}
    /\ pc' = "list"
    /\ cur' = NoRoot
    /\ UNCHANGED <<now, diskVars, sessCwd, confVars, skillOwner, row, histVars, learned, todo,
                   files, handVars, failed>>

\* Pruning and rollups, then scanMeta.
AllRead ==
    /\ pc = "list" /\ todo = {}
    /\ pc' = "meta"
    /\ todo' = Metas
    /\ UNCHANGED <<now, diskVars, dbVars, readVars, handVars, failed>>

-----------------------------------------------------------------------------
\* The sources that are read anew in every pass.

\* (Mutant: a file that cannot be read is not told from its content.)
RefreshedBlindly(s) ==
    IF content[s] = Absent /\ s \in Metas \ {Account} THEN row[s] ELSE content[s]

\* The row a source leaves: a file that cannot be read changes nothing; a missing
\* file empties a table and removes the account, other meta rows stay.
Refreshed(s) ==
    IF content[s] = Broken \/ (content[s] = Absent /\ s \in Metas \ {Account})
    THEN row[s] ELSE content[s]

Refresh(s) ==
    /\ s \in todo \cap Sources
    /\ row' = [row EXCEPT ![s] = Refreshed(s)]
    /\ todo' = todo \ {s}
    /\ UNCHANGED <<now, diskVars, pathVars, confVars, skillOwner, histVars, pc, readVars,
                   handVars, failed>>

RefreshMeta(s) == pc = "meta" /\ Refresh(s)

RefreshTable(s) == pc = "tables" /\ Refresh(s)

\* A row that cannot be written ends scanMeta, which is only logged; the rest of
\* its sources wait for the next pass.
MetaFails ==
    /\ pc = "meta" /\ todo # {}
    /\ Fault("db")
    /\ todo' = {}
    /\ UNCHANGED <<diskVars, dbVars, pc, readVars, handVars, failed>>

\* A table that cannot be written keeps its rows.
TableFails(s) ==
    /\ pc = "tables" /\ s \in todo
    /\ Fault("db")
    /\ todo' = todo \ {s}
    /\ UNCHANGED <<diskVars, dbVars, pc, readVars, handVars, failed>>

MetaEnds ==
    /\ pc = "meta" /\ todo = {}
    /\ pc' = "projects"
    /\ todo' = Projects
    /\ UNCHANGED <<now, diskVars, dbVars, readVars, handVars, failed>>

-----------------------------------------------------------------------------
\* scanProjectConfigs.

Captured(d) == IF d \in NotJSON THEN ErrorDoc ELSE d

NamesUnder(r) == {n \in Names : <<r, n>> \in skillFiles}

\* (Mutant: the rows of an earlier scan are not deleted.)
AddSkills(owner, K) ==
    skillOwner' = [k \in SkillPaths |-> IF k \in K THEN owner ELSE skillOwner[k]]

\* ReplaceSkills: the owner's rows are deleted, then a row is put at every path of
\* K, whoever had one there.
ReplaceSkills(owner, K) ==
    skillOwner' = [k \in SkillPaths |->
        IF k \in K THEN owner ELSE IF skillOwner[k] = owner THEN Absent ELSE skillOwner[k]]

\* The project's directory is known and there: one transaction stores what it holds.
CaptureConfig(p) ==
    /\ pc = "projects" /\ p \in todo
    /\ realPath[p] \in dirs
    /\ LET r == realPath[p]
       IN  /\ configured' = configured \cup {p}
           /\ config' = [config EXCEPT ![p] = NamesUnder(r)]
           /\ snapDoc' = [k \in Paths |-> IF k[1] = r THEN Captured(docs[k]) ELSE snapDoc[k]]
           /\ snapOwner' = [k \in Paths |-> IF k[1] # r THEN snapOwner[k]
                                            ELSE IF docs[k] = Absent THEN Absent ELSE p]
           /\ ReplaceSkills(p, {k \in skillFiles : k[1] = r})
    /\ todo' = todo \ {p}
    /\ UNCHANGED <<now, diskVars, pathVars, row, histVars, pc, readVars, handVars, failed>>

\* The directory is gone: DeleteProjectConfig.
DropConfig(p) ==
    /\ pc = "projects" /\ p \in todo
    /\ realPath[p] \in Roots \ dirs
    /\ configured' = configured \ {p}
    /\ config' = [config EXCEPT ![p] = {}]
    /\ snapDoc' = [k \in Paths |-> IF snapOwner[k] = p THEN Absent ELSE snapDoc[k]]
    /\ snapOwner' = [k \in Paths |-> IF snapOwner[k] = p THEN Absent ELSE snapOwner[k]]
    /\ ReplaceSkills(p, {})
    /\ todo' = todo \ {p}
    /\ UNCHANGED <<now, diskVars, pathVars, row, histVars, pc, readVars, handVars, failed>>

\* No directory known: the project is passed over.
SkipConfig(p) ==
    /\ pc = "projects" /\ p \in todo
    /\ realPath[p] = NoRoot
    /\ todo' = todo \ {p}
    /\ UNCHANGED <<now, diskVars, dbVars, pc, readVars, handVars, failed>>

\* A transaction that fails ends the loop over the projects.
ConfigFails ==
    /\ pc = "projects" /\ todo # {}
    /\ Fault("db")
    /\ todo' = {}
    /\ failed' = TRUE
    /\ UNCHANGED <<diskVars, dbVars, pc, readVars, handVars>>

ConfigEnds ==
    /\ pc = "projects" /\ todo = {}
    /\ pc' = "skills"
    /\ UNCHANGED <<now, diskVars, dbVars, readVars, todo, handVars, failed>>

\* scanSkills comes after the projects: a project whose root is Home has put its
\* own rows at the paths of the user's skills.
ScanSkills ==
    /\ pc = "skills"
    /\ ReplaceSkills(User, {k \in skillFiles : k[1] = Home})
    /\ pc' = "tables"
    /\ todo' = Tables \cup {History}
    /\ UNCHANGED <<now, diskVars, pathVars, confVars, row, histVars, readVars, handVars, failed>>

ScanSkillsFails ==
    /\ pc = "skills"
    /\ Fault("db")
    /\ pc' = "tables"
    /\ todo' = Tables \cup {History}
    /\ UNCHANGED <<diskVars, dbVars, readVars, handVars, failed>>

-----------------------------------------------------------------------------
\* scanHistory.

SkipHistory ==
    /\ pc = "tables" /\ History \in todo
    /\ \/ ~hist.here
       \/ /\ histSeen
          /\ hist.size = histCursor.size /\ hist.mtime = histCursor.mtime
    /\ todo' = todo \ {History}
    /\ UNCHANGED <<now, diskVars, dbVars, pc, readVars, handVars, failed>>

StatHistory ==
    /\ pc = "tables" /\ History \in todo
    /\ hist.here
    /\ ~histSeen \/ hist.size # histCursor.size \/ hist.mtime # histCursor.mtime
    /\ pc' = "hread"
    /\ todo' = todo \ {History}
    /\ histStat' = [size |-> hist.size, mtime |-> hist.mtime]
    /\ UNCHANGED <<now, diskVars, dbVars, readVars, histRead, failed>>

\* A file that is gone by now reads as an empty one.
ReadHistory ==
    /\ pc = "hread"
    /\ pc' = "hstore"
    /\ histRead' = IF hist.here THEN hist.mtime ELSE 0
    /\ UNCHANGED <<now, diskVars, dbVars, readVars, todo, histStat, failed>>

\* (Mutant: the file is measured again when its rows are stored.)
StoreHistoryLate ==
    /\ pc = "hstore"
    /\ pc' = "tables"
    /\ histRows' = histRead /\ histSeen' = TRUE
    /\ histCursor' = [size |-> hist.size, mtime |-> hist.mtime]
    /\ histStat' = NoStat /\ histRead' = 0
    /\ UNCHANGED <<now, diskVars, pathVars, confVars, skillOwner, row, readVars, todo, failed>>

\* ReplaceHistory: the rows and the cursor of the file as it was measured.
StoreHistory ==
    /\ pc = "hstore"
    /\ pc' = "tables"
    /\ histRows' = histRead /\ histSeen' = TRUE
    /\ histCursor' = histStat
    /\ histStat' = NoStat /\ histRead' = 0
    /\ UNCHANGED <<now, diskVars, pathVars, confVars, skillOwner, row, readVars, todo, failed>>

HistoryFails ==
    /\ pc \in {"hread", "hstore"}
    /\ Fault("db")
    /\ pc' = "tables"
    /\ histStat' = NoStat /\ histRead' = 0
    /\ UNCHANGED <<diskVars, dbVars, readVars, todo, failed>>

PassEnds ==
    /\ pc = "tables" /\ todo = {}
    /\ EndPass("done")
    /\ UNCHANGED <<now, diskVars, dbVars, failed>>

\* The process stops, ctx is done, or an error ends the pass: what was learned and
\* not stored is lost.
Interrupted ==
    /\ pc \notin {"idle", "done"}
    /\ Fault("stop")
    /\ EndPass("idle")
    /\ UNCHANGED <<diskVars, dbVars, failed>>

ScanStep ==
    \/ ListProjects
    \/ \E p \in Projects : OpenProject(p)
    \/ \E t \in Transcripts : ReadTranscript(t)
    \/ UpdateProject
    \/ AllRead
    \/ \E s \in Sources : RefreshMeta(s) \/ RefreshTable(s)
    \/ MetaEnds
    \/ \E p \in Projects : CaptureConfig(p) \/ DropConfig(p) \/ SkipConfig(p)
    \/ ConfigEnds
    \/ ScanSkills
    \/ SkipHistory \/ StatHistory \/ ReadHistory \/ StoreHistory
    \/ PassEnds

ScanFault ==
    \/ ListProjectsFails
    \/ \E t \in Transcripts : TranscriptFails(t)
    \/ MetaFails
    \/ \E s \in Sources \cup {History} : TableFails(s)
    \/ ConfigFails
    \/ ScanSkillsFails
    \/ HistoryFails
    \/ Interrupted

Next == World \/ ScanStep \/ ScanFault

Spec == Init /\ [][Next]_vars

\* Run begins a pass at least at every tick, and a pass goes on.
FairSpec == Spec /\ WF_vars(ScanStep)

-----------------------------------------------------------------------------
\* What must hold.

\* As long as history.jsonl is the file its cursor tells of, the rows are those of
\* its content: otherwise the gate of scanHistory would hide what was written
\* between os.Stat, the reading and the transaction, for good.
HistoryMatchesCursor ==
    hist.here /\ histSeen /\ histCursor = [size |-> hist.size, mtime |-> hist.mtime]
        => histRows = hist.mtime

\* After a pass without a failed configuration transaction, a project's skills
\* are under its present real path, whatever paths it had in earlier passes and
\* whoever shares them.
SkillsUnderRoot ==
    pc = "done" /\ ~failed =>
        \A k \in SkillPaths :
            skillOwner[k] \in Projects => realPath[skillOwner[k]] = k[1]

\* A project has a real path when one of its sessions on record has a directory.
PathKnown ==
    pc = "done" =>
        \A t \in Transcripts : sessCwd[t] # NoRoot => realPath[ProjectOf[t]] # NoRoot

\* A project's rows are those of the directory on record.
ProjectMirrored(p) ==
    LET r == realPath[p]
    IN  /\ p \in exists <=> r \in dirs
        /\ p \in configured <=> r \in dirs
        /\ r \in dirs => /\ config[p] = NamesUnder(r)
                         /\ \A s \in Scopes : snapDoc[<<r, s>>] = Captured(docs[<<r, s>>])
                         /\ \A n \in Names : <<r, n>> \in skillFiles <=> skillOwner[<<r, n>>] # Absent
        /\ r \notin dirs => \A k \in Paths : snapOwner[k] # p

Mirrored ==
    /\ \A p \in Projects : ProjectMirrored(p)
    /\ \A n \in Names : <<Home, n>> \in skillFiles <=> skillOwner[<<Home, n>>] # Absent
    /\ pc = "done" => \A n \in Names : skillOwner[<<Home, n>>] \in {User, Absent}
    /\ \A s \in Sources : row[s] = Refreshed(s)
    /\ hist.here => histRows = hist.mtime

\* Once files and faults come to rest, every row comes to agree with the files, and
\* stays so: projects with the directory on record, and at the end of each pass the
\* user's skills with the user as their owner, also when a project lives in Home
\* (within a pass they are the project's for a moment).
Converges == <>[]Mirrored
=============================================================================
