-------------------------- MODULE ConfigScan_proofs --------------------------
(***************************************************************************)
(* Proofs about ConfigScan, for any projects, directories, files and any   *)
(* number of writes and faults.                                            *)
(***************************************************************************)
EXTENDS ConfigScan, TLAPS

\* No modification time lies in the future; what ReadHistory returned is the content
\* of the file that was measured, unless that file has changed since.
HistInv ==
    /\ hist.mtime <= now /\ histCursor.mtime <= now /\ histStat.mtime <= now
    /\ pc = "hstore" /\ hist.here /\ hist.mtime = histStat.mtime => histRead = hist.mtime
    /\ hist.here /\ histSeen /\ hist.mtime = histCursor.mtime => histRows = hist.mtime

\* A project that owns a skill has a real path; once scanProjectConfigs has come to
\* the project, its skills are under that path.
ConfigBegun == pc \in {"projects", "skills", "tables", "hread", "hstore", "done"}

SkillInv ==
    /\ \A k \in SkillPaths : skillOwner[k] \in Projects => realPath[skillOwner[k]] \in Roots
    /\ ConfigBegun /\ ~failed =>
          \A k \in SkillPaths : skillOwner[k] \in Projects =>
              \/ realPath[skillOwner[k]] = k[1]
              \/ pc = "projects" /\ skillOwner[k] \in todo

IndInv == TypeOK /\ HistInv /\ SkillInv

-----------------------------------------------------------------------------
\* Types.

LEMMA InitInd == Init => IndInv
<1> SUFFICES ASSUME Init PROVE IndInv
  OBVIOUS
<1>1. FilesOK
  BY ConstantsOk DEF ConstantsOk, Init, FilesOK, Sources, Paths
<1>2. RowsOK
  BY ConstantsOk DEF ConstantsOk, Init, RowsOK, Sources, NoStat, FileStat
<1>3. PassOK
  BY DEF Init, PassOK, NoStat, FileStat
<1>4. HistInv
  BY DEF Init, HistInv, NoStat
<1>5. SkillInv
  BY ConstantsOk DEF ConstantsOk, Init, SkillInv, ConfigBegun
<1>6. QED
  BY <1>1, <1>2, <1>3, <1>4, <1>5 DEF IndInv, TypeOK

\* What a step of Next may be, grouped by what it writes.
LEMMA WorldFiles == FilesOK /\ World => FilesOK'
<1> SUFFICES ASSUME FilesOK, World PROVE FilesOK'
  OBVIOUS
<1>1. ASSUME NEW t \in Transcripts, NEW c \in Roots \cup {NoRoot}, AppendLines(t, c) PROVE FilesOK'
  BY <1>1 DEF AppendLines, Tick, FilesOK, rootVars
<1>2. ASSUME NEW k \in Paths, NEW d \in Docs \cup {Absent}, PutDoc(k, d) PROVE FilesOK'
  BY <1>2 DEF PutDoc, Tick, FilesOK
<1>3. ASSUME NEW k \in SkillPaths, PutSkill(k) PROVE FilesOK'
  BY <1>3 DEF PutSkill, Tick, FilesOK
<1>4. ASSUME NEW r \in Roots, MakeRoot(r) \/ RemoveRoot(r) PROVE FilesOK'
  BY <1>4 DEF MakeRoot, RemoveRoot, Tick, FilesOK
<1>5. ASSUME NEW s \in Sources, NEW v \in Values \cup {Absent, Broken}, PutSource(s, v) PROVE FilesOK'
  BY <1>5 DEF PutSource, Tick, FilesOK, rootVars
<1>6. ASSUME WriteHistory PROVE FilesOK'
  BY <1>6 DEF WriteHistory, Tick, FilesOK, rootVars
<1>7. ASSUME RemoveHistory PROVE FilesOK'
  <2>1. hist' \in [here : BOOLEAN, size : Nat, mtime : Nat]
    BY <1>7 DEF RemoveHistory, FilesOK
  <2>2. now' \in Nat /\ UNCHANGED <<unread, dirs, docs, skillFiles, content>>
    BY <1>7 DEF RemoveHistory, Tick, FilesOK, rootVars
  <2>3. QED
    BY <2>1, <2>2 DEF FilesOK
<1>8. QED
  BY <1>1, <1>2, <1>3, <1>4, <1>5, <1>6, <1>7 DEF World
\* A write gives history.jsonl a time nothing has seen, and touches neither the
\* database nor the pass.
LEMMA WorldInd == IndInv /\ World => IndInv'
<1> SUFFICES ASSUME IndInv, World PROVE IndInv'
  OBVIOUS
<1>1. FilesOK'
  BY WorldFiles DEF IndInv, TypeOK
<1>2. UNCHANGED <<dbVars, passVars>>
  BY DEF World, AppendLines, PutDoc, PutSkill, MakeRoot, RemoveRoot, PutSource, WriteHistory,
         RemoveHistory
<1>3. RowsOK' /\ PassOK' /\ SkillInv'
  BY <1>2 DEF IndInv, TypeOK, RowsOK, PassOK, SkillInv, ConfigBegun, dbVars, pathVars, confVars,
              histVars, passVars, readVars, handVars
<1>4. now \in Nat /\ now' = now + 1
  BY DEF World, AppendLines, PutDoc, PutSkill, MakeRoot, RemoveRoot, PutSource, WriteHistory,
         RemoveHistory, Tick, IndInv, TypeOK, FilesOK
<1>5. \/ hist' = hist
      \/ hist'.mtime = now + 1
      \/ hist'.mtime = hist.mtime /\ ~hist'.here
  BY DEF World, AppendLines, PutDoc, PutSkill, MakeRoot, RemoveRoot, PutSource, WriteHistory,
         RemoveHistory, IndInv, TypeOK, FilesOK
<1>6. HistInv'
  <2>1. UNCHANGED <<pc, histRows, histSeen, histCursor, histStat, histRead>>
    BY <1>2 DEF dbVars, histVars, passVars, handVars
  <2>2. hist.mtime \in Nat /\ histCursor.mtime \in Nat /\ histStat.mtime \in Nat
    BY DEF IndInv, TypeOK, FilesOK, RowsOK, PassOK, FileStat
  <2>3. QED
    BY <1>4, <1>5, <2>1, <2>2 DEF IndInv, HistInv
<1>7. QED
  BY <1>1, <1>3, <1>6 DEF IndInv, TypeOK

-----------------------------------------------------------------------------
\* A step of a pass leaves the files alone, but for the lines it has read.
LEMMA ScanFiles == FilesOK /\ (ScanStep \/ ScanFault) => FilesOK' /\ hist' = hist /\ now' >= now
<1> SUFFICES ASSUME FilesOK, ScanStep \/ ScanFault PROVE FilesOK' /\ hist' = hist /\ now' >= now
  OBVIOUS
<1>1. ASSUME NEW t \in Transcripts, ReadTranscript(t) PROVE FilesOK' /\ hist' = hist /\ now' >= now
  BY <1>1 DEF ReadTranscript, FilesOK, rootVars
<1>2. ASSUME UNCHANGED diskVars, now' = now \/ now' = now + 1
      PROVE  FilesOK' /\ hist' = hist /\ now' >= now
  BY <1>2 DEF FilesOK, diskVars, rootVars
<1>3. CASE ScanFault
  BY <1>2, <1>3 DEF ScanFault, ListProjectsFails, TranscriptFails, MetaFails, TableFails,
     ConfigFails, ScanSkillsFails, HistoryFails, Interrupted, Fault, Tick
<1>4. CASE ScanStep
  <2>1. CASE \E t \in Transcripts : ReadTranscript(t)
    BY <1>1, <2>1
  <2>2. CASE ~\E t \in Transcripts : ReadTranscript(t)
    BY <1>2, <1>4, <2>2 DEF ScanStep, ListProjects, OpenProject, UpdateProject, AllRead,
       RefreshMeta, RefreshTable, Refresh, MetaEnds, CaptureConfig, DropConfig, SkipConfig,
       ConfigEnds, ScanSkills, SkipHistory, StatHistory, ReadHistory, StoreHistory, PassEnds
  <2>3. QED
    BY <2>1, <2>2
<1>5. QED
  BY <1>3, <1>4

LEMMA ReplaceType ==
    ASSUME NEW owner \in Projects \cup {User}, NEW K \in SUBSET SkillPaths, ReplaceSkills(owner, K),
           skillOwner \in [SkillPaths -> Projects \cup {User, Absent}]
    PROVE  skillOwner' \in [SkillPaths -> Projects \cup {User, Absent}]
BY DEF ReplaceSkills

\* One step per action; the loops hand on only what they have been given.
LEMMA StepType == TypeOK /\ ScanStep => RowsOK' /\ PassOK'
<1> SUFFICES ASSUME TypeOK, ScanStep PROVE RowsOK' /\ PassOK'
  OBVIOUS
<1>1. CASE ListProjects
  BY <1>1 DEF ListProjects, TypeOK, RowsOK, PassOK, dbVars, pathVars, confVars, histVars, readVars, handVars
<1>2. ASSUME NEW p \in Projects, OpenProject(p) PROVE RowsOK' /\ PassOK'
  BY <1>2 DEF OpenProject, TypeOK, RowsOK, PassOK, dbVars, pathVars, confVars, histVars, handVars
<1>3. ASSUME NEW t \in Transcripts, ReadTranscript(t) PROVE RowsOK' /\ PassOK'
  BY <1>3 DEF ReadTranscript, TypeOK, RowsOK, PassOK, confVars, histVars, handVars
<1>4. CASE UpdateProject
  <2>1. PathOf(cur) \in Roots \cup {NoRoot} /\ cur \in Projects
    BY <1>4 DEF UpdateProject, PathOf, TypeOK, RowsOK, PassOK
  <2>2. realPath' \in [Projects -> Roots \cup {NoRoot}] /\ exists' \subseteq Projects
    BY <1>4, <2>1 DEF UpdateProject, TypeOK, RowsOK
  <2>3. RowsOK'
    BY <1>4, <2>2 DEF UpdateProject, TypeOK, RowsOK, confVars, histVars
  <2>4. PassOK'
    BY <1>4 DEF UpdateProject, TypeOK, PassOK, handVars
  <2>5. QED
    BY <2>3, <2>4
<1>5. CASE AllRead
  BY <1>5 DEF AllRead, TypeOK, RowsOK, PassOK, dbVars, pathVars, confVars, histVars, readVars, handVars, Sources
<1>6. ASSUME NEW s \in Sources, RefreshMeta(s) \/ RefreshTable(s) PROVE RowsOK' /\ PassOK'
  <2>1. Refreshed(s) \in Values \cup {Absent}
    BY DEF Refreshed, TypeOK, FilesOK, RowsOK
  <2>2. row' \in [Sources -> Values \cup {Absent}] /\ todo' \subseteq todo
    BY <1>6, <2>1 DEF RefreshMeta, RefreshTable, Refresh, TypeOK, RowsOK
  <2>3. RowsOK'
    BY <1>6, <2>2 DEF RefreshMeta, RefreshTable, Refresh, TypeOK, RowsOK, pathVars, confVars, histVars
  <2>4. PassOK'
    BY <1>6, <2>2 DEF RefreshMeta, RefreshTable, Refresh, TypeOK, PassOK, readVars, handVars
  <2>5. QED
    BY <2>3, <2>4
<1>7. CASE MetaEnds
  BY <1>7 DEF MetaEnds, TypeOK, RowsOK, PassOK, dbVars, pathVars, confVars, histVars, readVars, handVars
<1>8. ASSUME NEW p \in Projects, CaptureConfig(p) PROVE RowsOK' /\ PassOK'
  <2> DEFINE r == realPath[p]
  <2>1. config' \in [Projects -> SUBSET Names] /\ configured' \subseteq Projects
    BY <1>8 DEF CaptureConfig, NamesUnder, TypeOK, RowsOK
  <2>2. \A k \in Paths : Captured(docs[k]) \in Docs \cup {ErrorDoc, Absent}
                        /\ (Captured(docs[k]) = Absent <=> docs[k] = Absent)
    BY ConstantsOk DEF ConstantsOk, Captured, TypeOK, FilesOK
  <2>3. /\ snapDoc' \in [Paths -> Docs \cup {ErrorDoc, Absent}]
        /\ snapOwner' \in [Paths -> Projects \cup {Absent}]
        /\ \A k \in Paths : snapDoc'[k] = Absent <=> snapOwner'[k] = Absent
    BY <1>8, <2>2, ConstantsOk DEF ConstantsOk, CaptureConfig, TypeOK, RowsOK
  <2>4. skillOwner' \in [SkillPaths -> Projects \cup {User, Absent}]
    BY <1>8, ReplaceType DEF CaptureConfig, TypeOK, RowsOK, FilesOK
  <2>5. RowsOK'
    BY <1>8, <2>1, <2>3, <2>4 DEF CaptureConfig, TypeOK, RowsOK, pathVars, histVars
  <2>6. PassOK'
    BY <1>8 DEF CaptureConfig, TypeOK, PassOK, readVars, handVars
  <2>7. QED
    BY <2>5, <2>6
<1>9. ASSUME NEW p \in Projects, DropConfig(p) PROVE RowsOK' /\ PassOK'
  <2>1. config' \in [Projects -> SUBSET Names] /\ configured' \subseteq Projects
    BY <1>9 DEF DropConfig, TypeOK, RowsOK
  <2>2. /\ snapDoc' \in [Paths -> Docs \cup {ErrorDoc, Absent}]
        /\ snapOwner' \in [Paths -> Projects \cup {Absent}]
        /\ \A k \in Paths : snapDoc'[k] = Absent <=> snapOwner'[k] = Absent
    BY <1>9 DEF DropConfig, TypeOK, RowsOK
  <2>3. skillOwner' \in [SkillPaths -> Projects \cup {User, Absent}]
    BY <1>9, ReplaceType DEF DropConfig, TypeOK, RowsOK
  <2>4. RowsOK'
    BY <1>9, <2>1, <2>2, <2>3 DEF DropConfig, TypeOK, RowsOK, pathVars, histVars
  <2>5. PassOK'
    BY <1>9 DEF DropConfig, TypeOK, PassOK, readVars, handVars
  <2>6. QED
    BY <2>4, <2>5
<1>10. ASSUME NEW p \in Projects, SkipConfig(p) PROVE RowsOK' /\ PassOK'
  BY <1>10 DEF SkipConfig, TypeOK, RowsOK, PassOK, dbVars, pathVars, confVars, histVars, readVars, handVars
<1>11. CASE ConfigEnds
  BY <1>11 DEF ConfigEnds, TypeOK, RowsOK, PassOK, dbVars, pathVars, confVars, histVars, readVars, handVars
<1>12. CASE ScanSkills
  <2>1. skillOwner' \in [SkillPaths -> Projects \cup {User, Absent}]
    BY <1>12, ReplaceType DEF ScanSkills, TypeOK, RowsOK, FilesOK
  <2>2. RowsOK'
    BY <1>12, <2>1 DEF ScanSkills, TypeOK, RowsOK, pathVars, confVars, histVars
  <2>3. PassOK'
    BY <1>12 DEF ScanSkills, TypeOK, PassOK, readVars, handVars, Sources
  <2>4. QED
    BY <2>2, <2>3
<1>13. CASE SkipHistory
  BY <1>13 DEF SkipHistory, TypeOK, RowsOK, PassOK, dbVars, pathVars, confVars, histVars, readVars, handVars
<1>14. CASE StatHistory
  <2>1. histStat' \in FileStat
    BY <1>14 DEF StatHistory, FileStat, TypeOK, FilesOK
  <2>2. RowsOK'
    BY <1>14 DEF StatHistory, TypeOK, RowsOK, dbVars, pathVars, confVars, histVars
  <2>3. PassOK'
    BY <1>14, <2>1 DEF StatHistory, TypeOK, PassOK, readVars
  <2>4. QED
    BY <2>2, <2>3
<1>15. CASE ReadHistory
  <2>1. histRead' \in Nat
    BY <1>15 DEF ReadHistory, TypeOK, FilesOK
  <2>2. QED
    BY <1>15, <2>1 DEF ReadHistory, TypeOK, RowsOK, PassOK, dbVars, pathVars, confVars, histVars, readVars
<1>16. CASE StoreHistory
  BY <1>16 DEF StoreHistory, TypeOK, RowsOK, PassOK, NoStat, FileStat, pathVars, confVars, readVars
<1>17. CASE PassEnds
  BY <1>17 DEF PassEnds, EndPass, TypeOK, RowsOK, PassOK, NoStat, FileStat, dbVars, pathVars, confVars, histVars
<1>18. QED
  BY <1>1, <1>2, <1>3, <1>4, <1>5, <1>6, <1>7, <1>8, <1>9, <1>10, <1>11, <1>12, <1>13, <1>14,
     <1>15, <1>16, <1>17 DEF ScanStep

LEMMA FaultType == TypeOK /\ ScanFault => RowsOK' /\ PassOK'
<1> SUFFICES ASSUME TypeOK, ScanFault PROVE RowsOK' /\ PassOK'
  OBVIOUS
<1>1. RowsOK'
  BY DEF ScanFault, ListProjectsFails, TranscriptFails, MetaFails, TableFails, ConfigFails,
     ScanSkillsFails, HistoryFails, Interrupted, TypeOK, RowsOK, dbVars, pathVars, confVars, histVars
<1>2. CASE ListProjectsFails \/ Interrupted
  BY <1>1, <1>2 DEF ListProjectsFails, Interrupted, EndPass, TypeOK, PassOK, NoStat, FileStat
<1>3. CASE \E t \in Transcripts : TranscriptFails(t)
  BY <1>1, <1>3 DEF TranscriptFails, TypeOK, PassOK, handVars
<1>4. CASE MetaFails \/ ConfigFails
  BY <1>1, <1>4 DEF MetaFails, ConfigFails, TypeOK, PassOK, readVars, handVars
<1>5. CASE \E s \in Sources \cup {History} : TableFails(s)
  BY <1>1, <1>5 DEF TableFails, TypeOK, PassOK, readVars, handVars
<1>6. CASE ScanSkillsFails \/ HistoryFails
  BY <1>1, <1>6 DEF ScanSkillsFails, HistoryFails, TypeOK, PassOK, readVars, handVars, NoStat, FileStat, Sources
<1>7. QED
  BY <1>1, <1>2, <1>3, <1>4, <1>5, <1>6 DEF ScanFault

\* TypeOK: a settings file has a document exactly when it has a project, and each
\* loop of a pass goes over the kind of things it is meant for.
LEMMA StepFiles == TypeOK /\ (ScanStep \/ ScanFault) => TypeOK'
BY ScanFiles, StepType, FaultType DEF TypeOK

-----------------------------------------------------------------------------
\* The history.
LEMMA HistStep == TypeOK /\ HistInv /\ (ScanStep \/ ScanFault) => HistInv'
<1> SUFFICES ASSUME TypeOK, HistInv, ScanStep \/ ScanFault PROVE HistInv'
  OBVIOUS
<1>1. hist' = hist /\ now' >= now /\ now \in Nat /\ now' \in Nat /\ hist.mtime \in Nat
      /\ histStat.mtime \in Nat /\ histCursor.mtime \in Nat
  BY ScanFiles DEF TypeOK, FilesOK, RowsOK, PassOK, FileStat
<1>2. CASE StatHistory
  <2>1. histStat'.mtime = hist.mtime /\ pc' = "hread" /\ UNCHANGED <<histRows, histSeen, histCursor>>
    BY <1>2 DEF StatHistory, dbVars, histVars
  <2>2. QED
    BY <1>1, <2>1 DEF HistInv
<1>3. CASE ReadHistory
  <2>1. UNCHANGED <<histRows, histSeen, histCursor, histStat>> /\ (hist.here => histRead' = hist.mtime)
    BY <1>3 DEF ReadHistory, dbVars, histVars
  <2>2. QED
    BY <1>1, <2>1 DEF HistInv
<1>4. CASE StoreHistory
  <2>1. /\ pc = "hstore" /\ pc' = "tables"
        /\ histRows' = histRead /\ histCursor' = histStat /\ histStat'.mtime = 0
    BY <1>4 DEF StoreHistory, NoStat
  <2>2. QED
    BY <1>1, <2>1 DEF HistInv
<1>5. ASSUME UNCHANGED histVars, histStat' \in {histStat, NoStat}, pc' = "hstore" => UNCHANGED <<pc, handVars>>
      PROVE  HistInv'
  BY <1>1, <1>5 DEF HistInv, histVars, handVars, NoStat
<1>6. CASE ScanFault
  BY <1>5, <1>6 DEF ScanFault, ListProjectsFails, TranscriptFails, MetaFails, TableFails,
     ConfigFails, ScanSkillsFails, HistoryFails, Interrupted, EndPass, dbVars, handVars
<1>7. CASE ScanStep /\ ~StatHistory /\ ~ReadHistory /\ ~StoreHistory
  BY <1>5, <1>7 DEF ScanStep, ListProjects, OpenProject, ReadTranscript, UpdateProject, AllRead,
     RefreshMeta, RefreshTable, Refresh, MetaEnds, CaptureConfig, DropConfig, SkipConfig,
     ConfigEnds, ScanSkills, SkipHistory, PassEnds, EndPass, dbVars, handVars
<1>8. QED
  BY <1>2, <1>3, <1>4, <1>6, <1>7

-----------------------------------------------------------------------------
\* The skills.

\* A step that gives no project a skill, takes no real path away and goes no further
\* than the projects keeps the invariant.
LEMMA SkillKept ==
    ASSUME TypeOK, SkillInv, realPath' = realPath,
           \A k \in SkillPaths : skillOwner'[k] \in Projects => skillOwner'[k] = skillOwner[k],
           ConfigBegun' /\ ~failed' =>
              /\ ConfigBegun /\ ~failed
              /\ pc = "projects" => (pc' = "projects" /\ todo' = todo) \/ todo = {}
    PROVE  SkillInv'
BY DEF SkillInv, ConfigBegun

LEMMA SkillStep == TypeOK /\ SkillInv /\ ScanStep => SkillInv'
<1> SUFFICES ASSUME TypeOK, SkillInv, ScanStep PROVE SkillInv'
  OBVIOUS
<1>1. ASSUME NEW p \in Projects, NEW K \in SUBSET SkillPaths, ReplaceSkills(p, K), p \in todo,
             \A k \in K : realPath[p] = k[1] /\ k[1] \in Roots,
             realPath' = realPath, failed' = failed, todo' = todo \ {p}, pc = "projects", pc' = pc
      PROVE  SkillInv'
  <2>1. \A k \in SkillPaths :
           \/ k \in K /\ skillOwner'[k] = p
           \/ k \notin K /\ skillOwner'[k] = Absent
           \/ k \notin K /\ skillOwner'[k] = skillOwner[k] /\ skillOwner[k] # p
    BY <1>1 DEF ReplaceSkills
  <2>2. Absent \notin Projects
    BY ConstantsOk DEF ConstantsOk
  <2>3. \A k \in SkillPaths : skillOwner'[k] \in Projects => realPath[skillOwner'[k]] \in Roots
    BY <1>1, <2>1, <2>2 DEF SkillInv
  <2>4. ~failed => \A k \in SkillPaths : skillOwner'[k] \in Projects =>
                      realPath[skillOwner'[k]] = k[1] \/ skillOwner'[k] \in todo'
    BY <1>1, <2>1, <2>2 DEF SkillInv, ConfigBegun
  <2>5. QED
    BY <1>1, <2>3, <2>4 DEF SkillInv
<1>2. ASSUME NEW p \in Projects, CaptureConfig(p) PROVE SkillInv'
  <2>1. realPath[p] \in Roots /\ {k \in skillFiles : k[1] = realPath[p]} \in SUBSET SkillPaths
    BY <1>2 DEF CaptureConfig, TypeOK, FilesOK
  <2>2. QED
    BY <1>1, <1>2, <2>1 DEF CaptureConfig, pathVars
<1>3. ASSUME NEW p \in Projects, DropConfig(p) PROVE SkillInv'
  BY <1>1, <1>3 DEF DropConfig, pathVars
<1>4. ASSUME NEW p \in Projects, SkipConfig(p) PROVE SkillInv'
  <2>1. realPath[p] \notin Roots
    BY <1>4, ConstantsOk DEF SkipConfig, ConstantsOk
  <2>2. UNCHANGED <<skillOwner, realPath, failed, pc>> /\ pc = "projects" /\ todo' = todo \ {p}
    BY <1>4 DEF SkipConfig, dbVars, pathVars
  <2>3. QED
    BY <2>1, <2>2 DEF SkillInv, ConfigBegun
<1>5. CASE UpdateProject
  <2>1. /\ cur \in Projects /\ UNCHANGED skillOwner /\ pc' = "list"
        /\ realPath' = [realPath EXCEPT ![cur] = IF PathOf(cur) # NoRoot THEN PathOf(cur) ELSE @]
    BY <1>5 DEF UpdateProject, TypeOK, PassOK
  <2>2. PathOf(cur) \in Roots \cup {NoRoot} /\ realPath \in [Projects -> Roots \cup {NoRoot}]
    BY <2>1 DEF PathOf, TypeOK, RowsOK, PassOK
  <2>3. \A p \in Projects : realPath[p] \in Roots => realPath'[p] \in Roots
    BY <2>1, <2>2
  <2>4. QED
    BY <2>1, <2>3 DEF SkillInv, ConfigBegun
<1>6. CASE ScanSkills
  <2>1. \A k \in SkillPaths : skillOwner'[k] \in Projects => skillOwner'[k] = skillOwner[k]
    BY <1>6, ConstantsOk DEF ScanSkills, ReplaceSkills, ConstantsOk
  <2>2. realPath' = realPath /\ failed' = failed /\ pc = "skills" /\ pc' = "tables"
    BY <1>6 DEF ScanSkills, pathVars
  <2>3. QED
    BY <2>1, <2>2, SkillKept DEF ConfigBegun
<1>7. CASE MetaEnds
  BY <1>7 DEF MetaEnds, SkillInv, ConfigBegun, dbVars, pathVars
<1>8. CASE ListProjects \/ AllRead \/ (\E p \in Projects : OpenProject(p))
           \/ (\E t \in Transcripts : ReadTranscript(t)) \/ (\E s \in Sources : RefreshMeta(s))
  BY <1>8, SkillKept DEF ListProjects, AllRead, OpenProject, ReadTranscript, RefreshMeta, Refresh,
     ConfigBegun, dbVars, pathVars
<1>9. CASE ConfigEnds
  BY <1>9, SkillKept DEF ConfigEnds, ConfigBegun, dbVars, pathVars
<1>10. CASE (\E s \in Sources : RefreshTable(s)) \/ SkipHistory \/ StatHistory \/ ReadHistory
            \/ StoreHistory \/ PassEnds
  BY <1>10, SkillKept DEF RefreshTable, Refresh, SkipHistory, StatHistory, ReadHistory,
     StoreHistory, PassEnds, EndPass, ConfigBegun, dbVars, pathVars
<1>11. QED
  BY <1>2, <1>3, <1>4, <1>5, <1>6, <1>7, <1>8, <1>9, <1>10 DEF ScanStep

LEMMA SkillFault == TypeOK /\ SkillInv /\ ScanFault => SkillInv'
<1> SUFFICES ASSUME TypeOK, SkillInv, ScanFault PROVE SkillInv'
  OBVIOUS
<1>1. UNCHANGED <<skillOwner, realPath>>
  BY DEF ScanFault, ListProjectsFails, TranscriptFails, MetaFails, TableFails, ConfigFails,
     ScanSkillsFails, HistoryFails, Interrupted, dbVars, pathVars
<1>2. CASE ConfigFails
  BY <1>1, <1>2, SkillKept DEF ConfigFails
<1>3. CASE ScanFault /\ ~ConfigFails
  <2>1. ConfigBegun' => ConfigBegun /\ pc # "projects" /\ failed' = failed
    BY <1>3 DEF ScanFault, ListProjectsFails, TranscriptFails, MetaFails, TableFails,
       ScanSkillsFails, HistoryFails, Interrupted, EndPass, ConfigBegun
  <2>2. QED
    BY <1>1, <2>1, SkillKept
<1>4. QED
  BY <1>2, <1>3

-----------------------------------------------------------------------------
\* The theorems.

LEMMA StepInd == IndInv /\ [Next]_vars => IndInv'
<1> SUFFICES ASSUME IndInv, [Next]_vars PROVE IndInv'
  OBVIOUS
<1>1. CASE World
  BY <1>1, WorldInd
<1>2. CASE ScanStep \/ ScanFault
  BY <1>2, StepFiles, HistStep, SkillStep, SkillFault DEF IndInv
<1>3. CASE UNCHANGED vars
  BY <1>3 DEF vars, diskVars, rootVars, dbVars, pathVars, confVars, histVars, passVars, readVars,
     handVars, IndInv, TypeOK, FilesOK, RowsOK, PassOK, HistInv, SkillInv, ConfigBegun
<1>4. QED
  BY <1>1, <1>2, <1>3 DEF Next

THEOREM Invariance == Spec => []IndInv
<1>1. Init => IndInv
  BY InitInd
<1>2. IndInv /\ [Next]_vars => IndInv'
  BY StepInd
<1>3. QED
  BY <1>1, <1>2, PTL DEF Spec

\* Every variable keeps its type; a settings row has a document exactly when it has a
\* project (the transactions of captureProjectConfig and DeleteProjectConfig), and
\* each loop of a pass goes over its own kind of things.
THEOREM TypeCorrect == Spec => []TypeOK
<1>1. IndInv => TypeOK
  BY DEF IndInv
<1>2. QED
  BY <1>1, Invariance, PTL

\* However the file is rewritten between os.Stat, ReadHistory and ReplaceHistory, and
\* wherever a pass stops, the gate of scanHistory never hides a change.
THEOREM HistoryGateSound == Spec => []HistoryMatchesCursor
<1>1. IndInv => HistoryMatchesCursor
  BY DEF IndInv, HistInv, HistoryMatchesCursor
<1>2. QED
  BY <1>1, Invariance, PTL

\* After a pass whose configuration transactions succeeded, ReplaceSkills has left no
\* project a skill of a directory it has moved away from.
THEOREM SkillsFollowRoot == Spec => []SkillsUnderRoot
<1>1. IndInv => SkillsUnderRoot
  BY DEF IndInv, SkillInv, ConfigBegun, SkillsUnderRoot
<1>2. QED
  BY <1>1, Invariance, PTL
=============================================================================
