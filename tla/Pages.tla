-------------------------------- MODULE Pages --------------------------------
(***************************************************************************)
(* Answering a request while a pass commits (the handlers of internal/web, *)
(* the read queries of internal/store, Status in internal/indexer).        *)
(*                                                                         *)
(* A handler asks one query after the other.  Each is answered from a      *)
(* snapshot of its own, so that a commit may fall between two of them, and *)
(* each may fail: the client went away, or the store has been closed, as   *)
(* Serve returns while handlers still run.  A handler is the sequence of   *)
(* what it reads; an error ends it, except where the code ignores it.      *)
(*                                                                         *)
(* Requests only read, so that one at a time shows what any of them sees.  *)
(* A session or history entry is a number, the newer the greater.  Of what *)
(* a row says there is a label, all that filters look at in it: the title, *)
(* project, start and models of a session, which commits change, and the   *)
(* text of a history entry, which stays.  A commit may also give a session *)
(* another place in the order; the one property that looks at the order,   *)
(* PageExact, speaks of requests during which nothing is committed.        *)
(***************************************************************************)
EXTENDS Integers, Sequences, FiniteSets

CONSTANTS
    Ids,         \* session ids and, in their table, history entries
    Contents,    \* what the tables may hold at first ...
    Histories,   \* ... and that of history anew
    Labels,      \* what filters look at in a row
    Text,        \* that of each history entry and, at first, of each session
    Filters,     \* the labels that the filters of a request may match
    Looked,      \* sessions whose page may be asked for
    Brings,      \* parts of that page for which the lines of a transcript may be rows
    PerPage,     \* sessionsPerPage and historyPerPage
    MaxPage,     \* the greatest page number that is looked at
    DefLimit,    \* limit of /api/sessions when none is given ...
    MaxLimit,    \* ... and its maximum
    Numbers,     \* numbers in the query of a request, negative: none, or not a number
    None,        \* no request
    MaxPasses,   \* bound on the passes ...
    MaxCommits   \* ... and on the commits of all of them

ASSUME ConstantsOk ==
    /\ Ids \subseteq Nat \ {0} /\ IsFiniteSet(Ids)
    /\ Contents \subseteq SUBSET Ids /\ Histories \subseteq SUBSET Ids
    /\ Looked \subseteq Ids
    /\ Text \in [Ids -> Labels] /\ Filters \subseteq SUBSET Labels
    /\ {PerPage, MaxPage, DefLimit, MaxLimit} \subseteq Nat \ {0}
    /\ DefLimit <= MaxLimit
    /\ Numbers \subseteq Int
    /\ MaxPasses \in Nat /\ MaxCommits \in Nat

VARIABLES
    \* The database, the pass that writes it, and the process.
    sessions,    \* sessions with a row in sessions
    rows,        \* <<s, part>>: the query for that part of the page of s, one of
                 \* Looked, finds rows in messages, tool_calls or subagents
    label,       \* what filters look at in the rows of a session, if it has one
    history,     \* rows of history_entries
    commits,     \* how many transactions have been committed
    pass,        \* "idle"; "scan"; "stored" once ix.stats holds its outcome
    stats,       \* ix.stats: the pass they are of, and the commits before its end
    phase,       \* "serving", "stopping" once ctx is done, "closed", "exited"
    \* The request.
    handler,     \* who answers it
    query,       \* its id, filter and numbers
    reads,       \* what the handler will still read
    code,        \* the status it will answer, 0 when it never will
    page, last,  \* the page shown and the number of pages
    total, list, \* the matches before LIMIT and OFFSET, and those within
    blank,       \* parts of the page of a session without a row
    status,      \* what Status has copied
    happened     \* since the request came: a "commit", the "loss" of a match, a
                 \* "failure"; the session was "gone", or had no rows for a part

dbVars     == <<sessions, rows, label, history>>
passVars   == <<dbVars, commits, pass, stats>>
listVars   == <<page, last, total, list>>
answerVars == <<code, listVars, blank, status>>
vars == <<passVars, phase, handler, query, reads, answerVars, happened>>

-----------------------------------------------------------------------------
\* The handlers.

\* (Mutant: the sessions are counted before the stats are copied.)
LayoutCountFirst == <<"Meta", "CountSessions", "Stats", "Scanning", "Account">>

\* What render adds to a page.
Layout == <<"Meta", "Stats", "Scanning", "CountSessions", "Account">>

\* Status by itself.
StatusReads == <<"Stats", "Scanning", "CountSessions">>

SessionParts == {"SessionModelUsage", "SessionToolUsage", "SessionSubagents", "SessionEvents"}

\* What may go with a transcript: it may have been the last that brought it.
Takes == Brings \cup {T \cup {"SessionSubagents"} : T \in Brings}

ASSUME BringsOk == Brings \subseteq SUBSET (SessionParts \ {"SessionSubagents"})

\* The pages ...
SummaryReads  == <<"Totals", "ModelUsage", "DailyUsage", "HourCounts", "ToolUsage">>
DashboardPage == SummaryReads \o <<"RecentSessions", "LiveSessions", "DirStats", "Meta",
                                   "Account", "Activity">>
ProjectsPage  == <<"ListProjects">>
ProjectPage   == <<"GetProject", "ListProjectSessions", "ProjectModelUsage", "ProjectToolUsage">>
SessionsPage  == <<"Count", "Rows", "ProjectOptions", "ModelOptions", "Clamp">>
SessionPage   == <<"Summary", "Detail", "SessionModelUsage", "SessionToolUsage",
                   "SessionSubagents", "SessionEvents">>
SettingsPage  == <<"Meta", "ListProjectConfigs", "ProjectSettings">>
SkillsPage    == <<"ListSkills", "ListPlugins", "ListPlugins", "ListPlugins">>
PlansPage     == <<"ListPlans", "Count", "Rows", "Clamp">>
SystemPage    == <<"TableCounts", "DirStats", "Meta", "LiveSessions">>

PageReads == [
    dashboard |-> DashboardPage, projects |-> ProjectsPage, project |-> ProjectPage,
    sessions  |-> SessionsPage,  session  |-> SessionPage,  settings |-> SettingsPage,
    skills    |-> SkillsPage,    plans    |-> PlansPage,    system   |-> SystemPage]

\* ... and what is asked for by scripts and parts of pages.
SummaryJSON  == SummaryReads \o <<"LiveSessions", "Meta">> \o StatusReads
SystemJSON   == <<"DirStats">> \o StatusReads \o <<"Meta">>
SessionsJSON == <<"Count", "Rows">>
SessionJSON  == SessionPage
UsageJSON    == <<"Account", "Activity">>

OtherReads == [
    healthz      |-> StatusReads,  summaryJSON  |-> SummaryJSON,
    dailyJSON    |-> <<"DailyUsage">>, liveJSON |-> <<"LiveSessions">>,
    systemJSON   |-> SystemJSON,   sessionsJSON |-> SessionsJSON,
    sessionJSON  |-> SessionJSON,  usageJSON    |-> UsageJSON,
    livePartial  |-> <<"LiveSessions">>, indexPartial |-> StatusReads,
    usagePartial |-> UsageJSON]

HTML     == DOMAIN PageReads
Handlers == HTML \cup DOMAIN OtherReads
Paged    == {"sessions", "plans"}
OfOneSession == {"session", "sessionJSON"}

ReadsOf(h) == IF h \in HTML THEN PageReads[h] \o Layout ELSE OtherReads[h]

ASSUME NoneIsNoHandler == None \notin Handlers

\* Reads whose error is dropped, those that ask no query, and queries whose rows are
\* shown as they are.
Optional == {"Meta", "Account", "Activity", "CountSessions"}
Local    == {"Stats", "Scanning", "Clamp"}
Plain    == {"Totals", "ModelUsage", "DailyUsage", "HourCounts", "ToolUsage",
             "RecentSessions", "LiveSessions", "DirStats", "TableCounts",
             "ListProjects", "GetProject", "ListProjectSessions", "ProjectModelUsage",
             "ProjectToolUsage", "ProjectOptions", "ModelOptions", "ListProjectConfigs",
             "ProjectSettings", "ListSkills", "ListPlugins", "ListPlans"}
Reads    == Plain \cup Optional \cup Local \cup SessionParts
              \cup {"Count", "Rows", "Summary", "Detail"}

Query == [id : Ids \cup {0}, match : SUBSET Labels, n : Int, offset : Int]

NoStatus == [pass |-> 0, upTo |-> 0, scanning |-> FALSE, at |-> 0, sessions |-> 0]

TypeOK ==
    /\ sessions \subseteq Ids /\ history \subseteq Ids
    /\ rows \subseteq Looked \X SessionParts
    /\ label \in [Ids -> Labels]
    /\ commits \in Nat
    /\ pass \in {"idle", "scan", "stored"}
    /\ stats \in [pass : Nat, upTo : Nat]
    /\ phase \in {"serving", "stopping", "closed", "exited"}
    /\ handler \in Handlers \cup {None}
    /\ query \in Query
    /\ reads \in Seq(Reads)
    /\ code \in {0, 200, 404, 500}
    /\ page \in Nat \ {0} /\ last \in Nat \ {0} /\ total \in Nat
    /\ list \subseteq Ids
    /\ blank \subseteq SessionParts
    /\ status \in [pass : Nat, upTo : Nat, scanning : BOOLEAN, at : Nat, sessions : Nat]
    /\ happened \subseteq {"commit", "loss", "failure", "gone"} \cup SessionParts

Init ==
    /\ \E S \in Contents :
          sessions = S /\ history = S /\ rows = (S \cap Looked) \X SessionParts
    /\ label = Text
    /\ commits = 0 /\ pass = "idle" /\ stats = [pass |-> 0, upTo |-> 0]
    /\ phase = "serving"
    /\ handler = None
    /\ query = [id |-> 0, match |-> {}, n |-> 0, offset |-> 0]
    /\ reads = << >> /\ code = 0
    /\ page = 1 /\ last = 1 /\ total = 0 /\ list = {}
    /\ blank = {} /\ status = NoStatus /\ happened = {}

-----------------------------------------------------------------------------
\* The pass, reduced to what its transactions do to the tables that are shown.

BeginPass ==
    /\ pass = "idle" /\ phase = "serving" /\ stats.pass < MaxPasses
    /\ pass' = "scan"
    /\ UNCHANGED <<dbVars, commits, stats, phase, handler, query, reads, answerVars, happened>>

\* The rows a list is about: those that its filter matches as they are now.
Matching ==
    IF handler = "plans" THEN {x \in history  : Text[x] \in query.match}
                         ELSE {s \in sessions : label[s] \in query.match}

\* What the page of a session does not find.
Lacks(id, ss, rs) ==
    (IF id \in ss THEN {} ELSE {"gone"}) \cup {p \in SessionParts : <<id, p>> \notin rs}

\* What a commit means to the request that is being answered.
Noted ==
    happened' = happened \cup {"commit"}
                \cup (IF Matching \subseteq Matching' THEN {} ELSE {"loss"})
                \cup Lacks(query.id, sessions', rows')

Commit ==
    /\ pass = "scan" /\ commits < MaxCommits
    /\ commits' = commits + 1
    /\ UNCHANGED <<pass, stats, phase, handler, query, reads, answerVars>>

\* The transaction that reads new lines of a transcript, its own or a subagent's: the
\* session gets a row if it has none, a title, project and start anew, and messages and
\* tool calls for parts of its page.
IndexTranscript(s, l, T) ==
    /\ Commit
    /\ sessions' = sessions \cup {s} /\ label' = [label EXCEPT ![s] = l]
    /\ rows' = rows \cup (({s} \cap Looked) \X T)
    /\ UNCHANGED history
    /\ Noted

\* The one after it, for a subagent.
RecordSubagent(s) ==
    /\ Commit
    /\ rows' = rows \cup (({s} \cap Looked) \X {"SessionSubagents"})
    /\ UNCHANGED <<sessions, label, history>>
    /\ Noted

\* The one before it, when a transcript has shrunk: the session keeps its row, which
\* says what it said.
WipeTranscript(L) ==
    /\ Commit
    /\ rows' = rows \ L
    /\ UNCHANGED <<sessions, label, history>>
    /\ Noted

\* Transcripts that are no longer there: sessions go, with all their rows, and rows of
\* others that a subagent's transcript gave them.
PruneMissing(S, L) ==
    /\ Commit
    /\ sessions' = sessions \ S
    /\ rows' = {r \in rows \ L : r[1] \notin S}
    /\ label' = [s \in Ids |-> IF s \in S THEN Text[s] ELSE label[s]]
    /\ UNCHANGED history
    /\ Noted

\* The models of every session, computed anew.
RebuildRollups(f) ==
    /\ Commit
    /\ label' = [s \in Ids |-> IF s \in sessions THEN f[s] ELSE label[s]]
    /\ UNCHANGED <<sessions, rows, history>>
    /\ Noted

\* Entries are added, or the table is filled anew.
ReplaceHistory(H) ==
    /\ Commit
    /\ history' = H
    /\ UNCHANGED <<sessions, rows, label>>
    /\ Noted

\* The deferred calls of Scan: the stats are stored while the flag is still set.
StoreStats ==
    /\ pass = "scan"
    /\ pass' = "stored"
    /\ stats' = [pass |-> stats.pass + 1, upTo |-> commits]
    /\ UNCHANGED <<dbVars, commits, phase, handler, query, reads, answerVars, happened>>

EndPass ==
    /\ pass = "stored"
    /\ pass' = "idle"
    /\ UNCHANGED <<dbVars, commits, stats, phase, handler, query, reads, answerVars, happened>>

Pass ==
    \/ BeginPass \/ StoreStats \/ EndPass
    \/ \E s \in Ids, l \in Labels, T \in Brings : IndexTranscript(s, l, T)
    \/ \E s \in sessions : RecordSubagent(s)
    \/ \E s \in Looked, T \in Takes : WipeTranscript({s} \X T)
    \/ \E S \in SUBSET sessions, t \in [Looked -> Takes] :
          PruneMissing(S, {r \in rows : r[2] \in t[r[1]]})
    \/ \E f \in [Ids -> Labels] : RebuildRollups(f)
    \/ \E H \in Histories : H # history /\ ReplaceHistory(H)

-----------------------------------------------------------------------------
\* The process.

\* Shutdown closes the listener; Serve returns without waiting for handlers.
Cancel ==
    /\ phase = "serving"
    /\ phase' = "stopping"
    /\ UNCHANGED <<passVars, handler, query, reads, answerVars, happened>>

\* After wg.Wait.
CloseStore ==
    /\ phase = "stopping" /\ pass = "idle"
    /\ phase' = "closed"
    /\ UNCHANGED <<passVars, handler, query, reads, answerVars, happened>>

\* What is not answered by now never is.
Exit ==
    /\ phase = "closed"
    /\ phase' = "exited"
    /\ code' = IF reads = << >> THEN code ELSE 0
    /\ reads' = << >>
    /\ UNCHANGED <<passVars, handler, query, listVars, blank, status, happened>>

-----------------------------------------------------------------------------
\* The request.

\* queryInt.
QueryInt(n, default) == IF n < 0 THEN default ELSE n

AskedPage(n) == LET p == QueryInt(n, 1) IN IF p < 1 \/ p > MaxPage THEN 1 ELSE p

\* (Mutant: a limit of 0 reaches the store, where it means none.)
UnlimitedLimit(n) ==
    LET l == QueryInt(n, DefLimit) IN IF l > MaxLimit THEN MaxLimit ELSE l

Limit(n) ==
    LET l == QueryInt(n, DefLimit)
    IN  IF l <= 0 THEN DefLimit ELSE IF l > MaxLimit THEN MaxLimit ELSE l

NotFoundReads(h) == IF h \in HTML THEN Layout ELSE << >>

\* The ids of the page; 0 is one that looksLikeSessionID or ParseInt refuses, which
\* is not found without a query.
Request(h, q) ==
    /\ phase = "serving" /\ handler = None
    /\ handler' = h /\ query' = q
    /\ IF h \in OfOneSession /\ q.id = 0
       THEN code' = 404 /\ reads' = NotFoundReads(h)
       ELSE code' = 200 /\ reads' = ReadsOf(h)
    /\ page' = IF h \in Paged THEN AskedPage(q.n) ELSE 1
    /\ last' = 1 /\ total' = 0 /\ list' = {} /\ blank' = {} /\ status' = NoStatus
    /\ happened' = Lacks(q.id, sessions, rows)
    /\ UNCHANGED <<passVars, phase>>

Asks(r) == reads # << >> /\ Head(reads) = r

Works == phase # "closed"

\* (Mutant: the error of a list is lost on the way.)
ListErrorLost ==
    /\ reads # << >> /\ Head(reads) \notin Optional \cup Local
    /\ IF Head(reads) \in {"Count", "Rows"} THEN reads' = Tail(reads) /\ UNCHANGED code
                                           ELSE code' = 500 /\ reads' = << >>
    /\ happened' = happened \cup {"failure"}
    /\ UNCHANGED <<passVars, phase, handler, query, listVars, blank, status>>

\* A query that the page cannot do without fails: failPage or fail.
ReadFails ==
    /\ reads # << >> /\ Head(reads) \notin Optional \cup Local
    /\ code' = 500 /\ reads' = << >>
    /\ happened' = happened \cup {"failure"}
    /\ UNCHANGED <<passVars, phase, handler, query, listVars, blank, status>>

\* One whose error is dropped shows nothing then: no version, no account, no activity.
ReadOptional ==
    /\ reads # << >> /\ Head(reads) \in Optional \ {"CountSessions"}
    /\ reads' = Tail(reads)
    /\ UNCHANGED <<passVars, phase, handler, query, answerVars, happened>>

ReadPlain ==
    /\ reads # << >> /\ Head(reads) \in Plain /\ Works
    /\ reads' = Tail(reads)
    /\ UNCHANGED <<passVars, phase, handler, query, answerVars, happened>>

\* No row for the project that was asked for, or settings without one.
ReadNoProject ==
    /\ Works
    /\ \/ Asks("GetProject") /\ reads' = NotFoundReads(handler) /\ code' = 404
       \/ Asks("ProjectSettings") /\ reads' = Tail(reads) /\ UNCHANGED code
    /\ UNCHANGED <<passVars, phase, handler, query, listVars, blank, status, happened>>

\* GetSession: two queries, each of which may find that the session is gone.
ReadSession ==
    /\ Asks("Summary") \/ Asks("Detail")
    /\ Works
    /\ IF query.id \in sessions THEN reads' = Tail(reads) /\ UNCHANGED code
                                ELSE reads' = NotFoundReads(handler) /\ code' = 404
    /\ UNCHANGED <<passVars, phase, handler, query, listVars, blank, status, happened>>

ReadSessionPart ==
    /\ reads # << >> /\ Head(reads) \in SessionParts /\ Works
    /\ blank' = IF <<query.id, Head(reads)>> \in rows THEN blank ELSE blank \cup {Head(reads)}
    /\ reads' = Tail(reads)
    /\ UNCHANGED <<passVars, phase, handler, query, code, listVars, status, happened>>

\* ORDER BY ... DESC LIMIT lim OFFSET off, where 0 is no limit.
Slice(S, lim, off) ==
    {x \in S : LET newer == Cardinality({y \in S : y > x})
               IN  off <= newer /\ (lim = 0 \/ newer < off + lim)}

\* ListSessions and ListHistory: two queries.
ReadCount ==
    /\ Asks("Count") /\ Works
    /\ total' = Cardinality(Matching)
    /\ reads' = Tail(reads)
    /\ UNCHANGED <<passVars, phase, handler, query, code, page, last, list, blank, status, happened>>

\* (Mutant: an offset of pages, not of rows.)
PageOffset == page - 1

Offset == (page - 1) * PerPage

ReadRows ==
    /\ Asks("Rows") /\ Works
    /\ list' = IF handler = "sessionsJSON"
               THEN Slice(Matching, Limit(query.n), QueryInt(query.offset, 0))
               ELSE Slice(Matching, PerPage, Offset)
    /\ reads' = Tail(reads)
    /\ UNCHANGED <<passVars, phase, handler, query, code, page, last, total, blank, status, happened>>

\* (Mutant: one page when there is none is forgotten.)
LastPageOrNone(n) == (n + PerPage - 1) \div PerPage

LastPage(n) == LET l == (n + PerPage - 1) \div PerPage IN IF l < 1 THEN 1 ELSE l

\* (Mutant: past the end the list is left as it is.)
ClampOnly ==
    /\ Asks("Clamp")
    /\ last' = LastPage(total)
    /\ page' = IF page > last' THEN last' ELSE page
    /\ reads' = Tail(reads)
    /\ UNCHANGED <<passVars, phase, handler, query, code, total, list, blank, status, happened>>

\* Past the end, the last page of the total just read is queried; last stays.
Clamp ==
    /\ Asks("Clamp")
    /\ last' = LastPage(total)
    /\ IF page > last' THEN page' = last' /\ reads' = <<"Count", "Rows">> \o Tail(reads)
                       ELSE reads' = Tail(reads) /\ UNCHANGED page
    /\ UNCHANGED <<passVars, phase, handler, query, code, total, list, blank, status, happened>>

\* Status: a copy of the stats, then the flag, then a query whose error is dropped.
ReadStats ==
    /\ Asks("Stats")
    /\ status' = [status EXCEPT !.pass = stats.pass, !.upTo = stats.upTo]
    /\ reads' = Tail(reads)
    /\ UNCHANGED <<passVars, phase, handler, query, code, listVars, blank, happened>>

ReadScanning ==
    /\ Asks("Scanning")
    /\ status' = [status EXCEPT !.scanning = pass # "idle"]
    /\ reads' = Tail(reads)
    /\ UNCHANGED <<passVars, phase, handler, query, code, listVars, blank, happened>>

\* (Mutant: it waits for a store that is closed.)
CountSessionsWaits ==
    /\ Asks("CountSessions") /\ Works
    /\ status' = [status EXCEPT !.sessions = Cardinality(sessions), !.at = commits]
    /\ reads' = Tail(reads)
    /\ UNCHANGED <<passVars, phase, handler, query, code, listVars, blank, happened>>

ReadCountSessions ==
    /\ Asks("CountSessions")
    /\ status' = IF Works THEN [status EXCEPT !.sessions = Cardinality(sessions), !.at = commits]
                          ELSE status
    /\ reads' = Tail(reads)
    /\ UNCHANGED <<passVars, phase, handler, query, code, listVars, blank, happened>>

\* The answer has been sent.
Finish ==
    /\ handler # None /\ reads = << >>
    /\ handler' = None
    /\ query' = [id |-> 0, match |-> {}, n |-> 0, offset |-> 0]
    /\ code' = 0 /\ page' = 1 /\ last' = 1 /\ total' = 0 /\ list' = {}
    /\ blank' = {} /\ status' = NoStatus /\ happened' = {}
    /\ UNCHANGED <<passVars, phase, reads>>

Answer ==
    /\ phase # "exited"
    /\ \/ ReadFails \/ ReadOptional \/ ReadPlain \/ ReadNoProject
       \/ ReadSession \/ ReadSessionPart
       \/ ReadCount \/ ReadRows \/ Clamp
       \/ ReadStats \/ ReadScanning \/ ReadCountSessions
       \/ Finish

\* A request carries what its handler looks at.
Queries(h) ==
    {q \in [id : Looked \cup {0}, match : Filters \cup {{}}, n : Numbers, offset : Numbers] :
        /\ h \notin OfOneSession => q.id = 0
        /\ h \in Paged \cup {"sessionsJSON"} <=> q.match \in Filters
        /\ h \notin Paged \cup {"sessionsJSON"} => q.n = 0
        /\ h # "sessionsJSON" => q.offset = 0}

Requests == \E h \in Handlers : \E q \in Queries(h) : Request(h, q)

Next == Pass \/ Cancel \/ CloseStore \/ Exit \/ Requests \/ Answer

Spec == Init /\ [][Next]_vars

\* A handler goes on; a query returns rows or an error.
FairSpec == Spec /\ WF_vars(Answer)

-----------------------------------------------------------------------------
\* What must hold.

Answered(c) == handler # None /\ reads = << >> /\ code = c

\* A page is one of the pages there were, and never longer than one: prev and next lead
\* somewhere, and no number in the address gets a whole table out of the server
\* (pages_sessions.go:95-145, 362-382, pages_config.go:220-258).
ListBounded ==
    Answered(200) =>
        /\ handler \in Paged => 1 <= page /\ page <= last /\ Cardinality(list) <= PerPage
        /\ handler = "sessionsJSON" => Cardinality(list) <= MaxLimit

\* When nothing is committed meanwhile, a page is the one asked for, or the last one
\* when there are not so many, with the total and the number of pages.
PageExact ==
    (Answered(200) /\ handler \in Paged /\ "commit" \notin happened) =>
        LET pages == IF total = 0 THEN {1} ELSE {k \in 1..total : (k - 1) * PerPage < total}
        IN  /\ total = Cardinality(Matching)
            /\ last = Cardinality(pages)
            /\ page = IF AskedPage(query.n) \in pages THEN AskedPage(query.n) ELSE last
            /\ list = {x \in Matching :
                         LET rank == Cardinality({y \in Matching : y >= x})
                         IN  (page - 1) * PerPage < rank /\ rank <= page * PerPage}

\* A list that says it has matches shows some, unless while it was read a commit took a
\* match away, by removing its row or by changing what the filter looks at in it: the
\* second query for the last page cannot prevent that (pages_sessions.go:123-137,
\* queries_sessions.go:25-61).
EmptyOnlyAfterLoss ==
    (Answered(200) /\ handler \in Paged /\ list = {} /\ total > 0) => "loss" \in happened

\* A page is whole or an error.  What a session's page says is missing was missing at
\* some moment since it was asked for: the session, for a 404, and the rows of each part
\* that is blank, be it that a commit took them away or that none has brought them yet
\* (pages_sessions.go:303-340, queries_sessions.go:84-225).
AnswerHonest ==
    /\ Answered(200) => "failure" \notin happened
    /\ Answered(500) => "failure" \in happened
    /\ Answered(404) /\ handler \in OfOneSession => "gone" \in happened
    /\ Answered(200) => blank \subseteq happened

\* The number of sessions Status gives is of a moment after the end of the pass whose
\* stats it gives, or missing; those stats are of a pass that has ended.
StatusInOrder ==
    (Answered(200) /\ status.at > 0) => status.at >= status.upTo

\* Every request is answered, or the process is gone.
EveryRequestEnds == handler # None ~> handler = None \/ phase = "exited"
=============================================================================
