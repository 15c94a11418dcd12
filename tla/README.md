# A verified model of claudepulse

claudepulse is a local web dashboard for Claude Code. One Go process reads the
files Claude Code keeps under its configuration directory (`~/.claude`), indexes
them into a SQLite database of its own and serves pages from that database. It
never writes to `~/.claude`; Claude Code is another process that appends to,
rewrites and removes those files at any time.

This directory holds TLA+ modules translated from the Go source, the TLC
configurations that check them on small instances, and proofs checked by TLAPS.
`PROJECT.json` maps every definition to the source lines it stands for.

## Inventory

| Component | Source | State | Operations |
|---|---|---|---|
| Transcript index | `internal/indexer/indexer.go`, `internal/store/queries_index.go`, `internal/claudedir/dir.go` | tables scan_state, messages, tool_calls, sessions, subagents, daily_usage, hour_counts, session_usage, projects; the locals of a pass | `Scan`, `scanTranscript`, `recordSubagent`, `DeleteFileRows`, `PutScanState`, `UpdateSessionFacts`, `UpsertSubagent`, `PruneMissing`, `RebuildRollups` |
| JSONL reader, line decoding | `internal/claudedir/jsonl`, `applyLine` | resume offset, batch facts (title, cwd, version) | `jsonl.Scan`, `Decode`, `applyLine`, the title rules |
| Run loop, watcher, kicks | `internal/indexer/indexer.go` (Run), `watch.go` | kick channel (capacity 1), debounce timer, ticker, set of watched directories | `Run`, `watch`, `Kick`, `syncWatches`, `ignoreEvent` |
| Configuration scan | `internal/indexer/config.go`, `internal/store/queries_config.go`, `internal/claudedir/config.go` | settings, skills, plugins, plans, history with its cursor | `scanConfig` and its parts |
| Single-file sources | `scanMeta`, `scanLiveSessions`, `scanDirStats` | meta keys, live_sessions, dir_stats, lastDirStats | the three functions |
| Store | `internal/store/store.go`, `migrations/` | connection pool, schema_migrations | `Open`, `migrate`, `Tx` |
| Read queries | `internal/store/queries_read.go`, `queries_sessions.go`, `queries_pages.go` | none of their own | lists, pages, aggregates, `CountSessions` |
| Web server | `internal/web` | listener, handlers in flight | `ListenAndServe`, the handlers, `Status` |
| Charts and usage | `internal/web/pages.go`, `pages_sessions.go`, `usage.go` | none | `buildTimeline`, `buildDaily`, `buildUsage` |
| Process | `cmd/claudepulse/main.go` | context, wait group | start, signal, stop, close |
| Flags; templates and formatting | `internal/config`, `internal/web/templates.go` | none | precedence of settings; presentation |

### How the components interact

* `main` opens the store, starts `Indexer.Run` in a goroutine and then calls
  `ListenAndServe`; both get the context a signal cancels. It closes the store
  after `Run` has returned.
* `Run` owns the passes: one at the start, then one for every tick and kick.
  The goroutine `watch` turns file events into kicks after a pause of 500 ms.
  `Scan` takes `scanMu`, so two passes never overlap.
* A pass reads the directory listing, then each file, and writes through the
  store in many small transactions. Handlers read the same database through
  the pool at any moment between two commits, and `Status` reads `stats` and
  `scanning`.
* The files are shared with Claude Code without any lock. The pass sees each
  file at two moments (`os.Stat`, reading) and the directory at a third.

### What is hard, and what correctness means

| Component | Hard behaviours | What must hold |
|---|---|---|
| Transcript index | appends, rewrites, removals during a pass; partial lines; a pass interrupted between two of its transactions; files or listings that cannot be read | each line yields its rows exactly once as long as its content lives; nothing that is still there is pruned; counts and rollups agree with the rows; the index converges to the disk |
| JSONL reader | where a batch of lines ends is a matter of timing | the resume offset is that of a line start; rows, prompts and the directory do not depend on how lines fall into batches, a title only between an ai-title and a later summary |
| Run loop | coalesced kicks, a restarted timer, directories not watched yet, stop | a pass begins after every change; `Add` and `Close` do not meet; a stop is noticed |
| Configuration scan | the real path of a project is learned late; history is measured, read and stored in steps | a project's rows are those of its directory; no write to the history is hidden by its cursor |
| Store | a process that dies between two migrations | a migration is applied once |
| Read queries, handlers | commits, failures and the stop between two queries of a page | a page is within the range it reports, and exact when nothing was committed; errors and not-founds are true; every request ends |
| Server and process | stop while handlers run; a busy port | the store is not closed under a user of it |
| Charts | widths and indices at the limits, corrupt timestamps, midnight and a clock that is set | every event falls into its bucket, every day into its cell, every reply into its window; nothing is allocated without bound |

Everything above that a test would hardly reach is listed at its line under
`hazards` in `PROJECT.json`, with the properties that cover it.

## The modules

| Module | What it is |
|---|---|
| `TranscriptIndex` | the scan pass and its tables, against files that change under it |
| `TranscriptIndex_proofs` | its inductive invariant and theorems |
| `MCTranscriptIndex` | two sessions, one subagent, four messages |
| `TranscriptMirror` | what the index promises: each look at a transcript takes in all of it |
| `TranscriptLines` | what becomes of each line: rows, prompts, directory and title, whatever readings do |
| `TranscriptLines_proofs` | its inductive invariant and theorems |
| `MCTranscriptLines` | a session of three lines out of eight, and a line of its subagent |
| `WatchLoop` | when passes begin: `Run`, `watch`, `Kick`, `syncWatches`, the stop |
| `WatchLoop_proofs` | its inductive invariant and theorems |
| `MCWatchLoop` | `projects/`, one project, its subagents directory |
| `ConfigScan` | what else a pass learns: real paths, configuration, skills, single files, history |
| `ConfigScan_proofs` | its inductive invariant and theorems |
| `MCConfigScan` | two projects, a working directory and the home directory |
| `Service` | the process: opening and migrating the database, the indexer's goroutine, the listener, the way out |
| `Service_proofs` | its inductive invariant and theorems |
| `MCService` | two processes, three migrations |
| `Pages` | every handler, one query after the other, beside a pass and the stop |
| `Pages_proofs` | its inductive invariant and theorems |
| `MCPages` | three sessions on pages of two, two labels of which a filter matches one, numbers at and beyond each bound |
| `Charts` | the arithmetic of the timeline, the daily chart and the usage windows |
| `Charts_proofs` | its inductive invariant, the arithmetic of bars, and theorems |
| `MCCharts` | a day of six units, four widths of bars, corrupt timestamps, a clock that is put back over a midnight |

### TranscriptIndex

One process (the pass) and the outside world. `pc` and the variables below "The
pass" are the local variables of `Scan` and `scanTranscript`; the other
variables are files and tables.

| Variable | In the code |
|---|---|
| `disk`, `onDisk`, `dirs` | the transcripts, those that exist, whether `projects/` has an entry |
| `scanned`, `cursor` | the rows of `scan_state`; `cursor[f].born` is not stored, it remembers which content the rows came from |
| `messages` | ids in `messages` (their tool calls go with them) |
| `sessions`, `counted`, `subCount` | `sessions`, with the sets its denormalised counts stand for |
| `agents`, `agentMsgs` | `subagents` and the set behind `msg_count` |
| `daily`, `usage` | the sets behind `daily_usage`/`hour_counts` and `session_usage` |
| `todo`, `subTodo`, `keep`, `nonEmpty` | the loops of `Scan`, `keep`, `len(projects) > 0` |
| `cur`, `stat`, `base` | path, `os.Stat` and starting offset in `scanTranscript` |
| `clean` | no warning was logged in this pass; only properties look at it |

Each SQLite transaction is one action, because each is committed on its own:
`WipeRows` (`DeleteFileRows`), `ReadLines` (session row, lines, facts, cursor),
`RecordSubagent`, `PruneMissing`, `RebuildRollups`. `StatChanged` and
`SkipUnchanged` are `os.Stat` with the decision it leads to. Between two
actions the outside world may append a line or a part of one, rewrite,
create or remove a transcript, and a fault may strike: a listing fails, a file
cannot be opened, a subagent row cannot be written, the pass is interrupted
(context, database error, death of the process: the database is what the last
commit left, and the next pass begins from it).

Sizes are counted in half lines so that a trailing partial line has a size of
its own. Counts are kept as the sets they count, which tells double counting
from counting.

Assumptions, all of them constants or guards of the model:

* A message id occurs in one transcript (`Owner`). `docs/PLAN.md:223-226` records
  the copy of an id in a second transcript as a known limitation.
* Every write gives a transcript a new modification time. The code compares
  size and time at millisecond precision and `docs/PLAN.md:227-230` accepts the rest.
* A rewrite keeps a prefix and leaves fewer bytes than there were. A rewrite of
  the same or a larger size is not noticed by design (`docs/PLAN.md:227-230`).
  Under `ShrinksShow` a rewritten file, as long as it has not been read again,
  stays shorter than the size on record.
* One listing per pass is one moment, and so is one reading of a file. The
  code takes the files in sorted order; the model takes any order.

Left out: versions and token figures, which are copied from the lines. Titles,
directories and tool calls are in `TranscriptLines`, the row of the project is in
`ConfigScan`.

### TranscriptMirror, and the refinement

The abstract index has no cursors, sizes or passes. `Refresh` takes in all messages of
a transcript in one step, `Drop` forgets transcripts, `Write` is the outside world: a
transcript grows as long as its birth is the same, or is replaced by a content with
another birth. `Patch` states the one exception: a replaced content that did not show in
size and time (which `ShrinksShow` = FALSE admits) is read on from the former offset, so
that rows of the former content stay beside some of the new one.

`TranscriptIndex!ImplementsMirror` is `Mirror!Spec` under the mapping `text` = the ids of
the complete lines on disk, `born` = their birth, `known` = the files in `scan_state`,
`origin` = the birth behind a cursor, `rows` = the rows that are the file's. A reading that
resumes at an offset maps to `Refresh`, a wipe and a prune map to `Drop`, and
everything else leaves the mirror alone. It is checked in `index_safety` and proved for
every instance.

### TranscriptLines

One transaction of `scanTranscript`, line by line, with `applyLine`. `TranscriptIndex`
takes lines for message ids; here a line is an envelope (`claudedir/jsonl`): its type,
whether it has a message, id, kinds of content blocks, tool calls, working directory, agent
and the text of a title. `Yields` says for which lines `applyLine` makes a row; `Kind` is
`Content.Kind`; `Learn` is the rules for facts of a batch; `Commit` is
`UpdateSessionFacts` and `PutScanState`, where a fact that was not seen stays
(`COALESCE`). `tx` is what the open transaction has done so far, so that `Rollback` is an
error, a cancelled context or the death of the process at any line.

A response is written as several lines with one id, and a reading may end between them.
`RowsAreFirstLines` says that the rows are nevertheless those of one reading of the whole
file. `FactsFollowLines` says as much about titles as is true: see the observations
below. Here sizes are numbers of complete lines, and a transcript is rewritten or removed
between two readings only; how writes and readings interleave is the subject of
`TranscriptIndex`. Ids of messages and tool calls occur in one transcript (`ConstantsOk`,
`docs/PLAN.md:223-226`).

### WatchLoop

Three parties: the goroutine of `Run`, the goroutine `watch`, and the world with
fsnotify. A pass is the moments at which it looks at a directory
(`ReadDir`); a directory is `dirty` while it holds a change no pass has looked
at. `run` is where `Run` is: `sync0` is the call of `syncWatches` before the
first scan, `check` the test of `ctx.Err()` after a scan, `sync` the call it
guards, `wait` the `select`, `return` the deferred wait for `watch`.

| Action | In the code |
|---|---|
| `ReceiveEvent`, `Fire`, `ReceiveOverflow`, `WatchReturns` | the cases of the `select` in `watch` |
| `TimerExpires` | the debounce timer becomes ready to be received |
| `Kick` | the non-blocking send into a channel of capacity 1 |
| `AddWatch`, `AddFails`, `ListFails`, `SyncEnds` | `syncWatches`, one `Add` at a time |
| `SelectTick`, `SelectKick`, `SelectDone` | the cases of the `select` in `Run` |
| `CloseWatcher` | the deferred calls |

fsnotify is external: an event about a watched directory goes into a
buffer, or an overflow is noted when it holds `BufCap` events. `AddBlocks`
says that `Add` waits while the buffer can hold no more, which is what the
comments in `watch.go:59-64` and `indexer.go:88-96` say of its Windows backend. The
directory `subagents/` is in `Quiet`: it lies in the directory of a
session, which is never watched, so that nothing may tell of its birth.
`tickOnly` is a history variable: the dirty directories of which no event will
tell, because they were not watched or because the pass that should have read
them failed. In a directory of `Busy` a transcript is being written: a change there is
not counted as long as the directory waits for a pass, so that a stream of events which
starts the timer again and again may go on for ever. Missing roots (`projects/` itself not there yet) are not modelled.

### ConfigScan

The other half of a pass: the row of each project, and after the rollups
`scanMeta`, `scanConfig` and `scanLiveSessions`. A transcript is reduced to the
working directory its unread lines name; reading it makes it `Read`, and only
lines appended later can name a directory again. This is the interface to
`TranscriptIndex`, where a cursor has passed those lines.

| Variable | In the code |
|---|---|
| `unread`, `dirs`, `docs`, `skillFiles`, `content`, `hist` | transcripts, directories sessions run in, their settings files, `SKILL.md` files, single-file sources, `history.jsonl` |
| `sessCwd`, `realPath`, `exists` | `sessions.cwd`, `projects.real_path`, `projects.exists_on_disk` |
| `configured`, `config` | rows of `project_config` |
| `snapDoc`, `snapOwner` | `settings_snapshots` by path: document and project |
| `skillOwner` | `skills` by path: the project, or the user (`user` and `synced`) |
| `row` | the rows of `meta`, and `plugins`, `plans` and `live_sessions` as one value each |
| `histRows`, `histSeen`, `histCursor` | `history_entries` and its row in `scan_state` |
| `learned`, `cur`, `files` | `realPath`, `p` and the loop over its transcripts in `Scan` |
| `failed` | a transaction of `scanProjectConfigs` failed in this pass; only properties look at it |

What a pass reads anew each time is read and stored in one action, which for a
project's configuration is the transaction; the next pass reads it again,
whatever happens in between. The history is gated by a cursor, so its
`os.Stat`, reading and transaction are three actions. Sources whose files cannot
be read are `Broken`: `live_sessions` with two files of one pid is such a source
too, because the transaction rolls back. A directory may disappear with all it
holds and come back empty. The directory claudepulse reads lies in `Home`,
so that a project at work there shares the paths of the user's skills.

Assumptions and what is left out: every write gives `history.jsonl` a new
modification time; the directories under `projects/` stay (their removal cascades
from `sessions` and is not modelled here); `ReadHistory` reads all of the file or
fails; `dir_stats` with its pause of five minutes; what redaction removes. Two
projects that share a directory take turns in owning its snapshots and skills;
the properties ask only that there is an owner whose directory it is.

### Service

The processes that may share a database, each with two goroutines: `run` (with
`ListenAndServe` in it) and `Indexer.Run`. `phase` is where `run` is: `open`
before `migrate` has read `schema_migrations`, `migrate` between two migrations,
`body` within the transaction of one, `up` once the indexer's goroutine has been
started, `serve` in `Serve`, `leave` after `ListenAndServe` has returned, `closed` after
`Close`. `known` is the map `applied`, with the migrations the process has run
itself; `bodies` counts how often each has been committed; `writer` is who holds
SQLite's write lock; `indexer` is where `Indexer.Run` is, reduced to its
transactions.

`ReadApplied` comes before any transaction, so that two processes may find the same
migration missing. The one that comes second fails on a table that is there
already, or, where a body can run twice (`Repeatable`: 0003 drops and creates),
on the primary key of `schema_migrations`; either way `OpenFails` rolls back. A
lock that is not to be had within `busy_timeout` is an error, too. `Crash` takes
a process away at any moment.

`Indexer.Run` is assumed to look at `ctx` again after each transaction. That it
does so is the subject of `WatchLoop!StopEnds`, with the exception `watch_stop`
shows. Handlers in flight are in `Pages`. Left out: `-reset-db`, and everything `run`
checks before it opens the store.

### Pages

A handler is the sequence of what it reads (`PageReads`, `OtherReads`): the names are those
of the queries, and the order is that of the calls in the code. `render` adds `Layout`.
`reads` is what is left of the sequence, so that a commit, a failure or the stop may come
between any two reads. `ReadFails` ends a handler with `failPage` or `fail`, except for the
reads in `Optional`, whose error the code drops. After `ListenAndServe` has returned, the
store is closed while handlers still run (`CloseStore`), and from then on a read can only
fail; `Exit` takes away what has not been answered.

| Variable | In the code |
|---|---|
| `sessions`, `history` | sessions with a row; `history_entries` |
| `label` | what the filters of `ListSessions` look at in a session: `title`, `project_id`, `started_at` and `session_usage.models` |
| `rows` | for the sessions whose page may be asked for (`Looked`): which parts of it find rows in `messages`, `tool_calls` or `subagents` |
| `pass`, `stats`, `commits` | `scanning`, `ix.stats` with the commits before its end |
| `handler`, `query`, `reads` | the request and what its handler will still read |
| `code`, `page`, `last`, `total`, `list`, `blank`, `status` | the answer so far |
| `happened` | history variable of what came between; only properties look at it |

A session or history entry is a number, the newer the greater, and a filter is a set of
labels; `Matching` is what it matches at the moment of a query. The label of a session
changes when its transcript is read (`EnsureSession`, `UpdateSessionFacts`) and when the
rollups are rebuilt; the text of a history entry (`Text`) stays. `Slice` is `ORDER BY ... DESC LIMIT ... OFFSET`. `Clamp` is the second look of
`handleSessions` and `handlePlans` at a page past the end: page and rows are those of the
last page of the first total, while `last` stays. One request at a time is enough,
because requests only read. The pass is reduced to what its transactions do to what pages show, in any
order: `IndexTranscript` is one batch of a transcript, of a session that is new or not;
`RecordSubagent` the transaction after it; `WipeTranscript` the one before it, which leaves a
session with its row and without others; `PruneMissing`, `RebuildRollups` and
`ReplaceHistory` as in the code. `Brings` says for which parts of a page one batch may have
rows, and `Takes` what goes with a transcript, which is what it brought and its row in
`subagents`. A commit may also give a session another start and so another place in the
order; only `PageExact` looks at the order, of requests during which nothing is committed.

`EmptyOnlyAfterLoss` is as strong as the code makes it. Between the count and the rows, or
between the second count and its rows, a commit may prune the only match, but also give it
another title, project, start or other models; the page then says that there is one and shows none.
`AnswerHonest` says of a blank part that it was without rows at some moment while the
request was answered, which a part that no commit has brought yet is, too.

### Charts

Messages of one session arrive with any timestamp while a clock goes on. `Timeline` is
`buildTimeline`, `TruncateLocal` its cut by the viewer's clock, `Pivot` is `buildDaily`
over `InRange` (`GetDailyUsage`), `Since` and `Activity` are `buildUsage` over
`ActivitySince`. `QueryDaily` and `BuildDaily` are two actions, as `handleDashboard` reads the
clock twice. A reply stands for one token.

`Jump` is a change of the viewer's clock at the instant `Shift`, as at the beginning and the
end of summer time. A day has then two instants that may be its midnight (`Readings`), of
which the clock shows one, or both, or neither when it is set over midnight (`Midnights`);
`time.Date` guarantees neither of the two in the last cases, hence `Late`. The midnight taken may be after
the first event. Go divides towards zero (`Quo`), which puts such an event into the first
bar, and that is why no event is lost.

`ConstantsOk` says what the code's constants are: at least two bars, and widths that divide a
day or are multiples of one. The clock is set by less than a day; a zone that skips a whole
day (Samoa in 2011) is left out.

The properties say what a reader of the chart takes for granted, from the messages and
without the widths and offsets of the code.
`BarsBounded` and `BarsOnTheClock` are what is true of the comments at
`pages_sessions.go:258` and :271, which promise more; see the observations. `DailyExact` has
an empty chart only where there was no reply on a date to show. `UsageOfThisWindow` has no upper
bound, as `ActivitySince` has none: a timestamp that is yet to come counts.

## The runs

| Run | Expect | Shows |
|---|---|---|
| `index_safety` | pass | with every write and fault: rows match the cursor, counts never lag, rollups are fresh after a pass, a pass without failures prunes nothing intact, cursors move forward; the index implements `TranscriptMirror` |
| `index_converges` | pass | once writes and faults come to rest the index mirrors the disk; no reading starts behind the end of its file |
| `index_sublisting` | violation | one failed listing of a subagents directory prunes transcripts that are still there |
| `index_stale_counts` | violation | pruning a subagent leaves its session's counts as they were |
| `watch_loop` | pass | no announced change is lost; every change is looked at, also while events never cease; directories get watched; a stop ends |
| `watch_stop` | violation | where `Add` can wait for the event buffer, a stop during `syncWatches` can hang |
| `config_scan` | pass | the history gate hides no write; skills follow their project; once the files come to rest all rows agree with them |
| `config_lost_path` | violation | a pass that stops before `UpdateProjectMeta` loses the path its transcripts named |
| `service` | pass | migrations run once and in order whoever starts or dies; nothing runs on a part of the schema; the store outlives the last transaction; stops and starts end |
| `transcript_lines` | pass | wherever readings end or fail: one row per message and tool call, prompts counted once, directory and title as the lines say |
| `pages` | pass | with commits, failures and the stop between any two reads: pages within their bounds, exact when nothing is committed, empty only when a match was lost, honest answers, `Status` in order, every request ends |
| `charts` | pass | no event outside its bar, no bars without bound, bars at full marks of the clock, exact daily cells, replies in their usage window |

The last column of the violations is explained, with the quoted comments, under
`findings` in `PROJECT.json`.

### Bounds

* Two sessions with one subagent are the smallest instance in which the cascade
  from a session can hit, or spare, a transcript of its own and one of another.
  The first session's messages are two, so that a line can be a repetition, a new
  message or nothing.
* `MaxTime = 3` events of the outside world: enough for a rewrite, an append and
  a fault in one pass or spread over several, which is what
  either index finding needs at most. `MaxLines = 2` gives offsets 0, 2 and 4 with
  partial lines in between. The passes themselves are not bounded.
* In `watch_loop` three changes or faults with a buffer of two reach an overflow,
  a directory tree built during a pass, and a failed scan after a change. Further changes
  of a transcript in `subagents/` that waits for a pass are not counted, so that behaviours
  in which the timer is started again for ever are among those checked.
* In `config_scan` two directories and two projects, each of which may move to the
  other's directory, are the smallest instance in which a path changes owner, is left
  behind and is shared with the user's skills. `MaxTime = 3` is a move, a change of
  the files there and a fault; one settings scope and one skill are enough,
  because rows of different paths meet only in the owner. The violation
  has two scopes and needs two events.
* In `service` two processes with four starts between them: both at once, and
  each once more after a crash. Three migrations are the code's, of which the last can
  run twice.
* In `transcript_lines` three lines out of eight kinds are a response on two lines with
  anything before, between or after them, each with the end of a reading anywhere; one line
  of a subagent shows what it may not change. Four lines add no new pair of lines to a
  batch boundary. Readings, rollbacks and rewritings are not bounded.
* In `pages` three entries on pages of two are a full page and one that is not; the numbers
  are missing, zero, a page past the end and one past `MaxPage`. Two sessions are there at
  first and a third may come; with two labels, of which the filter matches one, a row may
  come to match and cease to. Two commits are one between
  the count and the rows and one more between those and the second look.
* In `charts` three messages are two ends of a timeline and one in between. The timestamps
  lie before, on and behind the edges of days, of windows, of the clock's change and of what
  is plausible. A day of six units with bars of one, two, six (a day) and twelve stands for
  the code's fifteen minutes to thirty days. The clock is put back
  by half a day at 13, so that the day of 12 has two midnights and an event lies before
  the second.
* The theorems below hold without these bounds.

### Fairness

* `index_converges`: weak fairness of `ScanStep`, the steps of a pass including
  its beginning. `Run` starts a pass at least at every tick, and a pass is
  sequential code. Nothing is assumed of the outside world or of the faults, of
  which the bound allows finitely many.
* `config_scan`: weak fairness of `ScanStep`, for the same reason.
* `service`: weak fairness for either goroutine of each process. A statement waits
  for the write lock at most `busy_timeout`, so `OpenFails` is one of the fair steps of
  `run`. Starts, signals and crashes are never assumed. A process may stop for good
  only after the bound on starts, hence `CHECK_DEADLOCK FALSE`.
* `pages`: weak fairness of `Answer`, the next step of a handler. A query returns rows or an
  error, within `busy_timeout` at most, and also after the store has been closed. The client
  and the pass owe nothing.
* `watch_loop`: weak fairness for each goroutine and for the ticker, and for the debounce
  timer only while no event that starts it again waits (`TimerLeft`): under a steady stream
  of events it may never expire, and then the ticker alone leads to a pass. `SelectDone` is strongly fair: while ticks and kicks go on, `ctx.Done`
  is ready at every `select`, and Go picks one of the ready cases at random.

## What is proved

TLAPS checks, for every set of transcripts or directories, every content, number
of events and bound:

| Theorem | Statement |
|---|---|
| `TranscriptIndex_proofs!TypeCorrect` | `Spec => []TypeOK` |
| `TranscriptIndex_proofs!RowsMatchCursor` | `Spec => []IndexMatchesCursor` |
| `TranscriptIndex_proofs!CountsCoverRows` | `Spec => []CountsNeverLag` |
| `TranscriptIndex_proofs!RollupsFollowRows` | `Spec => []RollupsFresh` |
| `TranscriptIndex_proofs!PruneSparesIntact` | `Spec => NothingIntactPruned` |
| `TranscriptIndex_proofs!CursorIsMonotonic` | `Spec => CursorMovesForward` |
| `TranscriptIndex_proofs!IndexMirrorsFiles` | `Spec => ImplementsMirror` |
| `TranscriptIndex_proofs!ResumesWithinFile` | `ShrinksShow`: `Spec => []NoResumePastEnd` |
| `TranscriptLines_proofs!TypeCorrect` | `Spec => []TypeOK` |
| `TranscriptLines_proofs!RowsOfFirstLines` | `Spec => []RowsAreFirstLines` |
| `TranscriptLines_proofs!PromptsOfLines` | `Spec => []PromptsExact` |
| `TranscriptLines_proofs!FactsOfLines` | `Spec => []FactsFollowLines` |
| `WatchLoop_proofs!TypeCorrect` | `Spec => []TypeOK` |
| `WatchLoop_proofs!NoChangeLost` | `Spec => []ChangesAnnounced` |
| `ConfigScan_proofs!TypeCorrect` | `Spec => []TypeOK` |
| `ConfigScan_proofs!HistoryGateSound` | `Spec => []HistoryMatchesCursor` |
| `ConfigScan_proofs!SkillsFollowRoot` | `Spec => []SkillsUnderRoot` |
| `Service_proofs!TypeCorrect` | `Spec => []TypeOK` |
| `Service_proofs!MigratedOnce` | `Spec => []SchemaSound` |
| `Service_proofs!IndexedOnWholeSchema` | `Spec => []SchemaWhole` |
| `Service_proofs!StoreOutlivesPass` | `Spec => []CloseAfterPass` |
| `Pages_proofs!TypeCorrect` | `Spec => []TypeOK` |
| `Pages_proofs!AnswersHonest` | `Spec => []AnswerHonest` |
| `Pages_proofs!StatusOrdered` | `Spec => []StatusInOrder` |
| `Pages_proofs!ListsBounded` | `Spec => []ListBounded` |
| `Pages_proofs!EmptyByLoss` | `Spec => []EmptyOnlyAfterLoss` |
| `Pages_proofs!PagesExact` | `Spec => []PageExact` |
| `Charts_proofs!TypeCorrect` | `Spec => [](TypeOK /\ Countable)` |
| `Charts_proofs!TimelineIsBounded` | `Spec => []BarsBounded` |
| `Charts_proofs!TimelineIsComplete` | `Spec => []NoEventDropped` |
| `Charts_proofs!TimelineIsOnTheClock` | `Spec => []BarsOnTheClock` |
| `Charts_proofs!ChartIsExact` | `Spec => []DailyExact` |
| `Charts_proofs!UsageIsOfThisWindow` | `Spec => []UsageOfThisWindow` |

With them every invariant and action property of the passing runs is proved. They rest on
`ConstantsOk` of the module they are about, and on three more assumptions: those about `Pages`
on `NoneIsNoHandler`, that the mark for no request is not the name of a handler, and on
`BringsOk`, that the lines of a transcript are rows for parts of a session's page other than
its subagents, and `ResumesWithinFile` on `ShrinksShow`, without which it is false (see the observations).

The invariant of `TranscriptIndex` adds what the properties need but do not say:

* `DiskInv`: births lie in the past, so that a rewritten content never has the
  birth a cursor remembers, and each message is in its owner's lines.
* `CursorInv`: a cursor stands between two lines and inside its content, so that
  `IdsUpTo` and `IdsFrom` together are all lines (`LinesSplit`); a cursor at 0
  has no rows; a cursor's session has its row.
* `HandInv`: the offset in hand is still the one in the table when the reading
  begins, and the transcript in hand is in `keep`.
* `KeepInv`: a subagent is in `keep` only with its main transcript. This is why
  the cascade from a pruned session spares every transcript that is kept.
* `SeenInv`: without a failure, everything intact is in `keep` or still to come.

`ResumesWithinFile` has two invariants of its own beside it. `ShownInv`, from `ShrinksShow`: a
transcript that is not the one behind its cursor is shorter than the size on record.
`MeasuredInv`: when a reading resumes, `os.Stat` has returned no less than the size and no
less than the offset on record. `StatMeasures` gets the second from the first: a file that
passes the test for a shrunk one has the birth of its cursor, whose offset lies within it
(`CursorInv`), and files with one birth only grow.

`IndexMirrorsFiles` maps each step of the pass under that invariant: `CursorInv` says that the
rows behind a cursor and the lines after it are all of the file, which makes a resumed
reading the `Refresh` of the mirror; `DiskInv` says that a birth on record is never given
to another content, which `Write` asks for.

The invariant of `TranscriptLines` (`RowInv`) has three parts: every line on disk is one its
transcript may hold (`Held`); the rows on record are those of the lines before the cursor,
which lies within them, and carry ids of their own transcript's lines (`Stored`); the rows
of the open transaction are those of the lines before `pos`, and the rows of the other
transcripts are untouched (`InTx`). `SamePrefix` is the reason appended lines change
nothing, `OneMoreRow` and `OneMoreCall` say what one more line adds to the definition by
first lines, and `LineStep` joins them: by `Owned` an id of the line is on record for its own
transcript only, so no other transcript's row makes an `INSERT OR IGNORE` be ignored.

Two more rest on `RowInv`. `CountInv`: the count of a session is that of the prompts among the
rows of its own transcript. It does not speak of subagents, because a row of theirs has an
agent and is no prompt (`PromptsOfMain`). `FactInv`: directory and title on record follow
from the lines before the cursor, and what would be on record if the open batch were
committed now follows from the lines before `pos`. It also has that a title in hand came from
a title line already passed: without that a batch could bring a title from nowhere, which
the next ai-title would not replace, and the invariant would not be inductive.

The invariant of `Charts` (`DailyInv`) says that there is a moment, not after the present, at
whose date the rows in hand were queried, and one, not before it, at whose date the chart was
laid out, neither before the start of the clock. `CellIs` makes of a cell the sum over one row or none, and `ChartOfRows` compares
chart and messages for any two such moments. `Countable` says that the messages are finitely many
and have a latest one. The rest is arithmetic, for every value of the constants:
`MidnightIs` and `OriginIs` place the first bar less than two widths before the first event and
less than one after it,
`FewBars` and `BarsReach` bound the number of bars from above and below, and `InBarsIs` says
that the sum over the bars is the number of events in them. That sum is a fold; `InBarsIs`
refutes a least counterexample (`LeastOfNat`, from the well-foundedness of the numbers), since an
induction rule that takes a predicate cannot be used.

The invariant of `Pages` speaks of the reads that are left. `Sound` says that nothing is
looked for after the count of `Status`, that a list is not read again after its second
look, and that rows follow their count; it holds of the sequence of each handler
(`ReadsStart`) and of every rest of it (`TailSound`). With it:

* `HonestInv`: an error is exactly a failed read, and whatever the session lacks now, its row
  or the rows of a part of its page, has been noted.
* `StatusInv`: commits only grow, and the stats are copied before the count.
* `ListInv`, `ShownInv`: before the second look nothing is known of the page; after it the
  page is one that the total reaches, and as long as matches only come that total is no more
  than what matches now, so that a cut at its offset shows something (`SliceShows`).
* `ExactInv`: while nothing is committed, what has been read is what matches now.

`PageOfRows` is the arithmetic of the number of pages, `SliceBounded` and `SliceIsRanks` say
what `LIMIT` and `OFFSET` cut out of a finite set.

The invariant of `WatchLoop` adds `Tree`: a directory lies in one that exists, so
that a pass which has still to look at the directory above will come to it.

The invariant of `ConfigScan` adds to its properties:

* `HistInv`: no modification time on record lies in the future, and what
  `ReadHistory` returned is the content of the file that was measured unless it has been
  written since. Storing the cursor of the measured file, and not of the file as it
  is when the rows are stored, is what makes the gate sound.
* `SkillInv`: a project that owns a skill has a path, and once the loop over the
  projects has come to it the skill is under that path. The loop comes to every
  project, a failed transaction sets `failed`, and a project with a path never
  returns to having none, so `SkipConfig` leaves nothing behind.

The invariant of `Service` adds `KnownInv` (what a process knows is on record, so
that the next migration it takes can only follow what is there) and `PlaceInv`
(which places of `run` and `Indexer.Run` go together, and that the lock is held by
exactly the process in a transaction).

## What is only model-checked

Liveness: `Converges` of either module, `ChangesSeen`, `AllWatched`, `StopEnds`, `Ends` and
`EveryRequestEnds`. It needs fairness, and with it ENABLED, which the prover cannot use.
The counterexamples are TLC's too.

## Observations without a run

Comments that do not hold as they are written. Neither has a run of its own, because the
properties of `charts` already say what holds instead:

* `pages_sessions.go:258`, 'Pick the smallest "nice" width that keeps the chart at ≤ maxBars
  bars': the width is chosen by the span of the events (:264), but the bars are counted from
  the origin, which lies before the first event (:272-273). A session from 10:00:59 to
  13:20:58 lasts 199 minutes and 59 seconds, so its bars are one minute wide, begin at
  10:00:00 and are 201. `BarsBounded` has the bounds that hold, and `BarsBoundedHolds` proves
  them: `MaxBars` + 1 if the first event falls into the first bar, `MaxBars` + 2 if it does not,
  which a day of 25 hours makes possible, and twice `MaxBars` for the widest bars, where :274
  cuts off.
* `pages_sessions.go:271`, 'Buckets are aligned in local time so a "day" bar is the viewer's
  day': when the viewer's clock is set during a session, only its first bar is cut by that
  clock; the others follow at multiples of 24 hours, so that later day bars run from 23:00 or
  from 01:00 (:279). `BarsOnTheClock` leaves such sessions out.

What the models have and no text of the repository contradicts:

* A session's row stays for good when its transcript is wiped (`indexer.go:284`) and
  removed before it has been read again: `PruneMissing` finds sessions through
  `scan_state`, whose row is gone. Pages list it without messages.
* A transcript that grew between `os.Stat` and the reading has an offset beyond the size on
  record (`indexer.go:323`). If it is then rewritten to a size between the two, it is taken for
  one that grew. `ShrinksShow` is the assumption that this does not happen.
* A project whose directory moves keeps the settings snapshots of the former one
  (`config.go:71`), unless another project takes that directory over.
* On a day whose midnight the clock shows twice, or never, the first bar of a timeline may
  begin after the first event (`pages_sessions.go:313`), which is counted in it all the same.
* An ai-title replaces a summary in its batch, and a summary in a later batch replaces an
  ai-title: which of them names a session depends on when passes came.
* A list may say that it has matches and show none although no session went: a batch or the
  rollups changed its title, project, start or models between the count and the rows
  (`queries_sessions.go:51`, :59).
* The usage windows count replies whose timestamps lie in the future (`queries_read.go:185`).
* `last`, the number of pages, is of the first total of a page past the end, and `total` of
  the second.

## Not modelled

* Flags (`internal/config`): a precedence of settings without state. Templates, formatting and
  static assets: presentation.
* Shares and ranks of models and tools on the pages, and what settings are summarised to:
  they are computed from one query's rows and shown.
* The SQL of plain aggregates, ties in `ORDER BY`, and the ten queries of `TableCounts`,
  which are one read here.
* Token figures and versions, which are copied; ids shared by two transcripts, which
  `docs/PLAN.md:223-226` accepts.
* Projects whose directory under `projects/` is removed, the pause of five minutes between two
  looks at `dir_stats`, and a read error in the middle of `history.jsonl`, which
  `ReadHistory` takes for its end.
* How bytes become lines and fields (`encoding/json`): a line is what it yields.
