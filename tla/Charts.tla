-------------------------------- MODULE Charts --------------------------------
(***************************************************************************)
(* The arithmetic behind the charts: buildTimeline (pages_sessions.go),    *)
(* buildDaily (pages.go) over GetDailyUsage (queries_read.go), and         *)
(* buildUsage (usage.go) over ActivitySince.                               *)
(*                                                                         *)
(* Messages of one session come in while the clock goes on and the pages   *)
(* are asked for.  Time is counted in units from some midnight in UTC; a   *)
(* timestamp may be anything, as transcripts are written by another        *)
(* program.  The viewer's clock is set by Jump at the instant Shift.  A    *)
(* message stands for one token of output.                                 *)
(***************************************************************************)
EXTENDS Integers, Sequences, FiniteSets, FiniteSetsExt

CONSTANTS
    Day,        \* units in 24 hours
    Steps,      \* the widths a bar may have
    MaxBars,    \* maxBars
    Earliest,   \* the first date that is not taken for a corrupt timestamp
    DayRanges,  \* what the dashboard can be asked for; 0 is all
    Models,
    Incoming,   \* messages that may come in
    NoTime,     \* no timestamp
    Windows,    \* usage windows of the account: hours, and the reset on record
    Shift, Jump,
    Late,       \* of two midnights of a day, or none: which reading time.Date takes
    Start, MaxNow,  \* the time at first and at most
    MaxMessages     \* bound on the messages

VARIABLES
    now,        \* the clock
    messages,   \* the messages of the session
    rolled,     \* those RebuildRollups has seen
    pc,         \* "idle", or "rows" between the query and the pivot
    days, rows, \* the range asked for and what GetDailyUsage returned
    chart,      \* the daily chart
    asked       \* the messages in daily_usage when it was queried

vars == <<now, messages, rolled, pc, days, rows, chart, asked>>

Message == [ts : Nat \cup {NoTime}, kind : {"prompt", "tool_result", "response"},
            side : BOOLEAN, model : Models]

Assistant(m) == m.kind = "response"

\* The viewer's clock.
Clock(t) == t + (IF t < Shift THEN 0 ELSE Jump)

IsMidnight(t) == Clock(t) % Day = 0

ASSUME ConstantsOk ==
    /\ Day \in Nat \ {0} /\ MaxBars \in Nat \ {0, 1}
    /\ Steps \in Seq(Nat \ {0}) /\ Steps # << >>
    /\ \A i, j \in 1..Len(Steps) : i < j => Steps[i] < Steps[j]
    /\ \A i \in 1..Len(Steps) :
          IF Steps[i] < Day THEN Day % Steps[i] = 0 ELSE Steps[i] % Day = 0
    /\ Earliest \in Int /\ DayRanges \subseteq Nat
    /\ Incoming \subseteq Message /\ NoTime \notin Nat
    /\ Windows \subseteq [hours : Nat \ {0}, reset : Nat \cup {NoTime}]
    /\ Shift \in Int /\ Jump \in 1 - Day..Day - 1 /\ Late \in BOOLEAN
    /\ {Start, MaxNow, MaxMessages} \subseteq Nat /\ Start <= MaxNow

Empty == [first |-> 1, last |-> 0, data |-> << >>]

TypeOK ==
    /\ now \in Start..MaxNow
    /\ messages \subseteq Incoming /\ rolled \subseteq messages /\ asked \subseteq rolled
    /\ pc \in {"idle", "rows"}
    /\ days \in DayRanges \cup {0}
    /\ rows \subseteq [date : Nat, model : Models, output : Nat \ {0}]
    /\ \A r, s \in rows : r.date = s.date /\ r.model = s.model => r = s
    /\ chart.first \in Int /\ chart.last \in Int
    /\ DOMAIN chart.data \subseteq Models

Init ==
    /\ now = Start
    /\ messages = {} /\ rolled = {} /\ asked = {}
    /\ pc = "idle" /\ days = 0 /\ rows = {}
    /\ chart = Empty

-----------------------------------------------------------------------------
\* The timeline of a session.

\* Go divides towards zero.
Quo(a, d) == IF a >= 0 THEN a \div d ELSE -((-a) \div d)

\* Midnight of the viewer's day that t is in, by the clock before it is set and after ...
Readings(t) ==
    LET there == Day * (Clock(t) \div Day) IN {there, there - Jump}

\* ... and those of them at which the clock shows it: two or none if it is set over it.
Midnights(t) == {u \in Readings(t) : Clock(u) = Day * (Clock(t) \div Day)}

\* time.Date: it does not guarantee which reading it takes when there is not one.
Midnight(t) ==
    LET some == IF Midnights(t) = {} THEN Readings(t) ELSE Midnights(t)
    IN  IF Late THEN Max(some) ELSE Min(some)

\* (Mutant: cut by the clock of UTC.)
TruncateUTC(t, width) == t - (t % width)

\* Days are not cut from midnight on, shorter widths by the time since then.
TruncateLocal(t, width) ==
    IF width >= Day THEN Midnight(t)
                    ELSE Midnight(t) + Quo(t - Midnight(t), width) * width

\* SessionEvents: a message without a timestamp is not an event.
Events(ms) == {m \in ms : m.ts # NoTime}

\* (Mutant: the width is chosen so that the bars just fit, one short.)
WidthTooFine(span) ==
    LET fits == {j \in 1..Len(Steps) : span \div Steps[j] <= 2 * MaxBars}
    IN  IF fits = {} THEN Steps[Len(Steps)] ELSE Steps[Min(fits)]

\* The smallest width of which fewer than MaxBars fit in between.
Width(span) ==
    LET fits == {j \in 1..Len(Steps) : span \div Steps[j] < MaxBars}
    IN  IF fits = {} THEN Steps[Len(Steps)] ELSE Steps[Min(fits)]

\* (Mutant: from the first event to the last, without the bar the last is in.)
BarCountShort(span, width) == Quo(span, width)

BarCount(span, width) ==
    LET n == Quo(span, width) + 1 IN IF n > 2 * MaxBars THEN 2 * MaxBars ELSE n

Count(S) == Cardinality(S)

\* buildTimeline, for at least one event: prompts of the main thread, replies of the
\* main thread, replies of subagents; all other messages are in no bar.
Timeline(es) ==
    LET start  == Min({e.ts : e \in es})
        end    == Max({e.ts : e \in es})
        width  == Width(end - start)
        origin == TruncateLocal(start, width)
        In(i)  == {e \in es : Quo(e.ts - origin, width) = i - 1}
    IN  [width |-> width, origin |-> origin,
         bars |-> [i \in 1..BarCount(end - origin, width) |->
                    [prompts  |-> Count({e \in In(i) : e.kind = "prompt" /\ ~e.side}),
                     subagent |-> Count({e \in In(i) : Assistant(e) /\ e.side}),
                     replies  |-> Count({e \in In(i) : Assistant(e) /\ ~e.side})]]]

-----------------------------------------------------------------------------
\* Usage windows.

\* (Mutant: a window that has been reset is counted from its old start.)
SinceOldStart(w, t) == IF w.reset = NoTime THEN t - w.hours ELSE w.reset - w.hours

\* Where the count of a window starts.
Since(w, t) == IF w.reset = NoTime THEN t - w.hours
               ELSE IF w.reset < t THEN w.reset ELSE w.reset - w.hours

\* ActivitySince: the replies from the start of the window on.
Activity(w, t, ms) == {m \in ms : Assistant(m) /\ m.ts # NoTime /\ m.ts >= Since(w, t)}

-----------------------------------------------------------------------------
\* The daily chart.

Date(t) == t \div Day

\* (Mutant: a row for each model on each date.)
RollupOfAll(ms) ==
    [date : {Date(x.ts) : x \in Events(ms)}, model : Models, output : {0}]

\* daily_usage: a row for each date and model of the messages with a timestamp.
Rollup(ms) ==
    LET Of(d, m) == {x \in Events(ms) : Assistant(x) /\ Date(x.ts) = d /\ x.model = m}
    IN  {r \in [date : {Date(x.ts) : x \in Events(ms)}, model : Models, output : 1..Count(ms)] :
            r.output = Count(Of(r.date, r.model))}

\* GetDailyUsage.
InRange(range, t) == {r \in Rollup(rolled) : range > 0 => r.date >= Date(t) - range}

\* (Mutant: an early date stretches the axis.)
AnyDate(r, end) == r.date <= end

Plausible(r, end) == Earliest <= r.date /\ r.date <= end

Output(rs) == MapThenSumSet(LAMBDA r : r.output, rs)

\* buildDaily, by the date at time t: gap-free dates, models without output left out.
Pivot(rs, range, t) ==
    LET end   == Date(t)
        valid == {r \in rs : Plausible(r, end)}
        first == IF range > 0 THEN end - range ELSE Min({r.date : r \in valid})
        Cell(d, m) == Output({r \in valid : r.date = d /\ r.model = m})
        shown == {m \in Models : \E d \in first..end : Cell(d, m) > 0}
    IN  IF valid = {} THEN Empty
        ELSE [first |-> first, last |-> end,
              data |-> [m \in shown |-> [d \in first..end |-> Cell(d, m)]]]

-----------------------------------------------------------------------------

Tick ==
    /\ now < MaxNow
    /\ now' = now + 1
    /\ UNCHANGED <<messages, rolled, pc, days, rows, chart, asked>>

\* A message is read from the transcript.
Add(m) ==
    /\ Cardinality(messages) < MaxMessages
    /\ messages' = messages \cup {m}
    /\ UNCHANGED <<now, rolled, pc, days, rows, chart, asked>>

RebuildRollups ==
    /\ rolled' = messages
    /\ UNCHANGED <<now, messages, pc, days, rows, chart, asked>>

\* handleDashboard asks for the rows, by the date of that moment ...
QueryDaily(range) ==
    /\ pc = "idle"
    /\ pc' = "rows" /\ days' = range
    /\ rows' = InRange(range, now) /\ asked' = rolled
    /\ UNCHANGED <<now, messages, rolled, chart>>

\* ... and, after five other queries, lays them out by the date of this moment.
BuildDaily ==
    /\ pc = "rows"
    /\ pc' = "idle"
    /\ chart' = Pivot(rows, days, now)
    /\ UNCHANGED <<now, messages, rolled, days, rows, asked>>

Next ==
    \/ Tick
    \/ \E m \in Incoming : Add(m)
    \/ RebuildRollups
    \/ \E range \in DayRanges : QueryDaily(range)
    \/ BuildDaily

Spec == Init /\ [][Next]_vars

-----------------------------------------------------------------------------
\* What must hold.

events   == Events(messages)
timeline == Timeline(events)
Ends(tl) == tl.origin + Len(tl.bars) * tl.width

\* However far apart and corrupt the timestamps of a session are, its timeline has at
\* least one bar and a bounded number of them (pages_sessions.go:258-276).  It is not, as
\* the comment at :258 says, at most MaxBars: the width is chosen by the time from the
\* first event to the last, but the first bar begins at a full mark before the first
\* event, which takes one bar more (199m59s from 10:00:59 on: 201 of a minute), or two
\* on a day of 25 hours.  With the widest bars it is at most twice as many.
BarsBounded ==
    LET first == Min({e.ts : e \in events})
        more  == IF first < timeline.origin + timeline.width THEN 1 ELSE 2
    IN  events # {} =>
            /\ Len(timeline.bars) \in 1..2 * MaxBars
            /\ timeline.width # Steps[Len(Steps)] => Len(timeline.bars) <= MaxBars + more

\* Every prompt and reply is counted once, unless it is beyond the last of twice MaxBars of
\* the widest bars; also when the first bar begins at a midnight after the first event.
Shown(e) == Assistant(e) \/ (e.kind = "prompt" /\ ~e.side)

InBars(bars) ==
    MapThenSumSet(LAMBDA i : bars[i].prompts + bars[i].subagent + bars[i].replies, 1..Len(bars))

NoEventDropped ==
    events # {} =>
        LET within == {e \in events : e.ts < Ends(timeline)}
        IN  /\ Len(timeline.bars) < 2 * MaxBars => within = events
            /\ within # events => timeline.width = Steps[Len(Steps)]
            /\ InBars(timeline.bars) = Cardinality({e \in within : Shown(e)})

\* The bars of a session during whose days the clock is not set, and whose first day has
\* one midnight, begin at full marks of the viewer's clock: at midnight when they are days
\* or longer.  (Later on a day on which the clock was set, marks are off by as much: they
\* are measured from midnight.)
BarsOnTheClock ==
    LET first == Min({e.ts : e \in events})
        from  == Midnight(first)
    IN  /\ events # {} /\ Cardinality(Midnights(first)) = 1
        /\ ~(from < Shift /\ Shift < Ends(timeline))
        =>
            \A i \in 1..Len(timeline.bars) :
                LET b == timeline.origin + (i - 1) * timeline.width
                IN  IF timeline.width >= Day THEN IsMidnight(b)
                                             ELSE (Clock(b) % Day) % timeline.width = 0

\* Each cell of the daily chart is the output of that date and model in daily_usage when
\* it was queried, also when midnight falls between the query and the pivot; no date is
\* missing between the first and the last, and none is before Claude Code was there.  No
\* chart is empty for which daily_usage had a reply on a date that it may show.
DailyExact ==
    pc = "idle" =>
        LET Of(d, m) == {x \in asked : /\ x.ts # NoTime /\ Assistant(x) /\ x.model = m
                                       /\ Date(x.ts) = d /\ d >= Earliest}
        IN  /\ \A d \in chart.first..chart.last, m \in Models :
                  Cardinality(Of(d, m)) = IF m \in DOMAIN chart.data THEN chart.data[m][d] ELSE 0
            /\ days > 0 /\ chart # Empty => chart.last - chart.first = days
            /\ days = 0 /\ chart # Empty =>
                  /\ chart.first >= Earliest
                  /\ \A d \in Earliest..chart.first - 1, m \in Models : Of(d, m) = {}
            /\ chart = Empty =>
                  \A d \in Earliest..Date(Start), m \in Models :
                      (days > 0 => d >= Date(now) - days) => Of(d, m) = {}

\* A usage window counts each reply since the window began that contains this moment,
\* those with timestamps yet to come included, and none from before as long as its
\* snapshot is of this window or the one before; a reset is not further ahead than the
\* window is long (usage.go:51-66, queries_read.go:178-192).
UsageOfThisWindow ==
    \A w \in {v \in Windows : v.reset # NoTime => now > v.reset - v.hours} :
        LET begin   == IF w.reset = NoTime THEN now - w.hours
                       ELSE Max({b \in {w.reset + k * w.hours : k \in -1..MaxNow} : b < now})
            current == {m \in messages : Assistant(m) /\ m.ts # NoTime /\ m.ts >= begin}
        IN  /\ current \subseteq Activity(w, now, messages)
            /\ w.reset # NoTime /\ now <= w.reset + w.hours
                  => Activity(w, now, messages) = current
=============================================================================
