------------------------------ MODULE WatchLoop ------------------------------
(***************************************************************************)
(* When passes begin: Indexer.Run (internal/indexer/indexer.go) and the    *)
(* goroutine watch with Kick and syncWatches (internal/indexer/watch.go),  *)
(* against directories that change, appear and vanish at any time.         *)
(*                                                                         *)
(* A pass is reduced to the moments at which it looks at each directory:   *)
(* TranscriptIndex says what it does there.  A directory is dirty when it  *)
(* holds a change that no pass has looked at.                              *)
(*                                                                         *)
(* fsnotify is external: it reports changes of watched directories through *)
(* a buffer, and an overflow when the buffer is full.                      *)
(***************************************************************************)
EXTENDS Naturals, Sequences

CONSTANTS
    Dirs,        \* the directories of interest
    Roots,       \* those that always exist: the configuration root, projects/
    Up,          \* what lists a directory: projects/ a project, a project subagents/
    Quiet,       \* subagents/: in a session's directory, which is never watched
    Busy,        \* directories whose transcripts may be written to without end
    BufCap,      \* events fsnotify holds: its buffer and the one it waits to hand over
    AddBlocks,   \* Add waits while it can hold no more (Windows)
    MaxChanges   \* bound on changes and faults

ASSUME ConstantsOk ==
    /\ Roots \subseteq Dirs
    /\ Up \in [Dirs \ Roots -> Dirs]
    /\ Quiet \subseteq Dirs \ Roots /\ Busy \subseteq Dirs
    /\ \A d \in Dirs \ Roots : Up[d] \in Roots \/ Up[Up[d]] \in Roots
    /\ BufCap \in Nat \ {0} /\ MaxChanges \in Nat
    /\ AddBlocks \in BOOLEAN

VARIABLES
    \* The world.
    changes,   \* how many changes and faults there were
    exists,    \* the directories that exist
    dirty,     \* those with a change no pass has seen
    tickOnly,  \* dirty ones no event will be given for: unwatched, or the pass failed
    done,      \* ctx is done
    \* fsnotify.
    watcher,   \* "none" (not created), "open" or "closed"
    watched,   \* the directories watched
    events,    \* events not received yet: TRUE, or FALSE for one ignoreEvent drops
    overflow,  \* ErrEventOverflow is to be received
    \* The goroutine watch.
    drain,     \* "new" (not running yet), "on" or "returned"
    timer,     \* "off", "armed" or "expired" (fire is ready)
    \* The goroutine of Run, and what it receives from.
    run,       \* where Run is
    toAdd,     \* directories syncWatches has still to add
    unread,    \* directories the pass has still to look at
    kick,      \* the kick channel, of capacity 1, is full
    ticking,   \* the ticker exists
    tick       \* its channel, of capacity 1, is full

world == <<changes, exists, dirty, tickOnly, done>>
notify == <<watcher, watched, events, overflow>>
watchVars == <<drain, timer>>
runVars == <<run, toAdd, unread, ticking>>
vars == <<world, notify, watchVars, runVars, kick, tick>>

TypeOK ==
    /\ changes \in 0..MaxChanges
    /\ Roots \subseteq exists /\ exists \subseteq Dirs
    /\ dirty \subseteq exists /\ tickOnly \subseteq dirty
    /\ done \in BOOLEAN
    /\ watcher \in {"none", "open", "closed"}
    /\ watched \subseteq exists
    /\ events \in Seq(BOOLEAN) /\ Len(events) <= BufCap
    /\ overflow \in BOOLEAN
    /\ drain \in {"new", "on", "returned"}
    /\ timer \in {"off", "armed", "expired"}
    /\ run \in {"start", "sync0", "begin", "scan", "check", "sync", "wait", "return", "closed"}
    /\ toAdd \subseteq Dirs /\ unread \subseteq Dirs
    /\ kick \in BOOLEAN /\ ticking \in BOOLEAN /\ tick \in BOOLEAN
    /\ run = "closed" => watcher # "open" /\ drain = "returned"

Children(d) == {c \in exists \ Roots : Up[c] = d}

Init ==
    /\ changes = 0 /\ done = FALSE
    /\ exists = Roots /\ dirty = Roots /\ tickOnly = {}
    /\ watcher = "none" /\ watched = {} /\ events = << >> /\ overflow = FALSE
    /\ drain = "new" /\ timer = "off"
    /\ run = "start" /\ toAdd = {} /\ unread = {} /\ ticking = FALSE
    /\ kick = FALSE /\ tick = FALSE

-----------------------------------------------------------------------------
\* The world: Claude Code, the operating system, the user.

Happens == changes < MaxChanges /\ changes' = changes + 1

\* An event about something in d, when d is watched.
Report(d, interesting) ==
    IF d \notin watched THEN UNCHANGED <<events, overflow>>
    ELSE IF Len(events) < BufCap
    THEN events' = Append(events, interesting) /\ UNCHANGED overflow
    ELSE overflow' = TRUE /\ UNCHANGED events

\* Where the birth or death of d can be noticed: in the directory above, unless that
\* is not the one that lists it, and in d itself.
Heard(d) == {Up[d]} \cup (Quiet \cap {d})

\* The directories in D have changed; d is the one an event may be given for.
Soiled(D, d) ==
    /\ dirty' = dirty \cup D
    /\ tickOnly' = IF d \in watched THEN tickOnly ELSE tickOnly \cup D
    /\ Report(d, TRUE)

\* Where a transcript is being written, a change in what already waits for a pass is not
\* counted: such writes may go on for ever.
Change(d) ==
    /\ d \in exists
    /\ IF d \in Busy \cap dirty THEN UNCHANGED changes ELSE Happens
    /\ Soiled({d}, d)
    /\ UNCHANGED <<exists, done, watcher, watched, watchVars, runVars, kick, tick>>

MakeDir(d) ==
    /\ d \notin exists /\ Up[d] \in exists
    /\ Happens
    /\ exists' = exists \cup {d}
    /\ \E e \in Heard(d) : Soiled({d, Up[d]}, e)
    /\ UNCHANGED <<done, watcher, watched, watchVars, runVars, kick, tick>>

\* The kernel drops the watch with the directory.
RemoveDir(d) ==
    /\ d \in exists \ Roots /\ Children(d) = {}
    /\ Happens
    /\ exists' = exists \ {d}
    /\ dirty' = (dirty \ {d}) \cup {Up[d]}
    /\ \E e \in Heard(d) :
          /\ tickOnly' = (tickOnly \ {d}) \cup (IF e \in watched THEN {} ELSE {Up[d]})
          /\ Report(e, TRUE)
    /\ watched' = watched \ {d}
    /\ UNCHANGED <<done, watcher, watchVars, runVars, kick, tick>>

\* A temporary or denied file, or a change of mode.
Noise(d) ==
    /\ d \in watched
    /\ Happens
    /\ Report(d, FALSE)
    /\ UNCHANGED <<exists, dirty, tickOnly, done, watcher, watched, watchVars, runVars, kick, tick>>

\* The signal, or a listen failure, after which main calls stop.
Cancel ==
    /\ ~done
    /\ done' = TRUE
    /\ UNCHANGED <<changes, exists, dirty, tickOnly, notify, watchVars, runVars, kick, tick>>

\* (Mutant: the ticker is for programs without a watcher.)
TickWithoutWatcher ==
    /\ ticking /\ ~tick /\ watcher = "none"
    /\ tick' = TRUE
    /\ UNCHANGED <<world, notify, watchVars, runVars, kick>>

\* A tick is dropped when the one before has not been received.
Tick ==
    /\ ticking /\ ~tick
    /\ tick' = TRUE
    /\ UNCHANGED <<world, notify, watchVars, runVars, kick>>

-----------------------------------------------------------------------------
\* The goroutine watch.

\* (Mutant: the kick channel has no buffer.)
KickUnbuffered == kick' = (kick \/ run = "wait")

\* A kick that finds the channel full is dropped.
Kick == kick' = TRUE

WatchStarts ==
    /\ drain = "new" /\ run # "start"
    /\ drain' = IF watcher = "none" THEN "returned" ELSE "on"
    /\ UNCHANGED <<world, notify, timer, runVars, kick, tick>>

\* An event worth a scan starts the timer again: Stop, empty its channel, Reset.
ReceiveEvent ==
    /\ drain = "on" /\ events # << >>
    /\ events' = Tail(events)
    /\ timer' = IF Head(events) THEN "armed" ELSE timer
    /\ UNCHANGED <<world, watcher, watched, overflow, drain, runVars, kick, tick>>

\* 500 ms have passed.
TimerExpires ==
    /\ timer = "armed"
    /\ timer' = "expired"
    /\ UNCHANGED <<world, notify, drain, runVars, kick, tick>>

\* ... and no event has started it again: only then is the timer sure to expire.
TimerLeft == TimerExpires /\ \A i \in 1..Len(events) : ~events[i]

Fire ==
    /\ drain = "on" /\ timer = "expired"
    /\ timer' = "off"
    /\ Kick
    /\ UNCHANGED <<world, notify, drain, runVars, tick>>

ReceiveOverflow ==
    /\ drain = "on" /\ overflow
    /\ overflow' = FALSE
    /\ Kick
    /\ UNCHANGED <<world, watcher, watched, events, watchVars, runVars, tick>>

\* (Mutant: the goroutine goes on until the watcher is closed.)
WatchReturnsOnClose ==
    /\ drain = "on" /\ watcher = "closed"
    /\ drain' = "returned"
    /\ UNCHANGED <<world, notify, timer, runVars, kick, tick>>

WatchReturns ==
    /\ drain = "on" /\ done
    /\ drain' = "returned"
    /\ UNCHANGED <<world, notify, timer, runVars, kick, tick>>

-----------------------------------------------------------------------------
\* The goroutine of Run.

\* startWatcher, which may fail, and the start of the goroutine watch.
StartWatcher ==
    /\ run = "start"
    /\ watcher' \in {"none", "open"}
    /\ run' = "sync0"
    /\ toAdd' = IF watcher' = "open" THEN Roots ELSE {}
    /\ UNCHANGED <<world, watched, events, overflow, watchVars, unread, ticking, kick, tick>>

Syncing == run \in {"sync0", "sync"}

\* Add, then what is in the directory: the projects, or a project's subagents.
AddWatch(d) ==
    /\ Syncing /\ d \in toAdd
    /\ AddBlocks => Len(events) < BufCap
    /\ watched' = watched \cup ({d} \cap exists)
    /\ toAdd' = (toAdd \ {d}) \cup Children(d)
    /\ UNCHANGED <<world, watcher, events, overflow, watchVars, run, unread, ticking, kick, tick>>

\* Add fails: it is logged, and the next one follows.
AddFails(d) ==
    /\ Syncing /\ d \in toAdd
    /\ Happens
    /\ toAdd' = (toAdd \ {d}) \cup Children(d)
    /\ UNCHANGED <<exists, dirty, tickOnly, done, notify, watchVars, run, unread, ticking, kick, tick>>

\* ListProjects fails once the roots are added.
ListFails ==
    /\ Syncing /\ toAdd # {} /\ toAdd \cap Roots = {}
    /\ Happens
    /\ toAdd' = {}
    /\ UNCHANGED <<exists, dirty, tickOnly, done, notify, watchVars, run, unread, ticking, kick, tick>>

\* The first time the scan follows, later the wait.
SyncEnds ==
    /\ Syncing /\ toAdd = {}
    /\ run' = IF run = "sync0" THEN "begin" ELSE "wait"
    /\ ticking' = (ticking \/ run = "sync")
    /\ UNCHANGED <<world, notify, watchVars, toAdd, unread, kick, tick>>

ScanBegins ==
    /\ run = "begin"
    /\ run' = "scan"
    /\ unread' = Roots
    /\ UNCHANGED <<world, notify, watchVars, toAdd, ticking, kick, tick>>

\* The pass looks at what d holds now.
ReadDir(d) ==
    /\ run = "scan" /\ d \in unread
    /\ dirty' = dirty \ {d}
    /\ tickOnly' = tickOnly \ {d}
    /\ unread' = (unread \ {d}) \cup Children(d)
    /\ UNCHANGED <<changes, exists, done, notify, watchVars, run, toAdd, ticking, kick, tick>>

\* Scan returns: all is read, or ctx is done ...
ScanEnds ==
    /\ run = "scan"
    /\ unread = {} \/ done
    /\ run' = "check"
    /\ unread' = {}
    /\ UNCHANGED <<world, notify, watchVars, toAdd, ticking, kick, tick>>

\* ... or an error is logged, and what was not read is left to the next pass.
ScanFails ==
    /\ run = "scan"
    /\ Happens
    /\ run' = "check"
    /\ unread' = {}
    /\ tickOnly' = dirty
    /\ UNCHANGED <<exists, dirty, done, notify, watchVars, toAdd, ticking, kick, tick>>

\* (Mutant: the watches are those of the start.)
CheckNoSync ==
    /\ run = "check"
    /\ run' = "wait" /\ ticking' = TRUE
    /\ UNCHANGED <<world, notify, watchVars, toAdd, unread, kick, tick>>

\* ctx.Err() is asked before syncWatches, not during it.
Check ==
    /\ run = "check"
    /\ \/ done /\ run' = "wait" /\ ticking' = TRUE /\ UNCHANGED toAdd
       \/ ~done /\ run' = "sync" /\ UNCHANGED ticking
          /\ toAdd' = IF watcher = "open" THEN Roots ELSE {}
    /\ UNCHANGED <<world, notify, watchVars, unread, kick, tick>>

SelectTick ==
    /\ run = "wait" /\ tick
    /\ tick' = FALSE
    /\ run' = "begin"
    /\ UNCHANGED <<world, notify, watchVars, toAdd, unread, ticking, kick>>

SelectKick ==
    /\ run = "wait" /\ kick
    /\ kick' = FALSE
    /\ run' = "begin"
    /\ UNCHANGED <<world, notify, watchVars, toAdd, unread, ticking, tick>>

SelectDone ==
    /\ run = "wait" /\ done
    /\ run' = "return"
    /\ UNCHANGED <<world, notify, watchVars, toAdd, unread, ticking, kick, tick>>

\* (Mutant: Close does not wait for the goroutine watch.)
CloseAtOnce ==
    /\ run = "return"
    /\ run' = "closed"
    /\ watcher' = IF watcher = "open" THEN "closed" ELSE watcher
    /\ watched' = {} /\ ticking' = FALSE
    /\ UNCHANGED <<world, events, overflow, watchVars, toAdd, unread, kick, tick>>

\* The deferred calls: wait for the goroutine watch, Close, Stop.
CloseWatcher ==
    /\ run = "return" /\ drain = "returned"
    /\ run' = "closed"
    /\ watcher' = IF watcher = "open" THEN "closed" ELSE watcher
    /\ watched' = {} /\ ticking' = FALSE
    /\ UNCHANGED <<world, events, overflow, watchVars, toAdd, unread, kick, tick>>

-----------------------------------------------------------------------------
World ==
    \/ \E d \in Dirs : Change(d) \/ Noise(d)
    \/ \E d \in Dirs \ Roots : MakeDir(d) \/ RemoveDir(d)
    \/ Cancel

Faults == (\E d \in Dirs : AddFails(d)) \/ ListFails \/ ScanFails

WatchStep == WatchStarts \/ ReceiveEvent \/ Fire \/ ReceiveOverflow \/ WatchReturns

RunStep ==
    \/ StartWatcher
    \/ \E d \in Dirs : AddWatch(d) \/ ReadDir(d)
    \/ SyncEnds \/ ScanBegins \/ ScanEnds \/ Check
    \/ SelectTick \/ SelectKick \/ SelectDone \/ CloseWatcher

Next == World \/ Faults \/ Tick \/ TimerExpires \/ WatchStep \/ RunStep

Spec == Init /\ [][Next]_vars

\* Goroutines and the ticker go on, as does the timer when no event that starts it again
\* waits, and a select whose case is ready again and again takes it some time (Go picks
\* one of the ready cases at random).
FairSpec ==
    /\ Spec
    /\ WF_vars(RunStep) /\ SF_vars(SelectDone)
    /\ WF_vars(WatchStep) /\ WF_vars(WatchReturns)
    /\ WF_vars(Tick) /\ WF_vars(TimerLeft)

-----------------------------------------------------------------------------
\* What must hold.

\* A pass is sure to begin without the ticker.
PassToCome ==
    \/ run \in {"start", "sync0", "begin"}
    \/ kick \/ timer # "off" \/ overflow
    \/ \E i \in 1..Len(events) : events[i]

\* The pass that is running will look at d.
OnTheWay(d) ==
    \/ d \in unread
    \/ d \notin Roots /\ Up[d] \in unread
    \/ d \notin Roots /\ Up[d] \notin Roots /\ Up[Up[d]] \in unread

\* A change in a watched directory is never lost, whatever the pass, the timer and
\* the kick channel are doing when it comes: until a pass looks at the directory,
\* the running one is going to, or another one is on its way.
ChangesAnnounced ==
    ~done => \A d \in dirty \ tickOnly : PassToCome \/ OnTheWay(d)

\* Every change is looked at in the end, those without an event thanks to the ticker.
ChangesSeen == \A d \in Dirs : (d \in dirty) ~> (d \notin dirty \/ done)

\* When the directories come to rest all of them are watched.
AllWatched == <>[](watcher = "open" /\ ~done => watched = exists)

\* A stop reaches the end of Run, which main waits for before it closes the store.
StopEnds == done ~> run = "closed"
=============================================================================
