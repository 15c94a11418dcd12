-------------------------- MODULE WatchLoop_proofs --------------------------
(***************************************************************************)
(* Proofs about WatchLoop, for any directories, any buffer and any number  *)
(* of changes and faults.                                                  *)
(***************************************************************************)
EXTENDS WatchLoop, TLAPS

\* An event is put into the buffer, or the overflow is noted, or nobody watches.
LEMMA ReportType ==
    ASSUME TypeOK, NEW d, NEW interesting \in BOOLEAN, Report(d, interesting)
    PROVE  /\ events' \in Seq(BOOLEAN) /\ Len(events') <= BufCap /\ overflow' \in BOOLEAN
           /\ overflow => overflow'
           /\ (\E i \in 1..Len(events) : events[i]) => \E i \in 1..Len(events') : events'[i]
           /\ d \in watched /\ interesting => overflow' \/ \E i \in 1..Len(events') : events'[i]
<1>0. events \in Seq(BOOLEAN) /\ Len(events) <= BufCap /\ Len(events) \in Nat /\ BufCap \in Nat
      /\ overflow \in BOOLEAN
  BY ConstantsOk DEF ConstantsOk, TypeOK
<1>1. CASE events' = events
  <2>1. overflow' \in BOOLEAN /\ (overflow => overflow')
    BY <1>0, <1>1 DEF Report
  <2>2. d \in watched /\ interesting => overflow'
    <3>1. events # Append(events, interesting)
      BY <1>0
    <3>2. QED
      BY <1>1, <3>1 DEF Report
  <2>3. QED
    BY <1>0, <1>1, <2>1, <2>2
<1>2. CASE events' # events
  <2>1. events' = Append(events, interesting) /\ overflow' = overflow /\ Len(events) < BufCap
    BY <1>2 DEF Report
  <2>2. /\ events' \in Seq(BOOLEAN) /\ Len(events') = Len(events) + 1
        /\ events'[Len(events')] = interesting
        /\ \A i \in 1..Len(events) : events'[i] = events[i]
    BY <1>0, <2>1
  <2>3. Len(events') <= BufCap /\ Len(events') \in 1..Len(events') /\ 1..Len(events) \subseteq 1..Len(events')
    BY <1>0, <2>1, <2>2
  <2>4. QED
    BY <1>0, <2>1, <2>2, <2>3
<1>3. QED
  BY <1>1, <1>2

-----------------------------------------------------------------------------
\* The inductive invariant: a directory lies in one that exists.
Tree == \A d \in exists \ Roots : Up[d] \in exists

IndInv == TypeOK /\ Tree /\ ChangesAnnounced

LEMMA InitInd == Init => IndInv
<1> SUFFICES ASSUME Init PROVE IndInv
  OBVIOUS
<1>1. TypeOK
  <2>1. events \in Seq(BOOLEAN) /\ Len(events) = 0 /\ BufCap \in Nat /\ MaxChanges \in Nat
    BY ConstantsOk DEF ConstantsOk, Init
  <2>2. Roots \subseteq Dirs
    BY ConstantsOk DEF ConstantsOk
  <2>3. done \in BOOLEAN /\ overflow \in BOOLEAN /\ kick \in BOOLEAN /\ ticking \in BOOLEAN /\ tick \in BOOLEAN
    BY DEF Init
  <2>4. changes \in 0..MaxChanges /\ dirty \subseteq exists /\ tickOnly \subseteq dirty /\ watched \subseteq exists
    BY <2>1 DEF Init
  <2>5. /\ watcher \in {"none", "open", "closed"} /\ drain \in {"new", "on", "returned"}
        /\ timer \in {"off", "armed", "expired"} /\ run = "start" /\ exists = Roots
        /\ toAdd = {} /\ unread = {}
    BY DEF Init
  <2>6. QED
    BY <2>1, <2>2, <2>3, <2>4, <2>5 DEF TypeOK
<1>2. Tree /\ ChangesAnnounced
  BY DEF Init, Tree, ChangesAnnounced, PassToCome
<1>3. QED
  BY <1>1, <1>2 DEF IndInv

\* A step that touches no directory, loses no hope of a pass and no directory of the
\* running one keeps what was announced.
LEMMA Kept ==
    ASSUME IndInv, dirty' \ tickOnly' \subseteq dirty \ tickOnly, done => done',
           PassToCome => PassToCome', unread \subseteq unread'
    PROVE  ChangesAnnounced'
BY DEF IndInv, ChangesAnnounced, OnTheWay

\* The outside world.
LEMMA WorldInd == ASSUME IndInv, World PROVE IndInv'
<1> USE DEF IndInv
<1>0. /\ changes \in Nat /\ MaxChanges \in Nat /\ changes <= MaxChanges
      /\ exists \subseteq Dirs /\ dirty \subseteq exists /\ tickOnly \subseteq dirty /\ watched \subseteq exists
      /\ Up \in [Dirs \ Roots -> Dirs] /\ Roots \subseteq exists
  BY ConstantsOk DEF ConstantsOk, TypeOK
<1>h. Happens => changes' \in 0..MaxChanges
  BY <1>0 DEF Happens
\* A change in D of which e gives the event.
<1>s. ASSUME NEW D \in SUBSET Dirs, NEW e, Soiled(D, e), D \subseteq exists', exists \subseteq exists',
             UNCHANGED <<done, run, kick, timer, unread>>
      PROVE  /\ dirty' \subseteq exists' /\ tickOnly' \subseteq dirty'
             /\ events' \in Seq(BOOLEAN) /\ Len(events') <= BufCap /\ overflow' \in BOOLEAN
             /\ ChangesAnnounced'
  <2>1. Report(e, TRUE)
    BY <1>s DEF Soiled
  <2>2. /\ events' \in Seq(BOOLEAN) /\ Len(events') <= BufCap /\ overflow' \in BOOLEAN
        /\ PassToCome => PassToCome'
        /\ e \in watched => PassToCome'
    BY <2>1, <1>s, ReportType DEF PassToCome
  <2>3. dirty' = dirty \cup D /\ tickOnly' = IF e \in watched THEN tickOnly ELSE tickOnly \cup D
    BY <1>s DEF Soiled
  <2>4. ChangesAnnounced'
    <3>1. CASE e \in watched
      BY <3>1, <2>2 DEF ChangesAnnounced
    <3>2. CASE e \notin watched
      BY <3>2, <2>2, <2>3, <1>s, Kept
    <3>3. QED
      BY <3>1, <3>2
  <2>5. QED
    BY <2>2, <2>3, <2>4, <1>0, <1>s
<1>1. ASSUME NEW d \in Dirs, Change(d) PROVE IndInv'
  <2>1. Soiled({d}, d) /\ exists' = exists /\ d \in exists /\ changes' \in 0..MaxChanges
    BY <1>1, <1>h DEF Change, TypeOK
  <2>2. UNCHANGED <<done, watcher, watched, drain, timer, run, toAdd, unread, ticking, kick, tick>>
    BY <1>1 DEF Change, watchVars, runVars
  <2>3. /\ dirty' \subseteq exists' /\ tickOnly' \subseteq dirty'
        /\ events' \in Seq(BOOLEAN) /\ Len(events') <= BufCap /\ overflow' \in BOOLEAN
        /\ ChangesAnnounced'
    BY <2>1, <2>2, <1>s
  <2>4. TypeOK'
    BY <2>1, <2>2, <2>3 DEF TypeOK
  <2>5. QED
    BY <2>1, <2>3, <2>4 DEF Tree
<1>2. ASSUME NEW d \in Dirs \ Roots, MakeDir(d) PROVE IndInv'
  <2>1. PICK e \in Heard(d) : Soiled({d, Up[d]}, e)
    BY <1>2 DEF MakeDir
  <2>2. /\ exists' = exists \cup {d} /\ Up[d] \in exists /\ changes' \in 0..MaxChanges
        /\ UNCHANGED <<done, watcher, watched, drain, timer, run, toAdd, unread, ticking, kick, tick>>
    BY <1>2, <1>h DEF MakeDir, watchVars, runVars
  <2>3. /\ dirty' \subseteq exists' /\ tickOnly' \subseteq dirty'
        /\ events' \in Seq(BOOLEAN) /\ Len(events') <= BufCap /\ overflow' \in BOOLEAN
        /\ ChangesAnnounced'
    <3>1. {d, Up[d]} \in SUBSET Dirs /\ {d, Up[d]} \subseteq exists' /\ exists \subseteq exists'
      BY <2>2, <1>0
    <3>2. QED
      BY <2>1, <2>2, <3>1, <1>s
  <2>4. TypeOK'
    BY <2>2, <2>3, <1>0 DEF TypeOK
  <2>5. Tree'
    BY <2>2 DEF Tree
  <2>6. QED
    BY <2>3, <2>4, <2>5
<1>3. ASSUME NEW d \in Dirs \ Roots, RemoveDir(d) PROVE IndInv'
  <2>1. PICK e \in Heard(d) :
          /\ tickOnly' = (tickOnly \ {d}) \cup (IF e \in watched THEN {} ELSE {Up[d]})
          /\ Report(e, TRUE)
    BY <1>3 DEF RemoveDir
  <2>2. /\ exists' = exists \ {d} /\ dirty' = (dirty \ {d}) \cup {Up[d]} /\ watched' = watched \ {d}
        /\ d \in exists /\ Children(d) = {} /\ changes' \in 0..MaxChanges
        /\ UNCHANGED <<done, watcher, drain, timer, run, toAdd, unread, ticking, kick, tick>>
    BY <1>3, <1>h DEF RemoveDir, watchVars, runVars
  <2>3. /\ events' \in Seq(BOOLEAN) /\ Len(events') <= BufCap /\ overflow' \in BOOLEAN
        /\ PassToCome => PassToCome'
        /\ e \in watched => PassToCome'
    BY <2>1, <2>2, ReportType DEF PassToCome
  <2>4. Up[d] \in exists' /\ Tree'
    <3>1. Up[d] \in exists /\ Up[d] # d
      BY <2>2 DEF Tree, Children
    <3>2. QED
      BY <3>1, <2>2 DEF Tree, Children
  <2>5. TypeOK'
    BY <2>1, <2>2, <2>3, <2>4, <1>0 DEF TypeOK
  <2>6. ChangesAnnounced'
    <3>1. CASE e \in watched
      BY <3>1, <2>3 DEF ChangesAnnounced
    <3>2. CASE e \notin watched
      BY <3>2, <2>1, <2>2, <2>3, Kept
    <3>3. QED
      BY <3>1, <3>2
  <2>7. QED
    BY <2>4, <2>5, <2>6
<1>4. ASSUME NEW d \in Dirs, Noise(d) PROVE IndInv'
  <2>1. /\ Report(d, FALSE) /\ changes' \in 0..MaxChanges
        /\ UNCHANGED <<exists, dirty, tickOnly, done, watcher, watched, drain, timer,
                       run, toAdd, unread, ticking, kick, tick>>
    BY <1>4, <1>h DEF Noise, watchVars, runVars
  <2>2. /\ events' \in Seq(BOOLEAN) /\ Len(events') <= BufCap /\ overflow' \in BOOLEAN
        /\ PassToCome => PassToCome'
    BY <2>1, ReportType DEF PassToCome
  <2>3. TypeOK' /\ Tree'
    BY <2>1, <2>2 DEF TypeOK, Tree
  <2>4. ChangesAnnounced'
    BY <2>1, <2>2, Kept
  <2>5. QED
    BY <2>3, <2>4
<1>5. ASSUME Cancel PROVE IndInv'
  BY <1>5 DEF Cancel, TypeOK, Tree, ChangesAnnounced, notify, watchVars, runVars
<1>6. QED
  BY <1>1, <1>2, <1>3, <1>4, <1>5 DEF World

\* Faults of the program, the two timers and the goroutine watch.
LEMMA OtherInd == ASSUME IndInv, Faults \/ Tick \/ TimerExpires \/ WatchStep PROVE IndInv'
<1> USE DEF IndInv
<1>0. changes \in Nat /\ MaxChanges \in Nat /\ (Happens => changes' \in 0..MaxChanges)
      /\ toAdd \subseteq Dirs /\ exists \subseteq Dirs
  BY ConstantsOk DEF ConstantsOk, TypeOK, Happens
<1>1. ASSUME NEW d \in Dirs, AddFails(d) PROVE IndInv'
  <2>1. /\ changes' \in 0..MaxChanges /\ toAdd' \subseteq Dirs
        /\ UNCHANGED <<exists, dirty, tickOnly, done, notify, watchVars, run, unread, ticking, kick, tick>>
    BY <1>0, <1>1 DEF AddFails, Children
  <2>2. QED
    BY <2>1 DEF TypeOK, Tree, ChangesAnnounced, PassToCome, OnTheWay, notify, watchVars
<1>2. ASSUME ListFails PROVE IndInv'
  BY <1>0, <1>2 DEF ListFails, TypeOK, Tree, ChangesAnnounced, PassToCome, OnTheWay, notify, watchVars
<1>3. ASSUME ScanFails PROVE IndInv'
  BY <1>0, <1>3 DEF ScanFails, TypeOK, Tree, ChangesAnnounced, notify, watchVars
<1>4. ASSUME Tick PROVE IndInv'
  BY <1>4 DEF Tick, TypeOK, Tree, ChangesAnnounced, PassToCome, OnTheWay, world, notify, watchVars, runVars
<1>5. ASSUME TimerExpires PROVE IndInv'
  BY <1>5 DEF TimerExpires, TypeOK, Tree, ChangesAnnounced, PassToCome, OnTheWay, world, notify, runVars
<1>6. ASSUME WatchStarts PROVE IndInv'
  BY <1>6 DEF WatchStarts, TypeOK, Tree, ChangesAnnounced, PassToCome, OnTheWay, world, notify, runVars
<1>7. ASSUME ReceiveEvent PROVE IndInv'
  <2>1. events \in Seq(BOOLEAN) /\ events # << >> /\ Len(events) <= BufCap /\ BufCap \in Nat
    BY <1>7, ConstantsOk DEF ConstantsOk, ReceiveEvent, TypeOK
  <2>2. /\ events' \in Seq(BOOLEAN) /\ Len(events') = Len(events) - 1
        /\ \A j \in 1..Len(events') : events'[j] = events[j + 1]
    <3>1. events' = Tail(events)
      BY <1>7 DEF ReceiveEvent
    <3>2. QED
      BY <2>1, <3>1
  <2>3. UNCHANGED <<world, watcher, watched, overflow, drain, runVars, kick, tick>>
        /\ timer' \in {"off", "armed", "expired"}
    BY <1>7 DEF ReceiveEvent, TypeOK
  <2>4. TypeOK' /\ Tree'
    <3>1. Len(events') <= BufCap
      BY <2>1, <2>2
    <3>2. QED
      BY <2>2, <2>3, <3>1 DEF TypeOK, Tree, world, runVars
  <2>5. PassToCome => PassToCome'
    <3>1. ASSUME NEW i \in 1..Len(events), events[i]
          PROVE  timer' # "off" \/ \E j \in 1..Len(events') : events'[j]
      <4>1. CASE i = 1
        <5>1. Head(events) = events[1]
          BY <2>1
        <5>2. timer' = IF Head(events) THEN "armed" ELSE timer
          BY <1>7 DEF ReceiveEvent
        <5>3. QED
          BY <3>1, <4>1, <5>1, <5>2
      <4>2. CASE i # 1
        <5>1. i - 1 \in 1..Len(events') /\ (i - 1) + 1 = i
          BY <2>1, <2>2, <4>2
        <5>2. events'[i - 1] = events[i]
          BY <2>2, <5>1
        <5>3. QED
          BY <3>1, <5>1, <5>2
      <4>3. QED
        BY <4>1, <4>2
    <3>2. timer # "off" => timer' # "off"
      BY <1>7 DEF ReceiveEvent
    <3>3. QED
      BY <2>3, <3>1, <3>2 DEF PassToCome, runVars
  <2>6. ChangesAnnounced'
    BY <2>3, <2>5, Kept DEF world, runVars
  <2>7. QED
    BY <2>4, <2>6
<1>8. ASSUME Fire PROVE IndInv'
  BY <1>8 DEF Fire, Kick, TypeOK, Tree, ChangesAnnounced, PassToCome, world, notify, runVars
<1>9. ASSUME ReceiveOverflow PROVE IndInv'
  BY <1>9 DEF ReceiveOverflow, Kick, TypeOK, Tree, ChangesAnnounced, PassToCome, world, watchVars, runVars
<1>10. ASSUME WatchReturns PROVE IndInv'
  BY <1>10 DEF WatchReturns, TypeOK, Tree, ChangesAnnounced, PassToCome, world, notify, runVars
<1>11. QED
  BY <1>1, <1>2, <1>3, <1>4, <1>5, <1>6, <1>7, <1>8, <1>9, <1>10 DEF Faults, WatchStep

\* The goroutine of Run.
LEMMA RunInd == ASSUME IndInv, RunStep PROVE IndInv'
<1> USE DEF IndInv
<1>0. /\ exists \subseteq Dirs /\ toAdd \subseteq Dirs /\ unread \subseteq Dirs /\ dirty \subseteq exists
      /\ Roots \subseteq Dirs /\ \A d \in Dirs \ Roots : Up[d] \in Roots \/ Up[Up[d]] \in Roots
  BY ConstantsOk DEF ConstantsOk, TypeOK
<1>1. ASSUME StartWatcher PROVE IndInv'
  BY <1>0, <1>1 DEF StartWatcher, TypeOK, Tree, ChangesAnnounced, PassToCome, world, watchVars
<1>2. ASSUME NEW d \in Dirs, AddWatch(d) PROVE IndInv'
  BY <1>0, <1>2 DEF AddWatch, Children, Syncing, TypeOK, Tree, ChangesAnnounced, PassToCome, OnTheWay,
                   world, watchVars
<1>3. ASSUME NEW d \in Dirs, ReadDir(d) PROVE IndInv'
  <2>1. TypeOK' /\ Tree'
    BY <1>0, <1>3 DEF ReadDir, Children, TypeOK, Tree, notify, watchVars
  <2>2. PassToCome => PassToCome'
    BY <1>3 DEF ReadDir, PassToCome, notify, watchVars
  <2>3. ASSUME NEW f \in dirty \ tickOnly, f # d, OnTheWay(f) PROVE OnTheWay(f)'
    <3>1. unread' = (unread \ {d}) \cup {c \in exists \ Roots : Up[c] = d} /\ exists' = exists
      BY <1>3 DEF ReadDir, Children
    <3>2. f \in exists /\ (f \notin Roots => Up[f] \in exists)
      BY <1>0 DEF Tree
    <3>3. QED
      BY <2>3, <3>1, <3>2 DEF OnTheWay
  <2>4. ChangesAnnounced'
    <3> SUFFICES ASSUME ~done', NEW f \in dirty' \ tickOnly' PROVE PassToCome' \/ OnTheWay(f)'
      BY DEF ChangesAnnounced
    <3>1. f \in dirty \ tickOnly /\ f # d /\ ~done
      BY <1>3 DEF ReadDir
    <3>2. PassToCome \/ OnTheWay(f)
      BY <3>1 DEF ChangesAnnounced
    <3>3. QED
      BY <2>2, <2>3, <3>1, <3>2
  <2>5. QED
    BY <2>1, <2>4
<1>4. ASSUME SyncEnds PROVE IndInv'
  BY <1>4 DEF SyncEnds, Syncing, TypeOK, Tree, ChangesAnnounced, PassToCome, OnTheWay, world, notify, watchVars
<1>5. ASSUME ScanBegins PROVE IndInv'
  <2>1. TypeOK' /\ Tree'
    BY <1>0, <1>5 DEF ScanBegins, TypeOK, Tree, world, notify, watchVars
  <2>2. ChangesAnnounced'
    BY <1>0, <1>5 DEF ScanBegins, ChangesAnnounced, OnTheWay, world
  <2>3. QED
    BY <2>1, <2>2
<1>6. ASSUME ScanEnds PROVE IndInv'
  BY <1>6 DEF ScanEnds, TypeOK, Tree, ChangesAnnounced, PassToCome, OnTheWay, world, notify, watchVars
<1>7. ASSUME Check PROVE IndInv'
  <2>1. UNCHANGED <<world, notify, watchVars, unread, kick, tick>> /\ run = "check"
    BY <1>7 DEF Check
  <2>2. CASE done /\ run' = "wait" /\ ticking' = TRUE /\ UNCHANGED toAdd
    BY <1>0, <2>1, <2>2 DEF TypeOK, Tree, ChangesAnnounced, PassToCome, OnTheWay, world, notify, watchVars
  <2>3. CASE ~done /\ run' = "sync" /\ UNCHANGED ticking /\ toAdd' = IF watcher = "open" THEN Roots ELSE {}
    BY <1>0, <2>1, <2>3 DEF TypeOK, Tree, ChangesAnnounced, PassToCome, OnTheWay, world, notify, watchVars
  <2>4. QED
    BY <1>7, <2>2, <2>3 DEF Check
<1>8. ASSUME SelectTick PROVE IndInv'
  BY <1>8 DEF SelectTick, TypeOK, Tree, ChangesAnnounced, PassToCome, world, notify, watchVars
<1>9. ASSUME SelectKick PROVE IndInv'
  BY <1>9 DEF SelectKick, TypeOK, Tree, ChangesAnnounced, PassToCome, world, notify, watchVars
<1>10. ASSUME SelectDone PROVE IndInv'
  BY <1>10 DEF SelectDone, TypeOK, Tree, ChangesAnnounced, PassToCome, OnTheWay, world, notify, watchVars
<1>11. ASSUME CloseWatcher PROVE IndInv'
  BY <1>11 DEF CloseWatcher, TypeOK, Tree, ChangesAnnounced, PassToCome, OnTheWay, world, watchVars
<1>12. QED
  BY <1>1, <1>2, <1>3, <1>4, <1>5, <1>6, <1>7, <1>8, <1>9, <1>10, <1>11 DEF RunStep

LEMMA IndInvariant == Spec => []IndInv
<1>1. IndInv /\ UNCHANGED vars => IndInv'
  BY DEF IndInv, TypeOK, Tree, ChangesAnnounced, PassToCome, OnTheWay,
         vars, world, notify, watchVars, runVars
<1>2. IndInv /\ [Next]_vars => IndInv'
  BY <1>1, WorldInd, OtherInd, RunInd DEF Next
<1>3. QED
  BY InitInd, <1>2, PTL DEF Spec

-----------------------------------------------------------------------------
\* The variables keep their types, what is watched or dirty exists, and the watcher
\* is closed once Run has returned (Run, watch, syncWatches).
THEOREM TypeCorrect == Spec => []TypeOK
<1>1. IndInv => TypeOK
  BY DEF IndInv
<1>2. QED
  BY <1>1, IndInvariant, PTL

\* No change in a watched directory is lost between events, timer, kick channel and
\* passes (watch, Kick, Run).
THEOREM NoChangeLost == Spec => []ChangesAnnounced
<1>1. IndInv => ChangesAnnounced
  BY DEF IndInv
<1>2. QED
  BY <1>1, IndInvariant, PTL
=============================================================================
