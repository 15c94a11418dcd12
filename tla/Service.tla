-------------------------------- MODULE Service --------------------------------
(***************************************************************************)
(* The life of the process: opening the database and migrating it, the     *)
(* indexer's goroutine, the listener, a stop and the way out (run in       *)
(* cmd/claudepulse/main.go, ListenAndServe in internal/web/server.go,      *)
(* Open, migrate, Tx and Close in internal/store/store.go).                *)
(*                                                                         *)
(* Several processes may share a database and want the same port.  SQLite  *)
(* lets one of them write at a time; who waits longer than busy_timeout    *)
(* gets an error.  A process may die at any moment, which rolls its open   *)
(* transaction back.  A pass is reduced to its transactions.               *)
(***************************************************************************)
EXTENDS Naturals

CONSTANTS
    Procs,       \* processes that may run
    NMigrations, \* files in migrations/
    Repeatable,  \* the migrations whose body can run twice: 0003 drops what it creates
    None,        \* no process
    MaxStarts    \* bound on the number of starts

Migrations == 1..NMigrations

ASSUME ConstantsOk ==
    /\ NMigrations \in Nat /\ MaxStarts \in Nat
    /\ Repeatable \subseteq Migrations
    /\ None \notin Procs

VARIABLES
    starts,     \* how many processes have been started
    bodies,     \* how often the body of a migration has been committed
    recorded,   \* versions in schema_migrations
    writer,     \* whose transaction holds the database's write lock
    port,       \* who is bound to the port
    phase,      \* where run is
    known,      \* migrations the process has found or applied
    cancelled,  \* ctx is done
    indexer     \* where Indexer.Run is

dbVars == <<bodies, recorded>>
procVars == <<phase, known, cancelled, indexer>>
vars == <<starts, dbVars, writer, port, procVars>>

TypeOK ==
    /\ starts \in 0..MaxStarts
    /\ bodies \in [Migrations -> Nat]
    /\ recorded \subseteq Migrations
    /\ writer \in Procs \cup {None} /\ port \in Procs \cup {None}
    /\ phase \in [Procs -> {"off", "open", "migrate", "body", "up", "serve", "leave", "closed"}]
    /\ known \in [Procs -> SUBSET Migrations]
    /\ cancelled \in [Procs -> BOOLEAN]
    /\ indexer \in [Procs -> {"off", "idle", "tx", "returned"}]
    /\ \A p \in Procs : port = p <=> phase[p] = "serve"

Init ==
    /\ starts = 0
    /\ bodies = [m \in Migrations |-> 0] /\ recorded = {}
    /\ writer = None /\ port = None
    /\ phase = [p \in Procs |-> "off"]
    /\ known = [p \in Procs |-> {}]
    /\ cancelled = [p \in Procs |-> FALSE]
    /\ indexer = [p \in Procs |-> "off"]

\* (Mutant: what a process held outlives it.)
StillHeld(held, p) == held

Released(held, p) == IF held = p THEN None ELSE held

\* The process is gone: its transaction is rolled back, its port is free.
Exit(p) ==
    /\ phase' = [phase EXCEPT ![p] = "off"]
    /\ known' = [known EXCEPT ![p] = {}]
    /\ cancelled' = [cancelled EXCEPT ![p] = FALSE]
    /\ indexer' = [indexer EXCEPT ![p] = "off"]
    /\ writer' = Released(writer, p)
    /\ port' = Released(port, p)
    /\ UNCHANGED <<starts, dbVars>>

-----------------------------------------------------------------------------
\* The outside world.

Start(p) ==
    /\ phase[p] = "off"
    /\ starts < MaxStarts
    /\ starts' = starts + 1
    /\ phase' = [phase EXCEPT ![p] = "open"]
    /\ UNCHANGED <<dbVars, writer, port, known, cancelled, indexer>>

\* SIGINT or SIGTERM once NotifyContext has been called.
Signal(p) ==
    /\ phase[p] \in {"up", "serve", "leave"} /\ ~cancelled[p]
    /\ cancelled' = [cancelled EXCEPT ![p] = TRUE]
    /\ UNCHANGED <<starts, dbVars, writer, port, phase, known, indexer>>

\* A signal before that or a second one, or the machine goes down.
Crash(p) == phase[p] # "off" /\ Exit(p)

-----------------------------------------------------------------------------
\* store.Open.

\* An error of SQLite ends the start: a lock that is not to be had in time, too.
OpenFails(p) == phase[p] \in {"open", "migrate", "body"} /\ Exit(p)

\* What schema_migrations holds at this moment, read before any transaction.
ReadApplied(p) ==
    /\ phase[p] = "open"
    /\ phase' = [phase EXCEPT ![p] = "migrate"]
    /\ known' = [known EXCEPT ![p] = recorded]
    /\ UNCHANGED <<starts, dbVars, writer, port, cancelled, indexer>>

\* The migrations are taken in the order of their names.
IsNext(p, m) == m \notin known[p] /\ \A k \in 1..m - 1 : k \in known[p]

\* The first statement takes the write lock; a table that is already there makes the
\* body fail, which leaves OpenFails.
ExecBody(p) ==
    /\ phase[p] = "migrate" /\ writer = None
    /\ \E m \in Migrations : IsNext(p, m) /\ (bodies[m] = 0 \/ m \in Repeatable)
    /\ phase' = [phase EXCEPT ![p] = "body"]
    /\ writer' = p
    /\ UNCHANGED <<starts, dbVars, port, known, cancelled, indexer>>

\* (Mutant: INSERT OR IGNORE.)
RecordAgain(p) ==
    /\ phase[p] = "body"
    /\ \E m \in Migrations :
          /\ IsNext(p, m)
          /\ recorded' = recorded \cup {m}
          /\ bodies' = [bodies EXCEPT ![m] = @ + 1]
          /\ known' = [known EXCEPT ![p] = @ \cup {m}]
    /\ phase' = [phase EXCEPT ![p] = "migrate"]
    /\ writer' = None
    /\ UNCHANGED <<starts, port, cancelled, indexer>>

\* The version is inserted and both are committed; a version that is already there
\* violates the primary key, which again leaves OpenFails.
Record(p) ==
    /\ phase[p] = "body"
    /\ \E m \in Migrations \ recorded :
          /\ IsNext(p, m)
          /\ recorded' = recorded \cup {m}
          /\ bodies' = [bodies EXCEPT ![m] = @ + 1]
          /\ known' = [known EXCEPT ![p] = @ \cup {m}]
    /\ phase' = [phase EXCEPT ![p] = "migrate"]
    /\ writer' = None
    /\ UNCHANGED <<starts, port, cancelled, indexer>>

\* (Mutant: an error of migrate is only logged.)
MigrateGivesUp(p) ==
    /\ phase[p] = "migrate"
    /\ phase' = [phase EXCEPT ![p] = "up"]
    /\ indexer' = [indexer EXCEPT ![p] = "idle"]
    /\ UNCHANGED <<starts, dbVars, writer, port, known, cancelled>>

\* Open returns; run starts the goroutine of the indexer.
MigrateEnds(p) ==
    /\ phase[p] = "migrate" /\ known[p] = Migrations
    /\ phase' = [phase EXCEPT ![p] = "up"]
    /\ indexer' = [indexer EXCEPT ![p] = "idle"]
    /\ UNCHANGED <<starts, dbVars, writer, port, known, cancelled>>

-----------------------------------------------------------------------------
\* The indexer.

\* BeginTx with a done ctx fails, and so does Commit.
BeginTx(p) ==
    /\ indexer[p] = "idle" /\ ~cancelled[p] /\ writer = None
    /\ indexer' = [indexer EXCEPT ![p] = "tx"]
    /\ writer' = p
    /\ UNCHANGED <<starts, dbVars, port, phase, known, cancelled>>

\* Commit, or a rollback because of an error or a done ctx.
EndTx(p) ==
    /\ indexer[p] = "tx"
    /\ indexer' = [indexer EXCEPT ![p] = "idle"]
    /\ writer' = None
    /\ UNCHANGED <<starts, dbVars, port, phase, known, cancelled>>

RunReturns(p) ==
    /\ indexer[p] = "idle" /\ cancelled[p]
    /\ indexer' = [indexer EXCEPT ![p] = "returned"]
    /\ UNCHANGED <<starts, dbVars, writer, port, phase, known, cancelled>>

-----------------------------------------------------------------------------
\* ListenAndServe and the way out.

Listen(p) ==
    /\ phase[p] = "up" /\ port = None
    /\ port' = p
    /\ phase' = [phase EXCEPT ![p] = "serve"]
    /\ UNCHANGED <<starts, dbVars, writer, known, cancelled, indexer>>

\* The port is taken, or the address is not a loopback address.
ListenFails(p) ==
    /\ phase[p] = "up"
    /\ phase' = [phase EXCEPT ![p] = "leave"]
    /\ UNCHANGED <<starts, dbVars, writer, port, known, cancelled, indexer>>

\* Shutdown closes the listener, which makes Serve return at once; or Accept fails.
ServeReturns(p) ==
    /\ phase[p] = "serve"
    /\ phase' = [phase EXCEPT ![p] = "leave"]
    /\ port' = Released(port, p)
    /\ UNCHANGED <<starts, dbVars, writer, known, cancelled, indexer>>

ShutDown(p) == cancelled[p] /\ ServeReturns(p)

\* (Mutant: stop is left to the deferred call, which comes after wg.Wait.)
StopAfterWait(p) ==
    /\ phase[p] = "leave" /\ ~cancelled[p] /\ indexer[p] = "returned"
    /\ cancelled' = [cancelled EXCEPT ![p] = TRUE]
    /\ UNCHANGED <<starts, dbVars, writer, port, phase, known, indexer>>

\* A process that could not listen must stop its indexer, too.
Stop(p) ==
    /\ phase[p] = "leave" /\ ~cancelled[p]
    /\ cancelled' = [cancelled EXCEPT ![p] = TRUE]
    /\ UNCHANGED <<starts, dbVars, writer, port, phase, known, indexer>>

\* (Mutant: the store is closed without wg.Wait.)
CloseAtOnce(p) ==
    /\ phase[p] = "leave" /\ cancelled[p]
    /\ phase' = [phase EXCEPT ![p] = "closed"]
    /\ UNCHANGED <<starts, dbVars, writer, port, known, cancelled, indexer>>

\* After wg.Wait the deferred calls close the store.
Close(p) ==
    /\ phase[p] = "leave" /\ cancelled[p] /\ indexer[p] = "returned"
    /\ phase' = [phase EXCEPT ![p] = "closed"]
    /\ UNCHANGED <<starts, dbVars, writer, port, known, cancelled, indexer>>

ExitAfterClose(p) == phase[p] = "closed" /\ Exit(p)

-----------------------------------------------------------------------------

MainStep(p) ==
    \/ OpenFails(p) \/ ReadApplied(p) \/ ExecBody(p) \/ Record(p) \/ MigrateEnds(p)
    \/ Listen(p) \/ ListenFails(p) \/ ShutDown(p)
    \/ Stop(p) \/ Close(p) \/ ExitAfterClose(p)

RunStep(p) == BeginTx(p) \/ EndTx(p) \/ RunReturns(p)

World(p) == Start(p) \/ Signal(p) \/ Crash(p) \/ ServeReturns(p)

Next == \E p \in Procs : World(p) \/ MainStep(p) \/ RunStep(p)

Spec == Init /\ [][Next]_vars

\* Each goroutine goes on.  A statement of SQLite gets its lock or an error within
\* busy_timeout, so that OpenFails counts as a step of run.
FairSpec == Spec /\ \A p \in Procs : WF_vars(MainStep(p)) /\ WF_vars(RunStep(p))

-----------------------------------------------------------------------------
\* What must hold.

\* Whoever starts at the same time and dies in between, the schema is what the recorded
\* migrations make of an empty database when each is run once, in order.
SchemaSound ==
    \A m \in Migrations :
        /\ bodies[m] = IF m \in recorded THEN 1 ELSE 0
        /\ m \in recorded => \A k \in 1..m : k \in recorded

\* Nothing is indexed or served on a part of the schema.
SchemaWhole == \A p \in Procs : indexer[p] # "off" => recorded = Migrations

\* The database is not closed under a pass that is in a transaction, and the write
\* lock is held by the transaction of one process, which has not closed it.
CloseAfterPass ==
    \A p \in Procs :
        /\ indexer[p] = "tx" => writer = p /\ phase[p] \in {"up", "serve", "leave"}
        /\ writer = p => indexer[p] = "tx" \/ phase[p] = "body"

\* A stop, a busy port and a listener that fails lead out of the process, and a start
\* comes to an end: nobody waits for the lock or the indexer for ever.
Ends ==
    \A p \in Procs :
        /\ cancelled[p] \/ phase[p] = "leave" ~> phase[p] = "off"
        /\ phase[p] = "open" ~> phase[p] \in {"off", "serve"}
=============================================================================
