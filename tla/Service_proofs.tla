---------------------------- MODULE Service_proofs ----------------------------
(***************************************************************************)
(* Proofs about Service, for any number of processes, migrations and       *)
(* starts.                                                                 *)
(***************************************************************************)
EXTENDS Service, TLAPS

\* What a process knows of the migrations is on record, and all of them are when it
\* runs its indexer.
KnownInv ==
    \A p \in Procs :
        /\ known[p] \subseteq recorded
        /\ indexer[p] # "off" => known[p] = Migrations

\* Where run and Indexer.Run are together, and who has the write lock.
PlaceInv ==
    \A p \in Procs :
        /\ indexer[p] # "off" <=> phase[p] \in {"up", "serve", "leave", "closed"}
        /\ phase[p] = "closed" => indexer[p] = "returned"
        /\ writer = p <=> indexer[p] = "tx" \/ phase[p] = "body"

IndInv == TypeOK /\ SchemaSound /\ KnownInv /\ PlaceInv

LEMMA InitInd == Init => IndInv
BY ConstantsOk DEF ConstantsOk, Init, IndInv, TypeOK, SchemaSound, KnownInv, PlaceInv

\* A process that is gone leaves nothing behind.
LEMMA ExitInd == ASSUME IndInv, NEW p \in Procs, Exit(p) PROVE IndInv'
<1>1. TypeOK'
  BY ConstantsOk DEF ConstantsOk, IndInv, TypeOK, Exit, Released, dbVars
<1>2. SchemaSound'
  BY DEF IndInv, SchemaSound, Exit, dbVars
<1>3. KnownInv'
  BY DEF IndInv, TypeOK, KnownInv, Exit, dbVars
<1>4. PlaceInv'
  BY ConstantsOk DEF ConstantsOk, IndInv, TypeOK, PlaceInv, Exit, Released
<1>5. QED
  BY <1>1, <1>2, <1>3, <1>4 DEF IndInv

\* The next migration is the only one that may follow what is on record: a process
\* knows all before it, and one on record already cannot be recorded again.
LEMMA RecordInd == ASSUME IndInv, NEW p \in Procs, Record(p) PROVE IndInv'
<1>1. PICK m \in Migrations \ recorded :
          /\ IsNext(p, m)
          /\ recorded' = recorded \cup {m}
          /\ bodies' = [bodies EXCEPT ![m] = @ + 1]
          /\ known' = [known EXCEPT ![p] = @ \cup {m}]
  BY DEF Record
<1>2. /\ phase[p] = "body" /\ phase' = [phase EXCEPT ![p] = "migrate"] /\ writer' = None
      /\ UNCHANGED <<starts, port, cancelled, indexer>>
  BY DEF Record
<1>3. TypeOK'
  BY <1>1, <1>2 DEF IndInv, TypeOK
<1>4. \A k \in 1..m - 1 : k \in recorded
  BY <1>1 DEF IsNext, IndInv, KnownInv
<1>5. SchemaSound'
  <2>1. bodies \in [Migrations -> Nat] /\ bodies[m] = 0
    BY DEF IndInv, TypeOK, SchemaSound
  <2>2. \A n \in Migrations : bodies'[n] = IF n \in recorded' THEN 1 ELSE 0
    BY <1>1, <2>1 DEF IndInv, SchemaSound
  <2>3. \A n \in Migrations : n \in recorded' => \A k \in 1..n : k \in recorded'
    BY <1>1, <1>4 DEF IndInv, SchemaSound, Migrations
  <2>4. QED
    BY <2>2, <2>3 DEF SchemaSound
<1>6. KnownInv'
  BY <1>1, <1>2 DEF IndInv, TypeOK, KnownInv, PlaceInv
<1>7. PlaceInv'
  BY <1>2, ConstantsOk DEF ConstantsOk, IndInv, TypeOK, PlaceInv
<1>8. QED
  BY <1>3, <1>5, <1>6, <1>7 DEF IndInv

LEMMA StepInd == IndInv /\ [Next]_vars => IndInv'
<1> SUFFICES ASSUME IndInv, [Next]_vars PROVE IndInv'
  OBVIOUS
<1> USE ConstantsOk DEF ConstantsOk
<1>1. CASE UNCHANGED vars
  BY <1>1 DEF vars, dbVars, procVars, IndInv, TypeOK, SchemaSound, KnownInv, PlaceInv
<1>2. ASSUME NEW p \in Procs, Start(p) \/ Signal(p) PROVE IndInv'
  <2>1. TypeOK'
    <3>1. CASE Start(p)
      BY <3>1 DEF Start, dbVars, IndInv, TypeOK
    <3>2. CASE Signal(p)
      BY <3>2 DEF Signal, dbVars, IndInv, TypeOK
    <3>3. QED
      BY <1>2, <3>1, <3>2
  <2>2. SchemaSound' /\ KnownInv'
    BY <1>2 DEF Start, Signal, dbVars, IndInv, SchemaSound, KnownInv
  <2>3. PlaceInv'
    BY <1>2 DEF Start, Signal, dbVars, IndInv, TypeOK, PlaceInv
  <2>4. QED
    BY <2>1, <2>2, <2>3 DEF IndInv
<1>3. ASSUME NEW p \in Procs, Crash(p) \/ OpenFails(p) \/ ExitAfterClose(p) PROVE IndInv'
  BY <1>3, ExitInd DEF Crash, OpenFails, ExitAfterClose
<1>4. ASSUME NEW p \in Procs, ReadApplied(p) PROVE IndInv'
  BY <1>4 DEF ReadApplied, dbVars, IndInv, TypeOK, SchemaSound, KnownInv, PlaceInv
<1>5. ASSUME NEW p \in Procs, ExecBody(p) PROVE IndInv'
  BY <1>5 DEF ExecBody, dbVars, IndInv, TypeOK, SchemaSound, KnownInv, PlaceInv
<1>6. ASSUME NEW p \in Procs, MigrateEnds(p) PROVE IndInv'
  BY <1>6 DEF MigrateEnds, dbVars, IndInv, TypeOK, SchemaSound, KnownInv, PlaceInv
<1>7. ASSUME NEW p \in Procs, RunStep(p) PROVE IndInv'
  BY <1>7 DEF RunStep, BeginTx, EndTx, RunReturns, dbVars, IndInv, TypeOK, SchemaSound, KnownInv,
     PlaceInv
<1>8. ASSUME NEW p \in Procs, Listen(p) \/ ListenFails(p) \/ ServeReturns(p) PROVE IndInv'
  <2>1. TypeOK'
    <3>1. CASE Listen(p)
      BY <3>1 DEF Listen, dbVars, IndInv, TypeOK
    <3>2. CASE ListenFails(p)
      BY <3>2 DEF ListenFails, dbVars, IndInv, TypeOK
    <3>3. CASE ServeReturns(p)
      BY <3>3 DEF ServeReturns, Released, dbVars, IndInv, TypeOK
    <3>4. QED
      BY <1>8, <3>1, <3>2, <3>3
  <2>2. SchemaSound' /\ KnownInv'
    BY <1>8 DEF Listen, ListenFails, ServeReturns, dbVars, IndInv, SchemaSound, KnownInv
  <2>3. PlaceInv'
    BY <1>8 DEF Listen, ListenFails, ServeReturns, dbVars, IndInv, TypeOK, PlaceInv
  <2>4. QED
    BY <2>1, <2>2, <2>3 DEF IndInv
<1>9. ASSUME NEW p \in Procs, Stop(p) \/ Close(p) PROVE IndInv'
  <2>1. TypeOK'
    <3>1. CASE Stop(p)
      BY <3>1 DEF Stop, dbVars, IndInv, TypeOK
    <3>2. CASE Close(p)
      BY <3>2 DEF Close, dbVars, IndInv, TypeOK
    <3>3. QED
      BY <1>9, <3>1, <3>2
  <2>2. SchemaSound' /\ KnownInv'
    BY <1>9 DEF Stop, Close, dbVars, IndInv, SchemaSound, KnownInv
  <2>3. PlaceInv'
    BY <1>9 DEF Stop, Close, dbVars, IndInv, TypeOK, PlaceInv
  <2>4. QED
    BY <2>1, <2>2, <2>3 DEF IndInv
<1>10. QED
  BY <1>1, <1>2, <1>3, <1>4, <1>5, <1>6, <1>7, <1>8, <1>9, RecordInd
     DEF Next, World, MainStep, ShutDown

THEOREM Invariance == Spec => []IndInv
<1>1. Init => IndInv
  BY InitInd
<1>2. IndInv /\ [Next]_vars => IndInv'
  BY StepInd
<1>3. QED
  BY <1>1, <1>2, PTL DEF Spec

\* The variables keep their types, and the port belongs to the process that serves.
THEOREM TypeCorrect == Spec => []TypeOK
<1>1. IndInv => TypeOK
  BY DEF IndInv
<1>2. QED
  BY <1>1, Invariance, PTL

\* However many processes run migrate at once and die in it, the schema is that of the
\* recorded migrations, each run once and in order.
THEOREM MigratedOnce == Spec => []SchemaSound
<1>1. IndInv => SchemaSound
  BY DEF IndInv
<1>2. QED
  BY <1>1, Invariance, PTL

\* Indexer.Run, which run starts after store.Open, finds the whole schema.
THEOREM IndexedOnWholeSchema == Spec => []SchemaWhole
<1>1. IndInv => SchemaWhole
  <2> SUFFICES ASSUME IndInv, NEW p \in Procs, indexer[p] # "off" PROVE recorded = Migrations
    BY DEF SchemaWhole
  <2>1. known[p] = Migrations /\ known[p] \subseteq recorded /\ recorded \subseteq Migrations
    BY DEF IndInv, TypeOK, KnownInv
  <2>2. QED
    BY <2>1
<1>2. QED
  BY <1>1, Invariance, PTL

\* Whatever makes ListenAndServe return, wg.Wait keeps the store open until the last
\* transaction of the indexer has ended.
THEOREM StoreOutlivesPass == Spec => []CloseAfterPass
<1>1. IndInv => CloseAfterPass
  BY DEF IndInv, TypeOK, PlaceInv, CloseAfterPass
<1>2. QED
  BY <1>1, Invariance, PTL
=============================================================================
