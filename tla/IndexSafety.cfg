\* Every kind of write, rewrite, removal and fault, in any order.
SPECIFICATION Spec
CONSTANTS
    m1 = m1  m2 = m2  s1 = s1
    a = a  b = b  c = c  d = d
    NoMsg = NoMsg  NoFile = NoFile
    Mains <- MCMains  Subs <- MCSubs  Parent <- MCParent
    Msgs <- MCMsgs  Owner <- MCOwner  InitLines <- MCInitLines
    MaxTime = 3  MaxLines = 2
    FaultKinds = {"list", "file", "sublist", "record", "stop"}
    ShrinksShow = FALSE
INVARIANTS TypeOK IndexMatchesCursor CountsNeverLag RollupsFresh
PROPERTIES NothingIntactPruned CursorMovesForward ImplementsMirror
