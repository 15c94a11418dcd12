\* A subagent transcript is removed, its session stays.
SPECIFICATION Spec
CONSTANTS
    m1 = m1  m2 = m2  s1 = s1
    a = a  b = b  c = c  d = d
    NoMsg = NoMsg  NoFile = NoFile
    Mains <- MCMains  Subs <- MCSubs  Parent <- MCParent
    Msgs <- MCMsgs  Owner <- MCOwner  InitLines <- MCInitLines
    MaxTime = 2  MaxLines = 2
    FaultKinds = {}
    ShrinksShow = FALSE
INVARIANT CountsExact
