\* The index follows the disk once it comes to rest.
SPECIFICATION FairSpec
CONSTANTS
    m1 = m1  m2 = m2  s1 = s1
    a = a  b = b  c = c  d = d
    NoMsg = NoMsg  NoFile = NoFile
    Mains <- MCMains  Subs <- MCSubs  Parent <- MCParent
    Msgs <- MCMsgs  Owner <- MCOwner  InitLines <- MCInitLines
    MaxTime = 3  MaxLines = 2
    FaultKinds = {"list", "file", "sublist", "record", "stop"}
    ShrinksShow = TRUE
INVARIANT NoResumePastEnd
PROPERTY Converges
