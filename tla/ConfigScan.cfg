\* Everything a pass learns agrees with the files once they come to rest.
SPECIFICATION FairSpec
CONSTANTS
    a = a  b = b  ta = ta  tb = tb  work = work  home = home
    Projects <- MCProjects  Transcripts <- MCTranscripts  ProjectOf <- MCProjectOf
    Roots <- MCRoots  Home = home  InitCwd <- MCInitCwd
    NoRoot = NoRoot  Read = Read  User = User  Absent = Absent  Broken = Broken
    Scopes = {project}  Docs = {valid, invalid}  NotJSON = {invalid}  ErrorDoc = ErrorDoc
    Names = {skill}
    Metas = {stats_cache, account}  Account = account  Tables = {live_sessions}
    History = History  Values = {v}
    MaxTime = 3
    FaultKinds = {"list", "file", "db", "stop"}
INVARIANTS TypeOK HistoryMatchesCursor SkillsUnderRoot
PROPERTIES Converges
