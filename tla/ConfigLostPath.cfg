\* A stop between two transactions loses the real path of a project.
SPECIFICATION Spec
CONSTANTS
    a = a  b = b  ta = ta  tb = tb  work = work  home = home
    Projects <- MCProjects  Transcripts <- MCTranscripts  ProjectOf <- MCProjectOf
    Roots <- MCRoots  Home = home  InitCwd <- MCInitCwd
    NoRoot = NoRoot  Read = Read  User = User  Absent = Absent  Broken = Broken
    Scopes = {project, local}  Docs = {valid, invalid}  NotJSON = {invalid}  ErrorDoc = ErrorDoc
    Names = {skill}
    Metas = {stats_cache, account}  Account = account  Tables = {live_sessions}
    History = History  Values = {v}
    MaxTime = 2
    FaultKinds = {"list", "file", "db", "stop"}
INVARIANTS PathKnown
