----------------------------- MODULE MCWatchLoop -----------------------------
(***************************************************************************)
(* projects/, one project directory and its subagents directory.           *)
(***************************************************************************)
EXTENDS WatchLoop

CONSTANTS projects, project, subagents

MCDirs == {projects, project, subagents}
MCRoots == {projects}
MCQuiet == {subagents}
MCBusy == {subagents}
MCUp == [d \in {project, subagents} |-> IF d = project THEN projects ELSE project]
=============================================================================
