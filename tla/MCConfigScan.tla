---------------------------- MODULE MCConfigScan ----------------------------
(***************************************************************************)
(* Two projects with one session each: one at work in a directory of its   *)
(* own, one in the home directory.  Both may move to the other's.          *)
(***************************************************************************)
EXTENDS ConfigScan

CONSTANTS a, b, ta, tb, work, home

MCProjects == {a, b}
MCTranscripts == {ta, tb}
MCProjectOf == [t \in {ta, tb} |-> IF t = ta THEN a ELSE b]
MCRoots == {work, home}
MCInitCwd == [t \in {ta, tb} |-> IF t = ta THEN work ELSE home]
=============================================================================
