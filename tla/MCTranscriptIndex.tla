------------------------- MODULE MCTranscriptIndex -------------------------
(***************************************************************************)
(* Two sessions, the first with one subagent.  The first transcript has    *)
(* two messages and may repeat them (Claude Code writes one message on     *)
(* several lines), and any transcript may hold lines that yield nothing.   *)
(***************************************************************************)
EXTENDS TranscriptIndex

CONSTANTS m1, m2, s1, a, b, c, d

MCMains == {m1, m2}
MCSubs == {s1}
MCParent == [x \in {s1} |-> m1]
MCMsgs == {a, b, c, d}
MCOwner == [x \in MCMsgs |-> IF x \in {a, b} THEN m1 ELSE IF x = c THEN s1 ELSE m2]
MCInitLines == [f \in {m1, m2, s1} |-> IF f = m1 THEN <<a>> ELSE IF f = s1 THEN <<c>> ELSE << >>]
=============================================================================
