-------------------------- MODULE TranscriptMirror --------------------------
(***************************************************************************)
(* What the transcript index promises, without cursors, sizes or passes:   *)
(* each time it looks at a transcript it holds exactly the messages that   *)
(* are in it at that moment, as if it read the whole file in one step.     *)
(*                                                                         *)
(* A transcript is the set of messages in its complete lines and a birth,  *)
(* which changes when its content is replaced and not when it is appended  *)
(* to.  The one exception is stated as such (Patch): a replaced content    *)
(* that does not show is read on from where the former one was left.       *)
(***************************************************************************)
EXTENDS Naturals

CONSTANTS
    Files,   \* transcripts
    Msgs     \* message ids

VARIABLES
    text,    \* the messages of each transcript
    born,    \* the birth of its content
    known,   \* the transcripts the index holds
    origin,  \* the birth of the content their rows come from
    rows     \* the messages the index has of each transcript

mirrorVars == <<text, born, known, origin, rows>>

Init ==
    /\ text \in [Files -> SUBSET Msgs]
    /\ born \in [Files -> Nat]
    /\ known = {}
    /\ origin \in [Files -> Nat]
    /\ rows = [f \in Files |-> {}]

\* Transcripts grow, or are replaced by contents with births of their own.
Write ==
    /\ \A f \in Files : /\ born'[f] = born[f] => text[f] \subseteq text'[f]
                        /\ born'[f] # born[f] => born'[f] # origin[f]
    /\ UNCHANGED <<known, origin, rows>>

\* The index takes in all of a transcript it does not know, or knows the content of.
Refresh(f) ==
    /\ f \in known /\ origin[f] # born[f] => rows[f] = {}
    /\ rows' = [rows EXCEPT ![f] = text[f]]
    /\ known' = known \cup {f}
    /\ origin' = [origin EXCEPT ![f] = born[f]]
    /\ UNCHANGED <<text, born>>

\* It takes a replaced content for a longer version of the former one.
Patch(f) ==
    /\ f \in known /\ origin[f] # born[f]
    /\ \E ms \in SUBSET text[f] : rows' = [rows EXCEPT ![f] = @ \cup ms]
    /\ UNCHANGED <<text, born, known, origin>>

\* It forgets transcripts, each as a whole.
Drop(F) ==
    /\ known' = known \ F
    /\ rows' = [f \in Files |-> IF f \in F THEN {} ELSE rows[f]]
    /\ UNCHANGED <<text, born, origin>>

Next ==
    \/ Write
    \/ \E f \in Files : Refresh(f) \/ Patch(f)
    \/ \E F \in SUBSET Files : Drop(F)

Spec == Init /\ [][Next]_mirrorVars
=============================================================================
