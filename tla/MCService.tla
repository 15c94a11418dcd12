------------------------------- MODULE MCService -------------------------------
(***************************************************************************)
(* Two processes and the three migrations, of which the last can run twice. *)
(***************************************************************************)
EXTENDS Service

MCRepeatable == {3}
=============================================================================
