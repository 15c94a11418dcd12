-------------------------------- MODULE MCPages --------------------------------
(***************************************************************************)
(* Up to three sessions and history entries on pages of two: one in front, *)
(* one that is not full, and numbers behind, at and beyond every bound.    *)
(* A filter matches one of two labels, so that a row may come to match it  *)
(* or cease to.  The page of one session is asked for, which may go and    *)
(* come back.                                                              *)
(***************************************************************************)
EXTENDS Pages

MCIds      == 1..3
MCContents == {{1, 3}}
MCHistories == {{1, 3}, 1..3}
MCLabels   == {"a", "b"}
MCText     == <<"a", "a", "a">>
MCFilters  == {{"a"}}
MCLooked   == {3}
MCBrings   == {{}, SessionParts \ {"SessionSubagents"}}
MCNumbers  == {-1, 0, 2, 3}
=============================================================================
