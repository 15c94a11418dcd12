-------------------------------- MODULE MCCharts --------------------------------
(***************************************************************************)
(* A day of six units, bars of one, two, six and twelve, and timestamps    *)
(* from a corrupt past to a corrupt future.  The clock is put back by half *)
(* a day at instant 13, so that the day of 12 has two midnights, and then  *)
(* time.Date takes the second, after the event of 12.  Midnight of the     *)
(* dashboard is at 12.                                                     *)
(***************************************************************************)
EXTENDS Charts

MCNoTime == -1
MCJump == -3
MCSteps == <<1, 2, 6, 12>>
MCTimes == {0, 7, 11, 12, 15, 100}

Text(t, kind, side)   == [ts |-> t, kind |-> kind, side |-> side, model |-> "m1"]
Reply(t, side, model) == [ts |-> t, kind |-> "response", side |-> side, model |-> model]

MCIncoming ==
    {Reply(t, FALSE, "m1") : t \in MCTimes \cup {MCNoTime}}
    \cup {Reply(t, TRUE, "m2") : t \in {6, 11, 13}}
    \cup {Text(t, "prompt", FALSE) : t \in {5, 9, 103}}
    \cup {Text(8, "prompt", TRUE), Text(3, "tool_result", FALSE)}

MCWindows == {[hours |-> 5, reset |-> 12], [hours |-> 5, reset |-> 9],
              [hours |-> 3, reset |-> 4], [hours |-> 5, reset |-> MCNoTime]}
=============================================================================
