---------------------------- MODULE MCProcessJob ----------------------------
(* Every job string of up to four segments, one more than cmds holds.      *)
EXTENDS ProcessJob

Seg(op, arg) == [op |-> op, arg |-> arg]

MCSegments == {Seg("increment", 1), Seg("decrement", 2), Seg("blank", 0),
               Seg("empty", 0), Seg("repeat", -1), Seg("repeat", 0),
               Seg("repeat", 2)}
=============================================================================
