--------------------------- MODULE MCJobExecution ---------------------------
(* Two workers, and jobs that meet on one counter and cross on two.        *)
EXTENDS JobExecution

Cmd(op, arg) == [op |-> op, arg |-> arg]

MCJobs == {<<Cmd("increment", 1), Cmd("msleep", 1), Cmd("decrement", 2)>>,
           <<Cmd("increment", 3), Cmd("repeat", 2), Cmd("increment", 1)>>}

ExecSymmetry == Permutations(Workers)
=============================================================================
