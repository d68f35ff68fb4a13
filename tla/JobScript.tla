----------------------------- MODULE JobScript ------------------------------
(***************************************************************************)
(* The command string of a HW2 job, and what running it means.             *)
(*                                                                         *)
(* A job is the sequence of the segments between its semicolons.  A        *)
(* segment is a record: op is its first word ("increment", "decrement",    *)
(* "msleep" or "repeat"), "unknown" for any other word or a missing        *)
(* argument, "blank" when it holds only spaces and "empty" when it holds   *)
(* nothing; arg is the number atoi or sscanf reads after it, 0 if none.    *)
(***************************************************************************)
EXTENDS Integers, Sequences, SequencesExt

CONSTANT MaxCmds     \* size of the array cmds of process_job

ASSUME MaxCmdsAssumption == MaxCmds \in Nat

\* All the segments but the empty ones, with no regard for the size of cmds.
AllTokens(job) ==
  FoldLeft(LAMBDA kept, s : IF s.op = "empty" THEN kept ELSE Append(kept, s), <<>>, job)

\* The segments process_job keeps: strtok_r skips the empty ones, and those
\* that no longer fit in cmds are dropped.
Commands(job) ==
  LET tokens == AllTokens(job)
  IN  IF Len(tokens) <= MaxCmds THEN tokens ELSE SubSeq(tokens, 1, MaxCmds)

\* run_cmd adds this to counter c.  A "repeat" that run_cmd meets is an unknown
\* command, and update_counter ignores a number that is no counter.
Delta(cmd, c) ==
  CASE cmd.op = "increment" /\ cmd.arg = c -> 1
    [] cmd.op = "decrement" /\ cmd.arg = c -> -1
    [] OTHER -> 0

Repeats(cmds) == {i \in DOMAIN cmds : cmds[i].op = "repeat"}

\* What a job means: the commands before its first "repeat", and those after
\* it as many times as it says.
Expansion(cmds) ==
  IF Repeats(cmds) = {}
  THEN cmds
  ELSE LET i == CHOOSE k \in Repeats(cmds) : \A l \in Repeats(cmds) : k <= l
           rest == SubSeq(cmds, i + 1, Len(cmds))
       IN  SubSeq(cmds, 1, i - 1) \o FlattenSeq([k \in 1..cmds[i].arg |-> rest])
=============================================================================
