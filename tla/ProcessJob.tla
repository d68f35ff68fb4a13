----------------------------- MODULE ProcessJob -----------------------------
(***************************************************************************)
(* The loops of process_job (HW2, worker.c): one call, from the job string *)
(* to its return, one step per command run.  "ran" is what has been given  *)
(* to run_cmd so far.                                                      *)
(***************************************************************************)
EXTENDS JobScript, FiniteSets

CONSTANTS
  Segments,     \* the segments job strings are made of
  MaxSegments   \* bound on their number in a job string

ASSUME SegmentsAssumption == Segments \subseteq [op : STRING, arg : Int]

VARIABLES
  cmds,     \* the array cmds; n is its length
  pc,       \* "commands", "repeating" or "returned"
  i, r, j,  \* the loop variables, counted from 1 as the commands are
  ran       \* the commands passed to run_cmd

vars == <<cmds, pc, i, r, j, ran>>

Jobs == UNION {[1..n -> Segments] : n \in 0..MaxSegments}

Init ==
  /\ \E job \in Jobs : cmds = Commands(job)
  /\ pc = "commands"
  /\ i = 1 /\ r = 1 /\ j = 1
  /\ ran = <<>>

RunCommand ==
  /\ pc = "commands" /\ i <= Len(cmds)
  /\ cmds[i].op # "repeat"
  /\ ran' = Append(ran, cmds[i])
  /\ i' = i + 1
  /\ UNCHANGED <<cmds, pc, r, j>>

MeetRepeat ==
  /\ pc = "commands" /\ i <= Len(cmds)
  /\ cmds[i].op = "repeat"
  /\ pc' = "repeating" /\ r' = 1 /\ j' = i + 1
  /\ UNCHANGED <<cmds, i, ran>>

NextRound ==
  /\ pc = "repeating" /\ r <= cmds[i].arg
  /\ j > Len(cmds)
  /\ r' = r + 1 /\ j' = i + 1
  /\ UNCHANGED <<cmds, pc, i, ran>>

RunRepeated ==
  /\ pc = "repeating" /\ r <= cmds[i].arg
  /\ j <= Len(cmds)
  /\ ran' = Append(ran, cmds[j])
  /\ j' = j + 1
  /\ UNCHANGED <<cmds, pc, i, r>>

\* A return that forgets the break after the repeat.
ReturnWithoutBreak ==
  /\ \/ pc = "commands" /\ i > Len(cmds) /\ pc' = "returned" /\ UNCHANGED i
     \/ pc = "repeating" /\ r > cmds[i].arg /\ pc' = "commands" /\ i' = i + 1
  /\ UNCHANGED <<cmds, r, j, ran>>

Return ==
  /\ \/ pc = "commands" /\ i > Len(cmds)
     \/ pc = "repeating" /\ r > cmds[i].arg
  /\ pc' = "returned"
  /\ UNCHANGED <<cmds, i, r, j, ran>>

Returned == pc = "returned" /\ UNCHANGED vars

Next == RunCommand \/ MeetRepeat \/ RunRepeated \/ NextRound \/ Return \/ Returned

Spec == Init /\ [][Next]_vars

\* The loops read and run only commands of the array, so cmds is never read
\* past n.
TypeOK ==
  /\ Len(cmds) <= MaxCmds
  /\ pc \in {"commands", "repeating", "returned"}
  /\ i \in 1..Len(cmds) + 1 /\ j \in 1..Len(cmds) + 1 /\ r \in Nat
  /\ pc = "repeating" => i <= Len(cmds)
  /\ \A k \in DOMAIN ran : ran[k] \in Segments

\* process_job runs the commands its job string means, in order: at each
\* moment a prefix of them, and all of them once it returns; a second repeat
\* inside the repeated part, a repeat of zero or fewer times, a repeat with
\* nothing after it and a string with too many segments included.
RunsTheExpansion ==
  /\ IsPrefix(ran, Expansion(cmds))
  /\ pc = "returned" => ran = Expansion(cmds)
=============================================================================
