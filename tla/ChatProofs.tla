----------------------------- MODULE ChatProofs ------------------------------
(***************************************************************************)
(* Proofs about Chat, for any set of clients and any lines, any size of    *)
(* the table and of a buffer: what the table holds, and that a round       *)
(* passes nobody by, though entries move while the loop runs; and, from    *)
(* that, that no read loses, repeats or moves anything of what a client    *)
(* has written, and that private lines stay private.                       *)
(***************************************************************************)
EXTENDS Chat, FoldLemmas

-----------------------------------------------------------------------------
(* The inductive invariant.                                                *)

\* The table is a sequence of entries with descriptors of clients.
TableType ==
  /\ table \in Seq(Range(table))
  /\ \A e \in DOMAIN table : "fd" \in DOMAIN table[e] /\ table[e].fd \in Clients

\* A connection waits to be accepted at one place only, and waits no more once
\* it is accepted or closed.
BacklogInv ==
  /\ backlog \in Seq(Clients)
  /\ \A j, k \in DOMAIN backlog : backlog[j] = backlog[k] => j = k
  /\ new_fd \notin Range(backlog)
  /\ gone \cap (Range(backlog) \cup {new_fd}) = {}

\* Where the server is, and what it has then.
ServerInv ==
  /\ pc \in {"select", "accept", "name", "loop", "full", "lines", "dead"}
  /\ new_fd \in Clients \cup {Nobody} /\ gone \subseteq Clients
  /\ pc = "name" <=> new_fd # Nobody
  /\ pc = "accept" => backlog # <<>>
  /\ i \in 1..Len(table) + 1
  /\ pc \in {"full", "lines"} => i \in 1..Len(table)

\* A ready client has been served in this round, or has an entry that the loop
\* has not come to or is at.
RoundInv ==
  /\ pc \in {"accept", "name", "loop", "full", "lines"} =>
       \A c \in read_set : c \in served \/ \E e \in i..Len(table) : table[e].fd = c
  /\ pc = "lines" => table[i].fd \in served

IInv == TableType /\ BacklogInv /\ ServerInv /\ TableOK /\ RoundInv

-----------------------------------------------------------------------------
(* Sequences.                                                              *)

\* A sequence is one over its own elements.
LEMMA OwnRange ==
  ASSUME NEW S, NEW s \in Seq(S)
  PROVE  s \in Seq(Range(s)) /\ Len(s) \in Nat /\ DOMAIN s = 1..Len(s)
<1>1. Len(s) \in Nat /\ DOMAIN s = 1..Len(s) /\ s \in [1..Len(s) -> S]
  BY LenProperties
<1>2. s \in [1..Len(s) -> Range(s)]
  BY <1>1 DEF Range
<1> QED BY <1>1, <1>2

\* The length and the entries of the table.
LEMMA TableIsSeq ==
  ASSUME TableType
  PROVE  /\ Len(table) \in Nat /\ DOMAIN table = 1..Len(table)
         /\ \A e \in 1..Len(table) : table[e].fd \in Clients
         /\ Registered = {table[e].fd : e \in 1..Len(table)}
<1>1. Len(table) \in Nat /\ DOMAIN table = 1..Len(table)
  BY OwnRange DEF TableType
<1> QED BY <1>1 DEF TableType, Registered

-----------------------------------------------------------------------------
(* The changes of the table.                                               *)

\* The new table after a client has been appended.
LEMMA AppendClient ==
  ASSUME TableType, NEW entry, "fd" \in DOMAIN entry, entry.fd \in Clients,
         table' = Append(table, entry)
  PROVE  /\ TableType' /\ Len(table') = Len(table) + 1
         /\ \A e \in 1..Len(table) : table'[e] = table[e]
         /\ table'[Len(table) + 1] = entry
<1> DEFINE S == Range(table) \cup {entry}
<1>1. table \in Seq(S) /\ entry \in S /\ Len(table) \in Nat
  BY OwnRange, SeqMonotonic DEF TableType
<1>2. /\ table' \in Seq(S) /\ Len(table') = Len(table) + 1
      /\ \A e \in 1..Len(table) : table'[e] = table[e]
      /\ table'[Len(table) + 1] = entry
  BY <1>1, AppendProperties
<1>3. table' \in Seq(Range(table')) /\ DOMAIN table' = 1..Len(table) + 1
  BY <1>1, <1>2, OwnRange
<1>4. \A e \in DOMAIN table' : "fd" \in DOMAIN table'[e] /\ table'[e].fd \in Clients
  BY <1>1, <1>2, <1>3, TableIsSeq DEF TableType
<1> QED BY <1>2, <1>3, <1>4 DEF TableType

\* The new table after the buffer of an entry has changed.
LEMMA ChangeBuffer ==
  ASSUME TableType, NEW e \in 1..Len(table), NEW buffer,
         table' = [table EXCEPT ![e].buffer = buffer]
  PROVE  /\ TableType' /\ Len(table') = Len(table)
         /\ \A f \in 1..Len(table) : table'[f].fd = table[f].fd
<1> DEFINE entry == [table[e] EXCEPT !.buffer = buffer]
           S == Range(table) \cup {entry}
<1>1. /\ table \in Seq(S) /\ entry \in S
      /\ Len(table) \in Nat /\ DOMAIN table = 1..Len(table)
  BY OwnRange, SeqMonotonic DEF TableType
<1>2. table' = [table EXCEPT ![e] = entry]
  OBVIOUS
<1>3. "fd" \in DOMAIN entry /\ entry.fd = table[e].fd
  BY <1>1 DEF TableType
<1> HIDE DEF entry
<1>4. /\ table' \in Seq(S) /\ Len(table') = Len(table)
      /\ \A f \in 1..Len(table) : table'[f] = IF f = e THEN entry ELSE table[f]
  BY <1>1, <1>2, ExceptSeq
<1>5. table' \in Seq(Range(table')) /\ DOMAIN table' = 1..Len(table)
  BY <1>4, OwnRange
<1>6. \A f \in 1..Len(table) : "fd" \in DOMAIN table'[f] /\ table'[f].fd = table[f].fd
  BY <1>1, <1>3, <1>4 DEF TableType
<1> QED BY <1>1, <1>4, <1>5, <1>6 DEF TableType

\* The new table after remove_client.
LEMMA RemoveEntry ==
  ASSUME TableType, NEW e \in 1..Len(table), table' = Without(e)
  PROVE  /\ TableType' /\ Len(table') = Len(table) - 1
         /\ \A f \in 1..Len(table) - 1 :
              table'[f] = IF f = e THEN table[Len(table)] ELSE table[f]
<1>1. Len(table) \in Nat /\ DOMAIN table = 1..Len(table)
  BY TableIsSeq
<1>2. table' \in [1..Len(table) - 1 -> Range(table)]
  BY <1>1 DEF Without, Range
<1>3. table' \in Seq(Range(table)) /\ Len(table') = Len(table) - 1
  <2>1. Len(table) - 1 \in Nat
    BY <1>1
  <2>2. ASSUME NEW m \in Nat, NEW S, NEW s \in [1..m -> S]
        PROVE  s \in Seq(S) /\ Len(s) = m
    OBVIOUS
  <2> QED BY <1>2, <2>1, <2>2
<1>4. table' \in Seq(Range(table')) /\ DOMAIN table' = 1..Len(table) - 1
  BY <1>3, OwnRange
<1>5. \A f \in 1..Len(table) - 1 :
        table'[f] = IF f = e THEN table[Len(table)] ELSE table[f]
  BY DEF Without
<1> QED BY <1>1, <1>3, <1>4, <1>5 DEF TableType

-----------------------------------------------------------------------------
(* The steps.                                                              *)

\* What a step that leaves the server's own state alone preserves.
LEMMA NothingMoves ==
  ASSUME IInv, UNCHANGED <<backlog, gone, table, pc, new_fd, read_set, i, served>>
  PROVE  IInv'
<1>1. TableType' /\ BacklogInv' /\ ServerInv'
  BY DEF IInv, TableType, BacklogInv, ServerInv
<1>2. TableOK'
  BY DEF IInv, TableOK, Registered
<1>3. RoundInv'
  BY DEF IInv, RoundInv
<1> QED BY <1>1, <1>2, <1>3 DEF IInv

\* The server goes on at the entry it is at.
LEMMA StaysAtEntry ==
  ASSUME IInv, UNCHANGED <<backlog, gone, table, new_fd, read_set, i, served>>,
         pc \in {"loop", "full", "lines"}, pc' \in {"full", "lines", "dead"},
         i \in 1..Len(table), pc' = "lines" => pc = "lines"
  PROVE  IInv'
<1>1. TableType' /\ BacklogInv' /\ ServerInv'
  BY DEF IInv, TableType, BacklogInv, ServerInv
<1>2. TableOK'
  BY DEF IInv, TableOK, Registered
<1>3. RoundInv'
  BY DEF IInv, RoundInv
<1> QED BY <1>1, <1>2, <1>3 DEF IInv

\* A client that connects is known to the server in no other way.
LEMMA StepConnect ==
  ASSUME IInv, NEW c \in Clients, Connect(c)
  PROVE  IInv'
<1>1. /\ c \notin Registered \cup Range(backlog) \cup {new_fd} \cup gone
      /\ backlog' = Append(backlog, c)
      /\ UNCHANGED <<gone, table, pc, new_fd, read_set, i, served>>
  BY DEF Connect, Connected, roundVars
<1>2. backlog \in Seq(Clients) /\ DOMAIN backlog = 1..Len(backlog) /\ Len(backlog) \in Nat
  BY LenProperties DEF IInv, BacklogInv
<1>3. /\ backlog' \in Seq(Clients) /\ DOMAIN backlog' = 1..Len(backlog) + 1
      /\ backlog' # <<>>
      /\ \A k \in 1..Len(backlog) : backlog'[k] = backlog[k]
      /\ backlog'[Len(backlog) + 1] = c
  BY <1>1, <1>2, AppendProperties, LenProperties
<1>4. Range(backlog') = Range(backlog) \cup {c}
  <2>1. \A x : x \in Range(backlog) <=> \E k \in 1..Len(backlog) : backlog[k] = x
    BY <1>2 DEF Range
  <2>2. \A x : x \in Range(backlog') <=> \E k \in 1..Len(backlog) + 1 : backlog'[k] = x
    BY <1>3 DEF Range
  <2> QED BY <1>2, <1>3, <2>1, <2>2
<1>5. BacklogInv'
  <2>1. \A k \in 1..Len(backlog) : backlog[k] # c
    BY <1>1, <1>2 DEF Range
  <2>2. \A j, k \in 1..Len(backlog) : backlog[j] = backlog[k] => j = k
    BY <1>2 DEF IInv, BacklogInv
  <2>3. \A j, k \in DOMAIN backlog' : backlog'[j] = backlog'[k] => j = k
    BY <1>2, <1>3, <2>1, <2>2
  <2> QED BY <1>1, <1>3, <1>4, <2>3 DEF IInv, BacklogInv
<1>6. TableOK'
  BY <1>1, <1>4 DEF IInv, TableOK, Registered
<1>7. TableType' /\ ServerInv' /\ RoundInv'
  BY <1>1, <1>3 DEF IInv, TableType, ServerInv, RoundInv
<1> QED BY <1>5, <1>6, <1>7 DEF IInv

\* A round begins with the ready clients of the table, at the first entry.
LEMMA StepSelect ==
  ASSUME IInv, Select
  PROVE  IInv'
<1>1. /\ read_set' \subseteq Registered /\ i' = 1
      /\ pc' = IF backlog # <<>> THEN "accept" ELSE "loop"
      /\ UNCHANGED <<backlog, gone, table, new_fd>>
  BY DEF Select, netVars
<1>2. /\ Len(table) \in Nat /\ Registered = {table[e].fd : e \in 1..Len(table)}
  BY TableIsSeq DEF IInv
<1>3. TableType' /\ BacklogInv'
  BY <1>1 DEF IInv, TableType, BacklogInv
<1>4. pc = "select"
  BY DEF Select
<1>5. ServerInv'
  BY <1>1, <1>2, <1>4 DEF IInv, ServerInv
<1>6. TableOK'
  <2>1. Registered' = Registered
    BY <1>1 DEF Registered
  <2>2. 1 \in 1..Len(table) + 1
    BY <1>2
  <2> QED BY <1>1, <2>1, <2>2 DEF IInv, TableOK
<1>7. RoundInv'
  BY <1>1, <1>2 DEF RoundInv
<1> QED BY <1>3, <1>5, <1>6, <1>7 DEF IInv

\* The first connection of the backlog is in it once.
LEMMA StepAccept ==
  ASSUME IInv, Accept
  PROVE  IInv'
<1>1. /\ pc = "accept" /\ pc' = "name"
      /\ new_fd' = Head(backlog) /\ backlog' = Tail(backlog)
      /\ UNCHANGED <<gone, table, read_set, i, served>>
  BY DEF Accept
<1>2. backlog # <<>> /\ backlog \in Seq(Clients)
  BY <1>1 DEF IInv, ServerInv, BacklogInv
<1>3. /\ Head(backlog) \in Clients /\ Head(backlog) = backlog[1]
      /\ Len(backlog) \in Nat \ {0} /\ DOMAIN backlog = 1..Len(backlog)
      /\ Tail(backlog) \in Seq(Clients)
      /\ Len(Tail(backlog)) = Len(backlog) - 1
      /\ DOMAIN Tail(backlog) = 1..Len(backlog) - 1
      /\ \A k \in 1..Len(backlog) - 1 : Tail(backlog)[k] = backlog[k + 1]
  BY <1>2, HeadTailProperties, LenProperties, EmptySeq
<1>4. \A j, k \in 1..Len(backlog) : backlog[j] = backlog[k] => j = k
  BY <1>3 DEF IInv, BacklogInv
<1>5. Head(backlog) \in Range(backlog) /\ Range(backlog') \subseteq Range(backlog)
  BY <1>1, <1>3 DEF Range
<1>6. Head(backlog) \notin Range(backlog')
  BY <1>1, <1>3, <1>4 DEF Range
<1>7. BacklogInv'
  <2>1. \A j, k \in DOMAIN backlog' : backlog'[j] = backlog'[k] => j = k
    BY <1>1, <1>3, <1>4
  <2> QED BY <1>1, <1>3, <1>5, <1>6, <2>1 DEF IInv, BacklogInv
<1>8. ServerInv'
  BY <1>1, <1>3, ChatAssumption DEF IInv, ServerInv
<1>9. TableOK'
  BY <1>1, <1>5 DEF IInv, TableOK, Registered
<1>10. TableType' /\ RoundInv'
  BY <1>1 DEF IInv, TableType, RoundInv
<1> QED BY <1>7, <1>8, <1>9, <1>10 DEF IInv

\* A connection that was given up is in the backlog no more.
LEMMA StepAcceptFails ==
  ASSUME IInv, AcceptFails
  PROVE  IInv'
<1>1. /\ pc = "accept" /\ pc' = "loop"
      /\ \/ UNCHANGED <<backlog, gone>>
         \/ gone' = gone \cup {Head(backlog)} /\ backlog' = Tail(backlog)
      /\ UNCHANGED <<table, new_fd, read_set, i, served>>
  BY DEF AcceptFails, roundVars
<1>2. backlog # <<>> /\ backlog \in Seq(Clients)
  BY <1>1 DEF IInv, ServerInv, BacklogInv
<1>3. /\ Head(backlog) \in Clients /\ Head(backlog) = backlog[1]
      /\ Len(backlog) \in Nat \ {0} /\ DOMAIN backlog = 1..Len(backlog)
      /\ Tail(backlog) \in Seq(Clients)
      /\ Len(Tail(backlog)) = Len(backlog) - 1
      /\ DOMAIN Tail(backlog) = 1..Len(backlog) - 1
      /\ \A k \in 1..Len(backlog) - 1 : Tail(backlog)[k] = backlog[k + 1]
  BY <1>2, HeadTailProperties, LenProperties, EmptySeq
<1>4. \A j, k \in 1..Len(backlog) : backlog[j] = backlog[k] => j = k
  BY <1>3 DEF IInv, BacklogInv
<1>5. /\ Head(backlog) \in Range(backlog) /\ Range(Tail(backlog)) \subseteq Range(backlog)
      /\ Head(backlog) \notin Range(Tail(backlog))
  BY <1>3, <1>4 DEF Range
<1>6. new_fd = Nobody /\ Nobody \notin Clients
  BY <1>1, ChatAssumption DEF IInv, ServerInv
<1>7. BacklogInv'
  <2>1. \A j, k \in 1..Len(backlog) - 1 : Tail(backlog)[j] = Tail(backlog)[k] => j = k
    BY <1>3, <1>4
  <2>2. CASE gone' = gone \cup {Head(backlog)} /\ backlog' = Tail(backlog)
    BY <1>1, <1>3, <1>5, <1>6, <2>1, <2>2 DEF IInv, BacklogInv
  <2>3. CASE UNCHANGED <<backlog, gone>>
    BY <1>1, <2>3 DEF IInv, BacklogInv
  <2> QED BY <1>1, <2>2, <2>3
<1>8. ServerInv'
  BY <1>1, <1>3, <1>6 DEF IInv, ServerInv
<1>9. TableOK'
  BY <1>1, <1>5 DEF IInv, TableOK, Registered, ServerInv
<1>10. TableType' /\ RoundInv'
  BY <1>1 DEF IInv, TableType, RoundInv
<1> QED BY <1>7, <1>8, <1>9, <1>10 DEF IInv

\* Whoever gives the name gets the entry behind the others, or is turned away.
LEMMA StepReadName ==
  ASSUME IInv, ReadName
  PROVE  IInv'
<1>1. /\ pc = "name" /\ pc' = "loop" /\ new_fd' = Nobody
      /\ UNCHANGED <<backlog, read_set, i, served>>
  BY DEF ReadName
<1>2. /\ new_fd \in Clients /\ Nobody \notin Clients
      /\ new_fd \notin gone \cup Range(backlog) \cup Registered
  BY <1>1, ChatAssumption DEF IInv, ServerInv, BacklogInv, TableOK
<1>3. /\ Len(table) \in Nat /\ DOMAIN table = 1..Len(table)
      /\ \A e \in 1..Len(table) : table[e].fd \in Clients
      /\ Registered = {table[e].fd : e \in 1..Len(table)}
  BY TableIsSeq DEF IInv
<1>4. gone' \in {gone, gone \cup {new_fd}} => BacklogInv'
  <2>1. Range(backlog) \subseteq Clients
    BY LenProperties DEF IInv, BacklogInv, Range
  <2> QED BY <1>1, <1>2, <2>1 DEF IInv, BacklogInv, ServerInv
<1>5. CASE Len(table) < MAX_CLIENTS /\ gone' = gone
           /\ \E name : table' = Append(table, [fd |-> new_fd, buffer |-> <<>>, name |-> name])
  <2>0. Len(table) < MAX_CLIENTS /\ gone' = gone
    BY <1>5
  <2>1. PICK name : table' = Append(table, [fd |-> new_fd, buffer |-> <<>>, name |-> name])
    BY <1>5
  <2>2. /\ TableType' /\ Len(table') = Len(table) + 1
        /\ \A e \in 1..Len(table) : table'[e].fd = table[e].fd
        /\ table'[Len(table) + 1].fd = new_fd
    BY <1>2, <2>1, AppendClient DEF IInv
  <2>3. DOMAIN table' = 1..Len(table) + 1 /\ Registered' = Registered \cup {new_fd}
    BY <1>3, <2>2, OwnRange DEF TableType, Registered
  <2>4. i' \in 1..Len(table') + 1 /\ Len(table') <= MAX_CLIENTS
    BY <1>1, <1>3, <2>0, <2>2, ChatAssumption DEF IInv, ServerInv
  <2>5. ServerInv'
    BY <1>1, <1>2, <2>0, <2>4 DEF IInv, ServerInv
  <2>6. TableOK'
    <3>1. \A e \in 1..Len(table) : table[e].fd # new_fd
      BY <1>2, <1>3
    <3>2. \A e, f \in DOMAIN table' : table'[e].fd = table'[f].fd => e = f
      BY <1>3, <2>2, <2>3, <3>1 DEF IInv, TableOK
    <3>3. Registered' \cap (gone' \cup {new_fd'} \cup Range(backlog')) = {}
      <4>1. Nobody \notin Registered'
        BY <1>2, <1>3, <2>3
      <4> QED BY <1>1, <1>2, <2>0, <2>3, <4>1 DEF IInv, TableOK
    <3> QED BY <2>4, <3>2, <3>3 DEF TableOK
  <2>7. RoundInv'
    BY <1>1, <1>3, <2>2 DEF IInv, RoundInv, ServerInv
  <2> QED BY <1>4, <2>0, <2>2, <2>5, <2>6, <2>7 DEF IInv
<1>6. CASE gone' = gone \cup {new_fd} /\ table' = table
  <2>1. TableType' /\ ServerInv' /\ RoundInv'
    BY <1>1, <1>2, <1>6 DEF IInv, TableType, ServerInv, RoundInv
  <2>2. TableOK'
    <3>1. Registered' = Registered
      BY <1>6 DEF Registered
    <3>2. Nobody \notin Registered
      BY <1>2, <1>3
    <3> QED BY <1>1, <1>2, <1>6, <3>1, <3>2 DEF IInv, TableOK, ServerInv
  <2> QED BY <1>4, <1>6, <2>1, <2>2 DEF IInv
<1>7. \/ /\ Len(table) < MAX_CLIENTS /\ gone' = gone
         /\ \E name : table' = Append(table, [fd |-> new_fd, buffer |-> <<>>, name |-> name])
      \/ gone' = gone \cup {new_fd} /\ table' = table
  BY Zenon DEF ReadName
<1> QED BY <1>5, <1>6, <1>7

\* Who leaves without a name is closed, and was in no other place.
LEMMA StepNoName ==
  ASSUME IInv, NoName
  PROVE  IInv'
<1>1. /\ pc = "name" /\ pc' = "loop" /\ new_fd' = Nobody
      /\ gone' = gone \cup {new_fd}
      /\ UNCHANGED <<backlog, table, read_set, i, served>>
  BY DEF NoName
<1>2. /\ new_fd \in Clients /\ Nobody \notin Clients
      /\ new_fd \notin gone \cup Range(backlog) \cup Registered
  BY <1>1, ChatAssumption DEF IInv, ServerInv, BacklogInv, TableOK
<1>3. Range(backlog) \subseteq Clients /\ Registered \subseteq Clients
  BY LenProperties, TableIsSeq DEF IInv, BacklogInv, Range
<1>4. TableType' /\ ServerInv' /\ RoundInv'
  BY <1>1, <1>2 DEF IInv, TableType, ServerInv, RoundInv
<1>5. BacklogInv'
  BY <1>1, <1>2, <1>3 DEF IInv, BacklogInv, ServerInv
<1>6. TableOK'
  <2>1. Registered' = Registered
    BY <1>1 DEF Registered
  <2> QED BY <1>1, <1>2, <1>3, <2>1 DEF IInv, TableOK, ServerInv
<1> QED BY <1>4, <1>5, <1>6 DEF IInv

\* What the loop does at an entry whose buffer changes.
LEMMA BufferChanges ==
  ASSUME IInv, i \in 1..Len(table), NEW buffer,
         table' = [table EXCEPT ![i].buffer = buffer],
         pc \in {"loop", "full", "lines"}, pc' \in {"loop", "lines"},
         served \subseteq served', pc' = "lines" => table[i].fd \in served',
         UNCHANGED <<backlog, gone, new_fd, read_set, i>>
  PROVE  IInv'
<1>2. /\ Len(table) \in Nat /\ DOMAIN table = 1..Len(table)
      /\ Registered = {table[e].fd : e \in 1..Len(table)}
  BY TableIsSeq DEF IInv
<1>3. /\ TableType' /\ Len(table') = Len(table)
      /\ \A f \in 1..Len(table) : table'[f].fd = table[f].fd
  BY ChangeBuffer DEF IInv
<1>4. DOMAIN table' = 1..Len(table) /\ Registered' = Registered
  <2>1. DOMAIN table' = 1..Len(table)
    BY <1>3, OwnRange DEF TableType
  <2> QED BY <1>2, <1>3, <2>1 DEF Registered
<1>6. BacklogInv'
  BY DEF IInv, BacklogInv
<1>7. ServerInv'
  BY <1>2, <1>3 DEF IInv, ServerInv
<1>8. TableOK'
  <2>1. \A e, f \in DOMAIN table' : table'[e].fd = table'[f].fd => e = f
    BY <1>2, <1>3, <1>4 DEF IInv, TableOK
  <2>2. i' \in 1..Len(table') + 1
    BY <1>2, <1>3
  <2> QED BY <1>3, <1>4, <2>1, <2>2 DEF IInv, TableOK
<1>9. RoundInv'
  BY <1>2, <1>3 DEF IInv, RoundInv
<1> QED BY <1>3, <1>6, <1>7, <1>8, <1>9 DEF IInv

\* The loop reads from the entry it has come to.
LEMMA StepReadClient ==
  ASSUME IInv, ReadClient
  PROVE  IInv'
<1>1. /\ pc = "loop" /\ i \in DOMAIN table /\ pc' = "lines"
      /\ \E buffer : table' = [table EXCEPT ![i].buffer = buffer]
      /\ served' = served \cup {table[i].fd}
      /\ UNCHANGED <<backlog, gone, new_fd, read_set, i>>
  BY Zenon DEF ReadClient, Ready
<1>2. i \in 1..Len(table)
  BY <1>1, TableIsSeq DEF IInv
<1>3. table[i].fd \in served' /\ served \subseteq served'
  BY <1>1
<1> QED BY <1>1, <1>2, <1>3, BufferChanges

\* process_message works for the client of the entry the loop is at.
LEMMA ProcessingIsAtEntry ==
  ASSUME IInv, Processing
  PROVE  pc \in {"full", "lines"} /\ i \in 1..Len(table)
BY DEF Processing, IInv, ServerInv

\* When it returns the loop is still there.
LEMMA StepMessageDone ==
  ASSUME IInv, MessageDone
  PROVE  IInv'
<1>1. pc \in {"full", "lines"} /\ i \in 1..Len(table)
  BY ProcessingIsAtEntry DEF MessageDone
<1>2. /\ \E buffer : table' = [table EXCEPT ![i].buffer = buffer]
      /\ pc' = IF pc = "full" THEN "loop" ELSE "lines"
      /\ UNCHANGED <<backlog, gone, new_fd, read_set, i, served>>
  BY Zenon DEF MessageDone, netVars
<1>3. pc' = "lines" => table[i].fd \in served'
  BY <1>1, <1>2 DEF IInv, RoundInv
<1> QED BY <1>1, <1>2, <1>3, BufferChanges

\* A write leaves the server where it is, or ends it.
LEMMA StepWrite ==
  ASSUME IInv, Write
  PROVE  IInv' /\ pc \in {"full", "lines"} /\ pc' \in {pc, "dead"}
<1>1. Processing /\ pc' \in {pc, "dead"}
  BY Zenon DEF Write, WritesTo
<1>2. UNCHANGED <<backlog, gone, table, new_fd, read_set, i, served>>
  BY DEF Write, netVars
<1>3. pc \in {"full", "lines"} /\ i \in 1..Len(table)
  BY <1>1, ProcessingIsAtEntry
<1> QED BY <1>1, <1>2, <1>3, StaysAtEntry

\* A full buffer is processed before the read.
LEMMA StepBufferFull ==
  ASSUME IInv, BufferFull
  PROVE  IInv'
<1>1. /\ pc = "loop" /\ i \in DOMAIN table /\ pc' = "full"
      /\ UNCHANGED <<backlog, gone, table, new_fd, read_set, i, served>>
  BY DEF BufferFull, Ready, netVars, roundVars
<1>2. i \in 1..Len(table)
  BY <1>1, TableIsSeq DEF IInv
<1> QED BY <1>1, <1>2, StaysAtEntry

\* The loop goes on with the next entry: the client of this one is served.
LEMMA StepLinesDone ==
  ASSUME IInv, LinesDone
  PROVE  IInv'
<1>1. /\ pc = "lines" /\ pc' = "loop" /\ i' = i + 1
      /\ UNCHANGED <<backlog, gone, table, new_fd, read_set, served>>
  BY DEF LinesDone, netVars
<1>2. Len(table) \in Nat /\ i \in 1..Len(table) /\ table[i].fd \in served
  BY <1>1, TableIsSeq DEF IInv, ServerInv, RoundInv
<1>3. TableType' /\ BacklogInv' /\ ServerInv'
  BY <1>1, <1>2 DEF IInv, TableType, BacklogInv, ServerInv
<1>4. TableOK'
  <2>1. Registered' = Registered
    BY <1>1 DEF Registered
  <2>2. i' \in 1..Len(table') + 1
    BY <1>1, <1>2
  <2> QED BY <1>1, <2>1, <2>2 DEF IInv, TableOK
<1>5. RoundInv'
  BY <1>1, <1>2 DEF IInv, RoundInv
<1> QED BY <1>3, <1>4, <1>5 DEF IInv

\* remove_client moves the last entry to the place the loop looks at next: the
\* entries still to come are the ones there were, but the one that goes.
LEMMA StepRemoveClient ==
  ASSUME IInv, RemoveClient
  PROVE  IInv'
<1> DEFINE fd == table[i].fd
<1>1. /\ pc = "loop" /\ i \in DOMAIN table
      /\ gone' = gone \cup {fd} /\ table' = Without(i) /\ served' = served \cup {fd}
      /\ UNCHANGED <<backlog, new_fd, read_set, i>>
  BY DEF RemoveClient, Left, Ready
<1>2. pc' = "loop"
  BY <1>1 DEF RemoveClient
<1>3. /\ Len(table) \in Nat /\ DOMAIN table = 1..Len(table)
      /\ \A e \in 1..Len(table) : table[e].fd \in Clients
      /\ Registered = {table[e].fd : e \in 1..Len(table)}
  BY TableIsSeq DEF IInv
<1>4. Len(table) \in Nat
  BY <1>3
<1>5. i \in 1..Len(table)
  BY <1>1, <1>3
<1>6. /\ TableType' /\ Len(table') = Len(table) - 1
      /\ \A f \in 1..Len(table) - 1 :
           table'[f] = IF f = i THEN table[Len(table)] ELSE table[f]
  BY <1>1, <1>5, RemoveEntry DEF IInv
<1>7. DOMAIN table' = 1..Len(table) - 1
  BY <1>6, OwnRange DEF TableType
<1>8. \A e, f \in 1..Len(table) : table[e].fd = table[f].fd => e = f
  BY <1>3 DEF IInv, TableOK
<1>9. Registered' = Registered \ {fd}
  <2>1. Registered' = {table'[f].fd : f \in 1..Len(table) - 1}
    BY <1>7 DEF Registered
  <2>2. \A f \in 1..Len(table) - 1 : table'[f].fd \in Registered \ {fd}
    BY <1>3, <1>5, <1>6, <1>8
  <2>3. ASSUME NEW e \in 1..Len(table), e # i
        PROVE  \E f \in 1..Len(table) - 1 : table'[f].fd = table[e].fd
    <3>1. CASE e = Len(table)
      <4>1. i \in 1..Len(table) - 1
        BY ONLY <1>4, <1>5, <2>3, <3>1
      <4>2. table'[i] = table[e]
        BY <1>6, <3>1, <4>1
      <4> QED BY <4>1, <4>2
    <3>2. CASE e # Len(table)
      <4>1. e \in 1..Len(table) - 1
        BY ONLY <1>4, <2>3, <3>2
      <4>2. table'[e] = table[e]
        BY <1>6, <2>3, <4>1
      <4> QED BY <4>1, <4>2
    <3> QED BY <3>1, <3>2
  <2>4. \A x \in Registered \ {fd} : \E f \in 1..Len(table) - 1 : table'[f].fd = x
    BY <1>3, <2>3
  <2> QED BY <2>1, <2>2, <2>4
<1>10. fd \in Clients /\ fd \in Registered
  BY <1>3, <1>5
<1>11. BacklogInv'
  BY <1>1, <1>10 DEF IInv, BacklogInv, TableOK
<1>12. i \in 1..Len(table') + 1
  BY <1>3, <1>5, <1>6
<1>13. ServerInv'
  BY <1>1, <1>2, <1>10, <1>12 DEF IInv, ServerInv
<1>14. TableOK'
  <2>1. \A e, f \in DOMAIN table' : table'[e].fd = table'[f].fd => e = f
    BY <1>3, <1>5, <1>6, <1>7, <1>8
  <2>2. Len(table') <= MAX_CLIENTS
    BY <1>3, <1>6, ChatAssumption DEF IInv, TableOK
  <2>3. Registered' \cap (gone' \cup {new_fd'} \cup Range(backlog')) = {}
    BY <1>1, <1>9 DEF IInv, TableOK
  <2> QED BY <1>1, <1>12, <2>1, <2>2, <2>3 DEF TableOK
<1>15. RoundInv'
  <2> SUFFICES ASSUME NEW c \in read_set, c \notin served'
               PROVE  \E e \in i..Len(table') : table'[e].fd = c
    BY <1>1, <1>2 DEF RoundInv
  <2>1. PICK e \in i..Len(table) : table[e].fd = c
    BY <1>1 DEF IInv, RoundInv
  <2>2. e # i
    BY <1>1, <2>1
  <2>3. CASE e = Len(table)
    <3>1. i \in 1..Len(table) - 1 /\ i \in i..Len(table) - 1
      BY ONLY <1>4, <1>5, <2>1, <2>2, <2>3
    <3>2. table'[i] = table[e]
      BY <1>6, <2>3, <3>1
    <3> QED BY <1>6, <2>1, <3>1, <3>2
  <2>4. CASE e # Len(table)
    <3>1. e \in 1..Len(table) - 1 /\ e \in i..Len(table) - 1
      BY ONLY <1>4, <1>5, <2>1, <2>4
    <3>2. table'[e] = table[e]
      BY <1>6, <2>2, <3>1
    <3> QED BY <1>6, <2>1, <3>1, <3>2
  <2> QED BY <2>3, <2>4
<1> QED BY <1>6, <1>11, <1>13, <1>14, <1>15 DEF IInv

\* An entry the loop passes by is not of a ready client.
LEMMA StepNotReady ==
  ASSUME IInv, NotReady
  PROVE  IInv'
<1>1. /\ pc = "loop" /\ i \in DOMAIN table /\ table[i].fd \notin read_set
      /\ i' = i + 1
      /\ UNCHANGED <<backlog, gone, table, pc, new_fd, read_set, served>>
  BY DEF NotReady, netVars
<1>2. Len(table) \in Nat /\ i \in 1..Len(table)
  BY <1>1, TableIsSeq DEF IInv
<1>3. TableType' /\ BacklogInv' /\ ServerInv'
  BY <1>1, <1>2 DEF IInv, TableType, BacklogInv, ServerInv
<1>4. TableOK'
  <2>1. Registered' = Registered
    BY <1>1 DEF Registered
  <2>2. i' \in 1..Len(table') + 1
    BY <1>1, <1>2
  <2> QED BY <1>1, <2>1, <2>2 DEF IInv, TableOK
<1>5. RoundInv'
  BY <1>1, <1>2 DEF IInv, RoundInv
<1> QED BY <1>3, <1>4, <1>5 DEF IInv

\* A round ends behind the last entry, so with every ready client served.
LEMMA StepEndOfRound ==
  ASSUME IInv, EndOfRound
  PROVE  IInv' /\ read_set \subseteq served
<1>1. /\ pc = "loop" /\ pc' = "select" /\ i \notin DOMAIN table /\ i' = 1
      /\ UNCHANGED <<backlog, gone, table, new_fd>>
  BY DEF EndOfRound, netVars
<1>2. Len(table) \in Nat /\ i = Len(table) + 1
  BY <1>1, TableIsSeq DEF IInv, ServerInv
<1>3. TableType' /\ BacklogInv' /\ ServerInv' /\ RoundInv'
  BY <1>1, <1>2 DEF IInv, TableType, BacklogInv, ServerInv, RoundInv
<1>4. TableOK'
  <2>1. Registered' = Registered
    BY <1>1 DEF Registered
  <2> QED BY <1>1, <2>1 DEF IInv, TableOK
<1>5. read_set \subseteq served
  BY <1>1, <1>2 DEF IInv, RoundInv
<1> QED BY <1>3, <1>4, <1>5 DEF IInv

-----------------------------------------------------------------------------
(* The data: what the streams, the buffers and the mail hold.              *)

Names == {All} \cup {l.to : l \in Lines}
Labels == {Mangled} \cup {NameOf[c] : c \in Clients}
Unit == [line : Nat, part : Nat, to : Names, len : Nat, end : BOOLEAN]
Entries == [fd : Clients, buffer : Seq(Unit), name : Labels]
Mail == [from : Clients, message : Seq(Unit)]

\* Lines, one behind the other, the first of them of one unit.
Stream(s) ==
  /\ \A k \in 1..Len(s) : s[k].part \in 1..s[k].len /\ (s[k].end <=> s[k].part = s[k].len)
  /\ Len(s) # 0 => s[1].part = 1 /\ s[1].len = 1 /\ s[Len(s)].end
  /\ \A k \in 1..Len(s) - 1 :
       IF s[k].end THEN s[k + 1].part = 1
       ELSE s[k + 1].part = s[k].part + 1 /\ s[k + 1].len = s[k].len /\ s[k + 1].to = s[k].to

\* A message may begin behind the first d units: there a line begins, or goes
\* on that no buffer can hold.
Cut(s, d) == d + 1 \in 1..Len(s) => s[d + 1].part = 1 \/ s[d + 1].len > BufSize

DataType ==
  /\ typed \in Nat
  /\ sent \in [Clients -> Seq(Unit)]
  /\ taken \in [Clients -> Nat] /\ start \in [Clients -> Nat]
  /\ \A c \in Clients : start[c] <= taken[c] /\ taken[c] <= Len(sent[c])
  /\ table \in Seq(Entries)
  /\ processed \in [Clients -> Seq(Seq(Unit))]
  /\ inbox \in [Clients -> Seq(Mail)]

\* The server has nothing of, and nobody has anything from, a client that it
\* has not taken into the table.
FreshInv ==
  \A c \in Clients \ (Registered \cup gone) :
    /\ taken[c] = 0 /\ start[c] = 0 /\ processed[c] = <<>> /\ inbox[c] = <<>>
    /\ \A d \in Clients : \A k \in 1..Len(inbox[d]) : inbox[d][k].from # c

\* A message as process_message gets it.
Framed(m) ==
  /\ Len(m) \in 1..BufSize
  /\ \A k \in 1..Len(m) - 1 : ~ m[k].end
  /\ m[Len(m)].end \/ Len(m) = BufSize

\* The units of s behind the b-th, up to the t-th, are in the messages p and behind
\* them in the buffer.
Held(s, b, t, p, buffer) == FlattenSeq(p) \o buffer = Part(s, b, t)

\* An entry of the table: s is what its client has sent, of which the server
\* has read t units, the first b as the name, and processed the messages p.
EntryOK(entry, s, t, b, p) ==
  /\ Held(s, b, t, p, entry.buffer)
  /\ Len(entry.buffer) <= BufSize
  /\ \A m \in Range(p) : Framed(m)
  /\ b = 1 => entry.name = NameOf[entry.fd] /\ Cut(s, t - Len(entry.buffer))

EntriesInv ==
  \A e \in 1..Len(table) :
    EntryOK(table[e], sent[table[e].fd], taken[table[e].fd], start[table[e].fd],
            processed[table[e].fd])

\* What a connection has accepted.
FlownInv ==
  /\ flown \in [Clients -> Nat]
  /\ \A c \in Clients : taken[c] <= flown[c] /\ flown[c] <= Len(sent[c])

\* A buffer has a newline only while the loop cuts lines out of it, and one that
\* is processed as it is has no room left.
LineInv ==
  /\ \A e \in 1..Len(table) : HasLine(table[e].buffer) => e = i /\ pc \in {"lines", "dead"}
  /\ pc = "full" => Len(table[i].buffer) >= BufSize

\* A message all units of which are of one line, and which begins with the
\* addressee of the line if a buffer can hold that.
OfOneLine(m) ==
  \A u \in 1..Len(m) : m[u].len <= BufSize => m[1].part = 1 /\ m[1].to = m[u].to

DataInv ==
  /\ DataType /\ FreshInv /\ EntriesInv /\ PrivateStaysPrivate
  /\ \A c \in Clients : Stream(sent[c])

-----------------------------------------------------------------------------
(* Pieces of a stream.                                                     *)

\* Up to the next newline all is of one line, unit by unit.
LEMMA RunOfLine ==
  ASSUME NEW s \in Seq(Unit), Stream(s), NEW a \in Nat, NEW b \in Nat, a < b, b <= Len(s),
         \A j \in a + 1..b - 1 : ~ s[j].end
  PROVE  \A j \in a + 1..b :
           /\ s[j].part = s[a + 1].part + (j - (a + 1))
           /\ s[j].len = s[a + 1].len /\ s[j].to = s[a + 1].to
<1> DEFINE P(j) == /\ s[j].part = s[a + 1].part + (j - (a + 1))
                   /\ s[j].len = s[a + 1].len /\ s[j].to = s[a + 1].to
           Good == {k \in Nat : a + 1 + k <= b => P(a + 1 + k)}
<1>1. \A k \in 1..Len(s) : s[k] \in Unit
  OBVIOUS
<1>2. \A k \in 1..Len(s) : s[k].part \in Nat
  BY <1>1 DEF Unit
<1>3. 0 \in Good
  <2>1. a + 1 \in 1..Len(s) /\ a + 1 + 0 = a + 1
    OBVIOUS
  <2>2. s[a + 1].part \in Nat
    BY <1>2, <2>1
  <2>3. P(a + 1)
    BY <2>2
  <2> QED BY <2>1, <2>3
<1>4. ASSUME NEW k \in Nat, k \in Good PROVE k + 1 \in Good
  <2> DEFINE j == a + 1 + k
  <2>1. a + 1 + (k + 1) = j + 1 /\ j \in Nat
    OBVIOUS
  <2>2. ASSUME j + 1 <= b PROVE P(j + 1)
    <3>1. /\ j \in a + 1..b - 1 /\ j \in 1..Len(s) - 1 /\ j <= b
          /\ j \in 1..Len(s) /\ a + 1 \in 1..Len(s)
      BY <2>2
    <3>2. P(j)
      BY <1>4, <3>1
    <3>3. ~ s[j].end
      BY <3>1
    <3> HIDE DEF j
    <3>4. s[j + 1].part = s[j].part + 1 /\ s[j + 1].len = s[j].len /\ s[j + 1].to = s[j].to
      BY <3>1, <3>3 DEF Stream
    <3>5. s[j].part \in Nat /\ s[a + 1].part \in Nat
      BY <1>2, <3>1
    <3>6. s[j + 1].part = s[a + 1].part + ((j + 1) - (a + 1))
      <4>1. ASSUME NEW x \in Nat, NEW y \in Nat, y = x + (j - (a + 1))
            PROVE  y + 1 = x + ((j + 1) - (a + 1))
        BY <2>1, <4>1
      <4>2. s[j].part = s[a + 1].part + (j - (a + 1))
        BY <3>2
      <4>3. s[j].part + 1 = s[a + 1].part + ((j + 1) - (a + 1))
        BY <3>5, <4>1, <4>2
      <4> QED BY <3>4, <4>3
    <3> QED BY <3>2, <3>4, <3>6
  <2> QED BY <2>1, <2>2
<1> HIDE DEF Good
<1>5. \A k \in Nat : k \in Good
  BY <1>3, <1>4, Induction
<1>6. ASSUME NEW j \in a + 1..b PROVE P(j)
  <2>1. j - (a + 1) \in Nat /\ a + 1 + (j - (a + 1)) = j
    OBVIOUS
  <2> HIDE DEF P
  <2>2. a + 1 + (j - (a + 1)) <= b => P(a + 1 + (j - (a + 1)))
    BY <1>5, <2>1 DEF Good
  <2> QED BY <2>1, <2>2
<1> QED BY <1>6

\* A piece that begins at a cut and has no newline inside is of one line.
LEMMA PieceOfOneLine ==
  ASSUME NEW s \in Seq(Unit), Stream(s), NEW a \in Nat, NEW b \in Nat, a < b, b <= Len(s),
         \A j \in a + 1..b - 1 : ~ s[j].end, Cut(s, a)
  PROVE  OfOneLine(Part(s, a, b))
<1> DEFINE m == Part(s, a, b)
<1>1. a <= b
  OBVIOUS
<1>2. Len(m) = b - a /\ \A k \in 1..b - a : m[k] = s[a + k]
  BY <1>1, PartIs
<1> HIDE DEF m
<1>3. \A j \in a + 1..b :
        /\ s[j].part = s[a + 1].part + (j - (a + 1))
        /\ s[j].len = s[a + 1].len /\ s[j].to = s[a + 1].to
  BY RunOfLine
<1>4. ASSUME NEW u \in 1..b - a, m[u].len <= BufSize
      PROVE  m[1].part = 1 /\ m[1].to = m[u].to
  <2>1. a + u \in a + 1..b /\ 1 \in 1..b - a /\ a + 1 \in 1..Len(s) /\ a + 1 = 1 + a
    OBVIOUS
  <2>2. m[u] = s[a + u] /\ m[1] = s[a + 1]
    BY <1>2, <2>1
  <2>3. s[a + u].len = s[a + 1].len /\ s[a + u].to = s[a + 1].to
    BY <1>3, <2>1
  <2>4. s[a + 1].len \in Nat /\ BufSize \in Nat
    <3>1. s[a + 1] \in Unit
      BY <2>1
    <3> QED BY <3>1, ChatAssumption DEF Unit
  <2>5. s[a + 1].part = 1
    BY <1>4, <2>1, <2>2, <2>3, <2>4 DEF Cut
  <2> QED BY <2>2, <2>3, <2>5
<1>5. OfOneLine(m)
  BY <1>2, <1>4 DEF OfOneLine
<1> QED BY <1>5 DEF m

\* Behind a newline there is a cut, and behind a buffer full of one line.
LEMMA CutBehind ==
  ASSUME NEW s \in Seq(Unit), Stream(s), NEW a \in Nat, NEW b \in Nat, a < b, b <= Len(s),
         \A j \in a + 1..b - 1 : ~ s[j].end, s[b].end \/ b - a = BufSize
  PROVE  Cut(s, b)
<1> SUFFICES ASSUME b + 1 \in 1..Len(s)
             PROVE  s[b + 1].part = 1 \/ s[b + 1].len > BufSize
  BY DEF Cut
<1>1. b \in 1..Len(s) - 1 /\ b \in 1..Len(s) /\ a + 1 \in 1..Len(s) /\ b \in a + 1..b
  OBVIOUS
<1>2. CASE s[b].end
  BY <1>1, <1>2 DEF Stream
<1>3. CASE ~ s[b].end
  <2>1. s[b].part = s[a + 1].part + (b - (a + 1))
    BY <1>1, RunOfLine
  <2>2. s[b + 1].len = s[b].len
    BY <1>1, <1>3 DEF Stream
  <2>3. /\ s[b].part \in 1..s[b].len /\ s[b].part # s[b].len
        /\ s[a + 1].part \in 1..s[a + 1].len
    BY <1>1, <1>3 DEF Stream
  <2>4. s[b].len \in Nat /\ s[a + 1].len \in Nat /\ BufSize \in Nat
    <3>1. s[b] \in Unit /\ s[a + 1] \in Unit
      BY <1>1
    <3> QED BY <3>1, ChatAssumption DEF Unit
  <2>5. b - (a + 1) = BufSize - 1
    BY <1>3, <2>4
  <2>6. s[b].len > BufSize
    BY <2>1, <2>3, <2>4, <2>5
  <2> QED BY <2>2, <2>6
<1> QED BY <1>2, <1>3

\* What a client writes continues its stream, and no cut is lost.
LEMMA StreamGrows ==
  ASSUME NEW s \in Seq(Unit), Stream(s), NEW l \in Nat, NEW line,
         line.len \in Nat \ {0}, line.to \in Names, Len(s) = 0 => line.len = 1
  PROVE  /\ UnitsOf(l, line) \in Seq(Unit) /\ s \o UnitsOf(l, line) \in Seq(Unit)
         /\ Stream(s \o UnitsOf(l, line))
         /\ \A d \in Nat : d <= Len(s) /\ Cut(s, d) => Cut(s \o UnitsOf(l, line), d)
<1> DEFINE n == line.len
           w == UnitsOf(l, line)
           t == s \o w
<1>1. n \in Nat /\ 1 <= n /\ Len(s) \in Nat
  OBVIOUS
<1>2. /\ w \in [1..n -> Unit]
      /\ \A k \in 1..n : /\ w[k].part = k /\ w[k].len = n /\ w[k].to = line.to
                         /\ (w[k].end <=> k = n)
  <2> DEFINE unit(k) == [line |-> l, part |-> k, to |-> line.to, len |-> n, end |-> k = n]
  <2>1. w = [k \in 1..n |-> unit(k)]
    BY DEF UnitsOf
  <2>2. ASSUME NEW k \in 1..n
        PROVE  /\ unit(k) \in Unit
               /\ unit(k).part = k /\ unit(k).len = n /\ unit(k).to = line.to
               /\ (unit(k).end <=> k = n)
    <3>1. (k = n) \in BOOLEAN /\ k \in Nat
      OBVIOUS
    <3>2. n \in Nat /\ line.to \in Names
      BY <1>1
    <3> HIDE DEF n
    <3> QED BY <3>1, <3>2 DEF Unit
  <2> HIDE DEF unit, n
  <2> QED BY <2>1, <2>2
<1>3. w \in Seq(Unit) /\ Len(w) = n
  BY <1>1, <1>2
<1> HIDE DEF w, n
<1>4. /\ t \in Seq(Unit) /\ Len(t) = Len(s) + n
      /\ \A k \in 1..Len(s) + n : t[k] = IF k <= Len(s) THEN s[k] ELSE w[k - Len(s)]
  BY <1>3, ConcatProperties
<1> HIDE DEF t
<1>5. \A k \in 1..Len(s) : t[k] = s[k]
  BY <1>1, <1>4
<1>6. \A k \in Len(s) + 1..Len(s) + n : k - Len(s) \in 1..n /\ t[k] = w[k - Len(s)]
  BY <1>1, <1>4
<1>7. Len(s) # 0 => /\ Len(s) \in 1..Len(s) /\ s[Len(s)].end
                    /\ 1 \in 1..Len(s) /\ s[1].part = 1 /\ s[1].len = 1
  BY <1>1 DEF Stream
<1>8. /\ Len(s) + 1 \in Len(s) + 1..Len(s) + n /\ (Len(s) + 1) - Len(s) = 1
      /\ Len(s) + n \in Len(s) + 1..Len(s) + n /\ (Len(s) + n) - Len(s) = n
  BY <1>1
<1>9. t[Len(s) + 1].part = 1 /\ t[Len(s) + 1].len = n /\ t[Len(s) + n].end
  <2>1. 1 \in 1..n /\ n \in 1..n
    BY <1>1
  <2> QED BY <1>2, <1>6, <1>8, <2>1
<1>10. ASSUME NEW k \in 1..Len(t)
       PROVE  t[k].part \in 1..t[k].len /\ (t[k].end <=> t[k].part = t[k].len)
  <2>1. CASE k \in 1..Len(s)
    BY <1>5, <2>1 DEF Stream
  <2>2. CASE k \in Len(s) + 1..Len(s) + n
    BY <1>1, <1>2, <1>6, <2>2
  <2> QED BY <1>1, <1>4, <2>1, <2>2
<1>11. Len(t) # 0 => t[1].part = 1 /\ t[1].len = 1 /\ t[Len(t)].end
  <2>1. t[Len(t)].end
    BY <1>4, <1>9
  <2>2. CASE Len(s) = 0
    <3>1. n = 1 /\ Len(s) + 1 = 1
      BY <2>2 DEF n
    <3> QED BY <1>9, <2>1, <3>1
  <2>3. CASE Len(s) # 0
    BY <1>5, <1>7, <2>1, <2>3
  <2> QED BY <2>2, <2>3
<1>12. ASSUME NEW k \in 1..Len(t) - 1
       PROVE  IF t[k].end THEN t[k + 1].part = 1
              ELSE t[k + 1].part = t[k].part + 1 /\ t[k + 1].len = t[k].len
                   /\ t[k + 1].to = t[k].to
  <2>1. CASE k \in 1..Len(s) - 1
    <3>1. k \in 1..Len(s) /\ k + 1 \in 1..Len(s)
      BY <1>1, <2>1
    <3>2. t[k] = s[k] /\ t[k + 1] = s[k + 1]
      BY <1>5, <3>1
    <3> QED BY <2>1, <3>2 DEF Stream
  <2>2. CASE k = Len(s)
    <3>1. k # 0
      BY <1>4
    <3>2. t[k].end
      BY <1>5, <1>7, <2>2, <3>1
    <3> QED BY <1>9, <2>2, <3>2
  <2>3. CASE k \in Len(s) + 1..Len(s) + n - 1
    <3> DEFINE j == k - Len(s)
    <3>1. /\ k \in Len(s) + 1..Len(s) + n /\ k + 1 \in Len(s) + 1..Len(s) + n
          /\ j \in 1..n /\ j + 1 \in 1..n /\ j # n /\ (k + 1) - Len(s) = j + 1
      BY <1>1, <2>3
    <3>2. t[k] = w[j] /\ t[k + 1] = w[j + 1]
      BY <1>6, <3>1
    <3> HIDE DEF j
    <3> QED BY <1>2, <3>1, <3>2
  <2> QED BY <1>1, <1>4, <2>1, <2>2, <2>3
<1>13. Stream(t)
  BY <1>10, <1>11, <1>12 DEF Stream
<1>14. ASSUME NEW d \in Nat, d <= Len(s), Cut(s, d)
       PROVE  Cut(t, d)
  <2>1. CASE d = Len(s)
    BY <1>9, <2>1 DEF Cut
  <2>2. CASE d # Len(s)
    <3>1. d + 1 \in 1..Len(s)
      BY <1>1, <1>14, <2>2
    <3> QED BY <1>5, <1>14, <3>1 DEF Cut
  <2> QED BY <2>1, <2>2
<1>15. w \in Seq(Unit) /\ t \in Seq(Unit) /\ Stream(t)
       /\ \A d \in Nat : d <= Len(s) /\ Cut(s, d) => Cut(t, d)
  BY <1>3, <1>4, <1>13, <1>14
<1> QED BY <1>15 DEF t, w

\* A buffer is the end of what has been read.
LEMMA BufferIsTail ==
  ASSUME NEW s \in Seq(Unit), NEW p \in Seq(Seq(Unit)), NEW buffer \in Seq(Unit),
         NEW b \in Nat, NEW t \in Nat, b <= t, t <= Len(s), Held(s, b, t, p, buffer)
  PROVE  /\ t - Len(buffer) \in Nat /\ t - Len(buffer) <= t /\ b <= t - Len(buffer)
         /\ buffer = Part(s, t - Len(buffer), t)
<1> DEFINE q == FlattenSeq(p)
           whole == Part(s, b, t)
           d == t - Len(buffer)
           tail == Part(s, d, t)
<1>1. q \in Seq(Unit)
  BY FlattenType
<1>2. whole \in Seq(Unit) /\ Len(whole) = t - b /\ \A k \in 1..t - b : whole[k] = s[b + k]
  BY PartIs
<1> HIDE DEF q
<1>3. /\ Len(q \o buffer) = Len(q) + Len(buffer)
      /\ \A k \in 1..Len(q) + Len(buffer) :
           (q \o buffer)[k] = IF k <= Len(q) THEN q[k] ELSE buffer[k - Len(q)]
  BY <1>1, ConcatProperties
<1>4. q \o buffer = whole
  BY DEF q, Held
<1> HIDE DEF whole
<1>5. Len(q) \in Nat /\ Len(buffer) \in Nat /\ Len(q) + Len(buffer) = t - b
  <2>1. Len(q) \in Nat /\ Len(buffer) \in Nat
    BY <1>1
  <2> QED BY <1>2, <1>3, <1>4, <2>1
<1>6. d \in Nat /\ d <= t /\ b <= d /\ b + Len(q) = d /\ t - d = Len(buffer)
  BY <1>5
<1> HIDE DEF d
<1>7. tail \in Seq(Unit) /\ Len(tail) = t - d /\ \A k \in 1..t - d : tail[k] = s[d + k]
  <2>1. d \in Nat /\ d <= t
    BY <1>6
  <2> QED BY <2>1, PartIs
<1> HIDE DEF tail
<1>8. ASSUME NEW k \in 1..Len(buffer) PROVE buffer[k] = tail[k]
  <2> DEFINE j == Len(q) + k
  <2>1. /\ j \in 1..Len(q) + Len(buffer) /\ ~ (j <= Len(q)) /\ j - Len(q) = k
        /\ j \in 1..t - b /\ k \in 1..t - d
    BY <1>5, <1>6
  <2>2. b + j = d + k
    <3>1. Len(q) \in Nat /\ b + Len(q) = d
      BY <1>5, <1>6
    <3> HIDE DEF q
    <3> QED BY <3>1
  <2> HIDE DEF j
  <2>3. (q \o buffer)[j] = buffer[k]
    BY <1>3, <2>1
  <2>4. whole[j] = s[d + k]
    BY <1>2, <2>1, <2>2
  <2> QED BY <1>4, <1>7, <2>1, <2>3, <2>4
<1>9. Len(buffer) = Len(tail)
  BY <1>6, <1>7
<1>10. buffer = tail
  <2>1. \A k \in 1..Len(buffer) : buffer[k] = tail[k]
    BY <1>8
  <2> QED BY <1>7, <1>9, <2>1, SameElements
<1> QED BY <1>6, <1>10 DEF d, tail

-----------------------------------------------------------------------------
(* What the loop makes of a buffer.                                        *)

\* Two ways to go on behind x.
Same(v, r, u, w) == v \o r = u \o w

LEMMA Regroup ==
  ASSUME NEW X, NEW x \in Seq(X), NEW v \in Seq(X), NEW r \in Seq(X),
         NEW u \in Seq(X), NEW w \in Seq(X), Same(v, r, u, w)
  PROVE  Same(x \o v, r, x \o u, w)
<1>1. Regroups(x, v, r) /\ Regroups(x, u, w)
  BY ConcatRegroups
<1> QED BY <1>1 DEF Same, Regroups

\* A read goes on where the buffer ends.
LEMMA ReadIsOK ==
  ASSUME NEW entry \in Entries, NEW s \in Seq(Unit), NEW p \in Seq(Seq(Unit)),
         NEW b \in Nat, NEW t \in Nat, b <= t, t <= Len(s), EntryOK(entry, s, t, b, p),
         NEW k \in Nat, k <= BufSize - Len(entry.buffer), t + k <= Len(s)
  PROVE  LET filled == entry.buffer \o Part(s, t, t + k)
         IN  /\ filled \in Seq(Unit)
             /\ EntryOK([entry EXCEPT !.buffer = filled], s, t + k, b, p)
<1> DEFINE buffer == entry.buffer
           units == Part(s, t, t + k)
           filled == buffer \o units
           new == [entry EXCEPT !.buffer = filled]
           x == FlattenSeq(p)
<1>1. buffer \in Seq(Unit) /\ Len(buffer) \in Nat
  BY DEF Entries
<1>2. /\ Held(s, b, t, p, buffer)
      /\ \A m \in Range(p) : Framed(m)
      /\ b = 1 => entry.name = NameOf[entry.fd] /\ Cut(s, t - Len(buffer))
  BY DEF EntryOK
<1>3. t + k \in Nat /\ t <= t + k /\ BufSize \in Nat /\ (t + k) - t = k
  BY ChatAssumption
<1>4. units \in Seq(Unit) /\ Len(units) = k
  BY <1>3, PartIs
<1>5. new.fd = entry.fd /\ new.name = entry.name /\ new.buffer = filled
  BY DEF Entries
<1>6. k <= BufSize - Len(buffer)
  OBVIOUS
<1> HIDE DEF buffer, units
<1>7. filled \in Seq(Unit) /\ Len(filled) = Len(buffer) + k
  BY <1>1, <1>4, ConcatProperties
<1>8. Len(filled) <= BufSize /\ (t + k) - Len(filled) = t - Len(buffer)
  BY <1>1, <1>3, <1>6, <1>7
<1>9. x \in Seq(Unit)
  BY FlattenType
<1>10. Held(s, b, t + k, p, filled)
  <2>1. x \o buffer = Part(s, b, t)
    BY <1>2 DEF Held
  <2>2. Part(s, b, t) \o units = Part(s, b, t + k)
    BY <1>3, PartsJoin DEF units
  <2> HIDE DEF x
  <2>3. (x \o buffer) \o units = x \o (buffer \o units)
    <3>1. Regroups(x, buffer, units)
      BY ONLY <1>1, <1>4, <1>9, ConcatRegroups
    <3> QED BY ONLY <3>1 DEF Regroups
  <2> QED BY <2>1, <2>2, <2>3 DEF Held, x
<1> HIDE DEF filled, new
<1>11. EntryOK(new, s, t + k, b, p)
  BY <1>2, <1>5, <1>8, <1>10 DEF EntryOK
<1> QED BY <1>7, <1>11 DEF new, filled, buffer, units

\* Where a piece of n units is that begins behind the first d, len before the t-th.
LEMMA InsideTail ==
  ASSUME NEW t \in Nat, NEW len \in Nat, NEW n \in Nat, NEW d \in Nat, NEW all \in Nat,
         d = t - len, 1 <= n, n <= len, t <= all
  PROVE  /\ t - d = len /\ n <= t - d /\ d + n \in Nat /\ d < d + n /\ d <= d + n
         /\ d + n <= t /\ d + n <= all /\ (d + n) - d = n /\ t - (len - n) = d + n
         /\ 0 \in Nat /\ 0 <= n /\ n - 0 = n /\ \A k \in 1..n : 0 + k = k
         /\ \A j \in d + 1..(d + n) - 1 :
              j - d \in 1..n - 1 /\ j - d \in 1..n /\ d + (j - d) = j
OBVIOUS

\* A message cut out of a buffer, which has no newline inside and ends with one
\* or fills the buffer, is a line or a piece of one, and leaves a sound entry.
LEMMA MessageIsOK ==
  ASSUME NEW entry \in Entries, NEW s \in Seq(Unit), Stream(s), NEW p \in Seq(Seq(Unit)),
         NEW b \in Nat, NEW t \in Nat, b <= t, t <= Len(s), EntryOK(entry, s, t, b, p),
         NEW n \in 1..Len(entry.buffer), \A l \in 1..n - 1 : ~ entry.buffer[l].end,
         entry.buffer[n].end \/ n = BufSize
  PROVE  LET m == SubSeq(entry.buffer, 1, n)
             rest == SubSeq(entry.buffer, n + 1, Len(entry.buffer))
         IN  /\ m \in Seq(Unit) /\ Len(m) = n /\ rest \in Seq(Unit)
             /\ b = 1 => OfOneLine(m)
             /\ EntryOK([entry EXCEPT !.buffer = rest], s, t, b, Append(p, m))
<1> DEFINE buffer == entry.buffer
           m == SubSeq(buffer, 1, n)
           rest == SubSeq(buffer, n + 1, Len(buffer))
           new == [entry EXCEPT !.buffer = rest]
           d == t - Len(buffer)
           x == FlattenSeq(p)
<1>0. PICK len \in Nat : len = Len(buffer) /\ d = t - len
  <2>1. Len(buffer) \in Nat
    BY LenProperties DEF Entries
  <2> QED BY <2>1
<1>1. buffer \in Seq(Unit) /\ n \in Nat /\ 1 <= n /\ n <= len /\ len <= Len(buffer)
      /\ n <= Len(buffer)
  BY <1>0 DEF Entries
<1>2. /\ Held(s, b, t, p, buffer) /\ Len(buffer) <= BufSize
      /\ \A h \in Range(p) : Framed(h)
      /\ b = 1 => entry.name = NameOf[entry.fd] /\ Cut(s, d)
  BY DEF EntryOK
<1>3. /\ \A l \in 1..n - 1 : ~ buffer[l].end
      /\ buffer[n].end \/ n = BufSize
  OBVIOUS
<1>4. new.fd = entry.fd /\ new.name = entry.name /\ new.buffer = rest
  BY DEF Entries
<1>5. BufSize \in Nat \ {0}
  BY ChatAssumption
<1> HIDE DEF buffer
<1>6. d \in Nat /\ d <= t /\ buffer = Part(s, d, t)
  BY <1>1, <1>2, BufferIsTail
<1> HIDE DEF d
<1>7. m = Part(buffer, 0, n) /\ rest = Part(buffer, n, len)
  BY <1>0 DEF Part
<1> HIDE DEF m, rest, new
<1>8. /\ t - d = len /\ n <= t - d /\ d + n \in Nat /\ d < d + n /\ d <= d + n
      /\ d + n <= t /\ d + n <= Len(s) /\ (d + n) - d = n /\ t - (len - n) = d + n
      /\ 0 \in Nat /\ 0 <= n /\ n - 0 = n /\ \A k \in 1..n : 0 + k = k
      /\ \A j \in d + 1..(d + n) - 1 :
           j - d \in 1..n - 1 /\ j - d \in 1..n /\ d + (j - d) = j
  <2>1. Len(s) \in Nat
    BY LenProperties
  <2> QED BY <1>0, <1>1, <1>6, <2>1, InsideTail
<1>9. m \in Seq(Unit) /\ Len(m) = n /\ \A k \in 1..n : m[k] = buffer[k]
  <2>1. ASSUME NEW a \in Nat, a <= n
        PROVE  /\ Part(buffer, a, n) \in Seq(Unit) /\ Len(Part(buffer, a, n)) = n - a
               /\ \A k \in 1..n - a : Part(buffer, a, n)[k] = buffer[a + k]
    <3>1. a \in Nat /\ a <= n /\ n \in Nat /\ n <= Len(buffer) /\ buffer \in Seq(Unit)
      BY <1>1, <2>1
    <3> QED BY ONLY <3>1, PartIs
  <2>2. /\ Part(buffer, 0, n) \in Seq(Unit) /\ Len(Part(buffer, 0, n)) = n - 0
        /\ \A k \in 1..n - 0 : Part(buffer, 0, n)[k] = buffer[0 + k]
    BY <1>8, <2>1
  <2> QED BY <1>7, <1>8, <2>2
<1>10. rest \in Seq(Unit) /\ Len(rest) = len - n
  BY <1>1, <1>7, PartIs
<1>11. m \o rest = buffer
  <2>1. 0 \in Nat /\ 0 <= n /\ n <= len
    BY <1>1
  <2>2. Part(buffer, 0, n) \o Part(buffer, n, len) = Part(buffer, 0, len)
    BY <1>1, <2>1, PartsJoin
  <2>3. Part(buffer, 0, len) = buffer
    BY <1>0, <1>1, WholePart
  <2> QED BY <1>7, <2>2, <2>3
<1>12. m = Part(s, d, d + n)
  <2>1. 0 \in Nat /\ 0 <= n /\ n <= t - d
    BY <1>1, <1>8
  <2>2. Part(Part(s, d, t), 0, n) = Part(s, d + 0, d + n)
    BY <1>1, <1>6, <2>1, PartOfPart
  <2>3. d + 0 = d
    BY <1>6
  <2> QED BY <1>6, <1>7, <2>2, <2>3
<1>13. \A k \in 1..n : m[k] = s[d + k]
  <2>1. \A k \in 1..(d + n) - d : Part(s, d, d + n)[k] = s[d + k]
    BY <1>6, <1>8, PartIs
  <2> QED BY <1>8, <1>12, <2>1
<1>14. \A j \in d + 1..(d + n) - 1 : ~ s[j].end
  <2>1. ASSUME NEW j \in d + 1..(d + n) - 1 PROVE ~ s[j].end
    <3>1. j - d \in 1..n - 1 /\ j - d \in 1..n /\ d + (j - d) = j
      BY <1>8
    <3> QED BY <1>3, <1>9, <1>13, <3>1
  <2> QED BY <2>1
<1>15. s[d + n].end \/ (d + n) - d = BufSize
  <2>1. n \in 1..n
    BY <1>1
  <2>2. m[n] = buffer[n] /\ m[n] = s[d + n]
    BY <1>9, <1>13, <2>1
  <2> QED BY <1>3, <1>8, <2>2
<1>16. b = 1 => OfOneLine(m)
  <2>1. b = 1 => Cut(s, d)
    BY <1>2
  <2> QED BY <1>6, <1>8, <1>12, <1>14, <2>1, PieceOfOneLine
<1>17. Cut(s, d + n)
  <2> QED BY <1>6, <1>8, <1>14, <1>15, CutBehind
<1>18. Framed(m)
  <2>1. n \in 1..n /\ n \in 1..BufSize /\ \A k \in 1..n - 1 : k \in 1..n
    BY <1>1, <1>2, <1>5
  <2>2. \A k \in 1..n - 1 : ~ m[k].end
    BY <1>3, <1>9, <2>1
  <2>3. m[n].end \/ n = BufSize
    BY <1>3, <1>9, <2>1
  <2> QED BY <1>9, <2>1, <2>2, <2>3 DEF Framed
<1>19. \A h \in Range(Append(p, m)) : Framed(h)
  <2>1. /\ Len(p) \in Nat /\ Append(p, m) \in Seq(Seq(Unit)) /\ Len(Append(p, m)) = Len(p) + 1
        /\ \A k \in 1..Len(p) : Append(p, m)[k] = p[k]
        /\ Append(p, m)[Len(p) + 1] = m
    BY <1>9, AppendProperties, LenProperties
  <2>2. DOMAIN Append(p, m) = 1..Len(p) + 1 /\ DOMAIN p = 1..Len(p)
    BY <2>1, LenProperties
  <2>3. \A k \in 1..Len(p) : Framed(p[k])
    BY <1>2, <2>2 DEF Range
  <2>4. ASSUME NEW k \in 1..Len(p) + 1 PROVE Framed(Append(p, m)[k])
    <3>1. k \in 1..Len(p) \/ k = Len(p) + 1
      BY <2>1
    <3> QED BY <1>18, <2>1, <2>3, <3>1
  <2> QED BY <2>2, <2>4 DEF Range
<1>20. x \in Seq(Unit)
  BY FlattenType
<1>21. Held(s, b, t, Append(p, m), rest)
  <2>1. FlattenSeq(Append(p, m)) = x \o m
    BY <1>9, FlattenOfAppend
  <2>2. x \o buffer = Part(s, b, t)
    BY <1>2 DEF Held
  <2> HIDE DEF x
  <2>3. (x \o m) \o rest = x \o (m \o rest)
    <3>1. Regroups(x, m, rest)
      BY ONLY <1>9, <1>10, <1>20, ConcatRegroups
    <3> QED BY ONLY <3>1 DEF Regroups
  <2> QED BY <1>11, <2>1, <2>2, <2>3 DEF Held
<1>22. Len(rest) <= BufSize /\ t - Len(rest) = d + n
  <2>1. Len(rest) = len - n /\ n <= len /\ Len(buffer) = len /\ Len(buffer) <= BufSize
    BY <1>0, <1>1, <1>2, <1>10
  <2>2. len - n <= BufSize
    BY <1>1, <1>5, <2>1
  <2> QED BY <1>8, <2>1, <2>2
<1>23. EntryOK(new, s, t, b, Append(p, m))
  <2> QED BY <1>2, <1>4, <1>17, <1>19, <1>21, <1>22 DEF EntryOK
<1> QED BY <1>9, <1>10, <1>16, <1>23 DEF new, m, rest, buffer

-----------------------------------------------------------------------------
(* What process_message writes, and to whom.                               *)

\* A set of indices has a least one.
LEMMA LeastExists ==
  ASSUME NEW n \in Nat, NEW T, T \subseteq 1..n, T # {}
  PROVE  \E e \in T : \A f \in T : e <= f
<1> DEFINE Least(S) == \E e \in S : \A f \in S : e <= f
           Good == {m \in Nat : \A S \in SUBSET (1..m) : S # {} => Least(S)}
<1>1. 0 \in Good
  <2>1. \A S \in SUBSET (1..0) : S = {}
    OBVIOUS
  <2> QED BY <2>1
<1>2. ASSUME NEW m \in Nat, m \in Good PROVE m + 1 \in Good
  <2>1. ASSUME NEW S \in SUBSET (1..(m + 1)), S # {} PROVE Least(S)
    <3> DEFINE R == S \ {m + 1}
    <3>1. R \in SUBSET (1..m)
      OBVIOUS
    <3>2. CASE R = {}
      <4>1. m + 1 <= m + 1
        OBVIOUS
      <4>2. m + 1 \in S /\ \A f \in S : f = m + 1
        BY <2>1, <3>2, Zenon
      <4> QED BY <4>1, <4>2
    <3>3. CASE R # {}
      <4>1. PICK e \in R : \A f \in R : e <= f
        BY <1>2, <3>1, <3>3
      <4>2. e \in 1..m
        BY <3>1, <4>1
      <4>3. e <= m + 1
        BY <4>2
      <4> QED BY <4>1, <4>3
    <3> QED BY <3>2, <3>3
  <2> QED BY <2>1
<1> HIDE DEF Good
<1>3. \A m \in Nat : m \in Good
  BY <1>1, <1>2, Induction
<1>4. T \in SUBSET (1..n)
  OBVIOUS
<1> QED BY <1>3, <1>4 DEF Good

\* The first newline of a buffer that has one.
LEMMA NewlineIs ==
  ASSUME NEW buffer \in Seq(Unit), HasLine(buffer)
  PROVE  /\ Newline(buffer) \in 1..Len(buffer) /\ buffer[Newline(buffer)].end
         /\ \A l \in 1..Newline(buffer) - 1 : ~ buffer[l].end
<1> DEFINE T == {k \in 1..Len(buffer) : buffer[k].end}
           First(k) == buffer[k].end /\ \A l \in 1..k - 1 : ~ buffer[l].end
<1>1. Len(buffer) \in Nat /\ DOMAIN buffer = 1..Len(buffer)
  BY LenProperties
<1>2. T \subseteq 1..Len(buffer) /\ T # {}
  BY <1>1 DEF HasLine
<1> HIDE DEF T
<1>3. PICK n \in T : \A f \in T : n <= f
  BY <1>1, <1>2, LeastExists
<1>4. n \in DOMAIN buffer /\ First(n)
  <2>1. n \in 1..Len(buffer) /\ buffer[n].end
    BY <1>3 DEF T
  <2>2. ASSUME NEW l \in 1..n - 1, buffer[l].end PROVE FALSE
    <3>1. l \in T
      BY <1>1, <2>1, <2>2 DEF T
    <3> QED BY <1>3, <2>1, <3>1
  <2> QED BY <1>1, <2>1, <2>2
<1>5. \E k \in DOMAIN buffer : First(k)
  BY <1>4
<1>6. Newline(buffer) \in DOMAIN buffer /\ First(Newline(buffer))
  BY <1>5, Zenon DEF Newline
<1> QED BY <1>1, <1>6

\* The message in hand, its length and where it ends.
LEMMA MessageInHand ==
  ASSUME IInv, DataInv, LineInv, Processing
  PROVE  LET buffer == table[i].buffer
         IN  /\ i \in 1..Len(table) /\ table[i] \in Entries
             /\ \E n \in 1..Len(buffer) :
                  /\ Message = SubSeq(buffer, 1, n)
                  /\ \A l \in 1..n - 1 : ~ buffer[l].end
                  /\ buffer[n].end \/ n = BufSize
<1> DEFINE buffer == table[i].buffer
<1>1. i \in 1..Len(table)
  BY ProcessingIsAtEntry
<1>2. table[i] \in Entries
  BY <1>1 DEF DataInv, DataType
<1>3. buffer \in Seq(Unit) /\ Len(buffer) \in Nat /\ DOMAIN buffer = 1..Len(buffer)
  BY <1>2, LenProperties DEF Entries
<1>4. CASE pc = "full"
  <2>1. Len(buffer) = BufSize /\ BufSize \in Nat \ {0}
    <3>1. Len(buffer) >= BufSize
      BY <1>4 DEF LineInv
    <3>2. Len(buffer) <= BufSize
      BY <1>1 DEF DataInv, EntriesInv, EntryOK
    <3> QED BY <1>3, <3>1, <3>2, ChatAssumption
  <2>2. ~ HasLine(buffer)
    BY <1>1, <1>4 DEF LineInv
  <2>3. \A l \in 1..Len(buffer) : ~ buffer[l].end
    BY <1>3, <2>2 DEF HasLine
  <2>4. Message = Part(buffer, 0, Len(buffer))
    BY <1>3, <1>4, WholePart DEF Message
  <2>5. Message = SubSeq(buffer, 1, Len(buffer))
    BY <2>4 DEF Part
  <2>6. Len(buffer) \in 1..Len(buffer) /\ \A l \in 1..Len(buffer) - 1 : l \in 1..Len(buffer)
    BY <2>1
  <2> QED BY <1>1, <1>2, <2>1, <2>3, <2>5, <2>6
<1>5. CASE pc # "full"
  <2>1. HasLine(buffer) /\ Message = SubSeq(buffer, 1, Newline(buffer))
    BY <1>5 DEF Processing, Message, Line
  <2> QED BY <1>1, <1>2, <1>3, <2>1, NewlineIs
<1> QED BY <1>4, <1>5

\* find_client_by_name finds a client of the table with that name.
LEMMA NamedIs ==
  ASSUME TableType, NEW name, NEW c \in Named(name)
  PROVE  \E e \in 1..Len(table) : table[e].fd = c /\ table[e].name = name
<1> DEFINE found == {e \in DOMAIN table : table[e].name = name}
           e == CHOOSE e \in found : \A f \in found : e <= f
<1>1. Len(table) \in Nat /\ DOMAIN table = 1..Len(table)
  BY TableIsSeq
<1>2. found # {} /\ c = table[e].fd
  BY DEF Named
<1>3. found \subseteq 1..Len(table)
  BY <1>1
<1>4. e \in found
  <2> HIDE DEF found
  <2>1. \E g \in found : \A f \in found : g <= f
    BY <1>1, <1>2, <1>3, LeastExists
  <2> QED BY <2>1
<1> QED BY <1>1, <1>2, <1>4

\* Nobody but a client of the table is written to.
LEMMA RecipientsAreRegistered ==
  ASSUME TableType, NEW message, NEW c \in Recipients(message)
  PROVE  c \in Registered
<1>1. ASSUME NEW name, c \in Named(name) PROVE c \in Registered
  <2>1. PICK e \in 1..Len(table) : table[e].fd = c
    BY <1>1, NamedIs
  <2> QED BY <2>1, TableIsSeq
<1> QED BY <1>1 DEF Recipients

\* A private line that fits a buffer goes to a client of its name.
LEMMA PrivateGoesRight ==
  ASSUME TableType, EntriesInv, NEW m, OfOneLine(m), NEW c \in Recipients(m), start[c] = 1,
         NEW u \in 1..Len(m), m[u].to # All, m[u].len <= BufSize
  PROVE  NameOf[c] = m[u].to
<1>1. m[1].part = 1 /\ m[1].to = m[u].to
  BY DEF OfOneLine
<1>2. c \in Named(m[u].to)
  BY <1>1 DEF Recipients
<1>3. PICK e \in 1..Len(table) : table[e].fd = c /\ table[e].name = m[u].to
  BY <1>2, NamedIs
<1>4. EntryOK(table[e], sent[c], taken[c], start[c], processed[c])
  BY <1>3 DEF EntriesInv
<1> QED BY <1>3, <1>4 DEF EntryOK

\* What a message of mail must be.
MailOK(c, mail) ==
  \A u \in 1..Len(mail.message) :
    mail.message[u].to # All /\ mail.message[u].len <= BufSize
      /\ start[mail.from] = 1 /\ start[c] = 1
    => NameOf[c] = mail.message[u].to

LEMMA PrivateIsMail ==
  ASSUME DataType
  PROVE  PrivateStaysPrivate <=> \A c \in Clients : \A k \in 1..Len(inbox[c]) : MailOK(c, inbox[c][k])
<1>1. \A c \in Clients : inbox[c] \in Seq(Mail) /\ DOMAIN inbox[c] = 1..Len(inbox[c])
  BY LenProperties DEF DataType
<1>2. ASSUME NEW c \in Clients, NEW k \in 1..Len(inbox[c])
      PROVE  DOMAIN inbox[c][k].message = 1..Len(inbox[c][k].message)
  <2>1. inbox[c][k] \in Mail
    BY <1>1
  <2>2. inbox[c][k].message \in Seq(Unit)
    BY <2>1 DEF Mail
  <2> QED BY <2>2, LenProperties
<1> DEFINE Right(c, k) ==
             LET mail == inbox[c][k]
             IN  \A u \in DOMAIN mail.message :
                   mail.message[u].to # All /\ mail.message[u].len <= BufSize
                     /\ start[mail.from] = 1 /\ start[c] = 1
                   => NameOf[c] = mail.message[u].to
<1>3. PrivateStaysPrivate <=> \A c \in Clients : \A k \in DOMAIN inbox[c] : Right(c, k)
  BY DEF PrivateStaysPrivate
<1>4. ASSUME NEW c \in Clients, NEW k \in 1..Len(inbox[c])
      PROVE  Right(c, k) <=> MailOK(c, inbox[c][k])
  BY <1>2 DEF MailOK
<1> HIDE DEF Right
<1> QED BY <1>1, <1>3, <1>4

-----------------------------------------------------------------------------
(* The steps and the data.                                                 *)

\* Nothing of the data changes, but the server may close connections.
LEMMA DataStays ==
  ASSUME DataInv, gone \subseteq gone',
         UNCHANGED <<typed, sent, taken, start, table, processed, inbox>>
  PROVE  DataInv'
<1>1. Registered' = Registered
  BY DEF Registered
<1>2. DataType' /\ EntriesInv'
  BY DEF DataInv, DataType, EntriesInv
<1>3. FreshInv'
  BY <1>1 DEF DataInv, FreshInv
<1>4. PrivateStaysPrivate'
  BY DEF DataInv, PrivateStaysPrivate
<1> QED BY <1>2, <1>3, <1>4 DEF DataInv

\* What is written behind does not disturb an entry.
LEMMA EntryGrows ==
  ASSUME NEW entry \in Entries, NEW s \in Seq(Unit), NEW p \in Seq(Seq(Unit)),
         NEW b \in Nat, NEW t \in Nat, b <= t, t <= Len(s), EntryOK(entry, s, t, b, p),
         NEW w \in Seq(Unit), \A d \in Nat : d <= Len(s) /\ Cut(s, d) => Cut(s \o w, d)
  PROVE  EntryOK(entry, s \o w, t, b, p)
<1> DEFINE buffer == entry.buffer
<1>1. buffer \in Seq(Unit)
  BY DEF Entries
<1>2. Held(s, b, t, p, buffer)
  BY DEF EntryOK
<1>3. Part(s \o w, b, t) = Part(s, b, t)
  BY PartStays
<1>4. Held(s \o w, b, t, p, buffer)
  BY <1>2, <1>3 DEF Held
<1>5. t - Len(buffer) \in Nat /\ t - Len(buffer) <= t
  <2> HIDE DEF buffer
  <2> QED BY <1>1, <1>2, BufferIsTail
<1>6. t - Len(buffer) <= Len(s)
  BY <1>1, <1>5
<1>7. Cut(s, t - Len(buffer)) => Cut(s \o w, t - Len(buffer))
  BY <1>5, <1>6
<1> QED BY <1>4, <1>7 DEF EntryOK

\* The smaller of two.
LEMMA MinOfTwo ==
  ASSUME NEW a \in Int, NEW b \in Int
  PROVE  Min({a, b}) = IF a <= b THEN a ELSE b
<1> DEFINE least == IF a <= b THEN a ELSE b
           IsMin(x) == \A y \in {a, b} : x <= y
<1>1. least \in {a, b} /\ IsMin(least)
  OBVIOUS
<1>2. \A x \in {a, b} : IsMin(x) => x = least
  OBVIOUS
<1>3. Min({a, b}) = CHOOSE x \in {a, b} : IsMin(x)
  BY DEF Min
<1> HIDE DEF IsMin, least
<1>4. Min({a, b}) \in {a, b} /\ IsMin(Min({a, b}))
  BY <1>1, <1>3
<1> QED BY <1>2, <1>4 DEF least

\* A write adds units to the stream.
LEMMA DataSend ==
  ASSUME DataInv, NEW c \in Clients, NEW l \in Nat, NEW line,
         line.len \in Nat \ {0}, line.to \in Names, sent[c] = <<>> => line.len = 1,
         StartWrite(c, UnitsOf(l, line)), typed' \in Nat,
         UNCHANGED <<gone, taken, start, table, processed, inbox>>
  PROVE  DataInv' /\ (FlownInv => FlownInv')
<1> DEFINE s == sent[c]
           w == UnitsOf(l, line)
<1>0. /\ sent' = [sent EXCEPT ![c] = @ \o UnitsOf(l, line)]
      /\ flown' = [flown EXCEPT ![c] = Min({Len(sent'[c]), taken[c] + InRoom})]
  BY DEF StartWrite
<1>1. s \in Seq(Unit) /\ Stream(s)
  BY DEF DataInv, DataType
<1>2. Len(s) = 0 => line.len = 1
  BY <1>1, EmptySeq
<1>3. /\ w \in Seq(Unit) /\ s \o w \in Seq(Unit) /\ Stream(s \o w)
      /\ \A d \in Nat : d <= Len(s) /\ Cut(s, d) => Cut(s \o w, d)
  BY <1>1, <1>2, StreamGrows
<1>4. \A d \in Clients : sent'[d] = IF d = c THEN s \o w ELSE sent[d]
  BY <1>0 DEF DataInv, DataType
<1>5. sent' \in [Clients -> Seq(Unit)]
  <2> HIDE DEF s, w
  <2>1. sent' = [sent EXCEPT ![c] = s \o w]
    BY <1>0 DEF s, w
  <2> QED BY <1>3, <2>1 DEF DataInv, DataType
<1> HIDE DEF s, w
<1>6. \A d \in Clients : Stream(sent'[d])
  BY <1>3, <1>4 DEF DataInv
<1>7. \A d \in Clients : Len(sent[d]) <= Len(sent'[d])
  <2>1. Len(s \o w) = Len(s) + Len(w) /\ Len(s) \in Nat /\ Len(w) \in Nat
    BY <1>1, <1>3, ConcatProperties
  <2>2. \A d \in Clients : Len(sent[d]) \in Nat
    BY DEF DataInv, DataType
  <2>3. ASSUME NEW d \in Clients, d # c PROVE Len(sent[d]) <= Len(sent'[d])
    <3>1. sent'[d] = sent[d] /\ Len(sent[d]) \in Nat
      BY <1>4, <2>2, <2>3
    <3> QED BY <3>1
  <2>4. Len(sent[c]) <= Len(sent'[c])
    <3>1. sent'[c] = s \o w /\ sent[c] = s
      BY <1>4 DEF s
    <3> QED BY <2>1, <3>1
  <2> QED BY <2>3, <2>4
<1>8. DataType'
  <2>1. ASSUME NEW d \in Clients
        PROVE  start[d] <= taken[d] /\ taken[d] <= Len(sent'[d])
    <3>1. taken[d] \in Nat /\ sent[d] \in Seq(Unit) /\ sent'[d] \in Seq(Unit)
      BY <1>5 DEF DataInv, DataType
    <3>2. start[d] <= taken[d] /\ taken[d] <= Len(sent[d])
      BY DEF DataInv, DataType
    <3>3. Len(sent[d]) \in Nat /\ Len(sent'[d]) \in Nat
      BY <3>1
    <3> QED BY <1>7, <3>1, <3>2, <3>3
  <2> QED BY <1>5, <2>1 DEF DataInv, DataType
<1>9. Registered' = Registered
  BY DEF Registered
<1>10. FreshInv'
  BY <1>9 DEF DataInv, FreshInv
<1>11. EntriesInv'
  <2>1. ASSUME NEW e \in 1..Len(table)
        PROVE  EntryOK(table[e], sent'[table[e].fd], taken[table[e].fd], start[table[e].fd],
                       processed[table[e].fd])
    <3> DEFINE fd == table[e].fd
    <3>1. table[e] \in Entries
      BY DEF DataInv, DataType
    <3>2. fd \in Clients
      BY <3>1 DEF Entries
    <3>3. EntryOK(table[e], sent[fd], taken[fd], start[fd], processed[fd])
      BY DEF DataInv, EntriesInv
    <3>4. /\ taken[fd] \in Nat /\ start[fd] \in Nat /\ processed[fd] \in Seq(Seq(Unit))
          /\ start[fd] <= taken[fd] /\ taken[fd] <= Len(sent[fd])
      BY <3>2 DEF DataInv, DataType
    <3> HIDE DEF fd
    <3>5. CASE fd = c
      <4>1. EntryOK(table[e], s, taken[c], start[c], processed[c])
        BY <3>3, <3>5 DEF s
      <4>2. /\ taken[c] \in Nat /\ start[c] \in Nat /\ processed[c] \in Seq(Seq(Unit))
            /\ start[c] <= taken[c] /\ taken[c] <= Len(s)
        BY <3>4, <3>5 DEF s
      <4>3. EntryOK(table[e], s \o w, taken[c], start[c], processed[c])
        BY <1>1, <1>3, <3>1, <4>1, <4>2, EntryGrows
      <4> QED BY <1>4, <3>2, <3>5, <4>3 DEF fd
    <3>6. CASE fd # c
      <4>1. sent'[fd] = sent[fd]
        BY <1>4, <3>2, <3>6
      <4> QED BY <3>3, <4>1 DEF fd
    <3> QED BY <3>5, <3>6
  <2> QED BY <2>1 DEF EntriesInv
<1>12. PrivateStaysPrivate'
  BY DEF DataInv, PrivateStaysPrivate
<1>13. ASSUME FlownInv PROVE FlownInv'
  <2>1. /\ flown \in [Clients -> Nat] /\ taken \in [Clients -> Nat]
        /\ \A d \in Clients : taken[d] <= flown[d] /\ flown[d] <= Len(sent[d])
    BY <1>13 DEF FlownInv, DataInv, DataType
  <2>2. \A d \in Clients : Len(sent[d]) \in Nat /\ Len(sent'[d]) \in Nat
    BY <1>5 DEF DataInv, DataType
  <2> DEFINE f == Min({Len(sent'[c]), taken[c] + InRoom})
  <2>3. f \in Nat /\ taken[c] <= f /\ f <= Len(sent'[c])
    <3>1. /\ Len(sent'[c]) \in Nat /\ taken[c] \in Nat /\ InRoom \in Nat
          /\ taken[c] <= Len(sent'[c])
      BY <1>7, <2>1, <2>2, ChatAssumption
    <3>2. ASSUME NEW x \in Nat, NEW y \in Nat, NEW z \in Nat, z <= x
          PROVE  LET least == Min({x, z + y})
                 IN  least \in Nat /\ z <= least /\ least <= x
      <4>1. Min({x, z + y}) = IF x <= z + y THEN x ELSE z + y
        BY MinOfTwo
      <4> QED BY <3>2, <4>1
    <3> QED BY <3>1, <3>2
  <2> HIDE DEF f
  <2>4. /\ flown' \in [Clients -> Nat] /\ flown'[c] = f
        /\ \A d \in Clients : d # c => flown'[d] = flown[d]
    <3>1. flown' = [flown EXCEPT ![c] = f]
      BY <1>0 DEF f
    <3> QED BY <2>1, <2>3, <3>1
  <2>5. ASSUME NEW d \in Clients PROVE taken[d] <= flown'[d] /\ flown'[d] <= Len(sent'[d])
    <3>1. CASE d = c
      BY <2>3, <2>4, <3>1
    <3>2. CASE d # c
      <4>1. /\ flown'[d] = flown[d] /\ flown[d] \in Nat /\ Len(sent[d]) \in Nat
            /\ Len(sent'[d]) \in Nat /\ Len(sent[d]) <= Len(sent'[d])
            /\ taken[d] <= flown[d] /\ flown[d] <= Len(sent[d])
        BY <1>7, <2>1, <2>2, <2>4, <3>2
      <4> QED BY <4>1
    <3> QED BY <3>1, <3>2
  <2> QED BY <2>4, <2>5 DEF FlownInv
<1> QED BY <1>6, <1>8, <1>10, <1>11, <1>12, <1>13 DEF DataInv

\* A read returns what comes next of what the connection has accepted.
LEMMA ReadsAre ==
  ASSUME DataType, FlownInv, NEW c \in Clients, NEW space \in Int,
         NEW units \in Reads(c, space)
  PROVE  \E k \in Nat \ {0} :
           /\ k <= space /\ taken[c] + k <= flown[c] /\ taken[c] + k <= Len(sent[c])
           /\ units = Part(sent[c], taken[c], taken[c] + k) /\ Len(units) = k
<1> DEFINE s == sent[c]
           t == taken[c]
           n == flown[c]
<1>1. s \in Seq(Unit) /\ t \in Nat /\ n \in Nat /\ t <= n /\ n <= Len(s) /\ Len(s) \in Nat
  BY LenProperties DEF DataType, FlownInv
<1>2. Unread(c) = Part(s, t, n)
  BY DEF Unread, Part
<1> HIDE DEF s, t, n
<1>3. Part(s, t, n) \in Seq(Unit) /\ Len(Part(s, t, n)) = n - t
  BY <1>1, PartIs
<1>4. PICK k \in 1..(IF n - t <= space THEN n - t ELSE space) : units = SubSeq(Unread(c), 1, k)
  <2>1. n - t \in Int
    BY <1>1
  <2>2. Min({n - t, space}) = IF n - t <= space THEN n - t ELSE space
    BY <2>1, MinOfTwo
  <2> QED BY <1>2, <1>3, <2>2 DEF Reads
<1>5. /\ k \in Nat \ {0} /\ k <= space /\ t + k <= n /\ k <= n - t /\ t + k \in Nat /\ t <= t + k
      /\ t + k <= Len(s) /\ 0 <= k /\ k \in Nat
  BY <1>1, <1>4
<1>6. units = Part(Part(s, t, n), 0, k)
  BY <1>2, <1>4 DEF Part
<1>7. Part(Part(s, t, n), 0, k) = Part(s, t, t + k)
  <2>1. Part(Part(s, t, n), 0, k) = Part(s, t + 0, t + k)
    BY <1>1, <1>5, PartOfPart
  <2>2. t + 0 = t
    BY <1>1
  <2> QED BY <2>1, <2>2
<1>8. Len(Part(s, t, t + k)) = (t + k) - t
  BY <1>1, <1>5, PartIs
<1>9. (t + k) - t = k
  BY <1>1, <1>5
<1> QED BY <1>5, <1>6, <1>7, <1>8, <1>9 DEF s, t, n

\* What has been read of one client's stream.
LEMMA TakenGrows ==
  ASSUME DataType, FlownInv, NEW c \in Clients, NEW k \in Nat, k <= flown[c],
         taken' = [taken EXCEPT ![c] = k], UNCHANGED <<sent, flown>>
  PROVE  FlownInv'
<1>1. taken \in [Clients -> Nat] /\ flown \in [Clients -> Nat]
  BY DEF DataType, FlownInv
<1>2. \A d \in Clients : taken'[d] = IF d = c THEN k ELSE taken[d]
  BY <1>1
<1> QED BY <1>1, <1>2 DEF FlownInv

\* Who gives the name is known from now on, by what came in the first read.
LEMMA DataReadName ==
  ASSUME IInv, DataInv, FlownInv, ReadName
  PROVE  DataInv' /\ FlownInv'
<1> DEFINE c == new_fd
           s == sent[c]
<1>1. /\ pc = "name"
      /\ UNCHANGED <<sent, flown, typed, processed, inbox>>
  BY DEF ReadName
<1>2. c \in Clients /\ c \notin Registered \cup gone
  BY <1>1, ChatAssumption DEF IInv, ServerInv, BacklogInv, TableOK
<1>3. /\ taken[c] = 0 /\ start[c] = 0 /\ processed[c] = <<>> /\ inbox[c] = <<>>
      /\ \A d \in Clients : \A k \in 1..Len(inbox[d]) : inbox[d][k].from # c
  BY <1>2 DEF DataInv, FreshInv
<1>4. s \in Seq(Unit) /\ Stream(s)
  BY <1>2 DEF DataInv, DataType
<1>5. /\ taken \in [Clients -> Nat] /\ start \in [Clients -> Nat]
      /\ \A d \in Clients : start[d] <= taken[d] /\ taken[d] <= Len(sent[d])
      /\ table \in Seq(Entries)
  BY DEF DataInv, DataType
<1>6. PICK units \in Reads(new_fd, BufSize) :
        /\ taken' = [taken EXCEPT ![new_fd] = Len(units)]
        /\ \/ /\ table' = Append(table,
                   [fd |-> new_fd, buffer |-> <<>>,
                    name |-> IF Len(units) = 1 THEN NameOf[new_fd] ELSE Mangled])
              /\ start' = [start EXCEPT ![new_fd] = Len(units)] /\ gone' = gone
           \/ gone' = gone \cup {new_fd} /\ table' = table /\ start' = start
  BY Zenon DEF ReadName
<1>7. Len(units) \in Nat \ {0} /\ Len(units) <= Len(s) /\ Len(units) <= flown[c]
  <2>1. DataType /\ BufSize \in Int
    BY ChatAssumption DEF DataInv
  <2>2. PICK k \in Nat \ {0} :
          taken[c] + k <= flown[c] /\ taken[c] + k <= Len(sent[c]) /\ Len(units) = k
    BY <1>2, <1>6, <2>1, ReadsAre
  <2>3. 0 + k = k
    OBVIOUS
  <2> QED BY <1>3, <2>2, <2>3
<1> DEFINE k == Len(units)
           name == IF k = 1 THEN NameOf[c] ELSE Mangled
           entry == [fd |-> c, buffer |-> <<>>, name |-> name]
<1>8. taken' = [taken EXCEPT ![c] = k]
  BY <1>6
<1>9. \/ table' = Append(table, entry) /\ start' = [start EXCEPT ![c] = k] /\ gone' = gone
      \/ gone' = gone \cup {c} /\ table' = table /\ start' = start
  BY <1>6
<1>10. k \in Nat \ {0} /\ k <= Len(s) /\ k <= flown[c]
  BY <1>7
<1> HIDE DEF k
<1>11. /\ taken' \in [Clients -> Nat] /\ taken'[c] = k
       /\ \A d \in Clients : d # c => taken'[d] = taken[d]
  <2> HIDE DEF c
  <2> QED BY <1>2, <1>5, <1>8, <1>10
<1>12. \A e \in 1..Len(table) : table[e].fd \in Clients /\ table[e].fd # c
  BY <1>2, TableIsSeq DEF IInv
<1>13. FlownInv'
  BY <1>1, <1>2, <1>8, <1>10, TakenGrows DEF DataInv
<1> HIDE DEF c
<1>14. CASE table' = Append(table, entry) /\ start' = [start EXCEPT ![c] = k] /\ gone' = gone
  <2>1. /\ start' \in [Clients -> Nat] /\ start'[c] = k
        /\ \A d \in Clients : d # c => start'[d] = start[d]
    BY <1>2, <1>5, <1>10, <1>14
  <2>2. /\ entry \in Entries /\ entry.fd = c /\ entry.buffer = <<>>
        /\ (k = 1 => entry.name = NameOf[c])
    BY <1>2 DEF Entries, Labels
  <2> HIDE DEF entry
  <2>3. /\ table' \in Seq(Entries) /\ Len(table') = Len(table) + 1 /\ Len(table) \in Nat
        /\ \A e \in 1..Len(table) : table'[e] = table[e]
        /\ table'[Len(table) + 1] = entry
    BY <1>5, <1>14, <2>2, AppendProperties, LenProperties
  <2>4. Registered' = Registered \cup {c}
    <3>1. DOMAIN table' = 1..Len(table) + 1 /\ DOMAIN table = 1..Len(table)
      BY <1>5, <2>3, LenProperties
    <3> QED BY <2>2, <2>3, <3>1 DEF Registered
  <2>5. DataType'
    <3>1. \A d \in Clients : start'[d] <= taken'[d] /\ taken'[d] <= Len(sent'[d])
      <4>1. start'[c] <= taken'[c] /\ taken'[c] <= Len(sent'[c])
        BY <1>1, <1>10, <1>11, <2>1 DEF s
      <4>2. \A d \in Clients : d # c => start'[d] <= taken'[d] /\ taken'[d] <= Len(sent'[d])
        BY <1>1, <1>5, <1>11, <2>1
      <4> QED BY <4>1, <4>2
    <3> QED BY <1>1, <1>11, <2>1, <2>3, <3>1 DEF DataInv, DataType
  <2>6. FreshInv'
    <3>1. ASSUME NEW d \in Clients \ (Registered' \cup gone')
          PROVE  /\ taken'[d] = 0 /\ start'[d] = 0 /\ processed'[d] = <<>> /\ inbox'[d] = <<>>
                 /\ \A f \in Clients : \A j \in 1..Len(inbox'[f]) : inbox'[f][j].from # d
      <4>1. d # c /\ d \in Clients \ (Registered \cup gone)
        BY <1>14, <2>4
      <4> QED BY <1>1, <1>11, <2>1, <4>1 DEF DataInv, FreshInv
    <3> QED BY <3>1 DEF FreshInv
  <2>7. EntryOK(entry, s, k, k, <<>>)
    <3>1. Part(s, k, k) = <<>>
      BY <1>4, <1>10, EmptyPart
    <3>2. Held(s, k, k, <<>>, <<>>)
      <4>1. FlattenSeq(<<>>) = <<>> /\ <<>> \in Seq(Unit)
        BY FlattenOfNone
      <4> QED BY <3>1, <4>1, ConcatEmptySeq DEF Held
    <3>3. Len(<<>>) = 0 /\ 0 <= BufSize /\ Range(<<>>) = {} /\ 1..0 = {}
      BY ChatAssumption DEF Range
    <3>4. ASSUME k = 1 PROVE Cut(s, k - 0)
      <4>1. 1 \in 1..Len(s) /\ s[1].part = 1 /\ s[1].len = 1 /\ s[1].end
        BY <1>4, <1>10, <3>4 DEF Stream
      <4>2. 0 \in Nat /\ 1 \in Nat /\ 0 < 1 /\ 1 <= Len(s) /\ 0 + 1..1 - 1 = {} /\ k - 0 = 1
        BY <1>10, <3>4
      <4>3. Cut(s, 1)
        BY <1>4, <4>1, <4>2, CutBehind
      <4> QED BY <4>2, <4>3
    <3> QED BY <2>2, <3>2, <3>3, <3>4 DEF EntryOK
  <2>8. EntriesInv'
    <3>1. ASSUME NEW e \in 1..Len(table')
          PROVE  EntryOK(table'[e], sent'[table'[e].fd], taken'[table'[e].fd],
                         start'[table'[e].fd], processed'[table'[e].fd])
      <4>1. CASE e \in 1..Len(table)
        <5>1. table'[e] = table[e] /\ table[e].fd \in Clients /\ table[e].fd # c
          BY <1>12, <2>3, <4>1
        <5>2. EntryOK(table[e], sent[table[e].fd], taken[table[e].fd], start[table[e].fd],
                      processed[table[e].fd])
          BY <4>1 DEF DataInv, EntriesInv
        <5> QED BY <1>1, <1>11, <2>1, <5>1, <5>2
      <4>2. CASE e = Len(table) + 1
        BY <1>1, <1>3, <1>11, <2>1, <2>2, <2>3, <2>7, <4>2 DEF s
      <4> QED BY <2>3, <4>1, <4>2
    <3> QED BY <3>1 DEF EntriesInv
  <2>9. PrivateStaysPrivate'
    <3>1. ASSUME NEW d \in Clients, NEW j \in DOMAIN inbox[d]
          PROVE  start'[inbox[d][j].from] = start[inbox[d][j].from] /\ start'[d] = start[d]
      <4>1. inbox[d] \in Seq(Mail) /\ j \in 1..Len(inbox[d])
        BY LenProperties DEF DataInv, DataType
      <4>2. inbox[d][j] \in Mail
        BY <4>1
      <4>3. inbox[d][j].from \in Clients /\ inbox[d][j].from # c
        BY <1>3, <4>1, <4>2 DEF Mail
      <4>4. d # c
        BY <1>3, <4>1
      <4> QED BY <2>1, <4>3, <4>4
    <3> QED BY <1>1, <3>1 DEF DataInv, PrivateStaysPrivate
  <2> QED BY <1>1, <1>13, <2>5, <2>6, <2>8, <2>9 DEF DataInv
<1>15. CASE gone' = gone \cup {c} /\ table' = table /\ start' = start
  <2>1. Registered' = Registered
    BY <1>15 DEF Registered
  <2>2. DataType'
    <3>1. \A d \in Clients : start'[d] <= taken'[d] /\ taken'[d] <= Len(sent'[d])
      <4>1. start'[c] <= taken'[c] /\ taken'[c] <= Len(sent'[c])
        BY <1>1, <1>3, <1>10, <1>11, <1>15 DEF s
      <4>2. \A d \in Clients : d # c => start'[d] <= taken'[d] /\ taken'[d] <= Len(sent'[d])
        BY <1>1, <1>5, <1>11, <1>15
      <4> QED BY <4>1, <4>2
    <3> QED BY <1>1, <1>11, <1>15, <3>1 DEF DataInv, DataType
  <2>3. FreshInv'
    <3>1. ASSUME NEW d \in Clients \ (Registered' \cup gone')
          PROVE  /\ taken'[d] = 0 /\ start'[d] = 0 /\ processed'[d] = <<>> /\ inbox'[d] = <<>>
                 /\ \A f \in Clients : \A j \in 1..Len(inbox'[f]) : inbox'[f][j].from # d
      <4>1. d # c /\ d \in Clients \ (Registered \cup gone)
        BY <1>15, <2>1
      <4> QED BY <1>1, <1>11, <1>15, <4>1 DEF DataInv, FreshInv
    <3> QED BY <3>1 DEF FreshInv
  <2>4. EntriesInv'
    <3>1. ASSUME NEW e \in 1..Len(table)
          PROVE  EntryOK(table[e], sent[table[e].fd], taken'[table[e].fd],
                         start[table[e].fd], processed[table[e].fd])
      <4>1. taken'[table[e].fd] = taken[table[e].fd]
        BY <1>11, <1>12
      <4> QED BY <4>1 DEF DataInv, EntriesInv
    <3> QED BY <1>1, <1>15, <3>1 DEF EntriesInv
  <2>5. PrivateStaysPrivate'
    BY <1>1, <1>15 DEF DataInv, PrivateStaysPrivate
  <2> QED BY <1>1, <1>13, <2>2, <2>3, <2>4, <2>5 DEF DataInv
<1> QED BY <1>9, <1>14, <1>15

\* The entry the loop is at gets another buffer.
LEMMA EntryChanges ==
  ASSUME DataType, i \in 1..Len(table), NEW buffer \in Seq(Unit),
         table' = [table EXCEPT ![i].buffer = buffer]
  PROVE  LET new == [table[i] EXCEPT !.buffer = buffer]
         IN  /\ new \in Entries /\ new.fd = table[i].fd /\ new.buffer = buffer
             /\ table' \in Seq(Entries) /\ Len(table') = Len(table)
             /\ \A e \in 1..Len(table) : table'[e] = IF e = i THEN new ELSE table[e]
<1> DEFINE new == [table[i] EXCEPT !.buffer = buffer]
<1>1. table \in Seq(Entries)
  BY DEF DataType
<1>2. table[i] \in Entries
  BY <1>1
<1>3. new \in Entries /\ new.fd = table[i].fd /\ new.buffer = buffer
  BY <1>2 DEF Entries
<1>4. table' = [table EXCEPT ![i] = new] /\ i \in 1..Len(table)
  OBVIOUS
<1> HIDE DEF new
<1>5. /\ table' \in Seq(Entries) /\ Len(table') = Len(table)
      /\ \A e \in 1..Len(table) : table'[e] = IF e = i THEN new ELSE table[e]
  BY ONLY <1>1, <1>3, <1>4, ExceptSeq
<1> QED BY <1>3, <1>5 DEF new

\* The client of the entry the loop is at is read from, or a message of it is
\* done: that is sound if its entry is.
LEMMA DataEntry ==
  ASSUME IInv, DataInv, i \in 1..Len(table), NEW buffer \in Seq(Unit),
         table' = [table EXCEPT ![i].buffer = buffer],
         NEW fd, fd = table[i].fd, NEW t \in Nat, NEW p \in Seq(Seq(Unit)),
         taken[fd] <= t, t <= Len(sent[fd]),
         taken' = [taken EXCEPT ![fd] = t], processed' = [processed EXCEPT ![fd] = p],
         EntryOK([table[i] EXCEPT !.buffer = buffer], sent[fd], t, start[fd], p),
         UNCHANGED <<gone, sent, typed, start, inbox>>
  PROVE  DataInv'
<1> DEFINE new == [table[i] EXCEPT !.buffer = buffer]
<1>1. /\ new \in Entries /\ new.fd = fd /\ EntryOK(new, sent[fd], t, start[fd], p)
      /\ table' \in Seq(Entries) /\ Len(table') = Len(table)
      /\ \A e \in 1..Len(table) : table'[e] = IF e = i THEN new ELSE table[e]
  BY EntryChanges DEF DataInv
<1> HIDE DEF new
<1>2. table \in Seq(Entries) /\ table[i] \in Entries /\ fd \in Clients
  <2>1. table \in Seq(Entries)
    BY DEF DataInv, DataType
  <2>2. table[i] \in Entries
    BY <2>1
  <2> QED BY <2>1, <2>2 DEF Entries
<1>3. /\ taken' \in [Clients -> Nat] /\ processed' \in [Clients -> Seq(Seq(Unit))]
      /\ taken'[fd] = t /\ processed'[fd] = p
      /\ \A c \in Clients : c # fd => taken'[c] = taken[c] /\ processed'[c] = processed[c]
  BY <1>2 DEF DataInv, DataType
<1>4. Registered' = Registered /\ fd \in Registered
  <2>1. DOMAIN table' = 1..Len(table) /\ DOMAIN table = 1..Len(table)
    BY <1>1, <1>2, LenProperties
  <2>2. \A e \in 1..Len(table) : table'[e].fd = table[e].fd
    BY <1>1
  <2> QED BY <2>1, <2>2 DEF Registered
<1>5. DataType'
  <2>1. start[fd] <= t
    BY <1>2 DEF DataInv, DataType
  <2>2. ASSUME NEW c \in Clients PROVE start'[c] <= taken'[c] /\ taken'[c] <= Len(sent'[c])
    BY <1>3, <2>1 DEF DataInv, DataType
  <2> QED BY <1>1, <1>3, <2>2 DEF DataInv, DataType
<1>6. FreshInv'
  <2>1. ASSUME NEW c \in Clients \ (Registered' \cup gone')
        PROVE  c # fd /\ c \in Clients \ (Registered \cup gone)
    BY <1>4
  <2> QED BY <1>3, <2>1 DEF DataInv, FreshInv
<1>7. EntriesInv'
  <2>1. ASSUME NEW e \in 1..Len(table)
        PROVE  EntryOK(table'[e], sent'[table'[e].fd], taken'[table'[e].fd],
                       start'[table'[e].fd], processed'[table'[e].fd])
    <3>1. CASE e = i
      BY <1>1, <1>3, <3>1
    <3>2. CASE e # i
      <4>1. table[e].fd # fd /\ table[e].fd \in Clients /\ table'[e] = table[e]
        BY <1>1, <3>2, TableIsSeq DEF IInv, TableOK
      <4>2. EntryOK(table[e], sent[table[e].fd], taken[table[e].fd], start[table[e].fd],
                    processed[table[e].fd])
        BY DEF DataInv, EntriesInv
      <4> QED BY <1>3, <4>1, <4>2
    <3> QED BY <3>1, <3>2
  <2> QED BY <1>1, <2>1 DEF EntriesInv
<1>8. PrivateStaysPrivate'
  BY DEF DataInv, PrivateStaysPrivate
<1> QED BY <1>5, <1>6, <1>7, <1>8 DEF DataInv

\* What is known of the client of the entry the loop is at.
LEMMA ClientAt ==
  ASSUME DataInv, i \in 1..Len(table)
  PROVE  LET fd == table[i].fd
         IN  /\ table[i] \in Entries /\ fd \in Clients /\ table[i].buffer \in Seq(Unit)
             /\ sent[fd] \in Seq(Unit) /\ Stream(sent[fd])
             /\ taken[fd] \in Nat /\ start[fd] \in Nat /\ processed[fd] \in Seq(Seq(Unit))
             /\ start[fd] <= taken[fd] /\ taken[fd] <= Len(sent[fd])
             /\ EntryOK(table[i], sent[fd], taken[fd], start[fd], processed[fd])
<1>1. table[i] \in Entries
  BY DEF DataInv, DataType
<1>2. table[i].fd \in Clients /\ table[i].buffer \in Seq(Unit)
  BY <1>1 DEF Entries
<1> QED BY <1>1, <1>2 DEF DataInv, DataType, EntriesInv

\* A read appends to the buffer what comes next in the stream.
LEMMA DataReadClient ==
  ASSUME IInv, DataInv, FlownInv, LineInv, ReadClient
  PROVE  DataInv' /\ FlownInv' /\ LineInv'
<1> DEFINE fd == table[i].fd
           buffer == table[i].buffer
           s == sent[fd]
           t == taken[fd]
           b == start[fd]
           p == processed[fd]
           space == BufSize - Len(buffer)
<1>1. /\ i \in DOMAIN table /\ pc = "loop" /\ pc' = "lines" /\ i' = i
      /\ UNCHANGED <<gone, sent, flown, typed, start, processed, inbox>>
  BY DEF ReadClient, Ready, mailVars
<1>2. i \in 1..Len(table)
  BY <1>1, TableIsSeq DEF IInv
<1>3. /\ table[i] \in Entries /\ fd \in Clients /\ buffer \in Seq(Unit)
      /\ s \in Seq(Unit) /\ t \in Nat /\ b \in Nat /\ p \in Seq(Seq(Unit))
      /\ b <= t /\ t <= Len(s) /\ EntryOK(table[i], s, t, b, p)
  BY <1>2, ClientAt
<1>4. PICK units \in Reads(fd, space) :
        /\ taken' = [taken EXCEPT ![fd] = @ + Len(units)]
        /\ table' = [table EXCEPT ![i].buffer = @ \o units]
  BY Zenon DEF ReadClient
<1>5. space \in Int
  BY <1>3, ChatAssumption
<1>6. PICK k \in Nat \ {0} :
        /\ k <= space /\ t + k <= flown[fd] /\ t + k <= Len(s)
        /\ units = Part(s, t, t + k) /\ Len(units) = k
  <2>1. DataType
    BY DEF DataInv
  <2> HIDE DEF space, fd
  <2> QED BY <1>3, <1>4, <1>5, <2>1, ReadsAre
<1> DEFINE filled == buffer \o Part(s, t, t + k)
<1>7. /\ filled \in Seq(Unit)
      /\ EntryOK([table[i] EXCEPT !.buffer = filled], s, t + k, b, p)
  <2>1. k \in Nat /\ k <= BufSize - Len(table[i].buffer) /\ t + k <= Len(s)
    BY <1>6
  <2> QED BY <1>3, <2>1, ReadIsOK
<1>8. /\ table' = [table EXCEPT ![i].buffer = filled]
      /\ taken' = [taken EXCEPT ![fd] = t + k]
  BY <1>4, <1>6
<1>9. processed' = [processed EXCEPT ![fd] = p]
  BY <1>1, <1>3 DEF DataInv, DataType
<1>10. t + k \in Nat /\ t <= t + k /\ t + k <= Len(s) /\ t + k <= flown[fd]
  BY <1>3, <1>6
<1> HIDE DEF filled
<1>11. DataInv'
  <2> HIDE DEF fd, t, p
  <2>1. t + k \in Nat /\ taken[fd] <= t + k /\ t + k <= Len(sent[fd]) /\ fd = table[i].fd
    BY <1>10 DEF fd, t
  <2>2. EntryOK([table[i] EXCEPT !.buffer = filled], sent[fd], t + k, start[fd], p)
    BY <1>7
  <2> QED BY <1>1, <1>2, <1>3, <1>7, <1>8, <1>9, <2>1, <2>2, DataEntry
<1>12. FlownInv'
  <2> HIDE DEF fd, t
  <2> QED BY <1>1, <1>3, <1>8, <1>10, TakenGrows DEF DataInv
<1>13. LineInv'
  <2>1. Len(table') = Len(table) /\ \A e \in 1..Len(table) : e # i => table'[e] = table[e]
    BY <1>2, <1>7, <1>8, EntryChanges DEF DataInv
  <2> QED BY <1>1, <2>1 DEF LineInv
<1> QED BY <1>11, <1>12, <1>13

\* A message that is done has left the buffer for the messages.
LEMMA DataMessageDone ==
  ASSUME IInv, DataInv, LineInv, MessageDone
  PROVE  DataInv' /\ LineInv'
<1> DEFINE fd == table[i].fd
           buffer == table[i].buffer
           p == processed[fd]
<1>1. /\ Processing /\ i' = i /\ pc' = IF pc = "full" THEN "loop" ELSE "lines"
      /\ processed' = [processed EXCEPT ![fd] = Append(@, Message)]
      /\ table' = [table EXCEPT ![i].buffer = SubSeq(@, Len(Message) + 1, Len(@))]
      /\ UNCHANGED <<gone, sent, typed, taken, start, inbox>>
  BY DEF MessageDone, netVars
<1>2. /\ i \in 1..Len(table)
      /\ \E n \in 1..Len(buffer) :
           /\ Message = SubSeq(buffer, 1, n) /\ \A l \in 1..n - 1 : ~ buffer[l].end
           /\ buffer[n].end \/ n = BufSize
  BY <1>1, MessageInHand
<1>3. PICK n \in 1..Len(buffer) :
        /\ Message = SubSeq(buffer, 1, n) /\ \A l \in 1..n - 1 : ~ buffer[l].end
        /\ buffer[n].end \/ n = BufSize
  BY <1>2
<1>4. /\ table[i] \in Entries /\ fd \in Clients /\ buffer \in Seq(Unit)
      /\ sent[fd] \in Seq(Unit) /\ Stream(sent[fd])
      /\ taken[fd] \in Nat /\ start[fd] \in Nat /\ p \in Seq(Seq(Unit))
      /\ start[fd] <= taken[fd] /\ taken[fd] <= Len(sent[fd])
      /\ EntryOK(table[i], sent[fd], taken[fd], start[fd], p)
  BY <1>2, ClientAt
<1> DEFINE m == SubSeq(buffer, 1, n)
           rest == SubSeq(buffer, n + 1, Len(buffer))
<1>5. /\ m \in Seq(Unit) /\ Len(m) = n /\ rest \in Seq(Unit)
      /\ EntryOK([table[i] EXCEPT !.buffer = rest], sent[fd], taken[fd], start[fd], Append(p, m))
  BY <1>3, <1>4, MessageIsOK
<1>6. /\ table' = [table EXCEPT ![i].buffer = rest]
      /\ processed' = [processed EXCEPT ![fd] = Append(p, m)]
  BY <1>1, <1>3, <1>5
<1>7. taken' = [taken EXCEPT ![fd] = taken[fd]]
  BY <1>1, <1>4 DEF DataInv, DataType
<1>8. Append(p, m) \in Seq(Seq(Unit))
  BY <1>4, <1>5, AppendProperties
<1>9. LineInv'
  <2>1. /\ Len(table') = Len(table) /\ \A e \in 1..Len(table) : e # i => table'[e] = table[e]
        /\ table'[i].buffer = rest
    <3>1. DataType
      BY DEF DataInv
    <3> HIDE DEF rest
    <3> QED BY <1>2, <1>5, <1>6, <3>1, EntryChanges
  <2>2. CASE pc = "full"
    <3>1. ~ HasLine(buffer) /\ pc' = "loop"
      BY <1>1, <1>2, <2>2 DEF LineInv
    <3>2. ~ HasLine(rest)
      <4>1. DOMAIN buffer = 1..Len(buffer) /\ Len(buffer) \in Nat
        BY <1>4, LenProperties
      <4>2. /\ DOMAIN rest = 1..Len(buffer) - n
            /\ \A k \in 1..Len(buffer) - n : rest[k] = buffer[n + k] /\ n + k \in 1..Len(buffer)
        BY <1>4, <4>1
      <4> QED BY <3>1, <4>1, <4>2 DEF HasLine
    <3> QED BY <1>1, <2>1, <2>2, <3>1, <3>2 DEF LineInv
  <2>3. CASE pc # "full"
    BY <1>1, <2>1, <2>3 DEF LineInv
  <2> QED BY <2>2, <2>3
<1>10. DataInv'
  <2> HIDE DEF m, rest, fd, p
  <2>1. fd = table[i].fd /\ taken[fd] <= taken[fd]
    BY <1>4 DEF fd
  <2> QED BY <1>1, <1>2, <1>4, <1>5, <1>6, <1>7, <1>8, <2>1, DataEntry
<1> QED BY <1>9, <1>10

\* Mail that is right makes the private lines private.
LEMMA MailKeepsPrivate ==
  ASSUME start' = start, inbox' \in [Clients -> Seq(Mail)],
         \A c \in Clients : \A k \in 1..Len(inbox'[c]) : MailOK(c, inbox'[c][k])
  PROVE  PrivateStaysPrivate'
<1>1. ASSUME NEW c \in Clients, NEW k \in DOMAIN inbox'[c],
             NEW u \in DOMAIN inbox'[c][k].message
      PROVE  inbox'[c][k].message[u].to # All /\ inbox'[c][k].message[u].len <= BufSize
               /\ start[inbox'[c][k].from] = 1 /\ start[c] = 1
             => NameOf[c] = inbox'[c][k].message[u].to
  <2>1. inbox'[c] \in Seq(Mail) /\ k \in 1..Len(inbox'[c])
    BY LenProperties
  <2>2. inbox'[c][k] \in Mail
    BY <2>1
  <2>3. u \in 1..Len(inbox'[c][k].message)
    BY <2>2, LenProperties DEF Mail
  <2> QED BY <2>1, <2>3 DEF MailOK
<1> QED BY <1>1 DEF PrivateStaysPrivate

\* Only the mail changes: what is new goes to and comes from clients in the
\* table, and is right.
LEMMA DataInbox ==
  ASSUME DataInv, UNCHANGED <<gone, typed, sent, taken, start, table, processed>>,
         inbox' \in [Clients -> Seq(Mail)],
         \A c \in Clients : \A j \in 1..Len(inbox'[c]) :
           \/ \E k \in 1..Len(inbox[c]) : inbox'[c][j] = inbox[c][k]
           \/ c \in Registered /\ inbox'[c][j].from \in Registered /\ MailOK(c, inbox'[c][j])
  PROVE  DataInv'
<1>1. Registered' = Registered
  BY DEF Registered
<1>2. DataType' /\ EntriesInv'
  BY DEF DataInv, DataType, EntriesInv
<1>3. FreshInv'
  <2>1. ASSUME NEW c \in Clients \ (Registered \cup gone)
        PROVE  /\ taken[c] = 0 /\ start[c] = 0 /\ processed[c] = <<>> /\ inbox'[c] = <<>>
               /\ \A d \in Clients : \A j \in 1..Len(inbox'[d]) : inbox'[d][j].from # c
    <3>1. /\ taken[c] = 0 /\ start[c] = 0 /\ processed[c] = <<>> /\ inbox[c] = <<>>
          /\ \A d \in Clients : \A k \in 1..Len(inbox[d]) : inbox[d][k].from # c
      BY DEF DataInv, FreshInv
    <3>2. inbox'[c] = <<>>
      <4>1. Len(inbox[c]) = 0 /\ 1..0 = {}
        BY <3>1
      <4>2. \A j \in 1..Len(inbox'[c]) : FALSE
        BY <4>1
      <4>3. inbox'[c] \in Seq(Mail) /\ Len(inbox'[c]) \in Nat
        OBVIOUS
      <4>4. Len(inbox'[c]) = 0
        BY <4>2, <4>3
      <4> QED BY <4>3, <4>4, EmptySeq
    <3>3. ASSUME NEW d \in Clients, NEW j \in 1..Len(inbox'[d]) PROVE inbox'[d][j].from # c
      BY <3>1
    <3> QED BY <3>1, <3>2, <3>3
  <2> QED BY <1>1, <2>1 DEF FreshInv
<1>4. PrivateStaysPrivate'
  <2>1. \A c \in Clients : \A k \in 1..Len(inbox[c]) : MailOK(c, inbox[c][k])
    BY PrivateIsMail DEF DataInv
  <2>2. \A c \in Clients : \A j \in 1..Len(inbox'[c]) : MailOK(c, inbox'[c][j])
    BY <2>1
  <2> QED BY <2>2, MailKeepsPrivate
<1> QED BY <1>2, <1>3, <1>4 DEF DataInv

\* A client reads a message, or leaves and with it what it has not read.
LEMMA DataReceive ==
  ASSUME DataInv, NEW c \in Clients,
         \/ inbox[c] # <<>> /\ inbox' = [inbox EXCEPT ![c] = Tail(@)]
         \/ inbox' = [inbox EXCEPT ![c] = <<>>],
         UNCHANGED <<gone, typed, sent, taken, start, table, processed>>
  PROVE  DataInv'
<1>1. inbox \in [Clients -> Seq(Mail)] /\ inbox[c] \in Seq(Mail)
  BY DEF DataInv, DataType
<1>2. PICK box \in Seq(Mail) :
        /\ inbox' = [inbox EXCEPT ![c] = box]
        /\ \A j \in 1..Len(box) : \E k \in 1..Len(inbox[c]) : box[j] = inbox[c][k]
  <2>1. CASE inbox[c] # <<>> /\ inbox' = [inbox EXCEPT ![c] = Tail(@)]
    <3>1. /\ Tail(inbox[c]) \in Seq(Mail) /\ Len(inbox[c]) \in Nat
          /\ Len(Tail(inbox[c])) = Len(inbox[c]) - 1
          /\ \A j \in 1..Len(Tail(inbox[c])) : Tail(inbox[c])[j] = inbox[c][j + 1]
      BY <1>1, <2>1, HeadTailProperties
    <3>2. \A j \in 1..Len(Tail(inbox[c])) : j + 1 \in 1..Len(inbox[c])
      BY <3>1
    <3> QED BY <2>1, <3>1, <3>2
  <2>2. CASE inbox' = [inbox EXCEPT ![c] = <<>>]
    <3>1. <<>> \in Seq(Mail) /\ 1..Len(<<>>) = {}
      OBVIOUS
    <3> QED BY <2>2, <3>1
  <2> QED BY <2>1, <2>2
<1>3. /\ inbox' \in [Clients -> Seq(Mail)]
      /\ \A d \in Clients : inbox'[d] = IF d = c THEN box ELSE inbox[d]
  BY <1>1, <1>2
<1> QED BY <1>2, <1>3, DataInbox

\* The message in hand is written to one of those it is for.
LEMMA DataWrite ==
  ASSUME IInv, DataInv, LineInv, Write
  PROVE  DataInv' /\ LineInv'
<1>1. /\ UNCHANGED <<gone, typed, sent, taken, start, table, processed, i>>
      /\ pc' = pc \/ pc' = "dead"
  BY DEF Write, netVars
<1>2. LineInv'
  BY <1>1 DEF LineInv
<1>3. PICK e \in DOMAIN table :
        /\ WritesTo(e)
        /\ \/ inbox' = [inbox EXCEPT ![table[e].fd] =
                          Append(@, [from |-> table[i].fd, message |-> Message])]
           \/ inbox' = inbox
  BY DEF Write
<1>4. CASE inbox' = inbox
  <2>1. gone \subseteq gone'
    BY <1>1
  <2> QED BY <1>1, <1>2, <1>4, <2>1, DataStays
<1>5. CASE inbox' = [inbox EXCEPT ![table[e].fd] =
                       Append(@, [from |-> table[i].fd, message |-> Message])]
  <2> DEFINE c == table[e].fd
             fd == table[i].fd
             letter == [from |-> fd, message |-> Message]
  <2>1. Processing /\ c \in Recipients(Message)
    BY <1>3 DEF WritesTo, ToWrite
  <2>2. /\ i \in 1..Len(table)
        /\ \E n \in 1..Len(table[i].buffer) :
             /\ Message = SubSeq(table[i].buffer, 1, n)
             /\ \A l \in 1..n - 1 : ~ table[i].buffer[l].end
             /\ table[i].buffer[n].end \/ n = BufSize
    BY <2>1, MessageInHand
  <2>3. /\ table[i] \in Entries /\ fd \in Clients /\ table[i].buffer \in Seq(Unit)
        /\ sent[fd] \in Seq(Unit) /\ Stream(sent[fd])
        /\ taken[fd] \in Nat /\ start[fd] \in Nat /\ processed[fd] \in Seq(Seq(Unit))
        /\ start[fd] <= taken[fd] /\ taken[fd] <= Len(sent[fd])
        /\ EntryOK(table[i], sent[fd], taken[fd], start[fd], processed[fd])
    BY <2>2, ClientAt
  <2>4. Message \in Seq(Unit) /\ (start[fd] = 1 => OfOneLine(Message))
    <3>1. PICK n \in 1..Len(table[i].buffer) :
            /\ Message = SubSeq(table[i].buffer, 1, n)
            /\ \A l \in 1..n - 1 : ~ table[i].buffer[l].end
            /\ table[i].buffer[n].end \/ n = BufSize
      BY <2>2
    <3> HIDE DEF fd
    <3> QED BY <2>3, <3>1, MessageIsOK
  <2>5. c \in Registered /\ fd \in Registered /\ c \in Clients
    <3>1. DOMAIN table = 1..Len(table) /\ \A f \in 1..Len(table) : table[f].fd \in Clients
      BY TableIsSeq DEF IInv
    <3> QED BY <1>3, <2>2, <3>1 DEF Registered
  <2> HIDE DEF c, fd
  <2>6. letter \in Mail /\ letter.from = fd /\ letter.message = Message
    BY <2>3, <2>4 DEF Mail
  <2>7. MailOK(c, letter)
    <3>1. ASSUME NEW u \in 1..Len(Message), Message[u].to # All, Message[u].len <= BufSize,
                 start[fd] = 1, start[c] = 1
          PROVE  NameOf[c] = Message[u].to
      BY <2>1, <2>4, <3>1, PrivateGoesRight DEF IInv, DataInv
    <3> QED BY <2>6, <3>1 DEF MailOK
  <2> HIDE DEF letter
  <2>8. inbox' = [inbox EXCEPT ![c] = Append(@, letter)]
    BY <1>5 DEF c, letter, fd
  <2>9. /\ inbox \in [Clients -> Seq(Mail)] /\ inbox[c] \in Seq(Mail) /\ Len(inbox[c]) \in Nat
        /\ Append(inbox[c], letter) \in Seq(Mail)
        /\ Len(Append(inbox[c], letter)) = Len(inbox[c]) + 1
        /\ \A j \in 1..Len(inbox[c]) : Append(inbox[c], letter)[j] = inbox[c][j]
        /\ Append(inbox[c], letter)[Len(inbox[c]) + 1] = letter
    <3>1. inbox \in [Clients -> Seq(Mail)]
      BY DEF DataInv, DataType
    <3>2. inbox[c] \in Seq(Mail)
      BY <2>5, <3>1
    <3> QED BY <2>6, <3>1, <3>2, AppendProperties, LenProperties
  <2>10. /\ inbox' \in [Clients -> Seq(Mail)] /\ inbox'[c] = Append(inbox[c], letter)
         /\ \A d \in Clients : d # c => inbox'[d] = inbox[d]
    BY <2>5, <2>8, <2>9
  <2>11. ASSUME NEW d \in Clients, NEW j \in 1..Len(inbox'[d])
         PROVE  \/ \E k \in 1..Len(inbox[d]) : inbox'[d][j] = inbox[d][k]
                \/ d \in Registered /\ inbox'[d][j].from \in Registered /\ MailOK(d, inbox'[d][j])
    <3>1. CASE d # c
      BY <2>10, <3>1
    <3>2. CASE d = c
      <4>1. j \in 1..Len(inbox[c]) \/ j = Len(inbox[c]) + 1
        BY <2>9, <2>10, <3>2
      <4> QED BY <2>5, <2>6, <2>7, <2>9, <2>10, <3>2, <4>1
    <3> QED BY <3>1, <3>2
  <2> QED BY <1>1, <1>2, <2>10, <2>11, DataInbox
<1> QED BY <1>2, <1>3, <1>4, <1>5

\* What a client that leaves has in its buffer is in no message.
LEMMA DataRemoveClient ==
  ASSUME IInv, DataInv, LineInv, RemoveClient
  PROVE  DataInv' /\ LineInv'
<1> DEFINE fd == table[i].fd
<1>1. /\ i \in DOMAIN table /\ gone' = gone \cup {fd} /\ table' = Without(i)
      /\ pc = "loop" /\ pc' = "loop"
      /\ UNCHANGED <<taken, sent, typed, start, processed, inbox>>
  BY DEF RemoveClient, Left, Ready, mailVars
<1>2. i \in 1..Len(table) /\ Len(table) \in Nat
  BY <1>1, TableIsSeq DEF IInv
<1>3. table \in Seq(Entries) /\ table[i] \in Entries /\ fd \in Clients
  <2>1. table \in Seq(Entries)
    BY DEF DataInv, DataType
  <2>2. table[i] \in Entries
    BY <1>2, <2>1
  <2> QED BY <2>1, <2>2 DEF Entries
<1>9. /\ TableType' /\ Len(table') = Len(table) - 1
      /\ \A f \in 1..Len(table) - 1 :
           table'[f] = IF f = i THEN table[Len(table)] ELSE table[f]
  BY <1>1, <1>2, RemoveEntry DEF IInv
<1> HIDE DEF fd
<1>10. \A f \in 1..Len(table) - 1 :
         \E e \in 1..Len(table) : e # i /\ table'[f] = table[e] /\ table[e] \in Entries
  <2>1. ASSUME NEW f \in 1..Len(table) - 1
        PROVE  \E e \in 1..Len(table) : e # i /\ table'[f] = table[e]
    <3>1. f \in 1..Len(table) /\ Len(table) \in 1..Len(table) /\ f # Len(table)
      BY <1>2
    <3>2. CASE f = i
      BY <1>9, <3>1, <3>2
    <3>3. CASE f # i
      BY <1>9, <3>1, <3>3
    <3> QED BY <3>2, <3>3
  <2>2. \A e \in 1..Len(table) : table[e] \in Entries
    BY <1>3
  <2> QED BY <2>1, <2>2
<1>11. table' \in Seq(Entries) /\ DOMAIN table' = 1..Len(table) - 1
  <2>1. table' \in Seq(Range(table')) /\ DOMAIN table' = 1..Len(table')
    BY <1>9, OwnRange DEF TableType
  <2>2. Range(table') \subseteq Entries
    BY <1>9, <1>10, <2>1 DEF Range
  <2> QED BY <1>9, <2>1, <2>2, SeqMonotonic
<1>12. \A c \in Registered : c # fd => c \in Registered'
  <2>1. Registered = {table[e].fd : e \in 1..Len(table)}
    BY TableIsSeq DEF IInv
  <2>2. ASSUME NEW e \in 1..Len(table), table[e].fd # fd
        PROVE  table[e].fd \in Registered'
    <3>1. e # i
      BY <2>2 DEF fd
    <3>2. CASE e = Len(table)
      <4>1. i \in 1..Len(table) - 1
        BY <1>2, <3>1, <3>2
      <4> QED BY <1>9, <1>11, <3>2, <4>1 DEF Registered
    <3>3. CASE e # Len(table)
      <4>1. e \in 1..Len(table) - 1
        BY <1>2, <3>3
      <4> QED BY <1>9, <1>11, <3>1, <4>1 DEF Registered
    <3> QED BY <3>2, <3>3
  <2> QED BY <2>1, <2>2
<1>13. DataType'
  BY <1>1, <1>11 DEF DataInv, DataType
<1>14. FreshInv'
  <2>1. ASSUME NEW c \in Clients \ (Registered' \cup gone')
        PROVE  /\ taken'[c] = 0 /\ start'[c] = 0 /\ processed'[c] = <<>> /\ inbox'[c] = <<>>
               /\ \A d \in Clients : \A j \in 1..Len(inbox'[d]) : inbox'[d][j].from # c
    <3>1. c # fd /\ c \notin Registered /\ c \in Clients \ (Registered \cup gone)
      BY <1>1, <1>12 DEF fd
    <3>2. /\ taken[c] = 0 /\ start[c] = 0 /\ processed[c] = <<>> /\ inbox[c] = <<>>
          /\ \A d \in Clients : \A j \in 1..Len(inbox[d]) : inbox[d][j].from # c
      BY <3>1 DEF DataInv, FreshInv
    <3> QED BY <1>1, <3>2
  <2> QED BY <2>1 DEF FreshInv
<1>15. EntriesInv'
  <2>1. ASSUME NEW f \in 1..Len(table) - 1
        PROVE  EntryOK(table'[f], sent'[table'[f].fd], taken'[table'[f].fd],
                       start'[table'[f].fd], processed'[table'[f].fd])
    <3>1. PICK e \in 1..Len(table) : e # i /\ table'[f] = table[e]
      BY <1>10
    <3>2. table[e].fd # fd /\ table[e].fd \in Clients
      BY <1>2, <3>1, TableIsSeq DEF IInv, TableOK, fd
    <3>3. EntryOK(table[e], sent[table[e].fd], taken[table[e].fd], start[table[e].fd],
                  processed[table[e].fd])
      BY DEF DataInv, EntriesInv
    <3> QED BY <1>1, <3>1, <3>2, <3>3
  <2> QED BY <1>9, <2>1 DEF EntriesInv
<1>16. PrivateStaysPrivate'
  BY <1>1 DEF DataInv, PrivateStaysPrivate
<1>17. LineInv'
  <2>1. \A f \in 1..Len(table) - 1 : ~ HasLine(table'[f].buffer)
    <3>1. \A e \in 1..Len(table) : ~ HasLine(table[e].buffer)
      BY <1>1 DEF LineInv
    <3> QED BY <1>10, <3>1
  <2> QED BY <1>1, <1>9, <2>1 DEF LineInv
<1> QED BY <1>1, <1>13, <1>14, <1>15, <1>16, <1>17 DEF DataInv

-----------------------------------------------------------------------------
(* The steps, the lines in the buffers and the connections.                *)

\* Nothing happens to a buffer, and no line is in hand.
LEMMA LinesStay ==
  ASSUME LineInv, UNCHANGED table,
         \/ UNCHANGED <<pc, i>>
         \/ pc \notin {"lines", "dead"} /\ pc' # "full"
         \/ pc = "lines" /\ pc' = "loop" /\ ~ HasLine(table[i].buffer)
  PROVE  LineInv'
BY DEF LineInv

LEMMA FlownStays ==
  ASSUME FlownInv, UNCHANGED <<sent, flown, taken>>
  PROVE  FlownInv'
BY DEF FlownInv

\* A write that goes on writes no more than it was given.
LEMMA FlownTransmit ==
  ASSUME DataInv, FlownInv, NEW c \in Clients, Transmit(c)
  PROVE  FlownInv'
<1>1. /\ flown[c] < Len(sent[c]) /\ flown' = [flown EXCEPT ![c] = @ + 1]
      /\ UNCHANGED <<sent, taken>>
  BY DEF Transmit, Writing
<1>2. \A d \in Clients : Len(sent[d]) \in Nat /\ taken[d] \in Nat
  BY DEF DataInv, DataType
<1>3. \A d \in Clients : flown'[d] = IF d = c THEN flown[c] + 1 ELSE flown[d]
  BY <1>1 DEF FlownInv
<1>4. flown' \in [Clients -> Nat]
  BY <1>1 DEF FlownInv
<1> QED BY <1>1, <1>2, <1>3, <1>4 DEF FlownInv

\* Whoever gives the name has nothing in the buffer yet.
LEMMA LinesReadName ==
  ASSUME DataInv, LineInv, ReadName
  PROVE  LineInv'
<1>1. pc = "name" /\ pc' = "loop"
  BY DEF ReadName
<1>2. table' = table \/ \E name : table' = Append(table, [fd |-> new_fd, buffer |-> <<>>, name |-> name])
  BY Zenon DEF ReadName
<1>3. CASE table' = table
  BY <1>1, <1>3, LinesStay
<1>4. ASSUME NEW name, table' = Append(table, [fd |-> new_fd, buffer |-> <<>>, name |-> name])
      PROVE  LineInv'
  <2>1. table \in Seq(Entries)
    BY DEF DataInv, DataType
  <2> DEFINE entry == [fd |-> new_fd, buffer |-> <<>>, name |-> name]
             S == Entries \cup {entry}
  <2>2. table \in Seq(S) /\ entry \in S /\ entry.buffer = <<>>
    BY <2>1, SeqMonotonic
  <2>3. table' = Append(table, entry)
    BY <1>4
  <2> HIDE DEF entry, S
  <2>4. /\ Len(table') = Len(table) + 1 /\ Len(table) \in Nat
        /\ \A e \in 1..Len(table) : table'[e] = table[e]
        /\ table'[Len(table) + 1] = entry
    BY <2>2, <2>3, AppendProperties, LenProperties
  <2>5. ~ HasLine(<<>>)
    BY DEF HasLine
  <2>6. \A e \in 1..Len(table) : ~ HasLine(table[e].buffer)
    BY <1>1 DEF LineInv
  <2>7. ASSUME NEW e \in 1..Len(table') PROVE ~ HasLine(table'[e].buffer)
    <3>1. e \in 1..Len(table) \/ e = Len(table) + 1
      BY <2>4
    <3> QED BY <2>2, <2>4, <2>5, <2>6, <3>1
  <2> QED BY <1>1, <2>7 DEF LineInv
<1> QED BY <1>2, <1>3, <1>4

-----------------------------------------------------------------------------
(* The theorems.                                                           *)

\* The server starts with nobody.
LEMMA InitHolds == Init => IInv
<1> SUFFICES ASSUME Init  PROVE  IInv
  OBVIOUS
<1>1. /\ table = <<>> /\ backlog = <<>> /\ gone = {} /\ new_fd = Nobody
      /\ read_set = {} /\ i = 1 /\ pc = "select"
  BY DEF Init
<1>2. Range(table) = {} /\ Registered = {}
  BY <1>1 DEF Range, Registered
<1>3. TableType /\ RoundInv
  BY <1>1 DEF TableType, RoundInv
<1>4. BacklogInv /\ ServerInv
  BY <1>1 DEF BacklogInv, ServerInv, Range
<1>5. TableOK
  BY <1>1, <1>2, ChatAssumption DEF TableOK
<1> QED BY <1>3, <1>4, <1>5 DEF IInv

\* Every step keeps the invariant, and a round that ends has served everybody.
LEMMA NextKeeps ==
  ASSUME IInv, [Next]_vars
  PROVE  IInv' /\ (pc = "loop" /\ pc' = "select" => read_set \subseteq served)
<1>1. ASSUME NEW c \in Clients,
             SendName(c) \/ SendLine(c) \/ Transmit(c) \/ Receive(c) \/ CloseSocket(c)
      PROVE  UNCHANGED <<backlog, gone, table, pc, new_fd, read_set, i, served>>
  BY <1>1 DEF SendName, SendLine, Transmit, Receive, CloseSocket, netVars, roundVars
<1>2. ASSUME NEW c \in Clients, Connect(c)  PROVE  pc' = pc
  BY <1>2 DEF Connect
<1>3. ASSUME Server, pc = "loop", pc' = "select"  PROVE  EndOfRound
  <2>1. ASSUME Write PROVE pc' = pc \/ pc' = "dead"
    BY <2>1 DEF Write
  <2> QED BY <1>3, <2>1 DEF Server, Select, Accept, AcceptFails, ReadName, NoName, BufferFull,
             ReadClient, MessageDone, LinesDone, RemoveClient, NotReady, Processing
<1>4. CASE Server
  <2>1. IInv'
    BY <1>4, StepSelect, StepAccept, StepAcceptFails, StepReadName, StepNoName, StepBufferFull,
       StepReadClient, StepWrite, StepMessageDone, StepLinesDone, StepRemoveClient,
       StepNotReady, StepEndOfRound DEF Server
  <2> QED BY <1>3, <1>4, <2>1, StepEndOfRound
<1>5. CASE UNCHANGED vars
  <2>1. UNCHANGED <<backlog, gone, table, pc, new_fd, read_set, i, served>>
    BY <1>5 DEF vars, netVars, roundVars
  <2> QED BY <2>1, NothingMoves
<1> QED BY <1>1, <1>2, <1>4, <1>5, NothingMoves, StepConnect DEF Next

\* At the start nobody has sent anything.
LEMMA InitData == Init => DataInv /\ FlownInv /\ LineInv
<1> SUFFICES ASSUME Init  PROVE  DataInv /\ FlownInv /\ LineInv
  OBVIOUS
<1>1. /\ sent = [c \in Clients |-> <<>>] /\ taken = [c \in Clients |-> 0] /\ typed = 0
      /\ flown = [c \in Clients |-> 0] /\ pc = "select"
      /\ table = <<>> /\ start = [c \in Clients |-> 0]
      /\ processed = [c \in Clients |-> <<>>] /\ inbox = [c \in Clients |-> <<>>]
  BY DEF Init
<1>2. /\ Len(<<>>) = 0 /\ 1..0 = {} /\ <<>> \in Seq(Unit) /\ <<>> \in Seq(Seq(Unit))
      /\ <<>> \in Seq(Mail) /\ <<>> \in Seq(Entries) /\ DOMAIN <<>> = {}
  OBVIOUS
<1>3. DataType
  BY <1>1, <1>2 DEF DataType
<1>4. FreshInv
  BY <1>1, <1>2 DEF FreshInv
<1>5. EntriesInv
  BY <1>1, <1>2 DEF EntriesInv
<1>6. PrivateStaysPrivate
  BY <1>1, <1>2 DEF PrivateStaysPrivate
<1>7. Stream(<<>>)
  <2>1. 1..0 - 1 = {}
    OBVIOUS
  <2> QED BY <1>2, <2>1 DEF Stream
<1>8. \A c \in Clients : Stream(sent[c])
  BY <1>1, <1>7
<1>9. FlownInv /\ LineInv
  BY <1>1, <1>2 DEF FlownInv, LineInv
<1> QED BY <1>3, <1>4, <1>5, <1>6, <1>8, <1>9 DEF DataInv

\* Every step keeps what the data holds.
LEMMA NextKeepsData ==
  ASSUME IInv, DataInv, FlownInv, LineInv, [Next]_vars
  PROVE  DataInv' /\ FlownInv' /\ LineInv'
<1>1. ASSUME NEW c \in Clients, SendName(c) PROVE DataInv' /\ FlownInv' /\ LineInv'
  <2> DEFINE line == [to |-> All, len |-> 1]
  <2>1. /\ StartWrite(c, UnitsOf(0, line))
        /\ UNCHANGED <<gone, typed, taken, start, table, processed, inbox, pc, i>>
    BY <1>1 DEF SendName, mailVars, roundVars
  <2>2. line.len \in Nat \ {0} /\ line.to \in Names /\ line.len = 1 /\ 0 \in Nat
    BY DEF Names
  <2>3. typed' \in Nat
    BY <2>1 DEF DataInv, DataType
  <2> HIDE DEF line
  <2> QED BY <2>1, <2>2, <2>3, DataSend, LinesStay
<1>2. ASSUME NEW c \in Clients, SendLine(c) PROVE DataInv' /\ FlownInv' /\ LineInv'
  <2>1. /\ sent[c] # <<>> /\ typed' = typed + 1
        /\ UNCHANGED <<gone, taken, start, table, processed, inbox, pc, i>>
    BY <1>2 DEF SendLine, mailVars, roundVars
  <2>2. PICK line \in Lines : StartWrite(c, UnitsOf(typed + 1, line))
    BY <1>2 DEF SendLine
  <2>3. typed' \in Nat /\ typed + 1 \in Nat
    BY <2>1 DEF DataInv, DataType
  <2>4. line.len \in Nat \ {0} /\ line.to \in Names
    BY ChatAssumption DEF Names
  <2> QED BY <2>1, <2>2, <2>3, <2>4, DataSend, LinesStay
<1>3. ASSUME NEW c \in Clients, Connect(c) \/ Transmit(c)
      PROVE  DataInv' /\ FlownInv' /\ LineInv'
  <2>1. UNCHANGED <<gone, typed, sent, taken, start, table, processed, inbox, pc, i>>
    BY <1>3 DEF Connect, Transmit, mailVars, roundVars
  <2>2. Connect(c) => UNCHANGED flown
    BY DEF Connect
  <2> QED BY <1>3, <2>1, <2>2, DataStays, LinesStay, FlownStays, FlownTransmit
<1>4. ASSUME NEW c \in Clients, Receive(c) \/ CloseSocket(c)
      PROVE  DataInv' /\ FlownInv' /\ LineInv'
  <2>1. UNCHANGED <<gone, typed, sent, flown, taken, start, table, processed, pc, i>>
    BY <1>4 DEF Receive, CloseSocket, netVars, roundVars
  <2>2. \/ inbox[c] # <<>> /\ inbox' = [inbox EXCEPT ![c] = Tail(@)]
        \/ inbox' = [inbox EXCEPT ![c] = <<>>]
    BY <1>4 DEF Receive, CloseSocket
  <2> QED BY <2>1, <2>2, DataReceive, LinesStay, FlownStays
<1>5. ASSUME \/ Select \/ Accept \/ AcceptFails \/ NoName \/ NotReady \/ EndOfRound
             \/ LinesDone \/ BufferFull
      PROVE  DataInv' /\ FlownInv' /\ LineInv'
  <2>1. /\ UNCHANGED <<typed, sent, flown, taken, start, table, processed, inbox>>
        /\ gone \subseteq gone'
    BY <1>5 DEF Select, Accept, AcceptFails, NoName, NotReady, EndOfRound, LinesDone,
                BufferFull, netVars, mailVars
  <2>2. LineInv'
    <3>1. ASSUME BufferFull PROVE LineInv'
      BY <3>1, <2>1 DEF BufferFull, Ready, LineInv, roundVars
    <3>2. ASSUME LinesDone PROVE LineInv'
      BY <2>1, <3>2, LinesStay DEF LinesDone
    <3>3. ASSUME Select \/ Accept \/ AcceptFails \/ NoName \/ NotReady \/ EndOfRound
          PROVE  pc \notin {"lines", "dead"} /\ pc' # "full"
      BY <3>3 DEF Select, Accept, AcceptFails, NoName, NotReady, EndOfRound
    <3> QED BY <1>5, <2>1, <3>1, <3>2, <3>3, LinesStay
  <2> QED BY <2>1, <2>2, DataStays, FlownStays
<1>6. ASSUME Write \/ MessageDone \/ RemoveClient PROVE UNCHANGED <<sent, flown, taken>>
  BY <1>6 DEF Write, MessageDone, RemoveClient, netVars
<1>7. CASE UNCHANGED vars
  <2>1. UNCHANGED <<gone, typed, sent, flown, taken, start, table, processed, inbox, pc, i>>
    BY <1>7 DEF vars, netVars, mailVars, roundVars
  <2> QED BY <2>1, DataStays, LinesStay, FlownStays
<1>8. CASE Server
  BY <1>5, <1>6, <1>8, DataReadName, LinesReadName, DataReadClient, DataWrite,
     DataMessageDone, DataRemoveClient, FlownStays DEF Server
<1> QED BY <1>1, <1>2, <1>3, <1>4, <1>7, <1>8 DEF Next

\* The invariants hold in every state of the chat.
LEMMA Invariance == Spec => [](IInv /\ DataInv /\ FlownInv /\ LineInv)
<1>1. Init => IInv /\ DataInv /\ FlownInv /\ LineInv
  BY InitHolds, InitData
<1>2. IInv /\ DataInv /\ FlownInv /\ LineInv /\ [Next]_vars
        => (IInv /\ DataInv /\ FlownInv /\ LineInv)'
  BY NextKeeps, NextKeepsData
<1> QED BY <1>1, <1>2, PTL DEF Spec

\* Whoever connects, leaves and is turned away, and whichever entry moves: the
\* table holds open connections, each once, and the loop stays inside it.
THEOREM TableIsOK == Spec => []TableOK
<1>1. IInv => TableOK
  BY DEF IInv
<1> QED BY Invariance, <1>1, PTL

\* A client that select() found ready is read from before the next select(),
\* though entries of the table move while the loop goes through it.
THEOREM RoundsServeAll == Spec => RoundServesAll
<1>1. IInv /\ [Next]_vars =>
        [pc = "loop" /\ pc' = "select" => read_set \subseteq served]_vars
  BY NextKeeps
<1> QED BY Invariance, <1>1, PTL DEF Spec, RoundServesAll

\* However the streams are cut into reads, the server makes messages and a rest
\* of them in which no unit is lost, repeated or moved: each message is a line,
\* or a whole buffer of a longer line.
THEOREM FramingIsExact == Spec => []FramingExact
<1>1. DataInv /\ LineInv => FramingExact
  <2> SUFFICES ASSUME DataInv, LineInv  PROVE  FramingExact
    OBVIOUS
  <2>1. table \in Seq(Entries) /\ DOMAIN table = 1..Len(table)
    <3>1. table \in Seq(Entries)
      BY DEF DataInv, DataType
    <3> QED BY <3>1, LenProperties
  <2>2. ASSUME NEW e \in DOMAIN table
        PROVE  LET fd == table[e].fd
                   buffer == table[e].buffer
               IN  /\ FlattenSeq(processed[fd]) \o buffer
                        = SubSeq(sent[fd], start[fd] + 1, taken[fd])
                   /\ Len(buffer) <= BufSize
                   /\ HasLine(buffer) => e = i /\ pc \in {"lines", "dead"}
                   /\ \A m \in Range(processed[fd]) :
                        /\ Len(m) \in 1..BufSize
                        /\ \A k \in 1..Len(m) - 1 : ~ m[k].end
                        /\ m[Len(m)].end \/ Len(m) = BufSize
    <3> DEFINE fd == table[e].fd
               buffer == table[e].buffer
    <3>1. table[e] \in Entries
      BY <2>1
    <3>2. buffer \in Seq(Unit)
      BY <3>1 DEF Entries
    <3>3. EntryOK(table[e], sent[fd], taken[fd], start[fd], processed[fd])
      <4>1. e \in 1..Len(table)
        BY <2>1
      <4> QED BY <4>1 DEF DataInv, EntriesInv
    <3>4. /\ Held(sent[fd], start[fd], taken[fd], processed[fd], buffer)
          /\ Len(buffer) <= BufSize
          /\ \A m \in Range(processed[fd]) : Framed(m)
      BY <3>3 DEF EntryOK
    <3>5. HasLine(buffer) => e = i /\ pc \in {"lines", "dead"}
      BY <2>1 DEF LineInv
    <3> HIDE DEF fd, buffer
    <3>6. FlattenSeq(processed[fd]) \o buffer = SubSeq(sent[fd], start[fd] + 1, taken[fd])
      BY <3>4 DEF Held, Part
    <3>7. \A m \in Range(processed[fd]) :
            /\ Len(m) \in 1..BufSize
            /\ \A k \in 1..Len(m) - 1 : ~ m[k].end
            /\ m[Len(m)].end \/ Len(m) = BufSize
      BY <3>4 DEF Framed
    <3> QED BY <3>4, <3>5, <3>6, <3>7 DEF fd, buffer
  <2> QED BY <2>2 DEF FramingExact
<1> QED BY Invariance, <1>1, PTL

\* A line that begins with "@name " and fits a buffer is written to nobody but
\* a client of that name, whatever was read with it, before it and after it.
THEOREM PrivateIsPrivate == Spec => []PrivateStaysPrivate
<1>1. DataInv => PrivateStaysPrivate
  BY DEF DataInv
<1> QED BY Invariance, <1>1, PTL
=============================================================================
