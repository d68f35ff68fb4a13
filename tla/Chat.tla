-------------------------------- MODULE Chat --------------------------------
(***************************************************************************)
(* The HW3 chat: the select() loop of hw3server.c, and the clients of      *)
(* hw3client.c at the other end of its TCP connections.                    *)
(*                                                                         *)
(* A line is cut into units, the pieces at whose borders the model lets    *)
(* read() stop; the last unit of a line ends with its newline.  A read     *)
(* returns any non-empty prefix of what has been written, as TCP may       *)
(* deliver it, up to the space there is.  The first unit of a private line *)
(* holds "@name " whole.                                                   *)
(*                                                                         *)
(* A connection holds so many units on the way to the server and so many   *)
(* messages on the way to the client.  A write that finds no room blocks   *)
(* its caller, the server in the middle of a broadcast or a client in the  *)
(* middle of a line, until the other end reads.                            *)
(***************************************************************************)
EXTENDS Integers, Sequences, FiniteSets, SequencesExt

CONSTANTS
  Clients,      \* the clients, and the server's descriptors for them
  NameOf,       \* the name each client is started with
  All,          \* the addressee of a line for everybody
  Mangled,      \* the name of a client whose name and first line came in one
                \* read; it may be the name of another
  Nobody,       \* no client
  MAX_CLIENTS,
  BufSize,      \* units a buffer holds: MAX_MSG_LEN - 1 bytes
  InRoom,       \* units a connection holds on the way to the server
  OutRoom,      \* messages it holds on the way to the client
  Lines,        \* the lines clients type: addressee and number of units
  MaxTyped      \* bound on the number of lines typed

ASSUME ChatAssumption ==
  /\ MAX_CLIENTS \in Nat \ {0} /\ BufSize \in Nat \ {0} /\ MaxTyped \in Nat
  /\ InRoom \in Nat \ {0} /\ OutRoom \in Nat \ {0}
  /\ \A l \in Lines : l.len \in Nat \ {0}
  /\ Nobody \notin Clients

VARIABLES
  backlog,    \* connections waiting for accept()
  gone,       \* clients whose connection the server has closed
  sent,       \* per client: the units given to its writes so far
  flown,      \* per client: how many of them its connection has accepted
  taken,      \* per client: how many of them the server has read
  closed,     \* clients that have closed their socket
  typed,      \* lines typed so far
  table,      \* clients[0 .. num_clients - 1]
  pc,         \* "select", "accept", "name", "loop", "full", "lines" or "dead"
  new_fd,     \* the connection whose name is being read
  read_set,   \* the clients that select() found ready
  i,          \* the loop variable, counted from 1
  dest,       \* the first entry broadcast_message has not passed
  served,     \* the ready clients read from in this round
  start,      \* per client: units read as its name
  processed,  \* per client: its messages that process_message is done with
  inbox,      \* per client: the messages written to it that it has not read
  reset       \* clients whose end has answered a write with a reset

netVars == <<backlog, gone, sent, flown, taken, closed, typed>>
roundVars == <<new_fd, read_set, i, dest, served>>
mailVars == <<start, processed, inbox, reset>>
vars == <<netVars, table, pc, roundVars, mailVars>>

Init ==
  /\ backlog = <<>> /\ gone = {}
  /\ sent = [c \in Clients |-> <<>>]
  /\ flown = [c \in Clients |-> 0] /\ taken = [c \in Clients |-> 0]
  /\ closed = {} /\ typed = 0
  /\ table = <<>> /\ pc = "select"
  /\ new_fd = Nobody /\ read_set = {} /\ i = 1 /\ dest = 1 /\ served = {}
  /\ start = [c \in Clients |-> 0]
  /\ processed = [c \in Clients |-> <<>>]
  /\ inbox = [c \in Clients |-> <<>>]
  /\ reset = {}

Registered == {table[e].fd : e \in DOMAIN table}
Connected == Registered \cup Range(backlog) \cup {new_fd}

-----------------------------------------------------------------------------
(* Clients.                                                                *)

\* Line number l (0 for the name) of a client, as the units it is cut into.
UnitsOf(l, line) ==
  [k \in 1..line.len |-> [line |-> l, part |-> k, to |-> line.to,
                          len |-> line.len, end |-> k = line.len]]

\* A client in a write that its connection has not accepted whole.
Writing(c) == flown[c] < Len(sent[c])

\* The write of "units": the connection accepts what it has room for at once.
StartWrite(c, units) ==
  /\ sent' = [sent EXCEPT ![c] = @ \o units]
  /\ flown' = [flown EXCEPT ![c] = Min({Len(sent'[c]), taken[c] + InRoom})]

\* connect().
Connect(c) ==
  /\ c \notin Connected \cup gone
  /\ backlog' = Append(backlog, c)
  /\ UNCHANGED <<gone, sent, flown, taken, closed, typed, table, pc, roundVars, mailVars>>

\* The write of the name that follows it.
SendName(c) ==
  /\ c \in Connected /\ sent[c] = <<>> /\ c \notin closed
  /\ StartWrite(c, UnitsOf(0, [to |-> All, len |-> 1]))
  /\ UNCHANGED <<backlog, gone, taken, closed, typed, table, pc, roundVars, mailVars>>

\* A line typed by the user goes out once its newline is there, or in buffers
\* full if it is too long: the same units in the same order.
SendLine(c) ==
  /\ c \in Connected /\ sent[c] # <<>> /\ c \notin closed /\ ~ Writing(c)
  /\ typed < MaxTyped /\ typed' = typed + 1
  /\ \E line \in Lines : StartWrite(c, UnitsOf(typed + 1, line))
  /\ UNCHANGED <<backlog, gone, taken, closed, table, pc, roundVars, mailVars>>

\* A write that has been blocked goes on: the server has made room.
Transmit(c) ==
  /\ Writing(c) /\ c \notin closed /\ flown[c] < taken[c] + InRoom
  /\ flown' = [flown EXCEPT ![c] = @ + 1]
  /\ UNCHANGED <<backlog, gone, sent, taken, closed, typed, table, pc, roundVars,
                 mailVars>>

\* The client reads a message and prints it, unless it is blocked in a write.
Receive(c) ==
  /\ inbox[c] # <<>> /\ c \notin closed /\ ~ Writing(c)
  /\ inbox' = [inbox EXCEPT ![c] = Tail(@)]
  /\ UNCHANGED <<netVars, table, pc, roundVars, start, processed, reset>>

\* "!exit", the end of the input, or the death of the client, which also ends
\* a write it is blocked in.  What it has not read is lost.
CloseSocket(c) ==
  /\ c \in Connected /\ c \notin closed
  /\ closed' = closed \cup {c}
  /\ inbox' = [inbox EXCEPT ![c] = <<>>]
  /\ UNCHANGED <<backlog, gone, sent, flown, taken, typed, table, pc, roundVars,
                 start, processed, reset>>

-----------------------------------------------------------------------------
(* The server.                                                             *)

Unread(c) == SubSeq(sent[c], taken[c] + 1, flown[c])
Readable(c) == Unread(c) # <<>> \/ c \in closed

\* What one read of at most "space" units may return.
Reads(c, space) ==
  {SubSeq(Unread(c), 1, k) : k \in 1..Min({Len(Unread(c)), space})}

Select ==
  /\ pc = "select"
  /\ read_set' = {c \in Registered : Readable(c)}
  /\ backlog # <<>> \/ read_set' # {}
  /\ pc' = IF backlog # <<>> THEN "accept" ELSE "loop"
  /\ i' = 1 /\ served' = {}
  /\ UNCHANGED <<netVars, table, new_fd, dest, mailVars>>

Accept ==
  /\ pc = "accept" /\ pc' = "name"
  /\ new_fd' = Head(backlog) /\ backlog' = Tail(backlog)
  /\ UNCHANGED <<gone, sent, flown, taken, closed, typed, table, read_set, i, dest,
                 served, mailVars>>

\* accept() returns -1, and the loop goes on: the connection stays in the
\* backlog, or was given up by its client and is there no more.
AcceptFails ==
  /\ pc = "accept" /\ pc' = "loop"
  /\ \/ UNCHANGED <<backlog, gone>>
     \/ /\ Head(backlog) \in closed
        /\ gone' = gone \cup {Head(backlog)} /\ backlog' = Tail(backlog)
  /\ UNCHANGED <<sent, flown, taken, closed, typed, table, roundVars, mailVars>>

\* The read of the name blocks until there is something to read.  What came
\* with the name in one read becomes part of it.
ReadName ==
  /\ pc = "name" /\ pc' = "loop"
  /\ \E units \in Reads(new_fd, BufSize) :
       /\ taken' = [taken EXCEPT ![new_fd] = Len(units)]
       /\ IF Len(table) < MAX_CLIENTS
          THEN /\ table' = Append(table,
                    [fd |-> new_fd, buffer |-> <<>>,
                     name |-> IF Len(units) = 1 THEN NameOf[new_fd] ELSE Mangled])
               /\ start' = [start EXCEPT ![new_fd] = Len(units)]
               /\ UNCHANGED gone
          ELSE gone' = gone \cup {new_fd} /\ UNCHANGED <<table, start>>
  /\ new_fd' = Nobody
  /\ UNCHANGED <<backlog, sent, flown, closed, typed, read_set, i, dest, served,
                 processed, inbox, reset>>

\* The client has left without a name.
NoName ==
  /\ pc = "name" /\ pc' = "loop"
  /\ Unread(new_fd) = <<>> /\ new_fd \in closed
  /\ gone' = gone \cup {new_fd} /\ new_fd' = Nobody
  /\ UNCHANGED <<backlog, sent, flown, taken, closed, typed, table, read_set, i,
                 dest, served, mailVars>>

\* The first newline of a buffer, and the line it ends.
HasLine(buffer) == \E k \in DOMAIN buffer : buffer[k].end
Newline(buffer) ==
  CHOOSE k \in DOMAIN buffer : buffer[k].end /\ \A l \in 1..k - 1 : ~ buffer[l].end
Line(buffer) == SubSeq(buffer, 1, Newline(buffer))

\* find_client_by_name: the first entry with that name.
Named(name) ==
  LET found == {e \in DOMAIN table : table[e].name = name}
  IN  IF found = {} THEN {}
      ELSE {table[CHOOSE e \in found : \A f \in found : e <= f].fd}

\* A private message that goes to everybody when no client has the name.
RecipientsOfUnknown(message) ==
  IF message[1].part = 1 /\ message[1].to # All /\ Named(message[1].to) # {}
  THEN Named(message[1].to)
  ELSE Registered

\* process_message writes a message with "@" in front to the client it names,
\* or to nobody, and any other message to every client.
Recipients(message) ==
  IF message[1].part = 1 /\ message[1].to # All
  THEN Named(message[1].to)
  ELSE Registered

\* The message that process_message has in hand: a full buffer, or the first
\* line of a buffer.
Processing == pc = "full" \/ (pc = "lines" /\ HasLine(table[i].buffer))
Message == IF pc = "full" THEN table[i].buffer ELSE Line(table[i].buffer)

\* The entries it is still to be written to, and the one whose turn it is.
ToWrite == {e \in dest..Len(table) : table[e].fd \in Recipients(Message)}
WritesTo(e) == Processing /\ e \in ToWrite /\ \A f \in ToWrite : e <= f

\* send_message: write() waits for room.  To a client that has closed its
\* socket it writes at once; the first time that is answered by a reset, and a
\* write after that may kill the server with SIGPIPE.
Write ==
  /\ \E e \in DOMAIN table :
       LET c == table[e].fd
       IN  /\ WritesTo(e) /\ dest' = e + 1
           /\ \/ /\ c \notin closed /\ Len(inbox[c]) < OutRoom
                 /\ inbox' = [inbox EXCEPT ![c] =
                                Append(@, [from |-> table[i].fd, message |-> Message])]
                 /\ UNCHANGED <<reset, pc>>
              \/ /\ c \in closed /\ reset' = reset \cup {c}
                 /\ pc' = pc \/ (c \in reset /\ pc' = "dead")
                 /\ UNCHANGED inbox
  /\ UNCHANGED <<netVars, table, new_fd, read_set, i, served, start, processed>>

\* process_message returns, and the loop handles one line per read only.
OneMessageDone ==
  /\ Processing /\ ToWrite = {}
  /\ processed' = [processed EXCEPT ![table[i].fd] = Append(@, Message)]
  /\ table' = [table EXCEPT ![i].buffer = SubSeq(@, Len(Message) + 1, Len(@))]
  /\ dest' = 1
  /\ pc' = "loop" /\ i' = IF pc = "full" THEN i ELSE i + 1
  /\ UNCHANGED <<netVars, new_fd, read_set, served, start, inbox, reset>>

\* process_message returns: what it has processed leaves the buffer.
MessageDone ==
  /\ Processing /\ ToWrite = {}
  /\ processed' = [processed EXCEPT ![table[i].fd] = Append(@, Message)]
  /\ table' = [table EXCEPT ![i].buffer = SubSeq(@, Len(Message) + 1, Len(@))]
  /\ dest' = 1
  /\ pc' = IF pc = "full" THEN "loop" ELSE "lines"
  /\ UNCHANGED <<netVars, new_fd, read_set, i, served, start, inbox, reset>>

\* strchr finds no other newline in the buffer.
LinesDone ==
  /\ pc = "lines" /\ ~ HasLine(table[i].buffer)
  /\ pc' = "loop" /\ i' = i + 1
  /\ UNCHANGED <<netVars, table, new_fd, read_set, dest, served, mailVars>>

Ready == pc = "loop" /\ i \in DOMAIN table /\ table[i].fd \in read_set

\* There is no space left: the buffer is processed as it is, and then read into.
BufferFull ==
  /\ Ready /\ Len(table[i].buffer) >= BufSize /\ pc' = "full"
  /\ UNCHANGED <<netVars, table, roundVars, mailVars>>

ReadClient ==
  /\ Ready /\ Len(table[i].buffer) < BufSize
  /\ LET fd == table[i].fd
     IN  /\ \E units \in Reads(fd, BufSize - Len(table[i].buffer)) :
              /\ taken' = [taken EXCEPT ![fd] = @ + Len(units)]
              /\ table' = [table EXCEPT ![i].buffer = @ \o units]
         /\ served' = served \cup {fd}
  /\ pc' = "lines"
  /\ UNCHANGED <<backlog, gone, sent, flown, closed, typed, new_fd, read_set, i, dest,
                 mailVars>>

\* A removal that shortens the table and moves nothing.
WithoutLast(e) == SubSeq(table, 1, Len(table) - 1)

\* The table without entry e: the last entry takes its place.
Without(e) ==
  [k \in 1..Len(table) - 1 |-> IF k = e THEN table[Len(table)] ELSE table[k]]

\* The read returns 0.
Left ==
  /\ Ready /\ Len(table[i].buffer) < BufSize
  /\ Unread(table[i].fd) = <<>> /\ table[i].fd \in closed

\* A removal after which the loop moves on past the entry that has moved.
RemoveAndSkip ==
  /\ Left
  /\ gone' = gone \cup {table[i].fd}
  /\ table' = Without(i)
  /\ served' = served \cup {table[i].fd}
  /\ i' = i + 1
  /\ UNCHANGED <<backlog, sent, flown, taken, closed, typed, pc, new_fd, read_set, dest,
                 mailVars>>

\* remove_client, and the entry that has moved into the place is looked at
\* next.
RemoveClient ==
  /\ Left
  /\ gone' = gone \cup {table[i].fd}
  /\ table' = Without(i)
  /\ served' = served \cup {table[i].fd}
  /\ UNCHANGED <<backlog, sent, flown, taken, closed, typed, pc, new_fd, read_set, i,
                 dest, mailVars>>

NotReady ==
  /\ pc = "loop" /\ i \in DOMAIN table /\ table[i].fd \notin read_set
  /\ i' = i + 1
  /\ UNCHANGED <<netVars, table, pc, new_fd, read_set, dest, served, mailVars>>

\* Back to FD_ZERO.
EndOfRound ==
  /\ pc = "loop" /\ i \notin DOMAIN table /\ pc' = "select"
  /\ read_set' = {} /\ served' = {} /\ i' = 1
  /\ UNCHANGED <<netVars, table, new_fd, dest, mailVars>>

Server ==
  Select \/ Accept \/ AcceptFails \/ ReadName \/ NoName
  \/ BufferFull \/ ReadClient \/ Write \/ MessageDone \/ LinesDone
  \/ RemoveClient \/ NotReady \/ EndOfRound

Next ==
  \/ \E c \in Clients : \/ Connect(c) \/ SendName(c) \/ SendLine(c) \/ Transmit(c)
                        \/ Receive(c) \/ CloseSocket(c)
  \/ Server

\* The server runs, and so do the clients: they write their name, go on with a
\* write that is no longer blocked, and read what is written to them.
Fairness ==
  /\ WF_vars(Server)
  /\ \A c \in Clients : WF_vars(SendName(c)) /\ WF_vars(Transmit(c)) /\ WF_vars(Receive(c))

Spec == Init /\ [][Next]_vars /\ Fairness

-----------------------------------------------------------------------------
(* Correctness.                                                            *)

\* The table holds open connections, each once and never more than it has
\* room for; one that the server has closed is never used again.
TableOK ==
  /\ Len(table) <= MAX_CLIENTS
  /\ \A e, f \in DOMAIN table : table[e].fd = table[f].fd => e = f
  /\ Registered \cap (gone \cup {new_fd} \cup Range(backlog)) = {}
  /\ pc = "loop" => i \in 1..Len(table) + 1

\* However TCP cuts a stream, what the server reads after the name becomes
\* messages with no unit lost, repeated or moved, each one a line, or a whole
\* buffer of a longer line, and no line stays in a buffer (hw3server.c:189-220).
FramingExact ==
  \A e \in DOMAIN table :
    LET fd == table[e].fd
        buffer == table[e].buffer
    IN  /\ FlattenSeq(processed[fd]) \o buffer
             = SubSeq(sent[fd], start[fd] + 1, taken[fd])
        /\ Len(buffer) <= BufSize
        /\ HasLine(buffer) => e = i /\ pc \in {"lines", "dead"}
        /\ \A m \in Range(processed[fd]) :
             /\ Len(m) \in 1..BufSize
             /\ \A k \in 1..Len(m) - 1 : ~ m[k].end
             /\ m[Len(m)].end \/ Len(m) = BufSize

\* One round of the loop serves every client that select() found ready, also
\* when a client that leaves makes the last one of the table move.
RoundServesAll ==
  [][pc = "loop" /\ pc' = "select" => read_set \subseteq served]_vars

\* A private line that fits a buffer is written to nobody but a client of that
\* name, if the names of both came in a read of their own.
PrivateStaysPrivate ==
  \A c \in Clients : \A k \in DOMAIN inbox[c] :
    LET mail == inbox[c][k]
    IN  \A u \in DOMAIN mail.message :
          mail.message[u].to # All /\ mail.message[u].len <= BufSize
            /\ start[mail.from] = 1 /\ start[c] = 1
          => NameOf[c] = mail.message[u].to

\* The server is in a write to a client that does not read, because it is in a
\* write itself that waits for the server to read.
Jammed ==
  \E e \in DOMAIN table :
    LET c == table[e].fd
    IN  /\ WritesTo(e) /\ c \notin closed /\ Len(inbox[c]) >= OutRoom
        /\ Writing(c) /\ flown[c] >= taken[c] + InRoom

\* While the server lives and the client stays, every line it has written is
\* read, and the writes to those it is for return.  That takes clients that
\* run: one that does not write its name, or does not read, stops the server
\* for all.  Even clients that run can: the server and a client may wait in a
\* write for each other (hw3server.c:27, hw3client.c:107), and that is the only
\* way.
LinesProcessed ==
  []<>~Jammed =>
    \A c \in Clients : \A l \in 1..MaxTyped :
      (c \in Registered /\ \E k \in DOMAIN sent[c] : sent[c][k].line = l /\ k > start[c])
        ~> (pc = "dead" \/ c \in gone
            \/ \E m \in DOMAIN processed[c] : Last(processed[c][m]).line = l
                                              /\ Last(processed[c][m]).end)
=============================================================================
