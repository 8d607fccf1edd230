----------------------------- MODULE FileClient -----------------------------
(***************************************************************************)
(* The clients of the file server, and the two programs together.  A       *)
(* client sends a command, or a file of them one by one, and reads lines   *)
(* until one ends in '>'; it takes that for the end of the answer.         *)
(***************************************************************************)
EXTENDS FileServer

CONSTANTS
  Commands,      \* bound: for each client, what its first, second, ... command may be
  FileLengths    \* numbers of commands in the files the user names

ASSUME ConstantsAssumption ==
  /\ IsFiniteSet(Clients)
  /\ Commands \in [Clients -> Seq(SUBSET Kinds)]
  /\ FileLengths \subseteq Nat \ {0}

VARIABLES
  client, client_running,
  read_buffer,   \* lines received and not looked at
  sock_ready,    \* FD_ISSET(sock), as select left it
  asked,         \* number of commands sent
  left, file,    \* commands of the file yet to be sent; there is a file
  astray         \* history: a prompt was taken for the answer to the wrong command

readVars   == <<client, read_buffer, astray>>
inputVars  == <<client_running, sock_ready, asked, left, file>>
clientVars == <<readVars, inputVars>>
vars == <<mainVars, serverVars, wireVars, clientVars>>

Init ==
  /\ ServerInit
  /\ client = [c \in Clients |-> "start"]
  /\ client_running = [c \in Clients |-> TRUE]
  /\ read_buffer = [c \in Clients |-> <<>>]
  /\ sock_ready = [c \in Clients |-> FALSE]
  /\ asked = [c \in Clients |-> 0] /\ left = [c \in Clients |-> 0]
  /\ file = [c \in Clients |-> FALSE]
  /\ astray = [c \in Clients |-> FALSE]

-----------------------------------------------------------------------------
At(c, from) == client[c] = from
Goto(c, from, to) == At(c, from) /\ client' = [client EXCEPT ![c] = to]

\* close(sock), or the client was killed by SIGPIPE.
End(c, from) ==
  /\ Goto(c, from, "ended")
  /\ client_end' = [client_end EXCEPT ![c] = "closed"]

Connect(c) ==
  /\ ServerAlive /\ main \in {"select", "close"}
  /\ Goto(c, "start", "greeting")
  /\ client_end' = [client_end EXCEPT ![c] = "open"]
  /\ UNCHANGED <<mainVars, serverVars, up, down, read_buffer, astray, inputVars>>

sig_handler_client(c) ==
  /\ ~At(c, "ended") /\ client_running' = [client_running EXCEPT ![c] = FALSE]
  /\ UNCHANGED <<mainVars, serverVars, wireVars, readVars, sock_ready, asked, left, file>>

\* There is something for select to see.  It may still be under way.
Readable(c) == down[c] # <<>> \/ ServerClosed(c)

\* Mutation: the descriptor set is not looked at again.
Mut_AfterAnswer(c, n) == IF n > 0 /\ client_running[c] THEN "send" ELSE "extra"

\* Where the stdin branch goes on when n commands of a file are left.
AfterAnswer(c, n) ==
  IF n > 0 /\ client_running[c] THEN "send"
  ELSE IF sock_ready[c] THEN "extra" ELSE "select"

\* select reports a line typed, and perhaps the socket as well.  The line is a
\* command, or names a file of n.  An empty line, or a file that cannot be read, is
\* passed over.
TypeLine(c) ==
  /\ client_running[c] /\ asked[c] < Len(Commands[c])
  /\ \E ready \in {FALSE, Readable(c)}, n \in {0} \cup FileLengths :
       /\ sock_ready' = [sock_ready EXCEPT ![c] = ready]
       /\ left' = [left EXCEPT ![c] = IF n = 0 THEN 0 ELSE n - 1]
       /\ file' = [file EXCEPT ![c] = n > 0]
       /\ asked[c] + n <= Len(Commands[c])
  /\ Goto(c, "select", "send")
  /\ UNCHANGED <<mainVars, serverVars, wireVars, read_buffer, astray, client_running, asked>>

\* select reports the socket only.
Unasked(c) ==
  /\ client_running[c] /\ Readable(c)
  /\ sock_ready' = [sock_ready EXCEPT ![c] = TRUE]
  /\ file' = [file EXCEPT ![c] = FALSE]
  /\ Goto(c, "select", "extra")
  /\ UNCHANGED <<mainVars, serverVars, wireVars, read_buffer, astray, client_running, asked, left>>

\* The end of stdin, or select fails, or the loop ends after SIGINT.
Leave(c) ==
  /\ End(c, "select")
  /\ UNCHANGED <<mainVars, serverVars, up, down, read_buffer, astray, inputVars>>

\* To a server that closed the connection, the send is in vain or ends the client.
SendItem(c, item, from, to) ==
  \/ /\ Goto(c, from, to)
     /\ up' = [up EXCEPT ![c] = IF ServerClosed(c) THEN @ ELSE Append(@, item)]
     /\ UNCHANGED client_end
  \/ /\ ServerClosed(c) /\ End(c, from)
     /\ UNCHANGED up

\* send_cmd: the command ...
SendCommand(c) ==
  /\ At(c, "send")
  /\ \E k \in Commands[c][asked[c] + 1] : SendItem(c, [n |-> asked[c] + 1, kind |-> k], "send", "newline")
  /\ asked' = [asked EXCEPT ![c] = @ + 1]
  /\ UNCHANGED <<mainVars, serverVars, down, read_buffer, astray, client_running, sock_ready, left, file>>

\* ... and its newline.
SendNewline(c) ==
  /\ SendItem(c, Newline, "newline", IF client_running[c] THEN "await" ELSE AfterAnswer(c, 0))
  /\ UNCHANGED <<mainVars, serverVars, down, read_buffer, astray, inputVars>>

-----------------------------------------------------------------------------
(* handle_server_line.                                                     *)

\* read_line takes the next line of the buffer, and fills that by a recv when it is
\* empty.
read_line(c, line) ==
  \/ /\ read_buffer[c] # <<>>
     /\ line = Head(read_buffer[c])
     /\ read_buffer' = [read_buffer EXCEPT ![c] = Tail(@)]
     /\ UNCHANGED down
  \/ /\ read_buffer[c] = <<>> /\ down[c] # <<>>
     /\ line = Head(down[c])
     /\ \E n \in 1 .. Len(down[c]) :
          /\ read_buffer' = [read_buffer EXCEPT ![c] = SubSeq(down[c], 2, n)]
          /\ down' = [down EXCEPT ![c] = SubSeq(@, n + 1, Len(@))]

Lines(c) ==
  {read_buffer[c][i] : i \in DOMAIN read_buffer[c]} \cup {down[c][i] : i \in DOMAIN down[c]}

\* recv returns 0, or fails as the server did not read everything.
ReadEnds(c, from) ==
  /\ ServerClosed(c) /\ read_buffer[c] = <<>>
  /\ down[c] = <<>> \/ up[c] # <<>>
  /\ End(c, from)
  /\ UNCHANGED <<mainVars, serverVars, up, down, read_buffer, astray, inputVars>>

Bye(c, from) ==
  /\ \E line \in Lines(c) : line.kind = "bye" /\ read_line(c, line)
  /\ End(c, from)
  /\ UNCHANGED <<mainVars, serverVars, up, astray, inputVars>>

\* Lines before the first prompt.
Greeting(c) ==
  /\ \E line \in Lines(c) :
       /\ read_line(c, line)
       /\ \/ line.kind = "prompt" /\ Goto(c, "greeting", "select") /\ UNCHANGED client_end
          \/ line.kind = "text" /\ client_running[c] /\ Goto(c, "greeting", "greeting") /\ UNCHANGED client_end
          \/ line.kind = "text" /\ ~client_running[c] /\ End(c, "greeting")
  /\ UNCHANGED <<mainVars, serverVars, up, astray, inputVars>>

\* Lines after a command.
Await(c) ==
  /\ \E line \in Lines(c) :
       /\ read_line(c, line)
       /\ \/ /\ line.kind = "prompt"
             /\ Goto(c, "await", AfterAnswer(c, left[c]))
             /\ left' = [left EXCEPT ![c] = IF client_running[c] /\ @ > 0 THEN @ - 1 ELSE 0]
             /\ astray' = [astray EXCEPT ![c] = @ \/ line.of # asked[c]]
          \/ /\ line.kind = "text"
             /\ Goto(c, "await", IF client_running[c] THEN "await" ELSE AfterAnswer(c, 0))
             /\ UNCHANGED <<left, astray>>
  /\ UNCHANGED <<mainVars, serverVars, client_end, up, client_running, sock_ready, asked, file>>

\* One line at the end of the main loop, because select saw the socket: the rest of an
\* answer may have been read since.
Extra(c) ==
  /\ \E line \in Lines(c) : line.kind # "bye" /\ read_line(c, line)
  /\ Goto(c, "extra", "select")
  /\ UNCHANGED <<mainVars, serverVars, client_end, up, astray, inputVars>>

ReadStep(c) ==
  \/ Greeting(c) \/ Await(c) \/ Extra(c)
  \/ \E from \in {"greeting", "await", "extra"} : ReadEnds(c, from) \/ Bye(c, from)

\* What a client does by itself, and what its user and the outside make it do.
ClientStep(c) == SendCommand(c) \/ SendNewline(c) \/ ReadStep(c) \/ Unasked(c)

Client(c) == ClientStep(c) \/ Connect(c) \/ sig_handler_client(c) \/ TypeLine(c) \/ Leave(c)

Serve(A) == A /\ UNCHANGED clientVars

Next ==
  \/ Serve(Main)
  \/ \E c \in Clients : Serve(client_thread(c)) \/ Client(c)

Spec == Init /\ [][Next]_vars

\* Threads and clients run.  No key, signal or time-out has to come, no call has to
\* fail, and nobody has to connect.
FairSpec ==
  /\ Spec
  /\ WF_vars(Serve(MainStep))
  /\ \A c \in Clients : WF_vars(Serve(ThreadStep(c))) /\ WF_vars(ClientStep(c))

-----------------------------------------------------------------------------
\* The threads that have counted themselves and not uncounted.
Counted(c) == thread[c] \in {"greet", "prompt", "poll", "answer", "close", "closed"}

\* The count is that of the threads, although each of them counts itself; and while
\* main sleeps, with no signal under way, there is one that will send it.
NoLostWakeup ==
  /\ active_threads_count = Cardinality({c \in Clients : Counted(c)})
  /\ main = "asleep" => active_threads_count > 0

\* The prompt at which a client stops reading ends the answer to the command it has
\* just sent; unless its newline came by itself, or a line looked like a prompt.
InStep == \A c \in Clients : astray[c] => blurred[c]

\* The client reads for the sake of a descriptor set that is out of date, and the
\* server waits for a command.
Stuck(c) ==
  /\ At(c, "extra") /\ read_buffer[c] = <<>> /\ down[c] = <<>> /\ up[c] = <<>>
  /\ ServerAlive /\ thread[c] = "poll"

\* A client and its thread wait for each other only after a file of commands: a single
\* command leaves the client a line to read, whatever was taken for its answer.
OnlyFilesBlock == \A c \in Clients : Stuck(c) => file[c]

\* Whatever the cuts between the pieces of the stream: after a command the client gets
\* a prompt, or the connection ends.
AnswerComes == \A c \in Clients : At(c, "await") ~> ~At(c, "await")

\* Once told to stop, the server ends, whatever its clients do: neither the time-out of
\* the wait nor a wake-up for no reason is needed.
StopsAfterQ == ~server_running ~> ~ServerAlive
=============================================================================
