----------------------------- MODULE FileServer -----------------------------
(***************************************************************************)
(* The file server (lab 8): main accepts connections until it is told to   *)
(* stop, a detached thread serves each of them, and main waits for a count *)
(* of active threads before it leaves.  FileClient adds the clients.       *)
(*                                                                         *)
(* A connection is two streams.  up holds the numbers of a client's        *)
(* commands and the newlines it sends after them, down the lines of the    *)
(* server.  A recv takes any prefix of a stream: TCP keeps no boundaries.  *)
(* Listing and changing directories only decides what an answer says, and  *)
(* is left out.  No more is sent than the sockets buffer.                  *)
(***************************************************************************)
EXTENDS Integers, Sequences, FiniteSets

CONSTANTS
  Clients,       \* the clients that may connect, once each
  Faults         \* subset of {"accept", "thread", "recv"}: calls that may fail

VARIABLES
  server_running, active_threads_count,
  main,          \* position of main
  thread,        \* position of each client's thread
  job,           \* the command the thread works on: [n, kind]
  client_end,    \* the client's socket: "none", "open" or "closed"
  up, down,      \* the two streams
  blurred        \* history: the thread got a command and not its newline, or
                 \* answered one by a line that looks like a prompt

mainVars   == <<server_running, main>>
serverVars == <<active_threads_count, thread, job, blurred>>
wireVars   == <<client_end, up, down>>

\* What commands are answered by: a line; nothing, as CD; a line that ends in '>', as
\* ECHO of one; BYE.
Kinds == {"line", "silent", "lookalike", "quit"}

Newline == [n |-> 0, kind |-> "newline"]

\* A line of the server; of is the command that the thread was working on.
Line(kind, c) == [kind |-> kind, of |-> job[c].n]

ServerInit ==
  /\ server_running = TRUE /\ active_threads_count = 0
  /\ main = "select"
  /\ thread = [c \in Clients |-> "none"] /\ job = [c \in Clients |-> Newline]
  /\ client_end = [c \in Clients |-> "none"]
  /\ up = [c \in Clients |-> <<>>] /\ down = [c \in Clients |-> <<>>]
  /\ blurred = [c \in Clients |-> FALSE]

\* The process is there: not returned from main, not ended by SIGPIPE.
ServerAlive == main \notin {"exited", "killed"}

\* The server's end of a connection is closed, or was never accepted.
ServerClosed(c) ==
  \/ ~ServerAlive
  \/ thread[c] \in {"refused", "closed", "done"}
  \/ thread[c] = "none" /\ main \notin {"select", "close"}

-----------------------------------------------------------------------------
(* main.                                                                   *)

\* Back to the top of the main loop.
NextRound == main' = IF server_running THEN "select" ELSE "close"

\* A client is in the backlog; accept, malloc or pthread_create may fail.
Accept(c) ==
  /\ main = "select"
  /\ client_end[c] # "none" /\ thread[c] = "none"
  /\ \/ thread' = [thread EXCEPT ![c] = "start"]
     \/ "thread" \in Faults /\ thread' = [thread EXCEPT ![c] = "refused"]
     \/ "accept" \in Faults /\ UNCHANGED thread
  /\ NextRound
  /\ UNCHANGED <<server_running, active_threads_count, job, blurred, wireVars>>

\* Q, the end of stdin, or select fails; a signal does the same from outside.
Stop ==
  /\ main = "select" /\ server_running' = FALSE /\ main' = "close"
  /\ UNCHANGED <<serverVars, wireVars>>

sig_handler ==
  /\ ServerAlive /\ server_running' = FALSE
  /\ UNCHANGED <<main, serverVars, wireVars>>

\* select returns after a second, or because of the signal.
Timeout ==
  /\ main = "select" /\ ~server_running /\ NextRound
  /\ UNCHANGED <<server_running, serverVars, wireVars>>

\* close(listen_fd) and the wait loop: main holds the mutex from the look at the
\* count until it sleeps.
CloseListen ==
  /\ main = "close" /\ main' = "check"
  /\ UNCHANGED <<server_running, serverVars, wireVars>>

CheckCount ==
  /\ main = "check"
  /\ main' = IF active_threads_count > 0 THEN "asleep" ELSE "report"
  /\ UNCHANGED <<server_running, serverVars, wireVars>>

\* Woken, by a thread or by nobody.  As server_running is 0, the wait ends whatever
\* the count is.
WakeUp(from) ==
  /\ main = from
  /\ main' = IF server_running /\ active_threads_count > 0 THEN "asleep" ELSE "report"
  /\ UNCHANGED <<server_running, serverVars, wireVars>>

WaitTimesOut ==
  /\ main = "asleep" /\ main' = "report"
  /\ UNCHANGED <<server_running, serverVars, wireVars>>

\* "All client threads finished. Server gracefully stopped."
Report ==
  /\ main = "report" /\ main' = "exited"
  /\ UNCHANGED <<server_running, serverVars, wireVars>>

\* What main does by itself.  It may also wake up too early, and the wait is
\* limited to five seconds.
MainStep ==
  (\E c \in Clients : Accept(c)) \/ Timeout \/ CloseListen \/ CheckCount \/ WakeUp("woken") \/ Report

Early == WakeUp("asleep") \/ WaitTimesOut

Main == MainStep \/ Stop \/ sig_handler \/ Early

-----------------------------------------------------------------------------
(* client_thread.                                                          *)

AtThread(c, from) == ServerAlive /\ thread[c] = from
Move(c, from, to) == AtThread(c, from) /\ thread' = [thread EXCEPT ![c] = to]

Count(c) ==
  /\ Move(c, "start", "greet")
  /\ active_threads_count' = active_threads_count + 1
  /\ UNCHANGED <<mainVars, job, blurred, wireVars>>

\* sendall.  To a client that left, it returns early or raises SIGPIPE.
sendall(c, lines, from, to) ==
  \/ /\ client_end[c] = "open" /\ Move(c, from, to)
     /\ down' = [down EXCEPT ![c] = @ \o lines]
     /\ UNCHANGED main
  \/ /\ client_end[c] = "closed" /\ Move(c, from, to)
     /\ UNCHANGED <<main, down>>
  \/ /\ client_end[c] = "closed" /\ AtThread(c, from)
     /\ main' = "killed"
     /\ UNCHANGED <<thread, down>>

Unsent == UNCHANGED <<server_running, active_threads_count, job, blurred, client_end, up>>

\* Mutation: the greeting has a prompt of its own.
Mut_Greet(c) ==
  sendall(c, <<Line("text", c), Line("prompt", c)>>, "greet", "prompt") /\ Unsent

Greet(c) == sendall(c, <<Line("text", c)>>, "greet", "prompt") /\ Unsent

Prompt(c) ==
  /\ sendall(c, <<Line("prompt", c)>>, "prompt", IF server_running THEN "poll" ELSE "close")
  /\ Unsent

\* Mutation: recv without the poll.
Mut_Idle(c) == FALSE /\ UNCHANGED <<mainVars, serverVars, wireVars>>

\* No data within 100 ms, and the loop ends.
Idle(c) ==
  /\ up[c] = <<>> /\ client_end[c] = "open" /\ ~server_running
  /\ Move(c, "poll", "close")
  /\ UNCHANGED <<mainVars, active_threads_count, job, blurred, wireVars>>

\* Mutation: an empty line is not answered.
Mut_Recv(c) ==
  /\ \E n \in 1 .. Len(up[c]) :
       /\ up' = [up EXCEPT ![c] = SubSeq(@, n + 1, Len(@))]
       /\ IF Head(up[c]) = Newline
          THEN AtThread(c, "poll") /\ UNCHANGED <<thread, job, blurred>>
          ELSE /\ Move(c, "poll", "answer")
               /\ job' = [job EXCEPT ![c] = Head(up[c])]
               /\ blurred' = [blurred EXCEPT ![c] =
                                @ \/ n = 1 \/ Head(up[c]).kind = "lookalike"]
  /\ UNCHANGED <<mainVars, active_threads_count, client_end, down>>

\* One recv of n items: the buffer is cut at its first newline, and what comes after
\* that is forgotten.  An empty line is answered by a prompt.
Recv(c) ==
  /\ \E n \in 1 .. Len(up[c]) :
       /\ up' = [up EXCEPT ![c] = SubSeq(@, n + 1, Len(@))]
       /\ IF Head(up[c]) = Newline
          THEN Move(c, "poll", "prompt") /\ UNCHANGED <<job, blurred>>
          ELSE /\ Move(c, "poll", "answer")
               /\ job' = [job EXCEPT ![c] = Head(up[c])]
               /\ blurred' = [blurred EXCEPT ![c] =
                                @ \/ n = 1 \/ Head(up[c]).kind = "lookalike"]
  /\ UNCHANGED <<mainVars, active_threads_count, client_end, down>>

\* recv returns 0, or -1 after a reset.
RecvEnds(c) ==
  /\ client_end[c] = "closed"
  /\ Move(c, "poll", "close")
  /\ UNCHANGED <<mainVars, active_threads_count, job, blurred, wireVars>>

\* poll or recv fails although the client is there.
RecvFails(c) ==
  /\ "recv" \in Faults /\ client_end[c] = "open"
  /\ Move(c, "poll", "close")
  /\ UNCHANGED <<mainVars, active_threads_count, job, blurred, wireVars>>

Answer(c) ==
  /\ \/ job[c].kind = "line" /\ sendall(c, <<Line("text", c)>>, "answer", "prompt")
     \/ job[c].kind = "silent" /\ Move(c, "answer", "prompt") /\ UNCHANGED <<main, down>>
     \/ job[c].kind = "lookalike" /\ sendall(c, <<Line("prompt", c)>>, "answer", "prompt")
     \/ job[c].kind = "quit" /\ sendall(c, <<Line("bye", c)>>, "answer", "close")
  /\ Unsent

Close(c) ==
  /\ Move(c, "close", "closed")
  /\ UNCHANGED <<mainVars, active_threads_count, job, blurred, wireVars>>

\* Mutation: main is not signalled.
Mut_Finish(c) ==
  /\ Move(c, "closed", "done")
  /\ active_threads_count' = active_threads_count - 1
  /\ UNCHANGED <<mainVars, job, blurred, wireVars>>

\* The count and the signal, under the mutex.
Finish(c) ==
  /\ Move(c, "closed", "done")
  /\ active_threads_count' = active_threads_count - 1
  /\ main' = IF main = "asleep" THEN "woken" ELSE main
  /\ UNCHANGED <<server_running, job, blurred, wireVars>>

\* What a thread does by itself; no call has to fail.
ThreadStep(c) ==
  \/ Count(c) \/ Greet(c) \/ Prompt(c) \/ Idle(c) \/ Recv(c) \/ RecvEnds(c)
  \/ Answer(c) \/ Close(c) \/ Finish(c)

client_thread(c) == ThreadStep(c) \/ RecvFails(c)
=============================================================================
