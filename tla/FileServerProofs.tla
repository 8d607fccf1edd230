-------------------------- MODULE FileServerProofs --------------------------
(***************************************************************************)
(* What is proved of the file server and its clients, for every finite set *)
(* of clients, whatever they send and whatever fails.                      *)
(*                                                                         *)
(* The count.  A thread counts itself when it has started and uncounts     *)
(* itself when it is done, so the count is that of the threads in between. *)
(* Main sleeps only after it has seen the count above 0, and the step that *)
(* lowers the count also wakes it: the count cannot come down beside a     *)
(* sleeping main.                                                          *)
(*                                                                         *)
(* The conversation.  The lines that a client has not looked at are those  *)
(* of its buffer and those under way, and it does not matter where a recv  *)
(* cuts between the two.  The invariant TalkInv says which of them are     *)
(* prompts, by where the client and its thread are: how many there are at  *)
(* least (Supplied), for which nothing has to be assumed; and that there   *)
(* is none but the one that belongs to the last command (Orderly), as long *)
(* as every command came with its newline and no line looked like a        *)
(* prompt.                                                                 *)
(***************************************************************************)
EXTENDS FileClient, FiniteSetTheorems, SequenceTheorems, TLAPS

Working == {c \in Clients : Counted(c)}

ThreadPlaces ==
  {"none", "refused", "start", "greet", "prompt", "poll", "answer", "close", "closed", "done"}

ServerTypes ==
  /\ server_running \in BOOLEAN
  /\ main \in {"select", "close", "check", "asleep", "woken", "report", "exited", "killed"}
  /\ thread \in [Clients -> ThreadPlaces]

ServerInv ==
  /\ ServerTypes
  /\ active_threads_count = Cardinality(Working)
  /\ main = "asleep" => active_threads_count > 0

-----------------------------------------------------------------------------
LEMMA FiniteWorking == IsFiniteSet(Working) /\ Cardinality(Working) \in Nat
<1>1. Working \subseteq Clients
  BY DEF Working
<1> QED
  BY <1>1, ConstantsAssumption, FS_Subset, FS_CardinalityType DEF ConstantsAssumption

\* A thread that goes from one place to another inside the count, or outside it.
LEMMA SameCount ==
  ASSUME ServerInv, NEW c \in Clients, NEW to \in ThreadPlaces,
         thread' = [thread EXCEPT ![c] = to],
         (Counted(c))' <=> Counted(c),
         active_threads_count' = active_threads_count,
         server_running' = server_running, main' = main \/ main' = "killed"
  PROVE  ServerInv'
<1>1. thread' \in [Clients -> ThreadPlaces]
  BY DEF ServerInv, ServerTypes
<1>2. \A d \in Clients : (Counted(d))' <=> Counted(d)
  BY DEF ServerInv, ServerTypes, Counted
<1>3. Working' = Working
  BY <1>2 DEF Working
<1> QED
  BY <1>1, <1>3 DEF ServerInv, ServerTypes

\* Steps of no thread.
LEMMA NoThread ==
  ASSUME ServerInv, UNCHANGED <<thread, active_threads_count>>, server_running' \in BOOLEAN,
         main' \in {"select", "close", "check", "asleep", "woken", "report", "exited", "killed"},
         main' = "asleep" => active_threads_count > 0
  PROVE  ServerInv'
<1>1. Working' = Working
  BY DEF Working, Counted
<1> QED
  BY <1>1 DEF ServerInv, ServerTypes

LEMMA SendStep ==
  ASSUME ServerInv, NEW c \in Clients, NEW lines, NEW from \in ThreadPlaces, NEW to \in ThreadPlaces,
         from \in {"greet", "prompt", "answer"}, to \in {"prompt", "poll", "close"},
         sendall(c, lines, from, to), Unsent
  PROVE  ServerInv'
<1>1. /\ active_threads_count' = active_threads_count /\ server_running' = server_running
      /\ thread[c] = from
      /\ \/ thread' = [thread EXCEPT ![c] = to] /\ main' = main
         \/ thread' = thread /\ main' = "killed"
  BY DEF sendall, Unsent, Move, AtThread
<1>2. CASE thread' = [thread EXCEPT ![c] = to] /\ main' = main
  <2>1. Counted(c) /\ (Counted(c))'
    BY <1>1, <1>2 DEF Counted, ServerInv, ServerTypes
  <2> QED
    BY <1>1, <1>2, <2>1, SameCount
<1>3. CASE thread' = thread /\ main' = "killed"
  BY <1>1, <1>3, NoThread DEF ServerInv, ServerTypes
<1> QED
  BY <1>1, <1>2, <1>3

LEMMA ThreadServes ==
  ASSUME ServerInv, NEW c \in Clients, client_thread(c)
  PROVE  ServerInv'
<1>1. CASE Count(c)
  <2>1. /\ thread[c] = "start" /\ thread' = [thread EXCEPT ![c] = "greet"]
        /\ active_threads_count' = active_threads_count + 1 /\ UNCHANGED mainVars
    BY <1>1 DEF Count, Move, AtThread
  <2>2. thread' \in [Clients -> ThreadPlaces]
    BY <2>1 DEF ServerInv, ServerTypes, ThreadPlaces
  <2>3. Working' = Working \cup {c} /\ c \notin Working
    BY <2>1, <2>2 DEF Working, Counted, ServerInv, ServerTypes
  <2>4. Cardinality(Working') = Cardinality(Working) + 1
    BY <2>3, FiniteWorking, FS_AddElement
  <2> QED
    BY <2>1, <2>2, <2>4, FiniteWorking DEF ServerInv, ServerTypes, mainVars
<1>2. CASE Greet(c)
  BY <1>2, SendStep DEF Greet, ThreadPlaces
<1>3. CASE Prompt(c)
  <2>1. (IF server_running THEN "poll" ELSE "close") \in {"poll", "close"}
    OBVIOUS
  <2> QED
    BY <1>3, <2>1, SendStep DEF Prompt, ThreadPlaces
<1>4. CASE Idle(c) \/ RecvEnds(c) \/ RecvFails(c) \/ Close(c)
  <2>1. /\ thread[c] \in {"poll", "close"}
        /\ \E to \in {"close", "closed"} : thread' = [thread EXCEPT ![c] = to]
        /\ UNCHANGED <<mainVars, active_threads_count>>
    BY <1>4 DEF Idle, RecvEnds, RecvFails, Close, Move, AtThread
  <2>2. Counted(c) /\ (Counted(c))'
    BY <2>1 DEF Counted, ServerInv, ServerTypes
  <2> QED
    BY <2>1, <2>2, SameCount DEF mainVars, ThreadPlaces
<1>5. CASE Recv(c)
  <2>1. /\ thread[c] = "poll"
        /\ \E to \in {"prompt", "answer"} : thread' = [thread EXCEPT ![c] = to]
        /\ UNCHANGED <<mainVars, active_threads_count>>
    BY <1>5 DEF Recv, Move, AtThread
  <2>2. Counted(c) /\ (Counted(c))'
    BY <2>1 DEF Counted, ServerInv, ServerTypes
  <2> QED
    BY <2>1, <2>2, SameCount DEF mainVars, ThreadPlaces
<1>6. CASE Answer(c)
  <2>1. CASE Move(c, "answer", "prompt") /\ UNCHANGED <<main, down>>
    <3>1. /\ thread[c] = "answer" /\ thread' = [thread EXCEPT ![c] = "prompt"]
          /\ UNCHANGED <<main, server_running, active_threads_count>>
      BY <1>6, <2>1 DEF Move, AtThread, Answer, Unsent
    <3>2. Counted(c) /\ (Counted(c))'
      BY <3>1 DEF Counted, ServerInv, ServerTypes
    <3> QED
      BY <3>1, <3>2, SameCount DEF ThreadPlaces
  <2>2. CASE \E kind \in {"text", "prompt"} : sendall(c, <<Line(kind, c)>>, "answer", "prompt")
    BY <1>6, <2>2, SendStep DEF Answer, ThreadPlaces
  <2>3. CASE sendall(c, <<Line("bye", c)>>, "answer", "close")
    BY <1>6, <2>3, SendStep DEF Answer, ThreadPlaces
  <2> QED
    BY <1>6, <2>1, <2>2, <2>3 DEF Answer
<1>7. CASE Finish(c)
  <2>1. /\ thread[c] = "closed" /\ thread' = [thread EXCEPT ![c] = "done"]
        /\ active_threads_count' = active_threads_count - 1 /\ server_running' = server_running
        /\ main' = IF main = "asleep" THEN "woken" ELSE main
    BY <1>7 DEF Finish, Move, AtThread
  <2>2. thread' \in [Clients -> ThreadPlaces]
    BY <2>1 DEF ServerInv, ServerTypes, ThreadPlaces
  <2>3. Working' = Working \ {c} /\ c \in Working
    BY <2>1, <2>2 DEF Working, Counted, ServerInv, ServerTypes
  <2>4. Cardinality(Working') = Cardinality(Working) - 1
    BY <2>3, FiniteWorking, FS_RemoveElement
  <2> QED
    BY <2>1, <2>2, <2>4, FiniteWorking DEF ServerInv, ServerTypes
<1> QED
  BY <1>1, <1>2, <1>3, <1>4, <1>5, <1>6, <1>7 DEF client_thread, ThreadStep

LEMMA MainKeeps ==
  ASSUME ServerInv, Main
  PROVE  ServerInv'
<1>1. CASE \E c \in Clients : Accept(c)
  <2>1. PICK c \in Clients : Accept(c)
    BY <1>1
  <2>2. /\ thread[c] = "none" /\ UNCHANGED <<active_threads_count, server_running>>
        /\ thread' = thread \/ \E to \in {"start", "refused"} : thread' = [thread EXCEPT ![c] = to]
        /\ main' \in {"select", "close"}
    BY <2>1 DEF Accept, NextRound
  <2>3. thread' \in [Clients -> ThreadPlaces]
    BY <2>2 DEF ServerInv, ServerTypes, ThreadPlaces
  <2>4. \A d \in Clients : (Counted(d))' <=> Counted(d)
    BY <2>2, <2>3 DEF ServerInv, ServerTypes, Counted
  <2>5. Working' = Working
    BY <2>4 DEF Working
  <2> QED
    BY <2>2, <2>3, <2>5 DEF ServerInv, ServerTypes
<1>2. CASE Timeout \/ CloseListen \/ Report \/ Stop \/ sig_handler \/ WaitTimesOut
  <2>1. /\ UNCHANGED <<thread, active_threads_count>> /\ server_running' \in BOOLEAN
        /\ main' = main \/ main' \in {"select", "close", "check", "report", "exited"}
    BY <1>2 DEF Timeout, CloseListen, Report, Stop, sig_handler, WaitTimesOut, NextRound,
      serverVars, ServerInv, ServerTypes
  <2> QED
    BY <2>1, NoThread DEF ServerInv, ServerTypes
<1>3. CASE CheckCount \/ WakeUp("woken") \/ WakeUp("asleep")
  <2>1. /\ UNCHANGED <<thread, active_threads_count, server_running>>
        /\ main' = "report" \/ (main' = "asleep" /\ active_threads_count > 0)
    BY <1>3 DEF CheckCount, WakeUp, serverVars
  <2> QED
    BY <2>1, NoThread DEF ServerInv, ServerTypes
<1> QED
  BY <1>1, <1>2, <1>3 DEF Main, MainStep, Early

LEMMA ClientKeeps ==
  ASSUME ServerInv, NEW c \in Clients, Client(c)
  PROVE  ServerInv'
<1>1. UNCHANGED <<mainVars, serverVars>>
  BY DEF Client, ClientStep, Connect, sig_handler_client, TypeLine, Leave, SendCommand, SendNewline,
    ReadStep, Unasked, Greeting, Await, Extra, ReadEnds, Bye
<1> QED
  BY <1>1, NoThread DEF mainVars, serverVars, ServerInv, ServerTypes

LEMMA ServerInit0 == Init => ServerInv
<1> SUFFICES ASSUME Init PROVE ServerInv
  OBVIOUS
<1>1. Working = {}
  BY DEF Init, ServerInit, Working, Counted
<1> QED
  BY <1>1, FS_EmptySet DEF Init, ServerInit, ServerInv, ServerTypes, ThreadPlaces

LEMMA ServerStep ==
  ASSUME ServerInv, [Next]_vars
  PROVE  ServerInv'
<1>1. CASE Serve(Main)
  BY <1>1, MainKeeps DEF Serve
<1>2. CASE \E c \in Clients : Serve(client_thread(c))
  BY <1>2, ThreadServes DEF Serve
<1>3. CASE \E c \in Clients : Client(c)
  BY <1>3, ClientKeeps
<1>4. CASE UNCHANGED vars
  BY <1>4, NoThread DEF vars, mainVars, serverVars, ServerInv, ServerTypes
<1> QED
  BY <1>1, <1>2, <1>3, <1>4 DEF Next

LEMMA ServerCorrect == Spec => []ServerInv
<1>1. Init => ServerInv
  BY ServerInit0
<1>2. ServerInv /\ [Next]_vars => ServerInv'
  BY ServerStep
<1> QED
  BY <1>1, <1>2, PTL DEF Spec

\* The count is that of the threads that have counted themselves, for any number of
\* clients; and main sleeps only as long as one of them is still to signal it.
THEOREM NoWakeupLost == Spec => []NoLostWakeup
<1>1. ServerInv => NoLostWakeup
  BY DEF ServerInv, NoLostWakeup, Working
<1> QED
  BY <1>1, ServerCorrect, PTL
-----------------------------------------------------------------------------
(* The conversation of a client with its thread.                           *)

Places == {"start", "greeting", "select", "send", "newline", "await", "extra", "ended"}
Talking == {"select", "send", "newline", "await", "extra"}

Command == [n : Nat, kind : Kinds]
Item == Command \cup {Newline}
Text == [kind : {"text", "prompt", "bye"}, of : Nat]

\* The lines that were sent to a client and that it has not looked at.
Unread(c) == read_buffer[c] \o down[c]

TalkTypes ==
  /\ client \in [Clients -> Places] /\ client_running \in [Clients -> BOOLEAN]
  /\ read_buffer \in [Clients -> Seq(Text)] /\ down \in [Clients -> Seq(Text)]
  /\ up \in [Clients -> Seq(Item)] /\ job \in [Clients -> Item]
  /\ client_end \in [Clients -> {"none", "open", "closed"}]
  /\ sock_ready \in [Clients -> BOOLEAN] /\ file \in [Clients -> BOOLEAN]
  /\ asked \in [Clients -> Nat] /\ left \in [Clients -> Nat]
  /\ blurred \in [Clients -> BOOLEAN] /\ astray \in [Clients -> BOOLEAN]

\* The socket belongs to the client between connect and close, and there is nothing
\* to read before the thread has sent its greeting.
Sockets(c) ==
  /\ client[c] = "start" => client_end[c] = "none" /\ thread[c] = "none" /\ up[c] = <<>>
  /\ client[c] \notin {"start", "ended"} => client_end[c] = "open"
  /\ client[c] = "ended" => client_end[c] = "closed"
  /\ thread[c] \in {"none", "start", "greet"} /\ client[c] # "ended" => Unread(c) = <<>>
  /\ client[c] \in Talking => thread[c] \notin {"none", "start", "greet"}
  /\ thread[c] = "answer" => job[c] \in Command

\* What the client has still to send are commands.
Budget(c) ==
  /\ client[c] = "send" => asked[c] + left[c] < Len(Commands[c])
  /\ client[c] \in {"newline", "await"} => asked[c] + left[c] <= Len(Commands[c])

\* The thread will not read another command.
Doomed(c) == ~ServerAlive \/ thread[c] \in {"refused", "close", "closed", "done"}

\* The thread is before the prompt of an answer.
Busy(c) == thread[c] \in {"answer", "prompt"}

Prompted(lines) == \E i \in 1 .. Len(lines) : lines[i].kind = "prompt"
PromptLast(lines) == lines # <<>> => lines[Len(lines)].kind = "prompt"
Prompts2(lines) ==
  \E i, j \in 1 .. Len(lines) : i < j /\ lines[i].kind = "prompt" /\ lines[j].kind = "prompt"

\* After a text there is a prompt to come, unless the thread leaves.
Finished(c) == Doomed(c) \/ Busy(c) \/ PromptLast(Unread(c))

\* There is a prompt to come, from what the thread has taken already; or from what it
\* has not; or there are two.
Started1(c) == Doomed(c) \/ Busy(c) \/ Prompted(Unread(c))
Coming1(c) == Started1(c) \/ up[c] # <<>>
Coming2(c) ==
  \/ Doomed(c)
  \/ Busy(c) /\ up[c] # <<>>
  \/ Busy(c) /\ Prompted(Unread(c))
  \/ up[c] # <<>> /\ Prompted(Unread(c))
  \/ Prompts2(Unread(c))

\* A client whose descriptor set says that there was something to read before its only
\* command will find at least one prompt more than it waits for.
Supplied(c) ==
  /\ client[c] # "ended" => Finished(c)
  /\ client[c] \in {"send", "newline", "await"} /\ ~file[c] => left[c] = 0
  /\ client[c] = "send" /\ sock_ready[c] /\ ~file[c] => Started1(c)
  /\ client[c] \in {"newline", "await"} /\ sock_ready[c] /\ ~file[c] => Coming2(c)
  /\ client[c] = "extra" /\ ~file[c] => Coming1(c)

\* Where the thread is between two commands.
Between == {"poll", "close", "closed", "done"}

\* The thread will not read what is in the stream.
Over(c) == ~ServerAlive \/ thread[c] \in {"closed", "done"}

Quiet(c) == up[c] = <<>> /\ Unread(c) = <<>> /\ thread[c] \in Between

\* The only prompt is the last line, and belongs to command n.
OnlyLast(lines, n) ==
  \A i \in 1 .. Len(lines) : lines[i].kind = "prompt" => i = Len(lines) /\ lines[i].of = n

Asking(c) ==
  /\ Unread(c) = <<>> /\ thread[c] \in Between
  /\ Over(c) \/ \E k \in Kinds : up[c] = <<[n |-> asked[c], kind |-> k]>>

\* The command is under way; or the thread works on it; or it was answered.
Asked(c) ==
  /\ Unread(c) = <<>> /\ thread[c] \in Between
  /\ Over(c) \/ \E k \in Kinds : up[c] = <<[n |-> asked[c], kind |-> k], Newline>>
Answering(c) ==
  /\ up[c] = <<>> /\ thread[c] \in {"answer", "prompt"} /\ job[c].n = asked[c]
  /\ thread[c] = "answer" => job[c].kind # "lookalike"
  /\ ~Prompted(Unread(c))
Answered(c) ==
  up[c] = <<>> /\ thread[c] \in Between /\ OnlyLast(Unread(c), asked[c])

\* A conversation in which every command came with its newline: nobody is ahead.
Orderly(c) ==
  /\ ~astray[c]
  /\ client[c] = "greeting" =>
       /\ up[c] = <<>> /\ thread[c] # "answer"
       /\ OnlyLast(Unread(c), job[c].n)
       /\ Prompted(Unread(c)) => thread[c] \in Between
  /\ client[c] = "send" => Quiet(c)
  /\ client[c] \in {"select", "extra"} /\ client_running[c] => Quiet(c)
  /\ client[c] = "newline" => Asking(c)
  /\ client[c] = "await" => Asked(c) \/ Answering(c) \/ Answered(c)

Talk(c) == Sockets(c) /\ Budget(c) /\ Supplied(c) /\ (~blurred[c] => Orderly(c))

TalkInv ==
  /\ TalkTypes
  /\ \A c \in Clients : Talk(c)

-----------------------------------------------------------------------------
(* Sequences of lines.                                                     *)

LEMMA TailOfLines ==
  ASSUME NEW s \in Seq(Text), s # <<>>
  PROVE  /\ Head(s) \in Text /\ Tail(s) \in Seq(Text)
         /\ PromptLast(s) => PromptLast(Tail(s))
         /\ Prompts2(s) => Prompted(Tail(s))
         /\ Head(s).kind # "prompt" /\ Prompted(s) => Prompted(Tail(s))
         /\ Head(s).kind # "prompt" /\ Prompts2(s) => Prompts2(Tail(s))
         /\ Head(s).kind = "prompt" => Prompted(s)
         /\ Prompted(Tail(s)) => Prompted(s)
<1> DEFINE t == Tail(s)
<1>1. /\ Head(s) \in Text /\ t \in Seq(Text) /\ Len(s) \in Nat /\ Len(s) > 0
      /\ Len(t) = Len(s) - 1 /\ Head(s) = s[1] /\ Len(t) \in Nat
      /\ \A i \in 1 .. Len(t) : t[i] = s[i + 1]
  BY HeadTailProperties, EmptySeq, LenProperties
<1>2. \A i \in 1 .. Len(s) : i # 1 => i - 1 \in 1 .. Len(t) /\ t[i - 1] = s[i]
  BY <1>1
<1>3. t # <<>> => Len(t) \in 1 .. Len(t) /\ Len(t) + 1 = Len(s)
  BY <1>1, EmptySeq
<1> HIDE DEF t
<1>4. PromptLast(s) => PromptLast(t)
  BY <1>1, <1>3 DEF PromptLast
<1>5. Prompts2(s) => Prompted(t)
  BY <1>1, <1>2 DEF Prompts2, Prompted
<1>6. Head(s).kind # "prompt" /\ Prompted(s) => Prompted(t)
  BY <1>1, <1>2 DEF Prompted
<1>7. ASSUME Head(s).kind # "prompt", Prompts2(s)
      PROVE  Prompts2(t)
  <2>1. PICK i, j \in 1 .. Len(s) : i < j /\ s[i].kind = "prompt" /\ s[j].kind = "prompt"
    BY <1>7 DEF Prompts2
  <2>2. i # 1 /\ j # 1
    BY <1>1, <1>7, <2>1
  <2>3. i - 1 \in 1 .. Len(t) /\ j - 1 \in 1 .. Len(t) /\ i - 1 < j - 1
        /\ t[i - 1] = s[i] /\ t[j - 1] = s[j]
    BY <1>2, <2>1, <2>2
  <2> QED
    BY <2>1, <2>3 DEF Prompts2
<1>8. Head(s).kind = "prompt" => Prompted(s)
  BY <1>1 DEF Prompted
<1>9. Prompted(t) => Prompted(s)
  <2>1. \A i \in 1 .. Len(t) : i + 1 \in 1 .. Len(s)
    BY <1>1
  <2> QED
    BY <1>1, <2>1 DEF Prompted
<1> QED
  BY <1>1, <1>4, <1>5, <1>6, <1>7, <1>8, <1>9 DEF t

LEMMA LineAppended ==
  ASSUME NEW s \in Seq(Text), NEW line \in Text
  PROVE  /\ Append(s, line) \in Seq(Text) /\ Append(s, line) # <<>>
         /\ PromptLast(Append(s, line)) <=> line.kind = "prompt"
         /\ Prompted(s) => Prompted(Append(s, line))
         /\ Prompts2(s) => Prompts2(Append(s, line))
         /\ line.kind = "prompt" => Prompted(Append(s, line))
         /\ line.kind = "prompt" /\ Prompted(s) => Prompts2(Append(s, line))
         /\ line.kind # "prompt" /\ ~Prompted(s) => ~Prompted(Append(s, line))
         /\ ~Prompted(s) => OnlyLast(Append(s, line), line.of)
<1> DEFINE t == Append(s, line)
<1>1. /\ t \in Seq(Text) /\ t # <<>> /\ Len(s) \in Nat /\ Len(t) = Len(s) + 1
      /\ \A i \in 1 .. Len(s) : t[i] = s[i]
      /\ t[Len(s) + 1] = line
  BY AppendProperties, LenProperties
<1>2. \A i \in 1 .. Len(s) : i \in 1 .. Len(t) /\ i < Len(t)
  BY <1>1
<1>3. \A i \in 1 .. Len(t) : i \in 1 .. Len(s) \/ i = Len(t)
  BY <1>1
<1>4. Len(t) \in 1 .. Len(t) /\ t[Len(t)] = line
  BY <1>1
<1> HIDE DEF t
<1>5. PromptLast(t) <=> line.kind = "prompt"
  BY <1>1, <1>4 DEF PromptLast
<1>6. /\ Prompted(s) => Prompted(t)
      /\ line.kind = "prompt" => Prompted(t)
      /\ line.kind # "prompt" /\ ~Prompted(s) => ~Prompted(t)
  BY <1>1, <1>2, <1>3, <1>4 DEF Prompted
<1>7. ASSUME Prompts2(s) PROVE Prompts2(t)
  BY <1>1, <1>2, <1>7 DEF Prompts2
<1>8. ASSUME Prompted(s), line.kind = "prompt" PROVE Prompts2(t)
  BY <1>1, <1>2, <1>4, <1>8 DEF Prompts2, Prompted
<1>9. ASSUME ~Prompted(s) PROVE OnlyLast(t, line.of)
  BY <1>1, <1>3, <1>4, <1>9 DEF OnlyLast, Prompted
<1> QED
  BY <1>1, <1>5, <1>6, <1>7, <1>8, <1>9 DEF t

\* If the only prompt is the last line, nothing is left behind it.
LEMMA OnlyLastTail ==
  ASSUME NEW s \in Seq(Text), NEW n, s # <<>>, OnlyLast(s, n)
  PROVE  /\ OnlyLast(Tail(s), n)
         /\ Head(s).kind = "prompt" => Tail(s) = <<>> /\ Head(s).of = n
<1> DEFINE t == Tail(s)
<1>0. /\ t \in Seq(Text) /\ Len(s) \in Nat /\ Len(s) > 0 /\ Len(t) = Len(s) - 1 /\ Len(t) \in Nat
      /\ Head(s) = s[1] /\ \A i \in 1 .. Len(t) : t[i] = s[i + 1]
  BY HeadTailProperties, EmptySeq, LenProperties
<1> HIDE DEF t
<1>1. /\ t \in Seq(Text) /\ Len(s) \in Nat /\ Len(s) > 0 /\ Len(t) = Len(s) - 1 /\ Len(t) \in Nat
      /\ Head(s) = s[1] /\ \A i \in 1 .. Len(t) : t[i] = s[i + 1]
      /\ Len(t) = 0 => t = <<>>
  BY <1>0, EmptySeq
<1>2. OnlyLast(t, n)
  <2>1. ASSUME NEW i \in 1 .. Len(t), t[i].kind = "prompt"
        PROVE  i = Len(t) /\ t[i].of = n
    <3>1. i + 1 \in 1 .. Len(s) /\ s[i + 1] = t[i]
      BY <1>1, <2>1
    <3>2. i + 1 = Len(s) /\ s[i + 1].of = n
      BY <2>1, <3>1 DEF OnlyLast
    <3> QED
      BY <1>1, <3>1, <3>2
  <2> QED
    BY <2>1 DEF OnlyLast
<1>3. ASSUME Head(s).kind = "prompt"
      PROVE  t = <<>> /\ Head(s).of = n
  <2>1. 1 \in 1 .. Len(s)
    BY <1>1
  <2>2. 1 = Len(s) /\ s[1].of = n
    BY <1>1, <1>3, <2>1 DEF OnlyLast
  <2> QED
    BY <1>1, <2>2
<1> QED
  BY <1>2, <1>3 DEF t

LEMMA NoLines ==
  /\ PromptLast(<<>>) /\ ~Prompted(<<>>) /\ ~Prompts2(<<>>)
  /\ \A n : OnlyLast(<<>>, n)
<1>1. Len(<<>>) = 0
  OBVIOUS
<1> QED
  BY <1>1 DEF PromptLast, Prompted, Prompts2, OnlyLast

LEMMA HeadTailConcat ==
  ASSUME NEW s \in Seq(Text), NEW u \in Seq(Text), s # <<>>
  PROVE  s \o u # <<>> /\ Head(s \o u) = Head(s) /\ Tail(s \o u) = Tail(s) \o u
<1> DEFINE t == Tail(s)
           v == s \o u
           w == t \o u
           x == Tail(v)
<1>1. /\ t \in Seq(Text) /\ Len(s) \in Nat /\ Len(s) > 0 /\ Len(t) = Len(s) - 1 /\ Len(t) \in Nat
      /\ Len(u) \in Nat /\ Head(s) = s[1] /\ \A i \in 1 .. Len(t) : t[i] = s[i + 1]
  BY HeadTailProperties, EmptySeq, LenProperties
<1>2. /\ v \in Seq(Text) /\ Len(v) = Len(s) + Len(u)
      /\ \A i \in 1 .. Len(s) + Len(u) : v[i] = IF i <= Len(s) THEN s[i] ELSE u[i - Len(s)]
  BY ConcatProperties
<1> HIDE DEF t
<1>3. /\ w \in Seq(Text) /\ Len(w) = Len(t) + Len(u)
      /\ \A i \in 1 .. Len(t) + Len(u) : w[i] = IF i <= Len(t) THEN t[i] ELSE u[i - Len(t)]
  BY <1>1, ConcatProperties
<1> HIDE DEF v, w
<1>4. v # <<>>
  BY <1>1, <1>2, EmptySeq
<1>5. /\ x \in Seq(Text) /\ Len(x) = Len(v) - 1 /\ \A i \in 1 .. Len(x) : x[i] = v[i + 1]
      /\ Head(v) = v[1]
  BY <1>2, <1>4, HeadTailProperties
<1> HIDE DEF x
<1>6. Head(v) = Head(s)
  BY <1>1, <1>2, <1>5
<1>7. Len(x) = Len(w)
  BY <1>1, <1>2, <1>3, <1>5
<1>8. ASSUME NEW i \in 1 .. Len(x)
      PROVE  x[i] = w[i]
  <2>1. /\ i \in 1 .. Len(t) + Len(u) /\ i + 1 \in 1 .. Len(s) + Len(u)
        /\ i + 1 <= Len(s) <=> i <= Len(t)
        /\ i + 1 - Len(s) = i - Len(t)
    BY <1>1, <1>3, <1>7
  <2>2. x[i] = v[i + 1]
    BY <1>5
  <2>3. CASE i <= Len(t)
    BY <1>1, <1>2, <1>3, <2>1, <2>2, <2>3
  <2>4. CASE ~(i <= Len(t))
    BY <1>1, <1>2, <1>3, <2>1, <2>2, <2>4
  <2> QED
    BY <2>3, <2>4
<1>9. x = w
  BY <1>3, <1>5, <1>7, <1>8, SeqEqual
<1> QED
  BY <1>4, <1>6, <1>9 DEF t, v, w, x

\* read_line takes the first of the lines that were not looked at, wherever recv cuts.
LEMMA ReadLine ==
  ASSUME TalkTypes, NEW c \in Clients, NEW line, read_line(c, line)
  PROVE  /\ Unread(c) \in Seq(Text) /\ Unread(c) # <<>> /\ line = Head(Unread(c))
         /\ Unread(c)' = Tail(Unread(c))
         /\ read_buffer' \in [Clients -> Seq(Text)] /\ down' \in [Clients -> Seq(Text)]
         /\ \A d \in Clients \ {c} : read_buffer'[d] = read_buffer[d] /\ down'[d] = down[d]
<1>0. read_buffer \in [Clients -> Seq(Text)] /\ down \in [Clients -> Seq(Text)]
      /\ read_buffer[c] \in Seq(Text) /\ down[c] \in Seq(Text)
  BY DEF TalkTypes
<1>1. Unread(c) \in Seq(Text)
  BY <1>0, ConcatProperties DEF Unread
<1>2. ASSUME read_buffer[c] # <<>>, line = Head(read_buffer[c]),
             read_buffer' = [read_buffer EXCEPT ![c] = Tail(@)], UNCHANGED down
      PROVE  /\ Unread(c) # <<>> /\ line = Head(Unread(c))
             /\ Unread(c)' = Tail(Unread(c))
             /\ read_buffer' \in [Clients -> Seq(Text)] /\ down' \in [Clients -> Seq(Text)]
             /\ \A d \in Clients \ {c} : read_buffer'[d] = read_buffer[d] /\ down'[d] = down[d]
  <2>1. Tail(read_buffer[c]) \in Seq(Text)
    BY <1>0, <1>2, HeadTailProperties
  <2>2. Unread(c)' = Tail(read_buffer[c]) \o down[c]
    BY <1>0, <1>2 DEF Unread
  <2>3. /\ Unread(c) # <<>> /\ Head(Unread(c)) = Head(read_buffer[c])
        /\ Tail(Unread(c)) = Tail(read_buffer[c]) \o down[c]
    BY <1>0, <1>2, HeadTailConcat DEF Unread
  <2>4. /\ read_buffer' \in [Clients -> Seq(Text)] /\ down' \in [Clients -> Seq(Text)]
        /\ \A d \in Clients \ {c} : read_buffer'[d] = read_buffer[d] /\ down'[d] = down[d]
    BY <1>0, <1>2, <2>1
  <2> QED
    BY <1>2, <2>2, <2>3, <2>4
<1>3. ASSUME read_buffer[c] = <<>>, down[c] # <<>>, line = Head(down[c]), NEW n \in 1 .. Len(down[c]),
             read_buffer' = [read_buffer EXCEPT ![c] = SubSeq(down[c], 2, n)],
             down' = [down EXCEPT ![c] = SubSeq(@, n + 1, Len(@))]
      PROVE  /\ Unread(c) # <<>> /\ line = Head(Unread(c))
             /\ Unread(c)' = Tail(Unread(c))
             /\ read_buffer' \in [Clients -> Seq(Text)] /\ down' \in [Clients -> Seq(Text)]
             /\ \A d \in Clients \ {c} : read_buffer'[d] = read_buffer[d] /\ down'[d] = down[d]
  <2> DEFINE u == down[c]
  <2>1. Unread(c) = u
    BY <1>0, <1>3, ConcatEmptySeq DEF Unread
  <2>2. Len(u) \in Nat \ {0} /\ n \in 1 .. Len(u) /\ u \in Seq(Text) /\ u # <<>>
    BY <1>0, <1>3, EmptySeq
  <2>3. 2 \in 1 .. Len(u) + 1 /\ n \in 2 - 1 .. Len(u) /\ Len(u) \in n .. Len(u)
    BY <2>2
  <2>4. SubSeq(u, 2, n) \o SubSeq(u, n + 1, Len(u)) = SubSeq(u, 2, Len(u))
    BY <2>2, <2>3, ConcatAdjacentSubSeq
  <2>5. Tail(u) = SubSeq(u, 2, Len(u))
    BY <2>2, TailIsSubSeq
  <2>6. (\A i \in 2 .. n : u[i] \in Text) /\ (\A i \in n + 1 .. Len(u) : u[i] \in Text)
    BY <2>2, ElementOfSeq
  <2>7. SubSeq(u, 2, n) \in Seq(Text) /\ SubSeq(u, n + 1, Len(u)) \in Seq(Text)
    BY <2>2, <2>6, SubSeqProperties
  <2>8. Unread(c)' = SubSeq(u, 2, n) \o SubSeq(u, n + 1, Len(u))
    BY <1>0, <1>3 DEF Unread
  <2>9. /\ read_buffer' \in [Clients -> Seq(Text)] /\ down' \in [Clients -> Seq(Text)]
        /\ \A d \in Clients \ {c} : read_buffer'[d] = read_buffer[d] /\ down'[d] = down[d]
    BY <1>0, <1>3, <2>7
  <2> QED
    BY <1>3, <2>1, <2>2, <2>4, <2>5, <2>8, <2>9
<1> QED
  BY <1>1, <1>2, <1>3 DEF read_line

LEMMA AppendLater ==
  ASSUME NEW s \in Seq(Text), NEW u \in Seq(Text), NEW line \in Text
  PROVE  s \o (u \o <<line>>) = Append(s \o u, line)
<1> DEFINE e == <<line>>
<1>1. e \in Seq(Text) /\ s \o u \in Seq(Text)
  BY ConcatProperties
<1>2. Append(s \o u, line) = (s \o u) \o e
  BY <1>1, AppendIsConcat
<1> HIDE DEF e
<1>3. (s \o u) \o e = s \o (u \o e)
  BY <1>1, ConcatAssociative
<1> QED
  BY <1>2, <1>3 DEF e

\* A line that the thread sends comes after those that were not looked at.
LEMMA LineSent ==
  ASSUME TalkTypes, NEW c \in Clients, NEW line \in Text, UNCHANGED read_buffer,
         down' = [down EXCEPT ![c] = @ \o <<line>>]
  PROVE  /\ Unread(c) \in Seq(Text) /\ Unread(c)' = Append(Unread(c), line)
         /\ down' \in [Clients -> Seq(Text)]
<1>1. /\ read_buffer[c] \in Seq(Text) /\ down[c] \in Seq(Text) /\ <<line>> \in Seq(Text)
      /\ down \in [Clients -> Seq(Text)]
  BY DEF TalkTypes
<1>2. Unread(c) \in Seq(Text)
  BY <1>1, ConcatProperties DEF Unread
<1>3. down' \in [Clients -> Seq(Text)]
  BY <1>1, ConcatProperties
<1>4. Unread(c)' = read_buffer[c] \o (down[c] \o <<line>>)
  BY <1>1 DEF Unread
<1>5. read_buffer[c] \o (down[c] \o <<line>>) = Append(read_buffer[c] \o down[c], line)
  BY <1>1, AppendLater
<1> QED
  BY <1>2, <1>3, <1>4, <1>5 DEF Unread

-----------------------------------------------------------------------------
\* A step of others: nothing of client c changes, and the server may have ended.
Apart(c) ==
  /\ client'[c] = client[c] /\ client_running'[c] = client_running[c]
  /\ read_buffer'[c] = read_buffer[c] /\ down'[c] = down[c] /\ up'[c] = up[c]
  /\ job'[c] = job[c] /\ client_end'[c] = client_end[c] /\ sock_ready'[c] = sock_ready[c]
  /\ file'[c] = file[c] /\ asked'[c] = asked[c] /\ left'[c] = left[c]
  /\ blurred'[c] = blurred[c] /\ astray'[c] = astray[c] /\ thread'[c] = thread[c]
  /\ ServerAlive' => ServerAlive

LEMMA Others ==
  ASSUME NEW c \in Clients, Talk(c), Apart(c)
  PROVE  Talk(c)'
<1>1. Unread(c)' = Unread(c)
  BY DEF Apart, Unread
<1>2. Sockets(c)'
  BY <1>1 DEF Apart, Talk, Sockets
<1>3. Budget(c)'
  BY DEF Apart, Talk, Budget
<1>4. (Doomed(c) => Doomed(c)') /\ (Over(c) => Over(c)') /\ (Busy(c)' <=> Busy(c))
  BY DEF Apart, Doomed, Over, Busy
<1>5. Supplied(c)'
  BY <1>1, <1>4 DEF Apart, Talk, Supplied, Finished, Started1, Coming1, Coming2
<1>6. blurred[c]' = blurred[c] /\ (Orderly(c) => Orderly(c)')
  BY <1>1, <1>4 DEF Apart, Orderly, Quiet, Asking, Asked, Answering, Answered
<1> QED
  BY <1>2, <1>3, <1>5, <1>6 DEF Talk

-----------------------------------------------------------------------------
(* The steps of the threads.                                               *)

\* Who is at the other end, by where the thread is.
LEMMA Ends ==
  ASSUME TalkTypes, NEW c \in Clients, Talk(c)
  PROVE  /\ client_end[c] = "closed" <=> client[c] = "ended"
         /\ client_end[c] = "open" <=> client[c] \in {"greeting"} \cup Talking
         /\ client_end[c] = "none" <=> client[c] = "start"
BY DEF TalkTypes, Talk, Sockets, Places, Talking

\* Of a client that has left nothing is asked.
LEMMA EndedStays ==
  ASSUME NEW c \in Clients, Talk(c), client'[c] = "ended", client_end'[c] = "closed",
         astray'[c] = astray[c], blurred[c] => blurred'[c],
         thread'[c] = "answer" => job'[c] \in Command
  PROVE  Talk(c)'
<1>1. Sockets(c)'
  BY DEF Sockets, Talking
<1>2. Budget(c)'
  BY DEF Budget
<1>3. Supplied(c)'
  BY DEF Supplied
<1>4. ~blurred'[c] => Orderly(c)'
  <2>1. ~blurred'[c] => ~astray[c]
    BY Zenon DEF Talk, Orderly
  <2>2. ~blurred'[c] => ~astray'[c]
    BY <2>1
  <2> QED
    BY <2>2 DEF Orderly
<1> QED
  BY <1>1, <1>2, <1>3, <1>4 DEF Talk

\* What a step of the thread leaves of its client.
Untouched(c) ==
  /\ client'[c] = client[c] /\ client_running'[c] = client_running[c]
  /\ client_end'[c] = client_end[c] /\ sock_ready'[c] = sock_ready[c]
  /\ file'[c] = file[c] /\ asked'[c] = asked[c] /\ left'[c] = left[c] /\ astray'[c] = astray[c]

\* The thread starts, or goes on towards its end, and sends and takes nothing.
LEMMA ThreadMoves ==
  ASSUME TalkTypes, NEW c \in Clients, Talk(c), Untouched(c),
         up'[c] = up[c], Unread(c)' = Unread(c), job'[c] = job[c], blurred'[c] = blurred[c],
         \/ thread[c] = "start" /\ thread'[c] = "greet"
         \/ thread[c] = "poll" /\ thread'[c] = "close"
         \/ thread[c] = "close" /\ thread'[c] = "closed"
         \/ thread[c] = "closed" /\ thread'[c] = "done",
         ServerAlive' => ServerAlive
  PROVE  Talk(c)'
<1>1. Sockets(c)'
  BY DEF Talk, Sockets, Untouched, Talking
<1>2. Budget(c)'
  BY DEF Talk, Budget, Untouched
<1>3. (Doomed(c) => Doomed(c)') /\ (Over(c) => Over(c)') /\ ~Busy(c) /\ ~Busy(c)'
  BY DEF Doomed, Over, Busy
<1>4. Supplied(c)'
  BY <1>3 DEF Talk, Supplied, Finished, Started1, Coming1, Coming2, Untouched
<1>5. Orderly(c) => Orderly(c)'
  <2>1. (thread[c] \in Between => thread'[c] \in Between) /\ thread'[c] # "answer"
    BY DEF Between
  <2> QED
    BY <1>3, <2>1 DEF Orderly, Quiet, Asking, Asked, Answering, Answered, Untouched
<1> QED
  BY <1>1, <1>2, <1>4, <1>5 DEF Talk

LEMMA GreetTalk ==
  ASSUME TalkTypes, NEW c \in Clients, Talk(c), Untouched(c), client_end[c] = "open",
         thread[c] = "greet", thread'[c] = "prompt", up'[c] = up[c], job'[c] = job[c],
         blurred'[c] = blurred[c], NEW line \in Text, line.kind = "text",
         Unread(c) \in Seq(Text), Unread(c)' = Append(Unread(c), line)
  PROVE  Talk(c)'
<1>1. Unread(c) = <<>> /\ client[c] = "greeting"
  BY Ends DEF Talk, Sockets, Untouched, Talking
<1>2. ~Prompted(Unread(c))
  BY <1>1, NoLines
<1>3. ~Prompted(Unread(c)')
  BY <1>2, LineAppended
<1>4. \A n : OnlyLast(Unread(c)', n)
  BY <1>3 DEF OnlyLast, Prompted
<1>5. Sockets(c)'
  BY <1>1 DEF Talk, Sockets, Untouched, Talking
<1>6. Budget(c)'
  BY <1>1 DEF Talk, Budget, Untouched
<1>7. Supplied(c)'
  BY <1>1 DEF Talk, Supplied, Finished, Busy, Untouched
<1>8. Orderly(c) => Orderly(c)'
  BY <1>1, <1>3, <1>4 DEF Orderly, Untouched
<1> QED
  BY <1>5, <1>6, <1>7, <1>8 DEF Talk

\* The prompt after an answer, or after the greeting.
LEMMA PromptTalk ==
  ASSUME TalkTypes, NEW c \in Clients, Talk(c), Untouched(c), client_end[c] = "open",
         thread[c] = "prompt", thread'[c] \in {"poll", "close"}, ServerAlive,
         up'[c] = up[c], job'[c] = job[c], blurred'[c] = blurred[c],
         NEW line \in Text, line.kind = "prompt", line.of = job[c].n,
         Unread(c) \in Seq(Text), Unread(c)' = Append(Unread(c), line)
  PROVE  Talk(c)'
<1>1. client[c] \notin {"start", "ended"}
  BY Ends DEF Talking
<1>2. /\ PromptLast(Unread(c)') /\ Prompted(Unread(c)')
      /\ Prompts2(Unread(c)) => Prompts2(Unread(c)')
      /\ Prompted(Unread(c)) => Prompts2(Unread(c)')
      /\ ~Prompted(Unread(c)) => OnlyLast(Unread(c)', job[c].n)
  BY LineAppended
<1>3. Sockets(c)'
  BY <1>1 DEF Talk, Sockets, Untouched, Talking
<1>4. Budget(c)'
  BY DEF Talk, Budget, Untouched
<1>5. ~Doomed(c) /\ Busy(c)
  BY DEF Doomed, Busy
<1>6. Supplied(c)'
  BY <1>2, <1>5 DEF Talk, Supplied, Finished, Started1, Coming1, Coming2, Untouched
<1>7. Orderly(c) => Orderly(c)'
  <2>1. thread[c] \notin Between /\ thread'[c] \in Between
    BY DEF Between
  <2> QED
    BY <1>2, <2>1 DEF Orderly, Quiet, Asking, Asked, Answering, Answered, Untouched
<1> QED
  BY <1>3, <1>4, <1>6, <1>7 DEF Talk

LEMMA AnswerTalk ==
  ASSUME TalkTypes, NEW c \in Clients, Talk(c), Untouched(c),
         client_end[c] = "open" \/ job[c].kind = "silent",
         thread[c] = "answer", ServerAlive,
         up'[c] = up[c], job'[c] = job[c], blurred'[c] = blurred[c],
         Unread(c) \in Seq(Text), NEW line \in Text, line.of = job[c].n,
         \/ thread'[c] = "prompt" /\ job[c].kind = "silent" /\ Unread(c)' = Unread(c)
         \/ /\ thread'[c] = "prompt" /\ job[c].kind = "line" /\ line.kind = "text"
            /\ Unread(c)' = Append(Unread(c), line)
         \/ /\ thread'[c] = "prompt" /\ job[c].kind = "lookalike" /\ line.kind = "prompt"
            /\ Unread(c)' = Append(Unread(c), line)
         \/ /\ thread'[c] = "close" /\ job[c].kind = "quit" /\ line.kind = "bye"
            /\ Unread(c)' = Append(Unread(c), line)
  PROVE  Talk(c)'
<1>1. /\ Prompted(Unread(c)) => Prompted(Unread(c)')
      /\ Prompts2(Unread(c)) => Prompts2(Unread(c)')
      /\ job[c].kind # "lookalike" /\ ~Prompted(Unread(c)) => ~Prompted(Unread(c)')
      /\ job[c].kind # "silent" /\ ~Prompted(Unread(c)) => OnlyLast(Unread(c)', job[c].n)
  <2>1. CASE job[c].kind # "silent"
    <3>1. Unread(c)' = Append(Unread(c), line) /\ (job[c].kind # "lookalike" => line.kind # "prompt")
      BY <2>1
    <3> QED
      BY <2>1, <3>1, LineAppended
  <2>2. CASE job[c].kind = "silent"
    BY <2>2
  <2> QED
    BY <2>1, <2>2
<1>2. Sockets(c)'
  BY Ends DEF Talk, Sockets, Untouched, Talking
<1>3. Budget(c)'
  BY DEF Talk, Budget, Untouched
<1>4. ~Doomed(c) /\ Busy(c) /\ (Doomed(c)' \/ Busy(c)')
  BY DEF Doomed, Busy
<1>5. Supplied(c)'
  BY <1>1, <1>4 DEF Talk, Supplied, Finished, Started1, Coming1, Coming2, Untouched
<1>6. Orderly(c) => Orderly(c)'
  <2>1. thread[c] \notin Between /\ (thread'[c] \in Between <=> thread'[c] = "close")
    BY DEF Between
  <2> QED
    BY <1>1, <2>1 DEF Orderly, Quiet, Asking, Asked, Answering, Answered, Untouched
<1> QED
  BY <1>2, <1>3, <1>5, <1>6 DEF Talk

\* What a recv of n of the items takes and leaves.
Cut(s, n) ==
  /\ SubSeq(s, n + 1, Len(s)) \in Seq(Item) /\ Head(s) \in Item /\ s # <<>>
  /\ \A x : s = <<x>> => n = 1 /\ Head(s) = x
  /\ \A x, y : s = <<x, y>> /\ n # 1 => SubSeq(s, n + 1, Len(s)) = <<>> /\ Head(s) = x

LEMMA RestOfStream ==
  ASSUME NEW s \in Seq(Item), NEW n \in 1 .. Len(s)
  PROVE  Cut(s, n)
<1>1. Len(s) \in Nat /\ n \in Nat /\ n <= Len(s) /\ n >= 1
  BY LenProperties
<1>2. \A i \in n + 1 .. Len(s) : i \in 1 .. Len(s) /\ s[i] \in Item
  BY <1>1, ElementOfSeq
<1>3. SubSeq(s, n + 1, Len(s)) \in Seq(Item)
  BY <1>1, <1>2, SubSeqProperties
<1>4. s # <<>>
  BY <1>1, EmptySeq
<1>5. ASSUME NEW x, s = <<x>>
      PROVE  n = 1 /\ Head(s) = x
  <2>1. Len(s) = 1
    BY <1>5
  <2> QED
    BY <1>1, <1>5, <2>1
<1>6. ASSUME NEW x, NEW y, s = <<x, y>>, n # 1
      PROVE  SubSeq(s, n + 1, Len(s)) = <<>> /\ Head(s) = x
  <2>1. Len(s) = 2
    BY <1>6
  <2>2. n + 1 > Len(s)
    BY <1>1, <1>6, <2>1
  <2>3. SubSeq(s, n + 1, Len(s)) = <<>>
    BY <1>1, <2>2, SubSeqEmpty
  <2> QED
    BY <1>6, <2>3
<1> QED
  BY <1>3, <1>4, <1>5, <1>6, HeadTailProperties DEF Cut

\* What the thread takes, it takes at the head of the stream.
LEMMA RecvTalk ==
  ASSUME TalkTypes, thread \in [Clients -> ThreadPlaces], NEW c \in Clients, Talk(c),
         Untouched(c), Recv(c), Unread(c)' = Unread(c)
  PROVE  /\ Talk(c)'
         /\ up' \in [Clients -> Seq(Item)] /\ job' \in [Clients -> Item]
         /\ blurred' \in [Clients -> BOOLEAN]
<1>1. PICK n \in 1 .. Len(up[c]) :
        /\ up' = [up EXCEPT ![c] = SubSeq(@, n + 1, Len(@))]
        /\ IF Head(up[c]) = Newline
           THEN Move(c, "poll", "prompt") /\ UNCHANGED <<job, blurred>>
           ELSE /\ Move(c, "poll", "answer")
                /\ job' = [job EXCEPT ![c] = Head(up[c])]
                /\ blurred' = [blurred EXCEPT ![c] =
                                 @ \/ n = 1 \/ Head(up[c]).kind = "lookalike"]
  BY DEF Recv
<1>2. /\ up[c] \in Seq(Item) /\ up \in [Clients -> Seq(Item)] /\ job \in [Clients -> Item]
      /\ blurred \in [Clients -> BOOLEAN]
  BY DEF TalkTypes
<1>3. /\ SubSeq(up[c], n + 1, Len(up[c])) \in Seq(Item) /\ Head(up[c]) \in Item /\ up[c] # <<>>
      /\ \A x : up[c] = <<x>> => n = 1 /\ Head(up[c]) = x
      /\ \A x, y : up[c] = <<x, y>> /\ n # 1 =>
           SubSeq(up[c], n + 1, Len(up[c])) = <<>> /\ Head(up[c]) = x
  <2>1. Cut(up[c], n)
    BY <1>2, RestOfStream
  <2> QED
    BY <2>1 DEF Cut
<1>4. /\ up' \in [Clients -> Seq(Item)] /\ job' \in [Clients -> Item]
      /\ up'[c] = SubSeq(up[c], n + 1, Len(up[c]))
  BY <1>1, <1>2, <1>3
<1>5. blurred' \in [Clients -> BOOLEAN]
  BY <1>1, <1>2
<1>6. /\ ServerAlive /\ thread[c] = "poll"
      /\ \/ thread'[c] = "prompt" /\ job'[c] = job[c] /\ Head(up[c]) = Newline
         \/ thread'[c] = "answer" /\ job'[c] = Head(up[c]) /\ Head(up[c]) # Newline
  <2>1. CASE Head(up[c]) = Newline
    <3>1. Move(c, "poll", "prompt") /\ job' = job
      BY <1>1, <2>1, Zenon
    <3> QED
      BY <2>1, <3>1 DEF Move, AtThread
  <2>2. CASE Head(up[c]) # Newline
    <3>1. Move(c, "poll", "answer") /\ job' = [job EXCEPT ![c] = Head(up[c])]
      BY <1>1, <2>2, Zenon
    <3> QED
      BY <1>2, <2>2, <3>1 DEF Move, AtThread
  <2> QED
    BY <2>1, <2>2
<1>7. Busy(c)' /\ ~Busy(c) /\ ~Doomed(c)
  BY <1>6 DEF Busy, Doomed
<1>8. Sockets(c)'
  BY <1>3, <1>6, Ends DEF Talk, Sockets, Untouched, Talking, Item
<1>9. Budget(c)'
  BY DEF Talk, Budget, Untouched
<1>10. Prompts2(Unread(c)) => Prompted(Unread(c))
  BY DEF Prompts2, Prompted
<1>11. Supplied(c)'
  BY <1>7, <1>10 DEF Talk, Supplied, Finished, Started1, Coming1, Coming2, Untouched
<1>12. ASSUME ~blurred'[c]
       PROVE  Orderly(c)'
  <2>1. ~blurred[c] /\ (Head(up[c]) # Newline => n # 1 /\ Head(up[c]).kind # "lookalike")
    <3>1. CASE Head(up[c]) = Newline
      BY <1>1, <1>12, <3>1, Zenon
    <3>2. CASE Head(up[c]) # Newline
      <4>1. blurred' = [blurred EXCEPT ![c] = @ \/ n = 1 \/ Head(up[c]).kind = "lookalike"]
        BY <1>1, <3>2, Zenon
      <4>2. blurred'[c] = (blurred[c] \/ n = 1 \/ Head(up[c]).kind = "lookalike")
        BY <1>2, <4>1, Zenon
      <4> QED
        BY <1>12, <4>2, Zenon
    <3> QED
      BY <3>1, <3>2
  <2>2. Orderly(c)
    BY <2>1, Zenon DEF Talk
  <2>3. ~Over(c) /\ thread[c] = "poll"
    BY <1>6 DEF Over
  <2>4. ~astray'[c]
    BY <2>2, Zenon DEF Orderly, Untouched
  <2>5. client[c] \notin {"greeting", "send"}
        /\ ~(client[c] \in {"select", "extra"} /\ client_running[c])
    BY <1>3, <2>2 DEF Orderly, Quiet
  <2>6. client[c] # "newline"
    <3> SUFFICES ASSUME client[c] = "newline" PROVE FALSE
      OBVIOUS
    <3>1. PICK k \in Kinds : up[c] = <<[n |-> asked[c], kind |-> k]>>
      BY <2>2, <2>3 DEF Orderly, Asking
    <3>2. Head(up[c]) # Newline
      BY <1>3, <3>1 DEF Kinds, Newline
    <3> QED
      BY <1>3, <2>1, <3>1, <3>2
  <2>7. ASSUME client[c] = "await"
        PROVE  Answering(c)'
    <3>1. Asked(c)
      BY <1>3, <2>2, <2>7 DEF Orderly, Answering, Answered
    <3>2. PICK k \in Kinds : up[c] = <<[n |-> asked[c], kind |-> k], Newline>>
      BY <2>3, <3>1 DEF Asked
    <3>3. Head(up[c]) = [n |-> asked[c], kind |-> k]
      BY <3>2
    <3>4. Head(up[c]) # Newline
      BY <3>3 DEF Kinds, Newline
    <3>5. thread'[c] = "answer" /\ job'[c] = [n |-> asked[c], kind |-> k]
      BY <1>6, <3>3, <3>4
    <3>7. up'[c] = <<>>
      BY <1>3, <1>4, <2>1, <3>2, <3>4
    <3>8. k # "lookalike"
      BY <2>1, <3>3, <3>4
    <3>6. ~Prompted(Unread(c)')
      BY <3>1, NoLines DEF Asked
    <3> QED
      BY <3>5, <3>6, <3>7, <3>8 DEF Answering, Untouched
  <2> QED
    BY <2>4, <2>5, <2>6, <2>7 DEF Orderly, Untouched
<1> QED
  BY <1>4, <1>5, <1>8, <1>9, <1>11, <1>12 DEF Talk

\* Only client c and its thread take part in a step.
Single(c) == \A d \in Clients \ {c} : Apart(d)

LEMMA Gather ==
  ASSUME TalkInv, NEW c \in Clients, Single(c), Talk(c)', TalkTypes'
  PROVE  TalkInv'
<1>1. ASSUME NEW d \in Clients
      PROVE  Talk(d)'
  <2>1. CASE d = c
    BY <2>1
  <2>2. CASE d # c
    BY <2>2, Others DEF TalkInv, Single
  <2> QED
    BY <2>1, <2>2
<1> QED
  BY <1>1 DEF TalkInv

\* What clients have for themselves keeps its type in a step of the server.
LEMMA ClientTypes ==
  ASSUME TalkTypes, UNCHANGED clientVars, client_end' = client_end,
         up' \in [Clients -> Seq(Item)], down' \in [Clients -> Seq(Text)],
         job' \in [Clients -> Item], blurred' \in [Clients -> BOOLEAN]
  PROVE  TalkTypes' /\ \A d \in Clients : Untouched(d)
<1>1. UNCHANGED <<client, client_running, read_buffer, sock_ready, file, asked, left, astray>>
  BY DEF clientVars, readVars, inputVars
<1> QED
  BY <1>1 DEF TalkTypes, Untouched

\* Move without a word.
LEMMA SilentMove ==
  ASSUME TalkInv, thread \in [Clients -> ThreadPlaces], NEW c \in Clients,
         NEW from, NEW to, Move(c, from, to),
         UNCHANGED <<job, blurred, wireVars, clientVars>>
  PROVE  /\ Single(c) /\ TalkTypes' /\ Untouched(c) /\ ServerAlive
         /\ thread[c] = from /\ thread'[c] = to
         /\ up'[c] = up[c] /\ Unread(c)' = Unread(c) /\ Unread(c) \in Seq(Text)
         /\ job'[c] = job[c] /\ blurred'[c] = blurred[c]
<1>1. UNCHANGED <<job, blurred, client_end, up, down, read_buffer>>
  BY DEF wireVars, clientVars, readVars
<1>2. TalkTypes' /\ \A d \in Clients : Untouched(d)
  BY <1>1, ClientTypes DEF TalkInv, TalkTypes
<1>3. /\ ServerAlive /\ thread[c] = from /\ thread'[c] = to
      /\ \A d \in Clients \ {c} : thread'[d] = thread[d]
  BY DEF Move, AtThread
<1>4. Single(c)
  BY <1>1, <1>2, <1>3 DEF Single, Apart, Untouched
<1>5. Unread(c)' = Unread(c)
  BY <1>1 DEF Unread
<1>6. Unread(c) \in Seq(Text)
  BY ConcatProperties DEF Unread, TalkInv, TalkTypes
<1> QED
  BY <1>1, <1>2, <1>3, <1>4, <1>5, <1>6

\* A send reaches the client; or the client has left, and that may end the server.
LEMMA SendTalk ==
  ASSUME TalkInv, thread \in [Clients -> ThreadPlaces], NEW c \in Clients,
         NEW line \in Text, NEW from, NEW to, to # "answer",
         sendall(c, <<line>>, from, to), Unsent, UNCHANGED clientVars
  PROVE  /\ Single(c) /\ TalkTypes'
         /\ \/ Talk(c)'
            \/ /\ Untouched(c) /\ ServerAlive /\ client_end[c] = "open"
               /\ thread[c] = from /\ thread'[c] = to
               /\ up'[c] = up[c] /\ job'[c] = job[c] /\ blurred'[c] = blurred[c]
               /\ Unread(c) \in Seq(Text) /\ Unread(c)' = Append(Unread(c), line)
<1>1. UNCHANGED <<server_running, job, blurred, client_end, up, read_buffer, astray, client>>
  BY DEF Unsent, clientVars, readVars
<1>2. /\ TalkTypes /\ Talk(c) /\ up \in [Clients -> Seq(Item)] /\ down \in [Clients -> Seq(Text)]
      /\ job \in [Clients -> Item] /\ blurred \in [Clients -> BOOLEAN]
  BY DEF TalkInv, TalkTypes
<1>3. CASE /\ client_end[c] = "open" /\ Move(c, from, to)
           /\ down' = [down EXCEPT ![c] = @ \o <<line>>]
           /\ UNCHANGED main
  <2>1. /\ Unread(c) \in Seq(Text) /\ Unread(c)' = Append(Unread(c), line)
        /\ down' \in [Clients -> Seq(Text)]
    BY <1>1, <1>2, <1>3, LineSent
  <2>2. TalkTypes' /\ \A d \in Clients : Untouched(d)
    BY <1>1, <1>2, <2>1, ClientTypes
  <2>3. /\ ServerAlive /\ thread[c] = from /\ thread'[c] = to
        /\ \A d \in Clients \ {c} : thread'[d] = thread[d] /\ down'[d] = down[d]
    BY <1>2, <1>3 DEF Move, AtThread
  <2>4. Single(c)
    BY <1>1, <2>2, <2>3 DEF Single, Apart, Untouched
  <2> QED
    BY <1>1, <1>3, <2>1, <2>2, <2>3, <2>4
<1>4. CASE client_end[c] = "closed" /\ Move(c, from, to) /\ UNCHANGED <<main, down>>
  <2>1. TalkTypes' /\ \A d \in Clients : Untouched(d)
    BY <1>1, <1>2, <1>4, ClientTypes
  <2>2. /\ ServerAlive /\ thread[c] = from /\ thread'[c] = to
        /\ \A d \in Clients \ {c} : thread'[d] = thread[d]
    BY <1>4 DEF Move, AtThread
  <2>3. Single(c)
    BY <1>1, <1>4, <2>1, <2>2 DEF Single, Apart, Untouched
  <2>4. client'[c] = "ended" /\ client_end'[c] = "closed" /\ astray'[c] = astray[c]
        /\ (blurred[c] => blurred'[c])
    BY <1>1, <1>2, <1>4, Ends
  <2>5. Talk(c)'
    BY <1>2, <2>2, <2>4, EndedStays
  <2> QED
    BY <2>1, <2>3, <2>5
<1>5. CASE AtThread(c, from) /\ main' = "killed" /\ UNCHANGED <<thread, down>>
  <2>1. TalkTypes' /\ \A d \in Clients : Untouched(d)
    BY <1>1, <1>2, <1>5, ClientTypes
  <2>2. \A d \in Clients : Apart(d)
    BY <1>1, <1>5, <2>1 DEF Apart, Untouched, ServerAlive
  <2> QED
    BY <1>2, <2>1, <2>2, Others DEF Single
<1> QED
  BY <1>3, <1>4, <1>5 DEF sendall

LEMMA LineIsText ==
  ASSUME TalkInv, NEW c \in Clients, NEW kind \in {"text", "prompt", "bye"}
  PROVE  Line(kind, c) \in Text /\ Line(kind, c).kind = kind /\ Line(kind, c).of = job[c].n
<1>1. job[c].n \in Nat
  BY DEF TalkInv, TalkTypes, Item, Command, Newline
<1> QED
  BY <1>1 DEF Line, Text

\* The whole loop of a thread.
LEMMA ThreadTalk ==
  ASSUME TalkInv, thread \in [Clients -> ThreadPlaces], NEW c \in Clients,
         client_thread(c), UNCHANGED clientVars
  PROVE  TalkInv'
<1>0. TalkTypes /\ Talk(c)
  BY DEF TalkInv
<1>1. CASE Count(c) \/ Idle(c) \/ RecvEnds(c) \/ RecvFails(c) \/ Close(c) \/ Finish(c)
  <2>1. PICK from, to \in ThreadPlaces :
          /\ Move(c, from, to) /\ UNCHANGED <<job, blurred, wireVars>>
          /\ \/ from = "start" /\ to = "greet"
             \/ from = "poll" /\ to = "close"
             \/ from = "close" /\ to = "closed"
             \/ from = "closed" /\ to = "done"
    BY <1>1 DEF Count, Idle, RecvEnds, RecvFails, Close, Finish, ThreadPlaces
  <2>2. /\ Single(c) /\ TalkTypes' /\ Untouched(c) /\ ServerAlive
        /\ thread[c] = from /\ thread'[c] = to
        /\ up'[c] = up[c] /\ Unread(c)' = Unread(c)
        /\ job'[c] = job[c] /\ blurred'[c] = blurred[c]
    BY <2>1, SilentMove
  <2>3. Talk(c)'
    BY <1>0, <2>1, <2>2, ThreadMoves
  <2> QED
    BY <2>2, <2>3, Gather
<1>2. CASE Greet(c)
  <2> DEFINE line == Line("text", c)
  <2>1. line \in Text /\ line.kind = "text"
    BY LineIsText
  <2>2. sendall(c, <<line>>, "greet", "prompt") /\ Unsent
    BY <1>2 DEF Greet
  <2> HIDE DEF line
  <2>3. /\ Single(c) /\ TalkTypes'
        /\ \/ Talk(c)'
           \/ /\ Untouched(c) /\ ServerAlive /\ client_end[c] = "open"
              /\ thread[c] = "greet" /\ thread'[c] = "prompt"
              /\ up'[c] = up[c] /\ job'[c] = job[c] /\ blurred'[c] = blurred[c]
              /\ Unread(c) \in Seq(Text) /\ Unread(c)' = Append(Unread(c), line)
    BY <2>1, <2>2, SendTalk
  <2>4. Talk(c)'
    BY <1>0, <2>1, <2>3, GreetTalk
  <2> QED
    BY <2>3, <2>4, Gather
<1>3. CASE Prompt(c)
  <2> DEFINE line == Line("prompt", c)
  <2>1. line \in Text /\ line.kind = "prompt" /\ line.of = job[c].n
    BY LineIsText
  <2>2. PICK to \in {"poll", "close"} : sendall(c, <<line>>, "prompt", to) /\ Unsent
    BY <1>3 DEF Prompt
  <2> HIDE DEF line
  <2>3. /\ Single(c) /\ TalkTypes'
        /\ \/ Talk(c)'
           \/ /\ Untouched(c) /\ ServerAlive /\ client_end[c] = "open"
              /\ thread[c] = "prompt" /\ thread'[c] = to
              /\ up'[c] = up[c] /\ job'[c] = job[c] /\ blurred'[c] = blurred[c]
              /\ Unread(c) \in Seq(Text) /\ Unread(c)' = Append(Unread(c), line)
    BY <2>1, <2>2, SendTalk
  <2>4. Talk(c)'
    BY <1>0, <2>1, <2>2, <2>3, PromptTalk
  <2> QED
    BY <2>3, <2>4, Gather
<1>4. CASE Recv(c)
  <2>1. /\ client_end' = client_end /\ down' = down /\ UNCHANGED mainVars
        /\ client' = client /\ read_buffer' = read_buffer /\ astray' = astray
        /\ UNCHANGED inputVars
    BY <1>4 DEF Recv, clientVars, readVars
  <2>2. Unread(c)' = Unread(c)
    BY <2>1 DEF Unread
  <2>3. Untouched(c)
    BY <2>1 DEF Untouched, inputVars
  <2>4. /\ Talk(c)'
        /\ up' \in [Clients -> Seq(Item)] /\ job' \in [Clients -> Item]
        /\ blurred' \in [Clients -> BOOLEAN]
    BY <1>0, <1>4, <2>2, <2>3, RecvTalk
  <2>5. TalkTypes' /\ \A d \in Clients : Untouched(d)
    BY <1>0, <2>1, <2>4, ClientTypes DEF TalkTypes
  <2>6. ServerAlive' => ServerAlive
    BY <2>1 DEF ServerAlive, mainVars
  <2>7. \A d \in Clients \ {c} : /\ up'[d] = up[d] /\ job'[d] = job[d] /\ thread'[d] = thread[d]
                                 /\ blurred'[d] = blurred[d]
    <3>1. ASSUME NEW d \in Clients \ {c}
          PROVE  up'[d] = up[d]
      BY <1>0, <1>4 DEF Recv, TalkTypes
    <3>2. ASSUME NEW d \in Clients \ {c}
          PROVE  job'[d] = job[d] /\ thread'[d] = thread[d] /\ blurred'[d] = blurred[d]
      <4>1. CASE Head(up[c]) = Newline
        <5>1. Move(c, "poll", "prompt") /\ UNCHANGED <<job, blurred>>
          BY <1>4, <4>1, Zenon DEF Recv
        <5> QED
          BY <5>1 DEF Move
      <4>2. CASE Head(up[c]) # Newline
        <5>1. PICK n \in 1 .. Len(up[c]) :
                /\ Move(c, "poll", "answer")
                /\ job' = [job EXCEPT ![c] = Head(up[c])]
                /\ blurred' = [blurred EXCEPT ![c] =
                                 @ \/ n = 1 \/ Head(up[c]).kind = "lookalike"]
          BY <1>4, <4>2, Zenon DEF Recv
        <5>2. blurred'[d] = blurred[d]
          BY <1>0, <5>1 DEF TalkTypes
        <5> QED
          BY <1>0, <5>1, <5>2 DEF Move, TalkTypes
      <4> QED
        BY <4>1, <4>2
    <3> QED
      BY <3>1, <3>2
  <2>8. Single(c)
    BY <2>1, <2>5, <2>6, <2>7 DEF Single, Apart, Untouched
  <2> QED
    BY <2>4, <2>5, <2>8, Gather
<1>5. CASE Answer(c)
  <2>1. CASE job[c].kind = "silent" /\ Move(c, "answer", "prompt") /\ UNCHANGED <<main, down>>
    <3>1. UNCHANGED <<job, blurred, wireVars>>
      BY <1>5, <2>1 DEF Answer, Unsent, wireVars
    <3>2. /\ Single(c) /\ TalkTypes' /\ Untouched(c) /\ ServerAlive
          /\ thread[c] = "answer" /\ thread'[c] = "prompt"
          /\ up'[c] = up[c] /\ Unread(c)' = Unread(c) /\ Unread(c) \in Seq(Text)
          /\ job'[c] = job[c] /\ blurred'[c] = blurred[c]
      BY <2>1, <3>1, SilentMove
    <3>3. PICK line \in Text : line.of = job[c].n
      BY LineIsText
    <3>4. Talk(c)'
      BY <1>0, <2>1, <3>2, <3>3, AnswerTalk
    <3> QED
      BY <3>2, <3>4, Gather
  <2>2. CASE ~(job[c].kind = "silent" /\ Move(c, "answer", "prompt") /\ UNCHANGED <<main, down>>)
    <3>1. PICK line \in Text, to \in {"prompt", "close"} :
            /\ sendall(c, <<line>>, "answer", to) /\ line.of = job[c].n
            /\ \/ job[c].kind = "line" /\ line.kind = "text" /\ to = "prompt"
               \/ job[c].kind = "lookalike" /\ line.kind = "prompt" /\ to = "prompt"
               \/ job[c].kind = "quit" /\ line.kind = "bye" /\ to = "close"
      <4>1. CASE job[c].kind = "line" /\ sendall(c, <<Line("text", c)>>, "answer", "prompt")
        BY <4>1, LineIsText
      <4>2. CASE job[c].kind = "lookalike" /\ sendall(c, <<Line("prompt", c)>>, "answer", "prompt")
        BY <4>2, LineIsText
      <4>3. CASE job[c].kind = "quit" /\ sendall(c, <<Line("bye", c)>>, "answer", "close")
        BY <4>3, LineIsText
      <4> QED
        BY <1>5, <2>2, <4>1, <4>2, <4>3 DEF Answer
    <3>2. Unsent
      BY <1>5 DEF Answer
    <3>3. /\ Single(c) /\ TalkTypes'
          /\ \/ Talk(c)'
             \/ /\ Untouched(c) /\ ServerAlive /\ client_end[c] = "open"
                /\ thread[c] = "answer" /\ thread'[c] = to
                /\ up'[c] = up[c] /\ job'[c] = job[c] /\ blurred'[c] = blurred[c]
                /\ Unread(c) \in Seq(Text) /\ Unread(c)' = Append(Unread(c), line)
      BY <3>1, <3>2, SendTalk
    <3>4. Talk(c)'
      BY <1>0, <3>1, <3>3, AnswerTalk
    <3> QED
      BY <3>3, <3>4, Gather
  <2> QED
    BY <2>1, <2>2
<1> QED
  BY <1>1, <1>2, <1>3, <1>4, <1>5 DEF client_thread, ThreadStep

-----------------------------------------------------------------------------
\* Main only takes a client out of the backlog, and may leave.
LEMMA MainTalk ==
  ASSUME TalkInv, thread \in [Clients -> ThreadPlaces], Main, UNCHANGED clientVars
  PROVE  TalkInv'
<1>1. UNCHANGED <<job, blurred, client_end, up, down, read_buffer>>
  BY DEF Main, MainStep, Early, Accept, Timeout, CloseListen, CheckCount, WakeUp, WaitTimesOut, Report,
    Stop, sig_handler, serverVars, wireVars, clientVars, readVars
<1>2. TalkTypes' /\ \A d \in Clients : Untouched(d) /\ Unread(d)' = Unread(d)
  BY <1>1, ClientTypes DEF TalkInv, TalkTypes, Unread
<1>3. ServerAlive' => ServerAlive
  BY DEF Main, MainStep, Early, Accept, Timeout, CloseListen, CheckCount, WakeUp, WaitTimesOut, Report,
    Stop, sig_handler, ServerAlive
<1>4. CASE \E c \in Clients : Accept(c)
  <2>1. PICK c \in Clients : Accept(c)
    BY <1>4
  <2>2. /\ client_end[c] # "none" /\ thread[c] = "none"
        /\ thread'[c] \in {"none", "start", "refused"}
        /\ \A d \in Clients \ {c} : thread'[d] = thread[d]
    BY <2>1 DEF Accept
  <2>3. Single(c)
    BY <1>1, <1>2, <1>3, <2>2 DEF Single, Apart, Untouched
  <2>4. TalkTypes /\ Talk(c)
    BY DEF TalkInv
  <2>5. Talk(c)'
    <3>1. CASE client[c] = "ended"
      BY <1>1, <1>2, <2>2, <2>4, <3>1, Ends, EndedStays DEF Untouched
    <3>2. CASE client[c] # "ended"
      <4>1. client[c] = "greeting" /\ Unread(c) = <<>>
        BY <2>2, <2>4, <3>2, Ends DEF Talk, Sockets, Talking
      <4>2. Sockets(c)'
        BY <1>1, <1>2, <2>2, <2>4, <4>1 DEF Talk, Sockets, Untouched, Talking
      <4>3. Budget(c)'
        BY <1>2, <4>1 DEF Budget, Untouched
      <4>4. Supplied(c)'
        BY <1>2, <4>1, NoLines DEF Supplied, Finished, Untouched
      <4>5. Orderly(c) => Orderly(c)'
        BY <1>1, <1>2, <2>2, <4>1, NoLines DEF Orderly, Untouched
      <4> QED
        BY <1>1, <2>4, <4>2, <4>3, <4>4, <4>5 DEF Talk
    <3> QED
      BY <3>1, <3>2
  <2> QED
    BY <1>2, <2>3, <2>5, Gather
<1>5. CASE ~\E c \in Clients : Accept(c)
  <2>1. thread' = thread
    BY <1>5 DEF Main, MainStep, Early, Timeout, CloseListen, CheckCount, WakeUp, WaitTimesOut, Report,
      Stop, sig_handler, serverVars
  <2>2. \A d \in Clients : Apart(d)
    BY <1>1, <1>2, <1>3, <2>1 DEF Apart, Untouched
  <2> QED
    BY <1>2, <2>2, Others DEF TalkInv
<1> QED
  BY <1>4, <1>5

-----------------------------------------------------------------------------
(* The steps of the clients.                                               *)

\* The server's side and everybody else's is left alone.
Alone(c) ==
  /\ UNCHANGED <<mainVars, serverVars>>
  /\ \A d \in Clients \ {c} :
       /\ client'[d] = client[d] /\ client_running'[d] = client_running[d]
       /\ read_buffer'[d] = read_buffer[d] /\ down'[d] = down[d] /\ up'[d] = up[d]
       /\ client_end'[d] = client_end[d] /\ sock_ready'[d] = sock_ready[d]
       /\ file'[d] = file[d] /\ asked'[d] = asked[d] /\ left'[d] = left[d]
       /\ astray'[d] = astray[d]

LEMMA ClientAlone ==
  ASSUME TalkInv, NEW c \in Clients, Alone(c), Talk(c)', TalkTypes'
  PROVE  TalkInv'
<1>1. Single(c)
  BY DEF Alone, Single, Apart, mainVars, serverVars, ServerAlive
<1> QED
  BY <1>1, Gather

\* Where the server is, is not changed by a client.
LEMMA SamePlace ==
  ASSUME NEW c \in Clients, UNCHANGED <<mainVars, serverVars>>
  PROVE  /\ thread'[c] = thread[c] /\ job'[c] = job[c] /\ blurred'[c] = blurred[c]
         /\ (Doomed(c)' <=> Doomed(c)) /\ (Over(c)' <=> Over(c)) /\ (Busy(c)' <=> Busy(c))
BY DEF mainVars, serverVars, Doomed, Over, Busy, ServerAlive

\* What the socket shows to the client of a server that closed it.
LEMMA ClosedMeans ==
  ASSUME NEW c \in Clients, Talk(c), ServerClosed(c), client[c] \in Talking
  PROVE  Doomed(c) /\ (thread[c] \in Between => Over(c))
BY DEF Talk, Sockets, ServerClosed, Doomed, Over, Between

\* A socket that select reports has, or will have, a prompt.
LEMMA ReadableMeans ==
  ASSUME TalkTypes, NEW c \in Clients, Talk(c), Readable(c), client[c] \in Talking
  PROVE  Started1(c)
<1>1. CASE ServerClosed(c)
  BY <1>1, ClosedMeans DEF Started1
<1>2. CASE down[c] # <<>>
  <2>1. Unread(c) \in Seq(Text) /\ Unread(c) # <<>>
    BY <1>2, ConcatProperties, ConcatEqualIffEmpty DEF Unread, TalkTypes
  <2>2. Len(Unread(c)) \in 1 .. Len(Unread(c))
    BY <2>1, EmptySeq
  <2>3. PromptLast(Unread(c)) => Prompted(Unread(c))
    BY <2>1, <2>2 DEF PromptLast, Prompted
  <2>4. Finished(c)
    BY DEF Talk, Supplied, Talking
  <2> QED
    BY <2>3, <2>4 DEF Finished, Started1
<1> QED
  BY <1>1, <1>2 DEF Readable

LEMMA ConnectTalk ==
  ASSUME TalkInv, NEW c \in Clients, Connect(c)
  PROVE  TalkInv'
<1>1. /\ client[c] = "start" /\ client'[c] = "greeting" /\ client_end'[c] = "open"
      /\ UNCHANGED <<mainVars, serverVars, up, down, read_buffer, astray, inputVars>>
      /\ Alone(c) /\ TalkTypes'
  BY DEF Connect, Goto, At, TalkInv, TalkTypes, Places, Alone, inputVars, serverVars
<1>2. thread[c] = "none" /\ up[c] = <<>> /\ Unread(c) = <<>> /\ Talk(c)
  BY <1>1 DEF TalkInv, Talk, Sockets
<1>3. Unread(c)' = Unread(c) /\ thread'[c] = thread[c] /\ job'[c] = job[c] /\ blurred'[c] = blurred[c]
  BY <1>1, SamePlace DEF Unread
<1>4. Sockets(c)'
  BY <1>1, <1>2, <1>3 DEF Sockets, Talking
<1>5. Budget(c)'
  BY <1>1 DEF Budget
<1>6. Supplied(c)'
  BY <1>1, <1>2, <1>3, NoLines DEF Supplied, Finished
<1>7. Orderly(c) => Orderly(c)'
  BY <1>1, <1>2, <1>3, NoLines DEF Orderly
<1> QED
  BY <1>1, <1>2, <1>3, <1>4, <1>5, <1>6, <1>7, ClientAlone DEF Talk

LEMMA SignalTalk ==
  ASSUME TalkInv, NEW c \in Clients, sig_handler_client(c)
  PROVE  TalkInv'
<1>1. /\ UNCHANGED <<mainVars, serverVars, wireVars, readVars, sock_ready, asked, left, file>>
      /\ client_running'[c] = FALSE
      /\ \A d \in Clients \ {c} : client_running'[d] = client_running[d]
      /\ client_running' \in [Clients -> BOOLEAN]
  BY DEF sig_handler_client, TalkInv, TalkTypes
<1>2. Alone(c) /\ TalkTypes' /\ Unread(c)' = Unread(c)
  BY <1>1 DEF Alone, TalkInv, TalkTypes, wireVars, readVars, serverVars, Unread
<1>3. /\ thread'[c] = thread[c] /\ job'[c] = job[c] /\ blurred'[c] = blurred[c]
      /\ (Doomed(c)' <=> Doomed(c)) /\ (Over(c)' <=> Over(c)) /\ (Busy(c)' <=> Busy(c))
  BY <1>1, SamePlace
<1>4. UNCHANGED <<client, client_end, up, astray, sock_ready, asked, left, file>> /\ Talk(c)
  BY <1>1 DEF wireVars, readVars, TalkInv
<1>5. Sockets(c)'
  BY <1>2, <1>3, <1>4 DEF Talk, Sockets
<1>6. Budget(c)'
  BY <1>4 DEF Talk, Budget
<1>7. Supplied(c)'
  BY <1>2, <1>3, <1>4 DEF Talk, Supplied, Finished, Started1, Coming1, Coming2
<1>8. Orderly(c) => Orderly(c)'
  BY <1>1, <1>2, <1>3, <1>4 DEF Orderly, Quiet, Asking, Asked, Answering, Answered
<1> QED
  BY <1>2, <1>3, <1>4, <1>5, <1>6, <1>7, <1>8, ClientAlone DEF Talk

\* The client leaves, whatever it has read.
LEMMA EndTalk ==
  ASSUME TalkInv, NEW c \in Clients, client'[c] = "ended", client_end'[c] = "closed",
         UNCHANGED <<mainVars, serverVars, astray>>, TalkTypes', Alone(c)
  PROVE  TalkInv'
<1>1. Talk(c) /\ thread'[c] = thread[c] /\ job'[c] = job[c] /\ blurred'[c] = blurred[c]
      /\ astray'[c] = astray[c]
  BY SamePlace DEF TalkInv
<1>2. thread'[c] = "answer" => job'[c] \in Command
  BY <1>1 DEF Talk, Sockets
<1> QED
  BY <1>1, <1>2, EndedStays, ClientAlone

LEMMA UnaskedTalk ==
  ASSUME TalkInv, NEW c \in Clients, Unasked(c)
  PROVE  TalkInv'
<1>1. /\ client[c] = "select" /\ client'[c] = "extra" /\ client_running[c] /\ Readable(c)
      /\ UNCHANGED <<mainVars, serverVars, wireVars, read_buffer, astray, client_running, asked, left>>
      /\ Alone(c) /\ TalkTypes'
  BY DEF Unasked, Goto, At, TalkInv, TalkTypes, Places, Alone, wireVars, serverVars
<1>2. /\ Unread(c)' = Unread(c) /\ up' = up /\ client_end' = client_end
      /\ thread'[c] = thread[c] /\ job'[c] = job[c] /\ blurred'[c] = blurred[c]
      /\ (Doomed(c)' <=> Doomed(c)) /\ (Over(c)' <=> Over(c)) /\ (Busy(c)' <=> Busy(c))
  BY <1>1, SamePlace DEF Unread, wireVars
<1>3. Talk(c) /\ Started1(c)
  BY <1>1, ReadableMeans DEF TalkInv, Talking
<1>4. Sockets(c)'
  BY <1>1, <1>2, <1>3 DEF Talk, Sockets, Talking
<1>5. Budget(c)'
  BY <1>1 DEF Budget
<1>6. Supplied(c)'
  BY <1>1, <1>2, <1>3 DEF Talk, Supplied, Finished, Started1, Coming1
<1>7. Orderly(c) => Orderly(c)'
  BY <1>1, <1>2 DEF Orderly, Quiet
<1> QED
  BY <1>1, <1>2, <1>3, <1>4, <1>5, <1>6, <1>7, ClientAlone DEF Talk

LEMMA TypeLineTalk ==
  ASSUME TalkInv, NEW c \in Clients, TypeLine(c)
  PROVE  TalkInv'
<1>1. PICK ready \in {FALSE, Readable(c)}, n \in {0} \cup FileLengths :
       /\ sock_ready' = [sock_ready EXCEPT ![c] = ready]
       /\ left' = [left EXCEPT ![c] = IF n = 0 THEN 0 ELSE n - 1]
       /\ file' = [file EXCEPT ![c] = n > 0]
       /\ asked[c] + n <= Len(Commands[c])
  BY DEF TypeLine
<1>2. /\ client[c] = "select" /\ client' = [client EXCEPT ![c] = "send"] /\ client_running[c]
      /\ asked[c] < Len(Commands[c])
      /\ UNCHANGED <<mainVars, serverVars, wireVars, read_buffer, astray, client_running, asked>>
  BY DEF TypeLine, Goto, At
<1>3. /\ TalkTypes /\ Talk(c) /\ asked[c] \in Nat /\ Len(Commands[c]) \in Nat /\ n \in Nat
  BY ConstantsAssumption, LenProperties DEF TalkInv, TalkTypes, ConstantsAssumption
<1>4. PICK m \in Nat : (m = IF n = 0 THEN 0 ELSE n - 1) /\ asked[c] + m < Len(Commands[c])
  BY <1>1, <1>2, <1>3
<1>5. left' = [left EXCEPT ![c] = m] /\ left'[c] = m
  BY <1>1, <1>3, <1>4 DEF TalkTypes
<1> DEFINE f == n > 0
<1>6. f \in BOOLEAN /\ file' = [file EXCEPT ![c] = f] /\ (n # 0 => f)
  <2>1. n # 0 => n > 0
    BY <1>3
  <2>2. (n > 0) \in BOOLEAN
    OBVIOUS
  <2> QED
    BY <1>1, <2>1, <2>2, Zenon
<1> HIDE DEF f
<1>7. ready \in BOOLEAN
  BY <1>1 DEF Readable, ServerClosed
<1>8. /\ client' \in [Clients -> Places] /\ left' \in [Clients -> Nat]
      /\ file' \in [Clients -> BOOLEAN] /\ sock_ready' \in [Clients -> BOOLEAN]
  BY <1>1, <1>2, <1>3, <1>5, <1>6, <1>7 DEF TalkTypes, Places
<1>9. Alone(c) /\ TalkTypes'
  BY <1>1, <1>2, <1>3, <1>5, <1>6, <1>8 DEF Alone, TalkTypes, wireVars, serverVars
<1>10. /\ Unread(c)' = Unread(c) /\ up' = up /\ client_end' = client_end
       /\ thread'[c] = thread[c] /\ job'[c] = job[c] /\ blurred'[c] = blurred[c]
       /\ (Doomed(c)' <=> Doomed(c)) /\ (Over(c)' <=> Over(c)) /\ (Busy(c)' <=> Busy(c))
  BY <1>2, SamePlace DEF Unread, wireVars
<1>11. client'[c] = "send"
  BY <1>2, <1>3 DEF TalkTypes
<1>12. sock_ready'[c] => Readable(c)
  BY <1>1, <1>3, Zenon DEF TalkTypes
<1>13. sock_ready'[c] => Started1(c)
  BY <1>2, <1>3, <1>12, ReadableMeans DEF Talking
<1>14. ~file'[c] => left'[c] = 0
  <2>1. CASE n = 0
    BY <1>4, <1>5, <2>1
  <2>2. CASE n # 0
    <3>1. file'[c]
      BY <1>3, <1>6, <2>2, Zenon DEF TalkTypes
    <3> QED
      BY <3>1
  <2> QED
    BY <2>1, <2>2
<1>15. Sockets(c)'
  BY <1>2, <1>3, <1>10, <1>11 DEF Talk, Sockets, Talking
<1>16. Budget(c)'
  BY <1>2, <1>4, <1>5, <1>11 DEF Budget
<1>17. Supplied(c)'
  BY <1>2, <1>3, <1>10, <1>11, <1>13, <1>14 DEF Talk, Supplied, Finished, Started1
<1>18. Orderly(c) => Orderly(c)'
  BY <1>2, <1>10, <1>11 DEF Orderly, Quiet
<1> QED
  BY <1>3, <1>9, <1>10, <1>15, <1>16, <1>17, <1>18, ClientAlone DEF Talk

LEMMA LeaveTalk ==
  ASSUME TalkInv, NEW c \in Clients, Leave(c)
  PROVE  TalkInv'
<1>1. /\ client'[c] = "ended" /\ client_end'[c] = "closed" /\ TalkTypes' /\ Alone(c)
      /\ UNCHANGED <<mainVars, serverVars, astray>>
  BY DEF Leave, End, Goto, At, TalkInv, TalkTypes, Places, Alone, inputVars, serverVars
<1> QED
  BY <1>1, EndTalk

LEMMA ReadEndsTalk ==
  ASSUME TalkInv, NEW c \in Clients, NEW from, ReadEnds(c, from)
  PROVE  TalkInv'
<1>1. /\ client'[c] = "ended" /\ client_end'[c] = "closed" /\ TalkTypes' /\ Alone(c)
      /\ UNCHANGED <<mainVars, serverVars, astray>>
  BY DEF ReadEnds, End, Goto, At, TalkInv, TalkTypes, Places, Alone, inputVars, serverVars
<1> QED
  BY <1>1, EndTalk

LEMMA ByeTalk ==
  ASSUME TalkInv, NEW c \in Clients, NEW from, Bye(c, from)
  PROVE  TalkInv'
<1>1. PICK line : read_line(c, line)
  BY DEF Bye
<1>2. /\ read_buffer' \in [Clients -> Seq(Text)] /\ down' \in [Clients -> Seq(Text)]
      /\ \A d \in Clients \ {c} : read_buffer'[d] = read_buffer[d] /\ down'[d] = down[d]
  BY <1>1, ReadLine DEF TalkInv
<1>3. /\ client'[c] = "ended" /\ client_end'[c] = "closed" /\ TalkTypes' /\ Alone(c)
      /\ UNCHANGED <<mainVars, serverVars, astray>>
  BY <1>2 DEF Bye, End, Goto, At, TalkInv, TalkTypes, Places, Alone, inputVars, serverVars
<1> QED
  BY <1>3, EndTalk

LEMMA Appended ==
  ASSUME NEW s \in Seq(Item), NEW x \in Item
  PROVE  /\ Append(s, x) \in Seq(Item) /\ Append(s, x) # <<>>
         /\ s = <<>> => Append(s, x) = <<x>>
         /\ \A y \in Item : s = <<y>> => Append(s, x) = <<y, x>>
<1>1. Append(s, x) \in Seq(Item) /\ Append(s, x) # <<>>
  BY AppendProperties
<1>2. ASSUME s = <<>> PROVE Append(s, x) = <<x>>
  BY <1>2
<1>3. ASSUME NEW y \in Item, s = <<y>> PROVE Append(s, x) = <<y, x>>
  <2> DEFINE t == Append(s, x)
             u == <<y, x>>
  <2>1. /\ t \in Seq(Item) /\ Len(t) = Len(s) + 1 /\ t[Len(s) + 1] = x
        /\ \A i \in 1 .. Len(s) : t[i] = s[i]
    BY AppendProperties
  <2> HIDE DEF t
  <2>2. Len(s) = 1 /\ s[1] = y
    BY <1>3
  <2>6. 1 \in 1 .. Len(s) /\ Len(s) + 1 = 2
    BY <2>2
  <2>7. t \in Seq(Item) /\ Len(t) = 2 /\ t[1] = y /\ t[2] = x
    BY <2>1, <2>2, <2>6
  <2>3. u \in Seq(Item) /\ Len(u) = 2 /\ u[1] = y /\ u[2] = x
    OBVIOUS
  <2> HIDE DEF u
  <2>4. \A i \in 1 .. Len(t) : t[i] = u[i]
    BY <2>3, <2>7
  <2>5. t = u
    BY <2>3, <2>7, <2>4, SeqEqual
  <2> QED
    BY <2>5 DEF t, u
<1> QED
  BY <1>1, <1>2, <1>3

\* An item joins what the thread has to read, unless it will not read it.
Reaches(c, item) ==
  thread[c] \in Between =>
    \/ Over(c)
    \/ /\ up[c] = <<>> => up'[c] = <<item>>
       /\ \A x \in Item : up[c] = <<x>> => up'[c] = <<x, item>>

\* What is sent to the thread is at the end of its stream, unless the thread will not
\* read it.
LEMMA SendMeans ==
  ASSUME TalkInv, NEW c \in Clients, NEW item \in Item, NEW from, NEW to \in Places,
         Goto(c, from, to), from \in Talking,
         up' = [up EXCEPT ![c] = IF ServerClosed(c) THEN @ ELSE Append(@, item)]
  PROVE  /\ up' \in [Clients -> Seq(Item)] /\ client' \in [Clients -> Places]
         /\ \A d \in Clients \ {c} : up'[d] = up[d] /\ client'[d] = client[d]
         /\ client[c] = from /\ client'[c] = to
         /\ up[c] # <<>> => up'[c] # <<>>
         /\ Doomed(c) \/ up'[c] # <<>>
         /\ Reaches(c, item)
<1>1. up \in [Clients -> Seq(Item)] /\ client \in [Clients -> Places] /\ Talk(c)
  BY DEF TalkInv, TalkTypes
<1>2. client[c] = from /\ client' = [client EXCEPT ![c] = to]
  BY DEF Goto, At
<1>3. /\ Append(up[c], item) \in Seq(Item) /\ Append(up[c], item) # <<>>
      /\ up[c] = <<>> => Append(up[c], item) = <<item>>
      /\ \A y \in Item : up[c] = <<y>> => Append(up[c], item) = <<y, item>>
  BY <1>1, Appended
<1>4. ServerClosed(c) => Doomed(c) /\ (thread[c] \in Between => Over(c))
  BY <1>1, <1>2, ClosedMeans
<1>5. CASE ServerClosed(c)
  <2>1. up' = [up EXCEPT ![c] = @]
    BY <1>5
  <2>2. Reaches(c, item)
    BY <1>4, <1>5 DEF Reaches
  <2> QED
    BY <1>1, <1>2, <1>4, <1>5, <2>1, <2>2
<1>6. CASE ~ServerClosed(c)
  <2>1. up' = [up EXCEPT ![c] = Append(@, item)]
    BY <1>6
  <2>2. up'[c] = Append(up[c], item)
    BY <1>1, <2>1
  <2>3. Reaches(c, item)
    BY <1>3, <2>2 DEF Reaches
  <2> QED
    BY <1>1, <1>2, <1>3, <2>1, <2>2, <2>3
<1> QED
  BY <1>5, <1>6

LEMMA SendCommandTalk ==
  ASSUME TalkInv, NEW c \in Clients, SendCommand(c)
  PROVE  TalkInv'
<1>1. PICK k \in Commands[c][asked[c] + 1] :
        SendItem(c, [n |-> asked[c] + 1, kind |-> k], "send", "newline")
  BY DEF SendCommand
<1>2. /\ client[c] = "send" /\ asked' = [asked EXCEPT ![c] = @ + 1]
      /\ UNCHANGED <<mainVars, serverVars, down, read_buffer, astray, client_running, sock_ready, left, file>>
  BY DEF SendCommand, At
<1>3. TalkTypes /\ Talk(c) /\ asked[c] \in Nat /\ left[c] \in Nat /\ Len(Commands[c]) \in Nat
  BY ConstantsAssumption, LenProperties DEF TalkInv, TalkTypes, ConstantsAssumption
<1>4. asked[c] + left[c] < Len(Commands[c])
  BY <1>2, <1>3 DEF Talk, Budget
<1>5. PICK a \in Nat : /\ a = asked[c] + 1 /\ a + left[c] <= Len(Commands[c])
                       /\ a \in 1 .. Len(Commands[c])
  BY <1>3, <1>4
<1>6. k \in Kinds
  <2>1. Commands[c] \in Seq(SUBSET Kinds)
    BY ConstantsAssumption DEF ConstantsAssumption
  <2>2. Commands[c][a] \in SUBSET Kinds
    BY <1>5, <2>1, ElementOfSeq
  <2> QED
    BY <1>5, <2>2
<1> DEFINE item == [n |-> asked[c] + 1, kind |-> k]
<1>7. item \in Item /\ item = [n |-> a, kind |-> k]
  BY <1>5, <1>6 DEF Item, Command
<1>8. asked'[c] = a /\ asked' \in [Clients -> Nat] /\ \A d \in Clients \ {c} : asked'[d] = asked[d]
  BY <1>2, <1>3, <1>5 DEF TalkTypes
<1> HIDE DEF item
<1>9. CASE ServerClosed(c) /\ End(c, "send") /\ UNCHANGED up
  <2>1. /\ client'[c] = "ended" /\ client_end'[c] = "closed" /\ TalkTypes' /\ Alone(c)
        /\ UNCHANGED <<mainVars, serverVars, astray>>
    BY <1>2, <1>3, <1>8, <1>9 DEF End, Goto, At, TalkTypes, Places, Alone, serverVars
  <2> QED
    BY <2>1, EndTalk
<1>10. CASE /\ Goto(c, "send", "newline")
            /\ up' = [up EXCEPT ![c] = IF ServerClosed(c) THEN @ ELSE Append(@, item)]
            /\ UNCHANGED client_end
  <2>1. /\ up' \in [Clients -> Seq(Item)] /\ client' \in [Clients -> Places]
        /\ \A d \in Clients \ {c} : up'[d] = up[d] /\ client'[d] = client[d]
        /\ client'[c] = "newline"
        /\ up[c] # <<>> => up'[c] # <<>>
        /\ Doomed(c) \/ up'[c] # <<>>
        /\ Reaches(c, item)
    BY <1>7, <1>10, SendMeans DEF Places, Talking
  <2>2. Alone(c) /\ TalkTypes'
    BY <1>2, <1>3, <1>8, <1>10, <2>1 DEF Alone, TalkTypes, serverVars
  <2>3. /\ Unread(c)' = Unread(c) /\ client_end' = client_end
        /\ thread'[c] = thread[c] /\ job'[c] = job[c] /\ blurred'[c] = blurred[c]
        /\ (Doomed(c)' <=> Doomed(c)) /\ (Over(c)' <=> Over(c)) /\ (Busy(c)' <=> Busy(c))
    BY <1>2, <1>10, SamePlace DEF Unread
  <2>4. Sockets(c)'
    BY <1>2, <1>3, <2>1, <2>3 DEF Talk, Sockets, Talking
  <2>5. Budget(c)'
    BY <1>2, <1>5, <1>8, <2>1 DEF Budget
  <2>6. Supplied(c)'
    BY <1>2, <1>3, <2>1, <2>3 DEF Talk, Supplied, Finished, Started1, Coming2
  <2>7. Orderly(c) => Orderly(c)'
    <3>1. ASSUME Orderly(c)
          PROVE  Asking(c)'
      <4>1. up[c] = <<>> /\ Unread(c) = <<>> /\ thread[c] \in Between
        BY <1>2, <3>1 DEF Orderly, Quiet
      <4>2. Over(c) \/ up'[c] = <<[n |-> asked'[c], kind |-> k]>>
        BY <1>7, <1>8, <2>1, <4>1 DEF Reaches
      <4> QED
        BY <1>6, <2>3, <4>1, <4>2 DEF Asking
    <3> QED
      BY <1>2, <2>1, <3>1 DEF Orderly
  <2> QED
    BY <1>3, <2>2, <2>3, <2>4, <2>5, <2>6, <2>7, ClientAlone DEF Talk
<1> QED
  BY <1>1, <1>9, <1>10 DEF SendItem, item

LEMMA SendNewlineTalk ==
  ASSUME TalkInv, NEW c \in Clients, SendNewline(c)
  PROVE  TalkInv'
<1>0. Newline \in Item
  BY DEF Item
<1>1. PICK to \in Places, item \in Item :
       /\ SendItem(c, item, "newline", to) /\ item = Newline
       /\ \/ client_running[c] /\ to = "await"
          \/ ~client_running[c] /\ to = "extra" /\ sock_ready[c]
          \/ ~client_running[c] /\ to = "select" /\ ~sock_ready[c]
  BY <1>0 DEF SendNewline, AfterAnswer, Places
<1>2. /\ UNCHANGED <<mainVars, serverVars, down, read_buffer, astray, inputVars>>
      /\ UNCHANGED <<client_running, sock_ready, asked, left, file>>
      /\ TalkTypes /\ Talk(c)
  BY DEF SendNewline, inputVars, TalkInv
<1>5. CASE ServerClosed(c) /\ End(c, "newline") /\ UNCHANGED up
  <2>1. /\ client'[c] = "ended" /\ client_end'[c] = "closed" /\ TalkTypes' /\ Alone(c)
        /\ UNCHANGED <<mainVars, serverVars, astray>>
    BY <1>1, <1>2, <1>5 DEF End, Goto, At, TalkTypes, Places, Alone, serverVars
  <2> QED
    BY <2>1, EndTalk
<1>6. CASE /\ Goto(c, "newline", to)
           /\ up' = [up EXCEPT ![c] = IF ServerClosed(c) THEN @ ELSE Append(@, item)]
           /\ UNCHANGED client_end
  <2>1. /\ up' \in [Clients -> Seq(Item)] /\ client' \in [Clients -> Places]
        /\ \A d \in Clients \ {c} : up'[d] = up[d] /\ client'[d] = client[d]
        /\ client[c] = "newline" /\ client'[c] = to
        /\ up[c] # <<>> => up'[c] # <<>>
        /\ Reaches(c, item)
    <3>1. "newline" \in Talking
      BY DEF Talking
    <3> QED
      <4>1. client[c] = "newline" /\ client'[c] = to
        BY <1>2, <1>6 DEF Goto, At, TalkTypes
      <4>2. /\ up' \in [Clients -> Seq(Item)] /\ client' \in [Clients -> Places]
            /\ \A d \in Clients \ {c} : up'[d] = up[d] /\ client'[d] = client[d]
            /\ up[c] # <<>> => up'[c] # <<>>
            /\ Reaches(c, item)
        BY <1>6, <3>1, SendMeans
      <4> QED
        BY <4>1, <4>2
  <2>2. Alone(c) /\ TalkTypes'
    BY <1>1, <1>2, <1>6, <2>1 DEF Alone, TalkTypes, serverVars
  <2>3. /\ Unread(c)' = Unread(c) /\ client_end' = client_end
        /\ thread'[c] = thread[c] /\ job'[c] = job[c] /\ blurred'[c] = blurred[c]
        /\ (Doomed(c)' <=> Doomed(c)) /\ (Over(c)' <=> Over(c)) /\ (Busy(c)' <=> Busy(c))
    BY <1>2, <1>6, SamePlace DEF Unread
  <2>4. Sockets(c)'
    BY <1>1, <1>2, <2>1, <2>3 DEF Talk, Sockets, Talking
  <2>5. Budget(c)'
    BY <1>1, <1>2, <2>1 DEF Talk, Budget
  <2>6. Supplied(c)'
    <3>1. Prompts2(Unread(c)) => Prompted(Unread(c))
      BY DEF Prompts2, Prompted
    <3> QED
      BY <1>1, <1>2, <2>1, <2>3, <3>1
        DEF Talk, Supplied, Finished, Started1, Coming1, Coming2
  <2>7. Orderly(c) => Orderly(c)'
    <3>1. ASSUME Orderly(c)
          PROVE  Asked(c)'
      <4>0. \A k \in Kinds : [n |-> asked[c], kind |-> k] \in Item
        BY <1>2 DEF TalkTypes, Item, Command
      <4>1. Unread(c) = <<>> /\ thread[c] \in Between
            /\ (Over(c) \/ \E k \in Kinds : up[c] = <<[n |-> asked[c], kind |-> k]>>)
        BY <2>1, <3>1 DEF Orderly, Asking
      <4>2. Over(c) \/ \E k \in Kinds : up'[c] = <<[n |-> asked[c], kind |-> k], Newline>>
        BY <1>1, <2>1, <4>0, <4>1 DEF Reaches
      <4> QED
        BY <1>2, <2>3, <4>1, <4>2 DEF Asked
    <3> QED
      BY <1>1, <1>2, <2>1, <3>1 DEF Orderly
  <2> QED
    BY <1>2, <2>2, <2>3, <2>4, <2>5, <2>6, <2>7, ClientAlone DEF Talk
<1> QED
  BY <1>1, <1>5, <1>6 DEF SendItem

\* What a read_line leaves: one line less, and what was said of the lines still holds.
Shorter(c, line) ==
  /\ Unread(c) # <<>> /\ line \in Text /\ Unread(c)' \in Seq(Text)
  /\ PromptLast(Unread(c)) => PromptLast(Unread(c)')
  /\ Prompts2(Unread(c)) => Prompted(Unread(c)')
  /\ line.kind # "prompt" /\ Prompted(Unread(c)) => Prompted(Unread(c)')
  /\ line.kind # "prompt" /\ Prompts2(Unread(c)) => Prompts2(Unread(c)')
  /\ line.kind = "prompt" => Prompted(Unread(c))
  /\ Prompted(Unread(c)') => Prompted(Unread(c))
  /\ \A n : OnlyLast(Unread(c), n) =>
       /\ OnlyLast(Unread(c)', n)
       /\ line.kind = "prompt" => Unread(c)' = <<>> /\ line.of = n

LEMMA ReadShortens ==
  ASSUME TalkTypes, NEW c \in Clients, NEW line, read_line(c, line)
  PROVE  /\ Shorter(c, line)
         /\ read_buffer' \in [Clients -> Seq(Text)] /\ down' \in [Clients -> Seq(Text)]
         /\ \A d \in Clients \ {c} : read_buffer'[d] = read_buffer[d] /\ down'[d] = down[d]
<1>1. /\ Unread(c) \in Seq(Text) /\ Unread(c) # <<>> /\ line = Head(Unread(c))
      /\ Unread(c)' = Tail(Unread(c))
      /\ read_buffer' \in [Clients -> Seq(Text)] /\ down' \in [Clients -> Seq(Text)]
      /\ \A d \in Clients \ {c} : read_buffer'[d] = read_buffer[d] /\ down'[d] = down[d]
  BY ReadLine
<1>2. PICK s \in Seq(Text) : s = Unread(c)
  BY <1>1
<1>3. /\ Head(s) \in Text /\ Tail(s) \in Seq(Text)
      /\ PromptLast(s) => PromptLast(Tail(s))
      /\ Prompts2(s) => Prompted(Tail(s))
      /\ Head(s).kind # "prompt" /\ Prompted(s) => Prompted(Tail(s))
      /\ Head(s).kind # "prompt" /\ Prompts2(s) => Prompts2(Tail(s))
      /\ Head(s).kind = "prompt" => Prompted(s)
      /\ Prompted(Tail(s)) => Prompted(s)
  BY <1>1, <1>2, TailOfLines
<1>4. ASSUME NEW n, OnlyLast(s, n)
      PROVE  /\ OnlyLast(Tail(s), n)
             /\ Head(s).kind = "prompt" => Tail(s) = <<>> /\ Head(s).of = n
  BY <1>1, <1>2, <1>4, OnlyLastTail
<1>5. Shorter(c, line)
  BY <1>1, <1>2, <1>3, <1>4 DEF Shorter
<1> QED
  BY <1>1, <1>5

LEMMA GreetingTalk ==
  ASSUME TalkInv, NEW c \in Clients, Greeting(c)
  PROVE  TalkInv'
<1>1. PICK line :
       /\ read_line(c, line)
       /\ \/ line.kind = "prompt" /\ Goto(c, "greeting", "select") /\ UNCHANGED client_end
          \/ line.kind = "text" /\ client_running[c] /\ Goto(c, "greeting", "greeting") /\ UNCHANGED client_end
          \/ line.kind = "text" /\ ~client_running[c] /\ End(c, "greeting")
  BY DEF Greeting
<1>2. /\ UNCHANGED <<mainVars, serverVars, up, astray, inputVars>>
      /\ UNCHANGED <<client_running, sock_ready, asked, left, file>>
      /\ TalkTypes /\ Talk(c)
  BY DEF Greeting, inputVars, TalkInv
<1>3. /\ Shorter(c, line)
      /\ read_buffer' \in [Clients -> Seq(Text)] /\ down' \in [Clients -> Seq(Text)]
      /\ \A d \in Clients \ {c} : read_buffer'[d] = read_buffer[d] /\ down'[d] = down[d]
  BY <1>1, <1>2, ReadShortens
<1>4. /\ thread'[c] = thread[c] /\ job'[c] = job[c] /\ blurred'[c] = blurred[c]
      /\ (Doomed(c)' <=> Doomed(c)) /\ (Over(c)' <=> Over(c)) /\ (Busy(c)' <=> Busy(c))
  BY <1>2, SamePlace
<1>5. client[c] = "greeting"
  BY <1>1 DEF Goto, End, At
<1>6. CASE End(c, "greeting")
  <2>1. /\ client'[c] = "ended" /\ client_end'[c] = "closed" /\ TalkTypes' /\ Alone(c)
    BY <1>2, <1>3, <1>6 DEF End, Goto, At, TalkTypes, Places, Alone, serverVars
  <2> QED
    BY <1>2, <2>1, EndTalk
<1>7. ASSUME NEW to \in {"greeting", "select"}, Goto(c, "greeting", to), UNCHANGED client_end,
             to = "select" <=> line.kind = "prompt"
      PROVE  TalkInv'
  <2>1. /\ client'[c] = to /\ TalkTypes' /\ Alone(c)
    BY <1>2, <1>3, <1>7 DEF Goto, At, TalkTypes, Places, Alone, serverVars
  <2>2. thread[c] \notin {"none", "start", "greet"}
    BY <1>2, <1>3, <1>5 DEF Talk, Sockets, Shorter
  <2>3. Sockets(c)'
    BY <1>2, <1>4, <1>5, <1>7, <2>1, <2>2 DEF Talk, Sockets, Talking
  <2>4. Budget(c)'
    BY <2>1 DEF Budget
  <2>5. Supplied(c)'
    BY <1>2, <1>3, <1>4, <1>5, <2>1 DEF Talk, Supplied, Finished, Shorter
  <2>6. Orderly(c) => Orderly(c)'
    BY <1>2, <1>3, <1>4, <1>5, <1>7, <2>1 DEF Orderly, Quiet, Shorter
  <2> QED
    BY <1>2, <1>4, <2>1, <2>3, <2>4, <2>5, <2>6, ClientAlone DEF Talk
<1> QED
  BY <1>1, <1>6, <1>7

LEMMA ExtraTalk ==
  ASSUME TalkInv, NEW c \in Clients, Extra(c)
  PROVE  TalkInv'
<1>1. PICK line : read_line(c, line)
  BY DEF Extra
<1>2. /\ UNCHANGED <<mainVars, serverVars, client_end, up, astray, inputVars>>
      /\ UNCHANGED <<client_running, sock_ready, asked, left, file>>
      /\ TalkTypes /\ Talk(c)
  BY DEF Extra, inputVars, TalkInv
<1>3. /\ Shorter(c, line)
      /\ read_buffer' \in [Clients -> Seq(Text)] /\ down' \in [Clients -> Seq(Text)]
      /\ \A d \in Clients \ {c} : read_buffer'[d] = read_buffer[d] /\ down'[d] = down[d]
  BY <1>1, <1>2, ReadShortens
<1>4. /\ thread'[c] = thread[c] /\ job'[c] = job[c] /\ blurred'[c] = blurred[c]
      /\ (Doomed(c)' <=> Doomed(c)) /\ (Over(c)' <=> Over(c)) /\ (Busy(c)' <=> Busy(c))
  BY <1>2, SamePlace
<1>5. client[c] = "extra" /\ client'[c] = "select" /\ TalkTypes' /\ Alone(c)
  BY <1>2, <1>3 DEF Extra, Goto, At, TalkTypes, Places, Alone, serverVars
<1>6. Sockets(c)'
  BY <1>2, <1>4, <1>5 DEF Talk, Sockets, Talking
<1>7. Budget(c)'
  BY <1>5 DEF Budget
<1>8. Supplied(c)'
  BY <1>2, <1>3, <1>4, <1>5 DEF Talk, Supplied, Finished, Shorter
<1>9. Orderly(c) => Orderly(c)'
  BY <1>2, <1>3, <1>5 DEF Orderly, Quiet, Shorter
<1> QED
  BY <1>2, <1>4, <1>5, <1>6, <1>7, <1>8, <1>9, ClientAlone DEF Talk

LEMMA AwaitPromptTalk ==
  ASSUME TalkInv, NEW c \in Clients, Await(c), NEW line, read_line(c, line), line.kind = "prompt",
         Goto(c, "await", AfterAnswer(c, left[c])),
         left' = [left EXCEPT ![c] = IF client_running[c] /\ @ > 0 THEN @ - 1 ELSE 0],
         astray' = [astray EXCEPT ![c] = @ \/ line.of # asked[c]]
  PROVE  TalkInv'
<1>1. /\ UNCHANGED <<mainVars, serverVars, client_end, up, client_running, sock_ready, asked, file>>
      /\ TalkTypes /\ Talk(c) /\ asked[c] \in Nat /\ left[c] \in Nat /\ Len(Commands[c]) \in Nat
  BY ConstantsAssumption, LenProperties DEF Await, TalkInv, TalkTypes, ConstantsAssumption
<1>2. /\ Shorter(c, line)
      /\ read_buffer' \in [Clients -> Seq(Text)] /\ down' \in [Clients -> Seq(Text)]
      /\ \A d \in Clients \ {c} : read_buffer'[d] = read_buffer[d] /\ down'[d] = down[d]
  BY <1>1, ReadShortens
<1>3. /\ thread'[c] = thread[c] /\ job'[c] = job[c] /\ blurred'[c] = blurred[c]
      /\ (Doomed(c)' <=> Doomed(c)) /\ (Over(c)' <=> Over(c)) /\ (Busy(c)' <=> Busy(c))
  BY <1>1, SamePlace
<1>4. PICK to \in Places :
        /\ Goto(c, "await", to)
        /\ \/ to = "send" /\ left[c] > 0 /\ client_running[c]
           \/ to = "extra" /\ sock_ready[c]
           \/ to = "select"
  BY DEF AfterAnswer, Places
<1>5. client[c] = "await" /\ client'[c] = to /\ client' \in [Clients -> Places]
      /\ \A d \in Clients \ {c} : client'[d] = client[d]
  BY <1>1, <1>4 DEF Goto, At, TalkTypes
<1>6. asked[c] + left[c] <= Len(Commands[c])
  BY <1>1, <1>5 DEF Talk, Budget
<1>7. PICK m \in Nat :
        /\ m = (IF client_running[c] /\ left[c] > 0 THEN left[c] - 1 ELSE 0)
        /\ to = "send" => asked[c] + m < Len(Commands[c])
        /\ left[c] = 0 => to # "send"
  BY <1>1, <1>4, <1>6
<1>8. left'[c] = m /\ left' \in [Clients -> Nat] /\ \A d \in Clients \ {c} : left'[d] = left[d]
  BY <1>1, <1>7 DEF TalkTypes
<1>9. /\ astray' \in [Clients -> BOOLEAN] /\ \A d \in Clients \ {c} : astray'[d] = astray[d]
  BY <1>1 DEF TalkTypes
<1>10. ~astray[c] /\ line.of = asked[c] => ~astray'[c]
  BY <1>1, Zenon DEF TalkTypes
<1>11. TalkTypes' /\ Alone(c)
  BY <1>1, <1>2, <1>5, <1>8, <1>9 DEF TalkTypes, Alone, serverVars
<1>12. Sockets(c)'
  BY <1>1, <1>3, <1>4, <1>5 DEF Talk, Sockets, Talking
<1>13. Budget(c)'
  BY <1>1, <1>4, <1>5, <1>7, <1>8 DEF Budget
<1>14. Supplied(c)'
  BY <1>1, <1>2, <1>3, <1>4, <1>5, <1>7
    DEF Talk, Supplied, Finished, Started1, Coming1, Coming2, Shorter
<1>15. Orderly(c) => Orderly(c)'
  <2>1. ASSUME Orderly(c)
        PROVE  Quiet(c)' /\ ~astray'[c]
    <3>1. Asked(c) \/ Answering(c) \/ Answered(c)
      BY <1>5, <2>1 DEF Orderly
    <3>2. Answered(c)
      BY <1>2, <3>1 DEF Asked, Answering, Shorter
    <3>3. up[c] = <<>> /\ thread[c] \in Between /\ OnlyLast(Unread(c), asked[c])
      BY <3>2 DEF Answered
    <3>4. Unread(c)' = <<>> /\ line.of = asked[c]
      BY <1>2, <3>3 DEF Shorter
    <3>5. ~astray[c]
      BY <2>1 DEF Orderly
    <3> QED
      BY <1>1, <1>3, <1>10, <3>3, <3>4, <3>5 DEF Quiet
  <2> QED
    BY <1>4, <1>5, <2>1 DEF Orderly
<1> QED
  BY <1>1, <1>3, <1>11, <1>12, <1>13, <1>14, <1>15, ClientAlone DEF Talk

LEMMA AwaitTextTalk ==
  ASSUME TalkInv, NEW c \in Clients, Await(c), NEW line, read_line(c, line), line.kind = "text",
         Goto(c, "await", IF client_running[c] THEN "await" ELSE AfterAnswer(c, 0)),
         UNCHANGED <<left, astray>>
  PROVE  TalkInv'
<1>1. /\ UNCHANGED <<mainVars, serverVars, client_end, up, client_running, sock_ready, asked, file>>
      /\ TalkTypes /\ Talk(c)
  BY DEF Await, TalkInv
<1>2. /\ Shorter(c, line)
      /\ read_buffer' \in [Clients -> Seq(Text)] /\ down' \in [Clients -> Seq(Text)]
      /\ \A d \in Clients \ {c} : read_buffer'[d] = read_buffer[d] /\ down'[d] = down[d]
  BY <1>1, ReadShortens
<1>3. /\ thread'[c] = thread[c] /\ job'[c] = job[c] /\ blurred'[c] = blurred[c]
      /\ (Doomed(c)' <=> Doomed(c)) /\ (Over(c)' <=> Over(c)) /\ (Busy(c)' <=> Busy(c))
  BY <1>1, SamePlace
<1>4. PICK to \in Places :
        /\ Goto(c, "await", to)
        /\ \/ to = "await" /\ client_running[c]
           \/ to = "extra" /\ sock_ready[c] /\ ~client_running[c]
           \/ to = "select" /\ ~client_running[c]
  BY DEF AfterAnswer, Places
<1>5. client[c] = "await" /\ client'[c] = to /\ TalkTypes' /\ Alone(c)
  BY <1>1, <1>2, <1>4 DEF Goto, At, TalkTypes, Alone, serverVars
<1>6. Sockets(c)'
  BY <1>1, <1>3, <1>4, <1>5 DEF Talk, Sockets, Talking
<1>7. Budget(c)'
  BY <1>1, <1>4, <1>5 DEF Talk, Budget
<1>8. Supplied(c)'
  BY <1>1, <1>2, <1>3, <1>4, <1>5
    DEF Talk, Supplied, Finished, Started1, Coming1, Coming2, Shorter
<1>9. Orderly(c) => Orderly(c)'
  <2>1. ASSUME Orderly(c), to = "await"
        PROVE  Answering(c)' \/ Answered(c)'
    <3>1. Answering(c) \/ Answered(c)
      BY <1>2, <1>5, <2>1 DEF Orderly, Asked, Shorter
    <3> QED
      BY <1>1, <1>2, <1>3, <3>1 DEF Answering, Answered, Shorter
  <2> QED
    BY <1>1, <1>4, <1>5, <2>1 DEF Orderly
<1> QED
  BY <1>1, <1>3, <1>5, <1>6, <1>7, <1>8, <1>9, ClientAlone DEF Talk

LEMMA AwaitTalk ==
  ASSUME TalkInv, NEW c \in Clients, Await(c)
  PROVE  TalkInv'
<1>1. PICK line : read_line(c, line) /\
       \/ /\ line.kind = "prompt"
          /\ Goto(c, "await", AfterAnswer(c, left[c]))
          /\ left' = [left EXCEPT ![c] = IF client_running[c] /\ @ > 0 THEN @ - 1 ELSE 0]
          /\ astray' = [astray EXCEPT ![c] = @ \/ line.of # asked[c]]
       \/ /\ line.kind = "text"
          /\ Goto(c, "await", IF client_running[c] THEN "await" ELSE AfterAnswer(c, 0))
          /\ UNCHANGED <<left, astray>>
  BY DEF Await
<1>2. CASE line.kind = "prompt"
  BY <1>1, <1>2, AwaitPromptTalk
<1>3. CASE line.kind = "text"
  BY <1>1, <1>3, AwaitTextTalk
<1> QED
  BY <1>1, <1>2, <1>3

-----------------------------------------------------------------------------
LEMMA TalkInit == Init => TalkInv
<1> SUFFICES ASSUME Init PROVE TalkInv
  OBVIOUS
<1>1. <<>> \in Seq(Text) /\ <<>> \in Seq(Item) /\ Newline \in Item
  BY DEF Item
<1>2. TalkTypes
  BY <1>1 DEF Init, ServerInit, TalkTypes, Places
<1>3. ASSUME NEW c \in Clients
      PROVE  Talk(c)
  <2>1. /\ client[c] = "start" /\ thread[c] = "none" /\ up[c] = <<>> /\ client_end[c] = "none"
        /\ read_buffer[c] = <<>> /\ down[c] = <<>> /\ ~astray[c]
    BY DEF Init, ServerInit
  <2>2. Unread(c) = <<>>
    BY <1>1, <2>1, ConcatEmptySeq DEF Unread
  <2>3. Sockets(c) /\ Budget(c)
    BY <2>1, <2>2 DEF Sockets, Budget, Talking
  <2>4. Supplied(c)
    BY <2>1, <2>2, NoLines DEF Supplied, Finished
  <2>5. Orderly(c)
    BY <2>1 DEF Orderly
  <2> QED
    BY <2>3, <2>4, <2>5 DEF Talk
<1> QED
  BY <1>2, <1>3 DEF TalkInv

LEMMA TalkStep ==
  ASSUME TalkInv, ServerInv, [Next]_vars
  PROVE  TalkInv'
<1>0. thread \in [Clients -> ThreadPlaces]
  BY DEF ServerInv, ServerTypes
<1>1. CASE Serve(Main)
  BY <1>0, <1>1, MainTalk DEF Serve
<1>2. ASSUME NEW c \in Clients, Serve(client_thread(c))
      PROVE  TalkInv'
  BY <1>0, <1>2, ThreadTalk DEF Serve
<1>3. ASSUME NEW c \in Clients, Client(c)
      PROVE  TalkInv'
  <2>1. CASE SendCommand(c)
    BY <2>1, SendCommandTalk
  <2>2. CASE SendNewline(c)
    BY <2>2, SendNewlineTalk
  <2>3. CASE Greeting(c)
    BY <2>3, GreetingTalk
  <2>4. CASE Await(c)
    BY <2>4, AwaitTalk
  <2>5. CASE Extra(c)
    BY <2>5, ExtraTalk
  <2>6. CASE \E from \in {"greeting", "await", "extra"} : ReadEnds(c, from)
    BY <2>6, ReadEndsTalk
  <2>7. CASE \E from \in {"greeting", "await", "extra"} : Bye(c, from)
    BY <2>7, ByeTalk
  <2>8. CASE Unasked(c)
    BY <2>8, UnaskedTalk
  <2>9. CASE Connect(c)
    BY <2>9, ConnectTalk
  <2>10. CASE sig_handler_client(c)
    BY <2>10, SignalTalk
  <2>11. CASE TypeLine(c)
    BY <2>11, TypeLineTalk
  <2>12. CASE Leave(c)
    BY <2>12, LeaveTalk
  <2> QED
    BY <1>3, <2>1, <2>2, <2>3, <2>4, <2>5, <2>6, <2>7, <2>8, <2>9, <2>10, <2>11, <2>12
      DEF Client, ClientStep, ReadStep
<1>4. CASE UNCHANGED vars
  <2>1. UNCHANGED <<job, blurred, client_end, up, down, thread, read_buffer, clientVars, main>>
    BY <1>4 DEF vars, mainVars, serverVars, wireVars, clientVars, readVars
  <2>2. TalkTypes' /\ \A d \in Clients : Untouched(d)
    BY <2>1, ClientTypes DEF TalkInv, TalkTypes
  <2>3. \A d \in Clients : Apart(d)
    BY <2>1, <2>2 DEF Apart, Untouched, ServerAlive
  <2> QED
    BY <2>2, <2>3, Others DEF TalkInv
<1> QED
  BY <1>1, <1>2, <1>3, <1>4 DEF Next

\* The conversation of every client with its thread.
THEOREM ConversationKept == Spec => []TalkInv
<1>1. Init => TalkInv
  BY TalkInit
<1>2. TalkInv /\ ServerInv /\ [Next]_vars => TalkInv'
  BY TalkStep
<1> QED
  BY <1>1, <1>2, ServerCorrect, PTL DEF Spec

\* However the streams are cut and whoever leaves: a client takes a prompt for the end
\* of another command's answer only after a command came without its newline, or a
\* line looked like a prompt.
THEOREM PromptsInStep == Spec => []InStep
<1>1. TalkInv => InStep
  <2> SUFFICES ASSUME TalkInv, NEW c \in Clients, ~blurred[c]
               PROVE  ~astray[c]
    BY DEF InStep
  <2> QED
    BY Zenon DEF TalkInv, Talk, Orderly
<1> QED
  BY <1>1, ConversationKept, PTL

\* After a single command there is a line left for a client that reads once more than
\* it has to: only a client with a file of commands can wait for a server that waits
\* for it.
THEOREM SingleCommandsGoOn == Spec => []OnlyFilesBlock
<1>1. TalkInv => OnlyFilesBlock
  <2> SUFFICES ASSUME TalkInv, NEW c \in Clients, Stuck(c), ~file[c]
               PROVE  FALSE
    BY DEF OnlyFilesBlock
  <2>1. /\ client[c] = "extra" /\ read_buffer[c] = <<>> /\ down[c] = <<>> /\ up[c] = <<>>
        /\ ServerAlive /\ thread[c] = "poll"
    BY DEF Stuck, At
  <2>2. Unread(c) = <<>>
    BY <2>1, ConcatEmptySeq DEF Unread, TalkInv, TalkTypes
  <2>3. Coming1(c)
    BY <2>1 DEF TalkInv, Talk, Supplied
  <2> QED
    BY <2>1, <2>2, <2>3, NoLines DEF Coming1, Started1, Doomed, Busy
<1> QED
  BY <1>1, ConversationKept, PTL
=============================================================================
