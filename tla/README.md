# OSaSP: specifications of the concurrent programs

The repository holds eight small C programs, one directory each, that exercise
the Unix interfaces for processes, shared memory, semaphores, threads,
condition variables, barriers, memory-mapped files, record locks and sockets.
They share no code; what they have in common is that each one coordinates
several processes or threads, and that its user may start, stop and resize
things at any moment. That coordination is what these modules specify.

## Inventory

| part | state it keeps | operations | how it interacts |
|---|---|---|---|
| `Producer-consumer problem for processes` | a ring of messages and its counters in a System V segment, three System V semaphores, two lists of children | children: add / get a message; main: keys `P p C c s q` | forked children share the ring; main removes them with SIGKILL and collects them with `wait(NULL)` |
| `Threads of execution, interaction and synchronization`, menu choice 1 (5.1) | a heap ring under a mutex and two POSIX semaphores, resizable; flags and counts of threads | producer and consumer threads; main: `p P c C + - s q` | `sem_timedwait` of 1 s; resize requests are served by the consumers; main posts surplus tokens to wake threads |
| same program, menu choice 2 (5.2) | the same ring under one mutex and two condition variables | same | `pthread_cond_timedwait` of 1 s; main broadcasts to wake threads |
| `Read:write locks` | a file of fixed-size records; per editor a copy of one record | `l g p q` | several editors run on one file; `p` uses open-file-description record locks and an optimistic re-read |
| `Working with memory-mapped files` | an index of records mapped in chunks, a block map, a merge map, a barrier | `sort_index`: sort phase, merge rounds, final merge; `gen`, `view` | worker threads claim blocks and merges under a mutex and meet at the barrier |
| `Sockets. Interprocess communication` | server: listening socket, one thread and working directory per client, a count of active threads; client: socket, read buffer, what `select` saw, a command file | ECHO, INFO, LIST, CD, QUIT, `@file` | TCP text protocol with a prompt as end mark; the server waits for its threads before it stops |
| `Interaction and synchronization of processes` | parent: an array of children; child: counters of the pairs it sampled | `+ - l k q`, SIGALRM sampling | parent and children exchange signals; the SIGCHLD handler edits the array the main loop edits |
| `The concept of processes` | parent: environment and child number | `+ * q` | fork/exec of `child` with an environment |
| `dirwalk` | one pass over a directory tree | options `-l -d -f -s` | none |

What makes each of them right, and what is hard about it:

| part | hard behaviour | correct means |
|---|---|---|
| process queue | SIGKILL between any two stores; semaphores without SEM_UNDO; `wait(NULL)` collects any child | the ring is exclusive and whole for whoever gets the mutex, nothing is counted twice, the ring is a FIFO, main never waits for a child that does not come, `q` always ends |
| thread lab, both | resizing a ring in use; retiring a thread that may hold the only wakeup or token; a failed wait or allocation in one thread | every message is in one place once, FIFO through resizes, requests are served, shutdown joins everybody, indices stay inside their arrays |
| 5.1 | semaphores and ring agree only up to what threads carry between token and mutex | no slot and no message without a token; exactly as many tokens as messages until surplus is posted |
| 5.2 | `pthread_cond_signal` wakes one thread only | nobody sleeps beside a message or a free slot |
| record editor | unlocked reads, torn reads and writes, retries, kills | no lost update, locks are always given back, every change of the file is a compare-and-set |
| parallel sort | barrier rounds; claims; blocks do not divide the records | ranges worked on at a time are disjoint, merges get sorted inputs, the result is a sorted permutation, everybody leaves the barrier |
| file server and client | a thread counts itself, the shutdown waits for a count and a signal; a command and its newline are two sends, and TCP keeps no boundaries; the client acts on a descriptor set that is out of date | no wakeup is lost and `Q` ends the server; the prompt a client stops at answers the command it sent; every command gets a prompt or the end of the connection |
| process manager | a handler that interleaves with every statement of the main loop; merged signals; `size++` is a load and a store | the array lists exactly the children that should live; every child that ends is collected; `q` ends |

## Modules

```
FifoBuffer               what a producer-consumer queue promises (abstract)
  ^          ^      ^
ShmQueue     CondQueue  SemQueue    the three implementations
                  \      /
                  ThreadLab         ring and main thread of both thread labs
RecordStore              what the record editor promises (abstract)
  ^
RecordEditor
SortIndex                the parallel sort
FileServer <- FileClient the server; the clients, and both together
ProcManager              the process manager and its children

ThreadLabProofs <- SemQueueProofs, CondQueueProofs    lemmas on the ring and the books
                                                of main, theorems on each lab
ShmQueueProofs, RecordEditorProofs, SortIndexProofs, ProcManagerProofs
                                                theorems on the module of that name
FileServerProofs                                theorems on the server and its clients

MCShmQueue, MCCondQueue, MCSemQueue, MCRecordEditor, MCSortIndex, MCFileClient
                         instances for TLC; ProcManager has its numbers in its cfg
```

### ShmQueue: the processes

One action is one step another process can tell apart. `Producer` is the loop
of `spawn_producer_process` (`generate_and_fill_message`, `WaitEmpty`,
`ProducerLock`, `add_message_to_queue`, `ProducerUnlock`, `PostFilled`),
`Consumer` the loop of `spawn_consumer_process`. A ring operation is two steps,
`add_store`/`add_count` and `get_copy`/`get_count`: SIGKILL can fall between the
stores, and what matters is whether the index or the counters are done. The
report and the sleep at the end of a round touch nothing shared and are part of
the last step. `head` and `tail` wrap at the start of the next operation, as in the
code, so both may equal `Capacity`.

`Main` handles one key at a time. `p` and `c` send SIGKILL (`doomed`) and then
wait for any child (`WaitChild`); a doomed child goes on until `Die`. A pid that was
already collected is not killed again. Cleanup consumes the two pid lists here;
the code keeps them and exits. `semop` and `fork` fail if `Faults` says so.
`terminate_last_*` and cleanup ignore the results of `kill` and `wait`, and so
does the model.

### ThreadLab, CondQueue, SemQueue: the threads

`ThreadLab` holds what both labs share: the ring, its resize request,
`run_lab_logic` (`AddProducer` ... `JoinThreads`), the destruction of the ring.
`CondQueue` and `SemQueue` extend it with the threads of `thread_funcs.c` and
with what `signal_cleanup_*` does. Waking threads is a step of its own after the
flags are cleared, because a thread can run in between.

In `CondQueue` one action is one critical section of the mutex; `can_produce`
and `can_consume` are the threads that wait and have not been signalled, and a
thread leaves the wait signalled (`ProducerEnter`), by time-out or spuriously
(`ProducerTimeout`), or by an error (`ProducerWaitFails`). In `SemQueue` a thread
takes its token, creates its message, enters the mutex, and posts afterwards, in
separate steps. `keep_running` and the `*_active` flags are read without a lock
in both, wherever the code reads them.

Abstractions: a message is `<<producer, serial>>`; hash, size and text are left
out, and so are the totals that are only printed. `resize_in_progress` is set
and cleared inside the mutex, so nobody can see it. The surplus posts of
`signal_cleanup_sem` are one step, and so are the posts or the `sem_trywait`s by which a
resize adjusts the empty slots: no thread is kept from a token longer than until the last
of them, but orders in which a thread takes one between two of them are not told apart. Sleeps are no steps. An access outside an
array ends the behaviour with `broken` naming the array: what follows is
undefined in C. Memory that was freed and then read only for a report
(`ProducerReport`) is marked as a step, and what it prints is not modelled.

### RecordEditor

An editor's `pc` names the place inside `do_get` or `do_put`. The record has two
parts, read in two steps where no lock is held and written in two steps: a
`read` or `write` of a record that crosses a page is not atomic, and a write may be cut short.
The locked re-read is one step, as nobody else writes then; `Settled` in the
refinement mapping relies on that, and the proof shows it. The lock belongs to
the open file: `Exit`, by `q` or by a kill, releases it. `F_GETLK`, whose answer is only
printed, and `l`, which changes nothing, are left out. Variable `typed` is what the
user entered last; no action reads it.

### SortIndex

A worker's `pc` names the place inside `worker`. Claims are made under the mutex, one step
each; a block is sorted, and two are merged into `tmp`, in one step, which `NoSharedRecord` justifies: nobody
else touches those records meanwhile. The copy back is two steps, because `exit`
of another worker can fall into it. `pthread_barrier_wait` collects `waiting` workers and releases
all of them; `After` says where each goes on. Every worker keeps its own `step`. `qsort` may order
records with equal time marks as it likes; `merge` is translated, and takes the
right one of two equal records first. The mutex, the thread handles and the printed lines are
left out, and so is the loop over the file: `mmap` is given all of it or main refuses.
`pthread_create`, whose result main ignores, is taken to succeed: a worker less would leave the barrier
unfilled and the others waiting at it for ever, so `Ends` holds of a program whose workers were all created.

### FileServer and FileClient

`FileServer` has `main` (`Accept`, `Stop`, `CloseListen`, `CheckCount`, `WakeUp`, `Report`) and
`client_thread` (`Count` ... `Finish`); `FileClient` extends it with the clients and is the
whole system. Each connection is two streams, `up` and `down`. The client sends a command and its
newline in two calls (`SendCommand`, `SendNewline`), and `Recv` takes any prefix of what is
there and forgets what follows the first newline, as the server's buffer does. A `recv` cuts
between items, never inside the text of a command: the server takes any part of a command for a
command, so cutting one further adds commands of the same kinds. What a
command is answered by is all that is left of it: a line, nothing, a line that
ends in `>`, or BYE. `LIST` and `CD` and the working directory only decide what
a line says and are left out.

`handle_server_line` is `read_line` with its buffer; `Greeting`, `Await` and `Extra` are the places it is
called from. `sock_ready` is the descriptor set as `select` left it, which
`AfterAnswer` still tests after a whole answer was read. `ServerClosed` is what a
client finds when its thread has closed the socket or the server is gone; a send to
a peer that left returns or raises SIGPIPE, which nobody ignores (`main` becomes
`killed`, a client `ended`). The wait of `main` under the mutex is `CheckCount`, the
wakeup by a thread `Finish`, a spurious one or the time-out of five seconds `Early`.
`RecvEnds` is the end of a connection whose client left, `RecvFails` an error of `poll` or `recv` while the
client is there.

`blurred` and `astray` are history variables: the thread got a command without
its newline, or answered by a line that looks like a prompt; the client took the prompt of another
command for the answer to its own.

### ProcManager

The main loop is one step for each access to the array that the handler can come
between: `size++` and `size--` load and store (`LoadSize`, `StoreSize`; the makefile
does not optimise), `init_child_process` reads the index and writes the entry,
`delete_child_process_by_index` checks its index, takes the pid, sends SIGTERM, closes the gap and
lowers `size`. Main's search for a child it collected is a loop of two steps, the test of `i` against `size`
(`Find`) and the comparison with the entry that is at `i` by then (`Compare`); the loop that
closes the gap is one of three, the test (`CloseUp`), and the load and the store of a copy (`CopyLoad`, `CopyStore`).
The loop of `delete_child_process_by_index` is called for the last entry and copies nothing, so that only its test
is left (`Shift`). `signal_handler_chld` is entered at any point where no handler
runs (its `sa_mask` blocks all three signals), and each round of its `waitpid` loop is a step
(`HandlerReaps`), in which it searches and closes up the array undisturbed; signals of a kind that is pending already merge. The loop of
`main` that collects children at the end of each command (`Reap`) competes with it.
`Dangling` is the moment between the return of `realloc` and the assignment. Use of memory
outside the array, or given back, sets `broken` and ends the behaviour.

`raced` is a history variable: a child was collected by the handler at a place where main
loses count (`Disturbs`, which names the place and the child for each of them). The sampling child is `Report`, whose SIGUSR1 and SIGUSR2 the parent
handles alike, and `Ends`; the pairs it counts are only printed. Pids grow and are not reused.

## Abstract specifications

`FifoBuffer`: writers offer, an offered message enters at most once, readers take
the oldest, the bound changes only to one that still holds what is queued. Each of
the three queues implements it (`ImplementsFifo`). For `ShmQueue` a message
enters when `count` is raised and leaves when it is copied out, so a child
killed in the middle of an operation leaves the abstract queue unchanged; its
bound is `Capacity - 1`. For the thread labs the bound is the current capacity.

`RecordStore`: a record changes only by compare-and-set, whole or torn, from what
its editor last saw. `RecordEditor` implements it (`ImplementsStore`) under the
mapping `Settled`, in which a write that has begun has not happened yet.

## Runs

Nine runs pass, three show a disagreement between code and text.

| run | instance | shows |
|---|---|---|
| `shm_safety` | 2 producers, 2 consumers, ring of 3, 4 messages of 2 kinds, `p` and `q` kill anywhere, fork may fail | types; `UnlockedRingIsWhole`; `SlotsAccounted`; `WaitNeverBlocks`; `RemovedMeansAllReaped`; `ImplementsFifo` |
| `shm_live` | 2 producers, 1 consumer, ring of 3, all keys and faults, fair | `MutualExclusion` (with the status report); `KeysServed`: `q` ends, `s` returns unless the mutex is lost; `EveryMessageExtracted` unless a child is lost |
| `shm_full` | 2 producers, no consumer | violation of `EmptySlotMeansRoom` |
| `cond_safety` | 2 + 2 threads, ring of 2, added, retired, one decrease | types; `NobodyOverlooked`; `ImplementsFifo` |
| `cond_live` | 1 + 1 threads, 1 to 3 slots, all keys and faults, fair | `OwnedOnce`; `ResizeServed`; `ShutdownCompletes`; `RetiredThreadsExit` |
| `cond_exact_fit` | 1 + 1 threads, `-` | violation of `StoresInRing` |
| `sem` | 1 + 1 threads, 1 or 2 slots, all keys and faults, fair | types; `OwnedOnce`; `TokensAccounted`; `ImplementsFifo`; `ShutdownCompletes`; `RequestCleared` |
| `editor` | 2 editors, 1 record, 3 edits, every fault, fair | types; `LockDiscipline`; `NoLostUpdate`; `ImplementsStore`; `PutReturns` |
| `editor_dropped` | 2 editors, 2 edits | violation of `UpdatedAsTyped` |
| `sort` | 2 workers, 8 blocks, 0 to 19 records, `malloc` may fail, fair | `NoSharedRecord`; `Sorted`; `RecordsKept`; `Ends` |
| `files` | 1 client, a session of 3 commands typed or from a file of 2, both sides may leave at any time, `accept`, `pthread_create`, `poll` and `recv` may fail, fair | `InStep`; `OnlyFilesBlock`; `NoLostWakeup`; `AnswerComes`; `StopsAfterQ` |
| `proc` | 3 children that report and end at any time, an array that grows once, all keys and faults, fair | `TypeOK`, with the array left only after a disturbance; `ListExact`; `ZombiesCollected`; `QuitEnds` |

Deadlock is not checked: the programs stop after `q` or when they are done, a killed child leaves its
siblings blocked for ever by design, and the bounds end the making of messages.

### What the violations say

- `shm_full`: the empty-slots semaphore starts at `BUFFER_CAPACITY`, the ring
  takes one message less; the producer that gets the last unit exits inside
  the mutex.
- `cond_exact_fit`: a ring shrunk to exactly its number of messages gets
  `tail = capacity`, and the next message is stored one past the array. The same
  statements are in `queue_sem.c`, and `Overrun` is an action of both modules.
- `editor_dropped`: a conflict replaces the user's edit by the current record, and
  the retry reports that as an update.

### What the passing properties are worded around

- `KeysServed` excepts a lost mutex: `p` may kill a producer inside the ring,
  after which `s` blocks main and no key is read again.
- `NobodyOverlooked` is checked without failing allocations: a resize that
  fails clears the request that held the producers up and wakes none of them, so
  that they sleep until their time-out.
- `TokensAccounted` asks for exact tokens only until main posts surplus ones to wake
  threads; those reach siblings as tokens for messages that do not exist.
- `IdOverrun`: `P` gives back a count but not an id, so after enough `p` and `P`
  the id leaves the arrays. The text printed when the house is full speaks of the count, which is respected.
- `Sorted` speaks of the whole file only if the blocks divide the records: nobody sorts
  the rest, and the final merge takes it for part of a sorted run.
- `InStep` excepts a client whose command arrived without its newline: the newline
  is then an empty command, its prompt is taken for the answer to the next
  command, and the client stays one prompt behind. It also excepts lines that look like prompts.
- `OnlyFilesBlock`: after a command file the client may read for the sake of a
  descriptor set from before the file, block with nothing under way, and not see the keyboard
  any more; after a single command it cannot.
- `AnswerComes` and `StopsAfterQ` count the end of the server by SIGPIPE as an end. When `main` is woken
  by one thread while others still run, it leaves (a comment at server.c:425 says so), and they end
  in the middle of an answer.
- `RecordsKept` excepts the end of the process by `exit(1)` when `malloc` fails in one worker (sort_index.c:142) while
  others are inside the `memcpy` of line 146: what they have overwritten and not copied yet is lost. It says
  that no other record is, and that no other step loses one.
- `ListExact` excepts histories in which the handler collected a child at one of the places
  `Disturbs` names. Nothing in the program blocks SIGCHLD there, so these are real errors of the list:
  the child was forked and is not in the array yet, or is the one main is about to take out; `size` was loaded and its change not
  stored yet; the child stands before the entry that main's search has come to, which is the one it looks for and
  moves back past it; it stands before the gap main is closing, or main holds a copy of it. Wherever else SIGCHLD
  comes, the list is right. None of the disjuncts, and none of the places in them, can be left out.
- `TypeOK` of `ProcManager` lets main leave the array, or `size` wrap (`size - 1` and `size--` are unsigned), after such a disturbance
  only; and it lets the handler use the array that `realloc` gave back, before main has assigned the new one.
- `QuitEnds` and `ZombiesCollected` except `broken`, as nothing is known of the program after that.

### Bounds, and why they are enough

- Two threads or processes of a kind are enough for every
  pairwise race, for a wakeup that reaches the wrong sibling and for a retired thread
  that carries one; `sem` has one of each kind, and its invariants are proved for any number.
- `ShmQueueSafety` has a ring of three and four messages: it fills, wraps and wraps
  again. `CondQueueLive` stores three messages in rings of one to three slots. Two kinds
  of message tell an order from its reverse.
- `MaxAdded`, `MaxMade`, `MaxEdits`, `Commands`, `MaxChildren` bound what users and producers do, as conjuncts
  of the action that makes a message, an edit, a command or a child. `MaxCapacity` bounds `+`.
  Each child is forked at most once; a child forked later is another member of the set.
- `Spare` stands for the 5 surplus posts. It is 0 in `sem`, where capacity and the thread
  counts are posted on top of it, so that surplus tokens still occur.
- `shm_safety` has no `c` and `s`: consumers are killed by `q` there; `shm_live` has every key.
- `SortIndex` has as many blocks per worker as the program insists on, three merge rounds, and
  arrays of 0 to 19 records: with empty blocks, one or two records a block, and a rest.
- `files` has one client: clients share nothing but the count and the shutdown, which
  `FileServerProofs` treats for any number. Three commands let a prompt be misplaced by the first,
  found by the second and passed on to a file; a stream holds two items and more at a time.
- `proc` has an array of two entries that the third child makes grow. With three children a
  first, middle and last entry can go, two can end at once, and one be made meanwhile.
- Symmetry is used in `shm_safety` only, a run without liveness.

### Fairness

Processes and threads are scheduled by the kernel, and a blocked `semop` is served in
order, hence strong fairness of the children's and main's waits in
`ShmQueue` and weak fairness of everything else. SIGKILL is delivered. Keys are
never fair: the user need not press any. In the thread labs weak fairness of each
thread is enough, as every wait ends after a second. In
`RecordEditor` the kernel grants a lock that stays free, and a put that was begun is carried on; what the
user does at the menu or in the form is not fair. The workers of
`SortIndex` and its main are scheduled by the kernel, each weakly fair. In `FileClient` the steps a thread,
a client or `main` of the server takes by itself are weakly fair; a typed line, a signal, the end
of the input, an early wakeup and the time-out of the server's wait are not, and nobody has to connect. In
`ProcManager` main goes on with a command it was given, SIGCHLD is delivered and handled (the
reports of a child, 101 samples apart, do not keep it away for ever), and a child that was sent SIGTERM ends; keys,
reports and children that end by themselves are not fair. A faulty call may fail any number of times.

## Proofs

Every safety property of a passing run is also a theorem, for every value of the
constants; what is proved assumes no more of them than the module's own `ASSUME`.

`ShmQueueProofs`: for all finite sets of children, every ring size of at least two, every set of
keys and faults, from `ConstantsAssumption` alone:
`TypeCorrect`, `RingIsExclusive`, `SlotsAreAccounted`, `ConsumerFindsMessage`,
`UnlockedRingWhole`. None of the invariants is inductive by itself. The range of
the semaphores follows from the slot accounting; the accounting is only kept if
nobody else changes `count` between the two halves of an operation, which is mutual
exclusion; and that the ring is whole at the unlock needs to know how it is torn
inside. So `IInv` is `TypeOK`, `MutualExclusion`, `SlotsAccounted` and `RingSteps`, which
gives the displacement of `head` at each place. `TallyMove` says how a count of
processes at some places changes when one of them moves; each action has one
lemma, and `StepInv` puts them together.

Its second part is what main does: `WaitReturns` and `AllReaped`. `wait(NULL)` collects
any child, so the argument is a count (`RInv`): each time a child leaves the lists, one is collected; there are as many
collected as removed, or one less while main waits, and then some removed child is
not collected yet and has SIGKILL on its way.

Its third part proves `FifoImplemented`, that is `Spec => ImplementsFifo`. What the buffer sees is a `Row` of messages from
`tail` on; three lemmas on rows carry the index arithmetic (a message is counted in, the front is left behind, a store
outside leaves the row). `MInv` adds to `IInv` whose message is where: a producer between `generate` and the raise of `count` has
one, between its two stores it stands just behind `head`, and a consumer outside its own part has none. Then
`add_count` is `Put`, `get_copy` is `Get`, the first and the last step of a round are `Offer` and `Finish`,
and the rest, kills included, is invisible.

`ThreadLabProofs` holds the lemmas both labs need, for any number of threads, ring size and step. `Ring` says what the
indices have to do with each other (`tail` is `head + count` around the ring, or `capacity` after an exact fit);
`Places` is the set of slots in use with their messages, and `Owners` says that these, the hands of the consumers and the
destroyed messages are disjoint and make up what was made; `PutStep`, `TakeStep`,
`MoveStep`, `WorkStep` and `DestroyStep` say what one operation does to both. `Books` is what main knows: ids, counts and flags
match the threads there are, and after the lab has been dismissed nobody is added.
Its last part reads the ring as a FIFO buffer: `Row` is the messages from `head` on, `RowGrows`, `RowShrinks` and `RowMoves` say what a
put, a take and a resize do to it, and `FifoPut`, `FifoTake`, `FifoMove`, `FifoWork` and `FifoClose` map the operations of
the lab to those of the buffer. From these `SemQueueProofs` and `CondQueueProofs` each prove `FifoImplemented`, the
whole refinement, action by action over their own `IInv`.

`SemQueueProofs`: `TypeCorrect`, `MessagesOwnedOnce`, `TokensAreAccounted`, whatever fails. None is
inductive by itself: that a resize leaves enough tokens needs the ring not to be overfull, that a thread may give its
token back needs the positions and the books, and that a message is in one place needs to know which consumers hold
one. `IInv` is their conjunction, with `Tally` counting the threads that carry a token.

`CondQueueProofs`: `TypeCorrect`, `MessagesOwnedOnce` and, as long as `malloc` does not fail,
`NobodyLeftAsleep`. Its `IInv` adds that an increase is still one when it is served (`Growing`), without which
messages would not fit, and that only waiting threads are in a wait set. With that, `NobodyOverlooked` is inductive: after a
step a wait set is empty, or the thread that made the step is awake, or a waiter has just been signalled, or there is nothing to
wake up for, or nothing has changed.

`FileServerProofs` has two parts, both for any finite set of clients, any commands and any faults. `NoWakeupLost`: the
count is that of the threads between `Count` and `Finish`; main sleeps only after it has seen it above 0, and the step that
lowers it also wakes main. `PromptsInStep` and `SingleCommandsGoOn` (`InStep`, `OnlyFilesBlock`) are about a client and its
thread. `Unread` puts the buffer of the client and the stream together, so that it does not matter where a `recv` cuts:
`read_line` takes the head of it (`ReadLine`), a send appends to it (`LineSent`). `TalkInv` then says of each client which prompts are
in there or will come, by where the two are. `Supplied` holds always: after a text there is a prompt to come, and a
client whose descriptor set was not empty when its only command was typed has two of them before it, or a thread that leaves;
the second is what `Extra` finds. `Orderly` holds as long as the client is not `blurred`: before a command the connection is
quiet, and after it exactly one of these is true: the command is under way with its newline, the thread works on it, it was answered.
That a server which closed the connection reads nothing more is needed in both.

`SortIndexProofs`: for any number of workers, any `Blocks` main accepts and any file, `RecordsNotShared`, `FileSorted` and
`NoRecordLost` (`NoSharedRecord`, `Sorted`, `RecordsKept`). `IInv` says that all workers are in the same phase between two
barriers (`Together`) and the same round (`Rounds`); which claims they hold, and that no two of them hold the same
(`Claims`); which blocks are sorted runs by then (`Contents`), with what a worker has in `tmp` (`Arrays`). That no record is shared
is arithmetic on claims: the ranges of two pairs of blocks of the same round do not meet. `NoRecordLost` has one lemma for the steps after which the
process is there and one for those that end it (`FailStep`): an array that is lost with it was empty, held what the file still
holds, or was being copied. `merge` is a recursive function;
`MergeProps` says that it keeps the records and the order. The induction it needs is carried out on sets of numbers: the places
where it fails would have a least element (`WFMin` and `NatLessThanWellFounded` of the library), as the induction theorems of the library take an
operator that no prover here can instantiate. Records carry their number, so that the set of the elements says
that none is lost or doubled. `PowerOfTwo`, which main insists on, is stated by divisors, without recursion.

`ProcManagerProofs`: for any number of children, any capacity and any keys and faults, `TypeCorrect` and
`ArrayListsChildren` (`TypeOK`, `ListExact`). `TypeOK` is not inductive, as the handler may lower `size` at every place
of main: `Room` says up to where the array is filled at each of them (`Filled`: what main is about to store, not
what is there now), and holds even after a disturbance. `Ages` says that pids go up, from which the order of the array
follows. `Listing` follows main through each command, and holds until a child is collected
at a place that `Disturbs` names: `WhileAdding`, `WhileDeleting` and `WhileReaping` say which entry is missing or too many at each
place. What is listed may lack a child that ended just before it was told to and was not collected yet (`Near`). While main
searches, the child it looks for is at none of the entries it has passed. While main closes a gap, the array
without the entry at `Gap` is right, and what is in the gap was collected, or is a copy of an entry before it (`Spent`): so the handler, which takes
the first entry of a child, never finds one there that is listed, whichever step of a copy it comes in.
`GapProps` says what its removal does to the array around main's gap, and where the gap is afterwards. `HistoryStep` is
the second half of `TypeOK`: as long as `Listing` holds, `size` is above 0 where main takes 1 from it.

`RecordEditorProofs`: for any editors, records, values and faults, from
`ConstantsAssumption`: `TypeCorrect`, `LocksMatch`, `NoUpdateIsLost` and
`StoreImplemented`, the last being the whole refinement `Spec => ImplementsStore`. `Typed` adds to the types that an
editor with something to put knows its record; `LockDiscipline` is inductive on
top of that; `WriteClaims` says what the writer knows of the record between the
comparison and the end of the write, and needs the locks to keep the others
away. The refinement then goes action by action: `WriteRest` is `Commit`, a write that
fails or is killed half way is `Tear`, every other step is invisible or `Local`.

Only model-checked: liveness and everything that rests on fairness (`KeysServed`, `EveryMessageExtracted`,
`ResizeServed`, `ShutdownCompletes`, `RetiredThreadsExit`, `RequestCleared`, `PutReturns`, `Ends`, `AnswerComes`, `StopsAfterQ`,
`ZombiesCollected`, `QuitEnds`): the prover treats neither `ENABLED` nor the fairness conditions built on it.

## Not modelled

- `message.c`, `utils.c` of the thread lab: a source of messages, a hash, a key reader. Their effect is in the threads' actions.
- `generation.c`, `gen.c`, `view.c`, `dirwalk`, `The concept of processes`: sequential programs of input and output, which
  keep no state between two operations.
- Text, hashes, statistics and totals that are only printed, in all programs; directories in the file server.

## Plan

Built, in this order: `FifoBuffer`, `ShmQueue` and its proofs; `ThreadLab`, `CondQueue`,
`SemQueue`; `RecordStore`, `RecordEditor` and its proofs; `SortIndex`; `FileServer`, `FileClient`,
`ProcManager`; the proofs of the removal, of both thread labs and of the server, and of the refinement of `FifoBuffer` by
all three queues; the proofs of the sort, of the process manager and of the conversation between client and server.
What is left: safety lemmas for the liveness properties, each of which would say that the only
states without progress are those the property excepts.

`PROJECT.json` lists, for every definition, the lines it stands for, and the hazards
of each part with the properties that watch them.

## Running

```
tlc -config ShmQueueSafety.cfg MCShmQueue.tla
tlapm ShmQueueProofs.tla
```
