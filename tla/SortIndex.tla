----------------------------- MODULE SortIndex ------------------------------
(***************************************************************************)
(* The parallel sort of a memory-mapped index (lab 6).  The records are    *)
(* divided into blocks; worker threads claim blocks under a mutex and sort *)
(* them, then merge neighbours in rounds, in place and without a lock,     *)
(* kept apart by the claims and by one barrier that every worker passes    *)
(* twice at the start and three times a round.  In the end main merges     *)
(* the two halves once more.                                               *)
(*                                                                         *)
(* A file that does not fit into the mapping is refused, so there is one   *)
(* pass.  The barrier is filled by all the workers, so that creating them  *)
(* one after the other is not observable.                                  *)
(***************************************************************************)
EXTENDS Integers, Sequences, FiniteSets

CONSTANTS
  Threads, Blocks, \* arguments of the program
  Inputs,          \* the time marks of the records: a set of arrays
  Faults           \* subset of {"malloc"}: calls that may fail

\* What main checks of its arguments: blocks & (blocks - 1) is 0 for the powers of
\* two, which are the numbers whose divisors are all even, but for 1.
PowerOfTwo(n) == n > 0 /\ \A d \in 2 .. n : n % d = 0 => d % 2 = 0

ASSUME ConstantsAssumption ==
  /\ Threads \in Nat \ {0} /\ Blocks \in Nat
  /\ PowerOfTwo(Blocks) /\ Blocks >= 4 * Threads
  /\ \A marks \in Inputs :
       /\ IsFiniteSet(DOMAIN marks)
       /\ marks \in [0 .. Cardinality(DOMAIN marks) - 1 -> Int]

VARIABLES
  base, records,         \* the mapped file
  block_map, merge_map,  \* blocks claimed: to sort, and to merge in this round
  pc, step, block, tmp,  \* each worker's locals
  waiting,               \* workers the barrier holds
  main                   \* position of the main thread

fileVars == <<base, records>>
mapVars == <<block_map, merge_map>>
localVars == <<step, block, tmp>>
vars == <<fileVars, mapVars, pc, localVars, waiting, main>>

Workers == 0 .. Threads - 1
BlockIds == 0 .. Blocks - 1

\* gen numbers the records from 1.
Init ==
  /\ \E marks \in Inputs :
       /\ base = [i \in DOMAIN marks |-> <<marks[i], i + 1>>]
       /\ records = Cardinality(DOMAIN marks)
  /\ block_map = {} /\ merge_map = {}
  /\ pc = [w \in Workers |-> "started"]
  /\ step = [w \in Workers |-> 1]
  /\ block = [w \in Workers |-> -1]
  /\ tmp = [w \in Workers |-> <<>>]
  /\ waiting = {}
  /\ main = "join"

-----------------------------------------------------------------------------
(* Records.                                                                *)

recs_per_block == records \div Blocks

Clipped(n) == IF n > records THEN records ELSE n

Slice(left, right) == [i \in 1 .. right - left |-> base[left + i - 1]]

Overwrite(left, recs) ==
  base' = [i \in DOMAIN base |->
             IF i \in left .. left + Len(recs) - 1 THEN recs[i - left + 1] ELSE base[i]]

Elements(recs) == {recs[i] : i \in DOMAIN recs}

InOrder(recs) == \A i, j \in DOMAIN recs : i < j => recs[i][1] <= recs[j][1]

\* qsort promises nothing about records that compare equal.
qsort(recs) ==
  {s \in [DOMAIN recs -> Elements(recs)] : InOrder(s) /\ Elements(s) = Elements(recs)}

\* Of two equal records the one of b goes first.
merge(a, b) ==
  LET From[p \in (1 .. Len(a) + 1) \X (1 .. Len(b) + 1)] ==
        LET i == p[1]
            j == p[2]
        IN  IF i > Len(a) \/ j > Len(b)
            THEN SubSeq(a, i, Len(a)) \o SubSeq(b, j, Len(b))
            ELSE IF a[i][1] < b[j][1] THEN <<a[i]>> \o From[<<i + 1, j>>]
                                      ELSE <<b[j]>> \o From[<<i, j + 1>>]
  IN  From[<<1, 1>>]

-----------------------------------------------------------------------------
(* The barrier.                                                            *)

\* Where a worker waits, and where it goes on.
After ==
  [started |-> "own", sorted |-> "round", round |-> "clear", cleared |-> "claim merge",
   merged |-> "next"]

\* Mutation: the barrier is made for one thread less.
Mut_Released(w) == waiting \cup {w} = Workers \ {0}

\* The worker that fills the barrier releases all of them.
Released(w) == waiting \cup {w} = Workers

pthread_barrier_wait(w) ==
  /\ pc[w] \in DOMAIN After /\ w \notin waiting
  /\ \/ ~Released(w) /\ waiting' = waiting \cup {w} /\ UNCHANGED pc
     \/ /\ Released(w) /\ waiting' = {}
        /\ pc' = [v \in Workers |-> After[pc[v]]]
  /\ UNCHANGED <<fileVars, mapVars, localVars, main>>

-----------------------------------------------------------------------------
(* The worker: sorting blocks.                                             *)

Goto(w, from, to) == pc[w] = from /\ pc' = [pc EXCEPT ![w] = to]

ClaimBlock(w, b) ==
  /\ block_map' = block_map \cup {b}
  /\ block' = [block EXCEPT ![w] = b]

\* First the block of its own number, if nobody has it.
ClaimOwn(w) ==
  /\ \/ w \notin block_map /\ Goto(w, "own", "sort") /\ ClaimBlock(w, w)
     \/ w \in block_map /\ Goto(w, "own", "claim") /\ UNCHANGED <<block_map, block>>
  /\ UNCHANGED <<fileVars, merge_map, step, tmp, waiting, main>>

\* Then the first that nobody has, until there is none.
Claim(w) ==
  /\ \/ /\ Goto(w, "claim", "sort")
        /\ \E b \in BlockIds \ block_map :
             (\A c \in BlockIds \ block_map : b <= c) /\ ClaimBlock(w, b)
     \/ BlockIds \subseteq block_map /\ Goto(w, "claim", "sorted") /\ UNCHANGED <<block_map, block>>
  /\ UNCHANGED <<fileVars, merge_map, step, tmp, waiting, main>>

Sort(w) ==
  LET left  == block[w] * recs_per_block
      right == Clipped(left + recs_per_block)
  IN  /\ Goto(w, "sort", "claim")
      /\ \E s \in qsort(Slice(left, right)) : Overwrite(left, s)
      /\ UNCHANGED <<records, mapVars, localVars, waiting, main>>

-----------------------------------------------------------------------------
(* The worker: merging neighbours.                                         *)

\* Mutation: the second barrier of a round is left out.
Mut_ClearMerges(w) ==
  /\ Goto(w, "clear", "claim merge")
  /\ merge_map' = IF w = 0 THEN {} ELSE merge_map
  /\ UNCHANGED <<fileVars, block_map, localVars, waiting, main>>

\* Worker 0 forgets the claims of the last round.
ClearMerges(w) ==
  /\ Goto(w, "clear", "cleared")
  /\ merge_map' = IF w = 0 THEN {} ELSE merge_map
  /\ UNCHANGED <<fileVars, block_map, localVars, waiting, main>>

\* The left blocks of the pairs of a round that nobody has claimed.
Unmerged(s) ==
  {b \in BlockIds : b % (s * 2) = 0 /\ b + s < Blocks /\ b \notin merge_map}

ClaimMerge(w) ==
  /\ \/ /\ Goto(w, "claim merge", "merge")
        /\ \E b \in Unmerged(step[w]) :
             /\ \A c \in Unmerged(step[w]) : b <= c
             /\ merge_map' = merge_map \cup {b}
             /\ block' = [block EXCEPT ![w] = b]
     \/ /\ Unmerged(step[w]) = {}
        /\ Goto(w, "claim merge", "merged")
        /\ UNCHANGED <<merge_map, block>>
  /\ UNCHANGED <<fileVars, block_map, step, tmp, waiting, main>>

Left(w) == block[w] * recs_per_block

Mid(w) == Clipped((block[w] + step[w]) * recs_per_block)
Right(w) == Clipped((block[w] + step[w] * 2) * recs_per_block)

\* Empty blocks are left alone.
Merge(w) ==
  /\ \/ /\ Mid(w) > Left(w) /\ Right(w) > Mid(w)
        /\ Goto(w, "merge", "copy")
        /\ tmp' = [tmp EXCEPT ![w] = merge(Slice(Left(w), Mid(w)), Slice(Mid(w), Right(w)))]
     \/ /\ Mid(w) = Left(w) \/ Right(w) = Mid(w)
        /\ Goto(w, "merge", "claim merge")
        /\ UNCHANGED tmp
  /\ UNCHANGED <<fileVars, mapVars, step, block, waiting, main>>

\* exit ends every thread.
MergeFails(w) ==
  /\ "malloc" \in Faults
  /\ pc[w] = "merge" /\ Mid(w) > Left(w) /\ Right(w) > Mid(w)
  /\ main' = "failed"
  /\ UNCHANGED <<fileVars, mapVars, pc, localVars, waiting>>

\* memcpy takes its time, and another thread may end the program meanwhile; the
\* left half of what it copies stands for any part of it.
CopyHalf(w) ==
  /\ Goto(w, "copy", "copying")
  /\ Overwrite(Left(w), SubSeq(tmp[w], 1, Mid(w) - Left(w)))
  /\ UNCHANGED <<records, mapVars, localVars, waiting, main>>

\* Mutation: what the left block holds is copied, and no more.
Mut_CopyBack(w) ==
  /\ Goto(w, "copying", "claim merge")
  /\ Overwrite(Left(w), SubSeq(tmp[w], 1, Mid(w) - Left(w)))
  /\ tmp' = [tmp EXCEPT ![w] = <<>>]
  /\ UNCHANGED <<records, mapVars, step, block, waiting, main>>

CopyBack(w) ==
  /\ Goto(w, "copying", "claim merge")
  /\ Overwrite(Left(w), tmp[w])
  /\ tmp' = [tmp EXCEPT ![w] = <<>>]
  /\ UNCHANGED <<records, mapVars, step, block, waiting, main>>

\* Mutation: a round is left out.
Mut_Doubled(s) == s * 4

Doubled(s) == s * 2

NextRound(w) ==
  /\ \/ Doubled(step[w]) < Blocks /\ Goto(w, "next", "round")
     \/ Doubled(step[w]) >= Blocks /\ Goto(w, "next", "exited")
  /\ step' = [step EXCEPT ![w] = Doubled(@)]
  /\ UNCHANGED <<fileVars, mapVars, block, tmp, waiting, main>>

-----------------------------------------------------------------------------
(* main                                                                    *)

\* The blocks, all but the rest that does not fill one, are one sorted run by now.
JoinWorkers ==
  /\ main = "join" /\ \A w \in Workers : pc[w] = "exited"
  /\ main' = IF Threads > 1 /\ Blocks > 1 /\ records > 1 THEN "final merge" ELSE "done"
  /\ UNCHANGED <<fileVars, mapVars, pc, localVars, waiting>>

FinalMerge ==
  /\ main = "final merge"
  /\ \/ /\ main' = "done"
        /\ Overwrite(0, merge(Slice(0, records \div 2), Slice(records \div 2, records)))
     \/ /\ "malloc" \in Faults /\ main' = "failed"
        /\ UNCHANGED base
  /\ UNCHANGED <<records, mapVars, pc, localVars, waiting>>

-----------------------------------------------------------------------------
Worker(w) ==
  \/ pthread_barrier_wait(w)
  \/ ClaimOwn(w) \/ Claim(w) \/ Sort(w)
  \/ ClearMerges(w) \/ ClaimMerge(w) \/ Merge(w) \/ MergeFails(w) \/ CopyHalf(w) \/ CopyBack(w)
  \/ NextRound(w)

Main == JoinWorkers \/ FinalMerge

Next ==
  /\ main # "failed"
  /\ Main \/ \E w \in Workers : Worker(w)

Spec == Init /\ [][Next]_vars

\* Every thread is scheduled.
FairSpec ==
  /\ Spec
  /\ WF_vars(main # "failed" /\ Main)
  /\ \A w \in Workers : WF_vars(main # "failed" /\ Worker(w))

-----------------------------------------------------------------------------
\* The records a worker reads and writes without a lock.
Touches(w) ==
  CASE pc[w] = "sort" -> Left(w) .. Clipped(Left(w) + recs_per_block) - 1
    [] pc[w] \in {"merge", "copy", "copying"} -> Left(w) .. Right(w) - 1
    [] OTHER -> {}

\* No two workers ever touch the same record at a time, in the same phase or in
\* different ones: the claims keep them apart within a phase or round, and the
\* barriers keep a fast worker from starting the next one beside a slow one.
NoSharedRecord ==
  \A v, w \in Workers : v # w => Touches(v) \cap Touches(w) = {}

Copies(S) == UNION {Elements(tmp[w]) : w \in S}
Copying == {w \in Workers : pc[w] = "copying"}

\* The records in the file, and in the arrays the workers copy from, which are gone
\* with the process.
Held == Elements(base) \cup IF main = "failed" THEN {} ELSE Copies(Workers)

\* Every record is in the file, or in the array a worker still copies from: a step
\* never loses or invents one, although the blocks are overwritten in place; except
\* that when malloc fails in one worker, exit loses records that others are inside
\* memcpy with, and none but those.
RecordsKept ==
  [][/\ Held' \subseteq Held
     /\ Held \ Held' \subseteq IF main' = "failed" THEN Copies(Copying) ELSE {}]_vars

\* What a worker merges is two sorted runs, finished by whoever had them before, and
\* what it copies back is all of their records, in order; after the last round the
\* blocks are one sorted run.  The file is sorted in the end if the blocks divide
\* the records; otherwise the rest was never looked at, and the merge of the two
\* halves starts from a half that is not sorted.
Sorted ==
  /\ \A w \in Workers :
       /\ pc[w] = "merge" => InOrder(Slice(Left(w), Mid(w))) /\ InOrder(Slice(Mid(w), Right(w)))
       /\ pc[w] = "copy" =>
            InOrder(tmp[w]) /\ Elements(tmp[w]) = Elements(Slice(Left(w), Right(w)))
  /\ main = "final merge" => InOrder(Slice(0, Blocks * recs_per_block))
  /\ main = "done" /\ records % Blocks = 0 => InOrder(Slice(0, records))

\* Every worker passes every barrier, however the claims fall, and main ends.
Ends == <>(main \in {"done", "failed"})
=============================================================================
