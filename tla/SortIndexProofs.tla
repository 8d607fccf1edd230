-------------------------- MODULE SortIndexProofs ---------------------------
(***************************************************************************)
(* Proofs about SortIndex, for any number of workers, any number of blocks *)
(* that main accepts and any file: no two workers touch the same record    *)
(* at a time, what is merged is sorted and so is the file in the end, and  *)
(* no step loses a record, but for exit during a memcpy.                   *)
(*                                                                         *)
(* The inductive invariant says in which phase the workers are together,   *)
(* which claims they hold, and which blocks are sorted runs by then.       *)
(***************************************************************************)
EXTENDS SortIndex, SequenceTheorems, FiniteSetTheorems, WellFoundedInduction, TLAPS

-----------------------------------------------------------------------------
(* The inductive invariant.                                                *)

\* A time mark and the number of the record.
Datum == Int \X Int

Pcs ==
  {"started", "own", "claim", "sort", "sorted", "round", "clear", "cleared", "claim merge",
   "merge", "copy", "copying", "merged", "next", "exited"}

Typed ==
  /\ records \in Nat /\ base \in [0 .. records - 1 -> Datum]
  /\ block_map \subseteq BlockIds /\ merge_map \subseteq BlockIds
  /\ pc \in [Workers -> Pcs]
  /\ step \in [Workers -> Nat \ {0}]
  /\ block \in [Workers -> BlockIds \cup {-1}]
  /\ tmp \in [Workers -> Seq(Datum)]
  /\ waiting \subseteq {w \in Workers : pc[w] \in DOMAIN After}
  /\ main \in {"join", "final merge", "done", "failed"}

\* Between two barriers all the workers are in one of these.
Sorting == {"own", "claim", "sort", "sorted"}
Turning == {"round", "next", "exited"}
Clearing == {"clear", "cleared"}
Merging == {"claim merge", "merge", "copy", "copying", "merged"}

Phases == {{"started"}, Sorting, Turning, Clearing, Merging}

Together == \E P \in Phases : \A w \in Workers : pc[w] \in P

Busy == {"merge", "copy", "copying"}

\* The blocks a sorted run spans, for a worker that has not counted the round it leaves.
Stage(w) == IF pc[w] = "next" THEN step[w] * 2 ELSE step[w]

Rounds ==
  /\ \A v, w \in Workers : Stage(v) = Stage(w)
  /\ \A w \in Workers :
       /\ Blocks % Stage(w) = 0
       /\ pc[w] = "started" \/ pc[w] \in Sorting => step[w] = 1
       /\ pc[w] = "round" \/ pc[w] \in Clearing \/ pc[w] \in Merging => step[w] < Blocks
       /\ pc[w] = "exited" => step[w] = Blocks

\* The left block of a pair of a round whose runs have s blocks.
Pair(b, s) == b \in BlockIds /\ b % (s * 2) = 0 /\ b + s < Blocks

Claims ==
  /\ \A w \in Workers :
       /\ pc[w] = "started" => block_map = {}
       /\ pc[w] = "sort" => block[w] \in block_map
       /\ pc[w] = "sorted" => BlockIds \subseteq block_map
       /\ pc[w] = "cleared" /\ w = 0 => merge_map = {}
       /\ pc[w] \in Busy => block[w] \in merge_map /\ Pair(block[w], step[w])
       /\ pc[w] = "merged" => \A b \in BlockIds : Pair(b, step[w]) => b \in merge_map
  /\ \A v, w \in Workers :
       /\ v # w
       /\ (pc[v] = "sort" /\ pc[w] = "sort") \/ (pc[v] \in Busy /\ pc[w] \in Busy)
       => block[v] # block[w]

\* What records lo to hi - 1 are, and whether they are in order.
OrderedIn(f, lo, hi) == \A i, j \in lo .. hi - 1 : i < j => f[i][1] <= f[j][1]
Content(f, lo, hi) == {f[i] : i \in lo .. hi - 1}

\* The n blocks from b, of r records each, are a sorted run.
Run(f, r, b, n) == OrderedIn(f, b * r, (b + n) * r)

SortedBlocks ==
  (\A w \in Workers : pc[w] \in Sorting) =>
    \A b \in block_map :
      Run(base, recs_per_block, b, 1) \/ \E w \in Workers : pc[w] = "sort" /\ block[w] = b

SortedRuns ==
  \A w \in Workers :
    pc[w] \in Turning \/ pc[w] \in Clearing =>
      \A b \in BlockIds : b % Stage(w) = 0 => Run(base, recs_per_block, b, Stage(w))

Halves(f, r, b, s) == Run(f, r, b, s) /\ Run(f, r, b + s, s)

MergedRuns ==
  \A w \in Workers :
    pc[w] \in Merging =>
      \A b \in BlockIds : Pair(b, step[w]) =>
        /\ b \notin merge_map => Halves(base, recs_per_block, b, step[w])
        /\ b \in merge_map =>
             \/ Run(base, recs_per_block, b, step[w] * 2)
             \/ \E v \in Workers : pc[v] \in Busy /\ block[v] = b

Unfinished ==
  \A w \in Workers :
    pc[w] = "merge" => Halves(base, recs_per_block, block[w], step[w])

Contents == main # "done" => SortedBlocks /\ SortedRuns /\ MergedRuns /\ Unfinished

\* The array a worker copies from holds all the records it is copied over.
Arrays ==
  \A w \in Workers :
    /\ pc[w] \notin {"copy", "copying"} => tmp[w] = <<>>
    /\ pc[w] \in {"copy", "copying"} =>
         /\ InOrder(tmp[w])
         /\ Len(tmp[w]) = Right(w) - Left(w)
         /\ Content(base, Left(w), Right(w)) \subseteq Elements(tmp[w])
    /\ pc[w] = "copy" => Elements(tmp[w]) = Content(base, Left(w), Right(w))

Finished ==
  /\ main \in {"final merge", "done"} => \A w \in Workers : pc[w] = "exited"
  /\ main = "done" /\ records % Blocks = 0 => OrderedIn(base, 0, records)

IInv == Typed /\ Together /\ Rounds /\ Claims /\ Contents /\ Arrays /\ Finished

-----------------------------------------------------------------------------
(* Induction.  A set of naturals that is not empty has a least element; so *)
(* a set that holds 0 and, with a number, the next one, holds them all.    *)

LEMMA Least ==
  ASSUME NEW T, T \subseteq Nat, T # {}
  PROVE  \E x \in T : \A y \in T : x <= y
<1> DEFINE R == {ss \in Nat \X Nat : ss[1] < ss[2]}
<1>1. R = OpToRel(<, Nat)
  BY DEF OpToRel
<1>2. IsWellFoundedOn(R, Nat)
  BY <1>1, NatLessThanWellFounded
<1>3. \A x, y \in Nat : <<y, x>> \in R <=> y < x
  OBVIOUS
<1> HIDE DEF R
<1>4. PICK x \in T : \A y \in T : ~ (<<y, x>> \in R)
  BY <1>2, WFMin
<1>5. ASSUME NEW y \in T
      PROVE  x <= y
  <2>1. x \in Nat /\ y \in Nat
    BY <1>4, <1>5
  <2>2. ~ (y < x)
    BY <1>3, <1>4, <1>5, <2>1
  <2> QED
    BY <2>1, <2>2
<1> QED
  BY <1>5

LEMMA Induction ==
  ASSUME NEW S, 0 \in S, \A n \in Nat : n \in S => n + 1 \in S
  PROVE  Nat \subseteq S
<1> SUFFICES ASSUME Nat \ S # {}
             PROVE  FALSE
  OBVIOUS
<1>1. PICK x \in Nat \ S : \A y \in Nat \ S : x <= y
  BY Least
<1>2. x # 0 /\ x - 1 \in Nat /\ x - 1 \in S
  BY <1>1
<1> QED
  BY <1>1, <1>2

-----------------------------------------------------------------------------
(* merge.                                                                  *)

Grid(a, b) == (1 .. Len(a) + 1) \X (1 .. Len(b) + 1)

\* The body of merge, where f is what it returns from there on.
Merged(a, b, f, p) ==
  IF p[1] > Len(a) \/ p[2] > Len(b)
  THEN SubSeq(a, p[1], Len(a)) \o SubSeq(b, p[2], Len(b))
  ELSE IF a[p[1]][1] < b[p[2]][1] THEN <<a[p[1]]>> \o f[<<p[1] + 1, p[2]>>]
                                  ELSE <<b[p[2]]>> \o f[<<p[1], p[2] + 1>>]

Solves(a, b, f) == f = [p \in Grid(a, b) |-> Merged(a, b, f, p)]

\* The places at most k steps before the end.
Near(a, b, k) == {p \in Grid(a, b) : p[1] + p[2] + k >= Len(a) + Len(b) + 2}

LEMMA NearPlace ==
  ASSUME NEW a \in Seq(Datum), NEW b \in Seq(Datum), NEW k \in Nat,
         NEW i \in 1 .. Len(a) + 1, NEW j \in 1 .. Len(b) + 1,
         i + j + k >= Len(a) + Len(b) + 2
  PROVE  <<i, j>> \in Near(a, b, k)
<1>1. <<i, j>> \in Grid(a, b)
  BY DEF Grid
<1>2. <<i, j>>[1] = i /\ <<i, j>>[2] = j
  OBVIOUS
<1> QED
  BY <1>1, <1>2 DEF Near

LEMMA MergeIs ==
  ASSUME NEW a, NEW b
  PROVE  merge(a, b) = (CHOOSE f : Solves(a, b, f))[<<1, 1>>]
BY DEF merge, Solves, Merged, Grid

LEMMA MergedTyped ==
  ASSUME NEW a \in Seq(Datum), NEW b \in Seq(Datum), NEW f \in [Grid(a, b) -> Seq(Datum)],
         NEW p \in Grid(a, b)
  PROVE  Merged(a, b, f, p) \in Seq(Datum)
<1> DEFINE i == p[1]
           j == p[2]
<1>0. i \in 1 .. Len(a) + 1 /\ j \in 1 .. Len(b) + 1 /\ p = <<i, j>> /\ Len(a) \in Nat /\ Len(b) \in Nat
  BY DEF Grid
<1>1. CASE i > Len(a) \/ j > Len(b)
  <2>1. SubSeq(a, i, Len(a)) \in Seq(Datum) /\ SubSeq(b, j, Len(b)) \in Seq(Datum)
    BY <1>0, SubSeqProperties
  <2> QED
    BY <1>0, <1>1, <2>1 DEF Merged
<1>2. CASE i <= Len(a) /\ j <= Len(b)
  <2>1. a[i] \in Datum /\ b[j] \in Datum /\ <<i + 1, j>> \in Grid(a, b) /\ <<i, j + 1>> \in Grid(a, b)
    BY <1>0, <1>2, ElementOfSeq DEF Grid
  <2> HIDE DEF i, j
  <2>2. <<a[i]>> \in Seq(Datum) /\ <<b[j]>> \in Seq(Datum)
    BY <2>1
  <2>3. f[<<i + 1, j>>] \in Seq(Datum) /\ f[<<i, j + 1>>] \in Seq(Datum)
    BY <2>1
  <2>4. <<a[i]>> \o f[<<i + 1, j>>] \in Seq(Datum) /\ <<b[j]>> \o f[<<i, j + 1>>] \in Seq(Datum)
    BY <2>2, <2>3, ConcatProperties
  <2> QED
    BY <1>0, <1>2, <2>4 DEF Merged, i, j
<1> QED
  BY <1>0, <1>1, <1>2

\* The recursion of merge ends.
LEMMA MergeSolved ==
  ASSUME NEW a \in Seq(Datum), NEW b \in Seq(Datum)
  PROVE  \E f : Solves(a, b, f)
<1> DEFINE Fits(f, k) == \A p \in Near(a, b, k) : f[p] = Merged(a, b, f, p)
           S == {k \in Nat : \E f \in [Grid(a, b) -> Seq(Datum)] : Fits(f, k)}
<1>0. Len(a) \in Nat /\ Len(b) \in Nat
  OBVIOUS
<1>1. 0 \in S
  <2> DEFINE e == [p \in Grid(a, b) |-> <<>>]
             f == [p \in Grid(a, b) |-> Merged(a, b, e, p)]
  <2>1. e \in [Grid(a, b) -> Seq(Datum)]
    OBVIOUS
  <2>2. f \in [Grid(a, b) -> Seq(Datum)]
    BY <2>1, MergedTyped
  <2>3. ASSUME NEW p \in Near(a, b, 0)
        PROVE  f[p] = Merged(a, b, f, p)
    <3>1. p \in Grid(a, b) /\ p[1] > Len(a)
      BY <1>0, <2>3 DEF Near, Grid
    <3> QED
      BY <3>1 DEF Merged
  <2> QED
    BY <2>2, <2>3
<1>2. ASSUME NEW k \in Nat, k \in S
      PROVE  k + 1 \in S
  <2>1. PICK g \in [Grid(a, b) -> Seq(Datum)] : Fits(g, k)
    BY <1>2
  <2> DEFINE f == [p \in Grid(a, b) |-> Merged(a, b, g, p)]
  <2>2. f \in [Grid(a, b) -> Seq(Datum)]
    BY <2>1, MergedTyped
  <2>3. ASSUME NEW p \in Near(a, b, k + 1)
        PROVE  f[p] = Merged(a, b, f, p)
    <3>1. p \in Grid(a, b) /\ f[p] = Merged(a, b, g, p)
      BY <2>3 DEF Near
    <3>2. CASE p[1] > Len(a) \/ p[2] > Len(b)
      BY <3>1, <3>2 DEF Merged
    <3>3. CASE ~(p[1] > Len(a) \/ p[2] > Len(b))
      <4>0. /\ p[1] \in 1 .. Len(a) /\ p[2] \in 1 .. Len(b)
            /\ p[1] + p[2] + (k + 1) >= Len(a) + Len(b) + 2
        BY <1>0, <2>3, <3>3 DEF Near, Grid
      <4>1. <<p[1] + 1, p[2]>> \in Near(a, b, k) /\ <<p[1], p[2] + 1>> \in Near(a, b, k)
        <5> DEFINE i == p[1]
                   j == p[2]
        <5>1. i \in 1 .. Len(a) /\ j \in 1 .. Len(b) /\ i + j + (k + 1) >= Len(a) + Len(b) + 2
          BY <4>0
        <5> HIDE DEF i, j
        <5>2. /\ i \in 1 .. Len(a) + 1 /\ i + 1 \in 1 .. Len(a) + 1
              /\ j \in 1 .. Len(b) + 1 /\ j + 1 \in 1 .. Len(b) + 1
              /\ (i + 1) + j + k >= Len(a) + Len(b) + 2 /\ i + (j + 1) + k >= Len(a) + Len(b) + 2
          BY <1>0, <1>2, <5>1
        <5>3. <<i + 1, j>> \in Near(a, b, k)
          BY <1>2, <5>2, NearPlace
        <5>4. <<i, j + 1>> \in Near(a, b, k)
          BY <1>2, <5>2, NearPlace
        <5> QED
          BY <5>3, <5>4 DEF i, j
      <4>2. \A q \in Near(a, b, k) : f[q] = g[q]
        BY <2>1 DEF Near
      <4> QED
        BY <3>1, <3>3, <4>1, <4>2 DEF Merged
    <3> QED
      BY <3>2, <3>3
  <2>4. Fits(f, k + 1)
    BY <2>3
  <2> HIDE DEF Fits, f
  <2> QED
    BY <1>2, <2>2, <2>4
<1>3. Nat \subseteq S
  <2> HIDE DEF S
  <2> QED
    BY <1>1, <1>2, Induction
<1>4. Len(a) + Len(b) \in S
  <2>1. Len(a) + Len(b) \in Nat
    BY <1>0
  <2> HIDE DEF S
  <2> QED
    BY <1>3, <2>1
<1>5. PICK f \in [Grid(a, b) -> Seq(Datum)] : Fits(f, Len(a) + Len(b))
  <2> HIDE DEF Fits
  <2> QED
    BY <1>4
<1>6. Near(a, b, Len(a) + Len(b)) = Grid(a, b)
  BY <1>0 DEF Near, Grid
<1>7. f = [p \in Grid(a, b) |-> Merged(a, b, f, p)]
  BY <1>5, <1>6
<1> QED
  BY <1>7 DEF Solves

\* A record before others that are not smaller.
LEMMA Cons ==
  ASSUME NEW x \in Datum, NEW r \in Seq(Datum)
  PROVE  /\ <<x>> \o r \in Seq(Datum)
         /\ Len(<<x>> \o r) = Len(r) + 1
         /\ Elements(<<x>> \o r) = {x} \cup Elements(r)
         /\ InOrder(r) /\ (\A y \in Elements(r) : x[1] <= y[1]) => InOrder(<<x>> \o r)
<1> DEFINE s == <<x>> \o r
<1>1. <<x>> \in Seq(Datum) /\ Len(<<x>>) = 1 /\ <<x>>[1] = x
  OBVIOUS
<1>2. /\ s \in Seq(Datum) /\ Len(s) = 1 + Len(r)
      /\ \A i \in 1 .. 1 + Len(r) : s[i] = IF i <= 1 THEN <<x>>[i] ELSE r[i - 1]
  BY <1>1, ConcatProperties
<1>3. DOMAIN s = 1 .. Len(r) + 1 /\ DOMAIN r = 1 .. Len(r) /\ Len(r) \in Nat
  BY <1>2
<1>4. s[1] = x /\ \A i \in 1 .. Len(r) : s[i + 1] = r[i]
  BY <1>1, <1>2, <1>3
<1>5. \A i \in DOMAIN s : i = 1 \/ (i - 1 \in DOMAIN r /\ s[i] = r[i - 1])
  BY <1>3, <1>4
<1> HIDE DEF s
<1>6. Elements(s) = {x} \cup Elements(r)
  <2>1. Elements(s) \subseteq {x} \cup Elements(r)
    BY <1>4, <1>5 DEF Elements
  <2>2. x \in Elements(s)
    BY <1>3, <1>4 DEF Elements
  <2>3. ASSUME NEW i \in DOMAIN r
        PROVE  r[i] \in Elements(s)
    <3>1. i + 1 \in DOMAIN s /\ s[i + 1] = r[i]
      BY <1>3, <1>4
    <3> QED
      BY <3>1 DEF Elements
  <2> QED
    BY <2>1, <2>2, <2>3 DEF Elements
<1>7. ASSUME InOrder(r), \A y \in Elements(r) : x[1] <= y[1],
             NEW i \in DOMAIN s, NEW j \in DOMAIN s, i < j
      PROVE  s[i][1] <= s[j][1]
  <2>1. j - 1 \in DOMAIN r /\ s[j] = r[j - 1]
    BY <1>3, <1>5, <1>7
  <2>2. CASE i = 1
    <3>1. s[j] \in Elements(r)
      BY <2>1 DEF Elements
    <3> QED
      BY <1>4, <1>7, <2>2, <3>1
  <2>3. CASE i # 1
    <3>1. i - 1 \in DOMAIN r /\ s[i] = r[i - 1] /\ i - 1 < j - 1
      BY <1>3, <1>5, <1>7, <2>3
    <3> QED
      BY <1>7, <2>1, <3>1 DEF InOrder
  <2> QED
    BY <2>2, <2>3
<1>8. InOrder(r) /\ (\A y \in Elements(r) : x[1] <= y[1]) => InOrder(s)
  BY <1>7 DEF InOrder
<1> QED
  BY <1>2, <1>3, <1>6, <1>8 DEF s

\* The records of a from place i.
Ending(a, i) == {a[k] : k \in i .. Len(a)}

LEMMA TailOfSeq ==
  ASSUME NEW a \in Seq(Datum), NEW i \in 1 .. Len(a) + 1
  PROVE  LET t == SubSeq(a, i, Len(a))
         IN  /\ t \in Seq(Datum) /\ Len(t) = Len(a) - i + 1
             /\ Elements(t) = Ending(a, i)
             /\ InOrder(a) => InOrder(t)
<1> DEFINE t == SubSeq(a, i, Len(a))
<1>1. /\ t \in Seq(Datum)
      /\ Len(t) = IF i <= Len(a) THEN Len(a) - i + 1 ELSE 0
      /\ \A k \in 1 .. Len(a) - i + 1 : t[k] = a[i + k - 1]
  BY SubSeqProperties
<1>2. Len(a) \in Nat /\ Len(t) = Len(a) - i + 1
  BY <1>1
<1>3. DOMAIN t = 1 .. Len(a) - i + 1 /\ DOMAIN a = 1 .. Len(a)
  BY <1>1, <1>2
<1> HIDE DEF t
<1>4. \A k \in DOMAIN t : i + k - 1 \in DOMAIN a /\ i + k - 1 \in i .. Len(a) /\ t[k] = a[i + k - 1]
  BY <1>1, <1>2, <1>3
<1>5. \A k \in i .. Len(a) : k - i + 1 \in DOMAIN t /\ t[k - i + 1] = a[k]
  BY <1>1, <1>2, <1>3
<1>6. Elements(t) = Ending(a, i)
  BY <1>4, <1>5 DEF Elements, Ending
<1>7. ASSUME InOrder(a), NEW k \in DOMAIN t, NEW l \in DOMAIN t, k < l
      PROVE  t[k][1] <= t[l][1]
  <2>1. i + k - 1 < i + l - 1
    BY <1>2, <1>3, <1>7
  <2> QED
    BY <1>4, <1>7, <2>1 DEF InOrder
<1> QED
  BY <1>1, <1>2, <1>6, <1>7 DEF t, InOrder

\* r is what there is to merge from p.
Rest(a, b, r, p) ==
  /\ r \in Seq(Datum)
  /\ Len(r) = (Len(a) - p[1] + 1) + (Len(b) - p[2] + 1)
  /\ Elements(r) = Ending(a, p[1]) \cup Ending(b, p[2])
  /\ InOrder(a) /\ InOrder(b) => InOrder(r)

LEMMA RestAtEnd ==
  ASSUME NEW a \in Seq(Datum), NEW b \in Seq(Datum),
         NEW i \in 1 .. Len(a) + 1, NEW j \in 1 .. Len(b) + 1,
         i > Len(a) \/ j > Len(b)
  PROVE  Rest(a, b, SubSeq(a, i, Len(a)) \o SubSeq(b, j, Len(b)), <<i, j>>)
<1> DEFINE s == SubSeq(a, i, Len(a))
           t == SubSeq(b, j, Len(b))
<1>0. Len(a) \in Nat /\ Len(b) \in Nat
  OBVIOUS
<1>1. /\ s \in Seq(Datum) /\ Len(s) = Len(a) - i + 1
      /\ Elements(s) = Ending(a, i) /\ (InOrder(a) => InOrder(s))
  BY TailOfSeq
<1>2. /\ t \in Seq(Datum) /\ Len(t) = Len(b) - j + 1
      /\ Elements(t) = Ending(b, j) /\ (InOrder(b) => InOrder(t))
  BY TailOfSeq
<1>3. <<i, j>>[1] = i /\ <<i, j>>[2] = j
  OBVIOUS
<1> HIDE DEF s, t
<1>4. CASE i > Len(a)
  <2>1. Len(s) = 0 /\ Ending(a, i) = {}
    BY <1>0, <1>1, <1>4 DEF Ending
  <2>2. s \o t = t
    BY <1>1, <1>2, <2>1, ConcatEmptySeq, EmptySeq
  <2> QED
    BY <1>0, <1>1, <1>2, <1>3, <2>1, <2>2 DEF Rest, s, t
<1>5. CASE j > Len(b)
  <2>1. Len(t) = 0 /\ Ending(b, j) = {}
    BY <1>0, <1>2, <1>5 DEF Ending
  <2>2. s \o t = s
    BY <1>1, <1>2, <2>1, ConcatEmptySeq, EmptySeq
  <2> QED
    BY <1>0, <1>1, <1>2, <1>3, <2>1, <2>2 DEF Rest, s, t
<1> QED
  BY <1>4, <1>5

\* The records of one array before place i are not larger than those after it.
LEMMA EndingSplit ==
  ASSUME NEW a \in Seq(Datum), NEW i \in 1 .. Len(a)
  PROVE  /\ a[i] \in Datum
         /\ Ending(a, i) = {a[i]} \cup Ending(a, i + 1)
         /\ InOrder(a) => \A y \in Ending(a, i) : a[i][1] <= y[1]
<1>0. Len(a) \in Nat /\ DOMAIN a = 1 .. Len(a) /\ a[i] \in Datum
  BY ElementOfSeq
<1>1. i .. Len(a) = {i} \cup (i + 1 .. Len(a))
  BY <1>0
<1>2. ASSUME InOrder(a), NEW k \in i .. Len(a)
      PROVE  a[i][1] <= a[k][1]
  <2>1. CASE k = i
    BY <1>0, <2>1 DEF Datum
  <2>2. CASE k # i
    <3>1. i \in DOMAIN a /\ k \in DOMAIN a /\ i < k
      BY <1>0, <1>2, <2>2
    <3> QED
      BY <1>2, <3>1 DEF InOrder
  <2> QED
    BY <2>1, <2>2
<1> QED
  BY <1>0, <1>1, <1>2 DEF Ending

LEMMA RestStep ==
  ASSUME NEW a \in Seq(Datum), NEW b \in Seq(Datum), NEW r,
         NEW i \in 1 .. Len(a), NEW j \in 1 .. Len(b)
  PROVE  /\ a[i][1] < b[j][1] /\ Rest(a, b, r, <<i + 1, j>>) => Rest(a, b, <<a[i]>> \o r, <<i, j>>)
         /\ ~ (a[i][1] < b[j][1]) /\ Rest(a, b, r, <<i, j + 1>>) =>
              Rest(a, b, <<b[j]>> \o r, <<i, j>>)
<1>0. Len(a) \in Nat /\ Len(b) \in Nat
  OBVIOUS
<1>a. /\ a[i] \in Datum /\ Ending(a, i) = {a[i]} \cup Ending(a, i + 1)
      /\ InOrder(a) => \A y \in Ending(a, i) : a[i][1] <= y[1]
  BY EndingSplit
<1>b. /\ b[j] \in Datum /\ Ending(b, j) = {b[j]} \cup Ending(b, j + 1)
      /\ InOrder(b) => \A y \in Ending(b, j) : b[j][1] <= y[1]
  BY EndingSplit
<1>c. /\ \A y \in Ending(a, i) \cup Ending(b, j) : y[1] \in Int
      /\ a[i][1] \in Int /\ b[j][1] \in Int
  <2>1. \A k \in i .. Len(a) : a[k] \in Datum
    BY <1>0, ElementOfSeq
  <2>2. \A k \in j .. Len(b) : b[k] \in Datum
    BY <1>0, ElementOfSeq
  <2> QED
    BY <1>a, <1>b, <2>1, <2>2 DEF Ending, Datum
<1>1. ASSUME a[i][1] < b[j][1], Rest(a, b, r, <<i + 1, j>>)
      PROVE  Rest(a, b, <<a[i]>> \o r, <<i, j>>)
  <2> DEFINE s == <<a[i]>> \o r
  <2>1. /\ r \in Seq(Datum) /\ Len(r) = (Len(a) - (i + 1) + 1) + (Len(b) - j + 1)
        /\ Elements(r) = Ending(a, i + 1) \cup Ending(b, j)
        /\ InOrder(a) /\ InOrder(b) => InOrder(r)
    BY <1>1 DEF Rest
  <2>2. /\ s \in Seq(Datum) /\ Len(s) = Len(r) + 1 /\ Elements(s) = {a[i]} \cup Elements(r)
        /\ InOrder(r) /\ (\A y \in Elements(r) : a[i][1] <= y[1]) => InOrder(s)
    BY <1>a, <2>1, Cons
  <2>3. InOrder(a) /\ InOrder(b) => \A y \in Elements(r) : a[i][1] <= y[1]
    <3>1. ASSUME InOrder(b), NEW y \in Ending(b, j)
          PROVE  a[i][1] <= y[1]
      BY <1>1, <1>b, <1>c, <3>1
    <3> QED
      BY <1>a, <2>1, <3>1
  <2>4. Len(s) = (Len(a) - i + 1) + (Len(b) - j + 1)
    BY <1>0, <2>1, <2>2
  <2>5. Elements(s) = Ending(a, i) \cup Ending(b, j)
    BY <1>a, <2>1, <2>2
  <2> HIDE DEF s
  <2>6. Rest(a, b, s, <<i, j>>)
    BY <2>1, <2>2, <2>3, <2>4, <2>5 DEF Rest
  <2> QED
    BY <2>6 DEF s
<1>2. ASSUME ~ (a[i][1] < b[j][1]), Rest(a, b, r, <<i, j + 1>>)
      PROVE  Rest(a, b, <<b[j]>> \o r, <<i, j>>)
  <2> DEFINE s == <<b[j]>> \o r
  <2>1. /\ r \in Seq(Datum) /\ Len(r) = (Len(a) - i + 1) + (Len(b) - (j + 1) + 1)
        /\ Elements(r) = Ending(a, i) \cup Ending(b, j + 1)
        /\ InOrder(a) /\ InOrder(b) => InOrder(r)
    BY <1>2 DEF Rest
  <2>2. /\ s \in Seq(Datum) /\ Len(s) = Len(r) + 1 /\ Elements(s) = {b[j]} \cup Elements(r)
        /\ InOrder(r) /\ (\A y \in Elements(r) : b[j][1] <= y[1]) => InOrder(s)
    BY <1>b, <2>1, Cons
  <2>3. InOrder(a) /\ InOrder(b) => \A y \in Elements(r) : b[j][1] <= y[1]
    <3>1. ASSUME InOrder(a), NEW y \in Ending(a, i)
          PROVE  b[j][1] <= y[1]
      BY <1>2, <1>a, <1>c, <3>1
    <3> QED
      BY <1>b, <2>1, <3>1
  <2>4. Len(s) = (Len(a) - i + 1) + (Len(b) - j + 1)
    BY <1>0, <2>1, <2>2
  <2>5. Elements(s) = Ending(a, i) \cup Ending(b, j)
    BY <1>b, <2>1, <2>2
  <2> HIDE DEF s
  <2>6. Rest(a, b, s, <<i, j>>)
    BY <2>1, <2>2, <2>3, <2>4, <2>5 DEF Rest
  <2> QED
    BY <2>6 DEF s
<1> QED
  BY <1>1, <1>2

\* What merge returns: every record of both arrays, in order if they are.
THEOREM MergeProps ==
  ASSUME NEW a \in Seq(Datum), NEW b \in Seq(Datum)
  PROVE  /\ merge(a, b) \in Seq(Datum)
         /\ Len(merge(a, b)) = Len(a) + Len(b)
         /\ Elements(merge(a, b)) = Elements(a) \cup Elements(b)
         /\ InOrder(a) /\ InOrder(b) => InOrder(merge(a, b))
<1> DEFINE F == CHOOSE f : Solves(a, b, f)
           S == {k \in Nat : \A p \in Near(a, b, k) : Rest(a, b, F[p], p)}
<1>0. Len(a) \in Nat /\ Len(b) \in Nat
  OBVIOUS
<1>1. \A p \in Grid(a, b) : F[p] = Merged(a, b, F, p)
  <2>1. Solves(a, b, F)
    BY MergeSolved
  <2> HIDE DEF F
  <2> QED
    BY <2>1 DEF Solves
<1>2. merge(a, b) = F[<<1, 1>>]
  BY MergeIs
<1> HIDE DEF F
<1>3. ASSUME NEW p \in Grid(a, b), p[1] > Len(a) \/ p[2] > Len(b)
      PROVE  Rest(a, b, F[p], p)
  <2> DEFINE i == p[1]
             j == p[2]
  <2>1. i \in 1 .. Len(a) + 1 /\ j \in 1 .. Len(b) + 1 /\ p = <<i, j>>
    BY <1>0 DEF Grid
  <2>2. F[p] = SubSeq(a, i, Len(a)) \o SubSeq(b, j, Len(b))
    BY <1>1, <1>3 DEF Merged
  <2>3. i > Len(a) \/ j > Len(b)
    BY <1>3
  <2> HIDE DEF i, j
  <2> QED
    BY <2>1, <2>2, <2>3, RestAtEnd
<1>4. 0 \in S
  <2>1. ASSUME NEW p \in Near(a, b, 0)
        PROVE  Rest(a, b, F[p], p)
    <3>1. p \in Grid(a, b) /\ p[1] > Len(a)
      BY <1>0, <2>1 DEF Near, Grid
    <3> QED
      BY <1>3, <3>1
  <2> QED
    BY <2>1
<1>5. ASSUME NEW k \in Nat, k \in S
      PROVE  k + 1 \in S
  <2>1. ASSUME NEW p \in Near(a, b, k + 1)
        PROVE  Rest(a, b, F[p], p)
    <3>1. p \in Grid(a, b) /\ F[p] = Merged(a, b, F, p)
      BY <1>1, <2>1 DEF Near
    <3>2. CASE p[1] > Len(a) \/ p[2] > Len(b)
      BY <1>3, <3>1, <3>2
    <3>3. CASE ~(p[1] > Len(a) \/ p[2] > Len(b))
      <4> DEFINE i == p[1]
                 j == p[2]
      <4>1. /\ i \in 1 .. Len(a) /\ j \in 1 .. Len(b) /\ p = <<i, j>>
            /\ i + j + (k + 1) >= Len(a) + Len(b) + 2
        BY <1>0, <1>5, <2>1, <3>3 DEF Near, Grid
      <4>2. F[p] = IF a[i][1] < b[j][1] THEN <<a[i]>> \o F[<<i + 1, j>>]
                                        ELSE <<b[j]>> \o F[<<i, j + 1>>]
        BY <3>1, <3>3 DEF Merged
      <4> HIDE DEF i, j
      <4>3. /\ i \in 1 .. Len(a) + 1 /\ i + 1 \in 1 .. Len(a) + 1
            /\ j \in 1 .. Len(b) + 1 /\ j + 1 \in 1 .. Len(b) + 1
            /\ (i + 1) + j + k >= Len(a) + Len(b) + 2 /\ i + (j + 1) + k >= Len(a) + Len(b) + 2
        BY <1>0, <1>5, <4>1
      <4>4. Rest(a, b, F[<<i + 1, j>>], <<i + 1, j>>)
        <5>1. <<i + 1, j>> \in Near(a, b, k)
          BY <1>5, <4>3, NearPlace
        <5> QED
          BY <1>5, <5>1
      <4>5. Rest(a, b, F[<<i, j + 1>>], <<i, j + 1>>)
        <5>1. <<i, j + 1>> \in Near(a, b, k)
          BY <1>5, <4>3, NearPlace
        <5> QED
          BY <1>5, <5>1
      <4> QED
        BY <4>1, <4>2, <4>4, <4>5, RestStep
    <3> QED
      BY <3>2, <3>3
  <2> QED
    BY <1>5, <2>1
<1>6. Nat \subseteq S
  <2> HIDE DEF S
  <2> QED
    BY <1>4, <1>5, Induction
<1>7. Rest(a, b, F[<<1, 1>>], <<1, 1>>)
  <2>1. Len(a) + Len(b) \in Nat /\ 1 \in 1 .. Len(a) + 1 /\ 1 \in 1 .. Len(b) + 1
        /\ 1 + 1 + (Len(a) + Len(b)) >= Len(a) + Len(b) + 2
    BY <1>0
  <2>2. <<1, 1>> \in Near(a, b, Len(a) + Len(b))
    BY <2>1, NearPlace
  <2>3. Len(a) + Len(b) \in S
    <3> HIDE DEF S
    <3> QED
      BY <1>6, <2>1
  <2> QED
    BY <2>2, <2>3
<1>8. Ending(a, 1) = Elements(a) /\ Ending(b, 1) = Elements(b)
  BY DEF Ending, Elements
<1> DEFINE m == merge(a, b)
<1>9. Rest(a, b, m, <<1, 1>>)
  BY <1>2, <1>7
<1> HIDE DEF m
<1>10. /\ m \in Seq(Datum) /\ Len(m) = (Len(a) - 1 + 1) + (Len(b) - 1 + 1)
       /\ Elements(m) = Elements(a) \cup Elements(b)
       /\ InOrder(a) /\ InOrder(b) => InOrder(m)
  BY <1>8, <1>9 DEF Rest
<1>11. Len(m) = Len(a) + Len(b)
  BY <1>0, <1>10
<1> QED
  BY <1>10, <1>11 DEF m

-----------------------------------------------------------------------------
(* Blocks.  Their sizes are powers of two that divide the number of blocks. *)

LEMMA Divides ==
  ASSUME NEW n \in Nat \ {0}, NEW a \in Nat, a % n = 0
  PROVE  \E k \in Nat : a = n * k
<1>1. a = n * (a \div n) + (a % n) /\ a \div n \in Nat
  OBVIOUS
<1>2. n * (a \div n) \in Int
  OBVIOUS
<1>3. a = n * (a \div n)
  BY <1>1, <1>2
<1> QED
  BY <1>1, <1>3

LEMMA Multiple ==
  ASSUME NEW n \in Nat \ {0}, NEW k \in Nat
  PROVE  (n * k) % n = 0 /\ n * k \in Nat
OBVIOUS

\* Two multiples of n are at least n apart.
LEMMA Apart ==
  ASSUME NEW n \in Nat \ {0}, NEW a \in Nat, NEW b \in Nat, a % n = 0, b % n = 0, a < b
  PROVE  a + n <= b
<1>1. PICK k \in Nat : a = n * k
  BY Divides
<1>2. PICK l \in Nat : b = n * l
  BY Divides
<1>3. k < l
  <2>1. l <= k => n * l <= n * k
    OBVIOUS
  <2> QED
    BY <1>1, <1>2, <2>1
<1>4. n * (k + 1) <= n * l /\ n * (k + 1) = n * k + n
  BY <1>3
<1> QED
  BY <1>1, <1>2, <1>4

LEMMA Scaled ==
  ASSUME NEW a \in Nat, NEW b \in Nat, NEW r \in Nat, a <= b
  PROVE  a * r \in Nat /\ b * r \in Nat /\ a * r <= b * r
OBVIOUS

\* A size can be doubled until it is the number of blocks.
LEMMA Doubles ==
  ASSUME NEW s \in Nat \ {0}, Blocks % s = 0, s < Blocks
  PROVE  s * 2 \in Nat \ {0} /\ Blocks % (s * 2) = 0 /\ s * 2 <= Blocks
<1>0. Blocks \in Nat /\ Blocks > 0 /\ \A d \in 2 .. Blocks : Blocks % d = 0 => d % 2 = 0
  BY ConstantsAssumption DEF PowerOfTwo
<1>1. PICK k \in Nat : Blocks = s * k
  BY <1>0, Divides
<1>2. k > 1
  <2>1. k = 0 => s * k = 0
    OBVIOUS
  <2>2. k = 1 => s * k = s
    OBVIOUS
  <2> QED
    BY <1>0, <1>1, <2>1, <2>2
<1>3. Blocks % k = 0
  <2>1. (k * s) % k = 0
    BY <1>2, Multiple
  <2>2. k * s = s * k
    OBVIOUS
  <2> QED
    BY <1>1, <2>1, <2>2
<1>4. k <= Blocks
  <2>1. k * 1 <= k * s
    OBVIOUS
  <2>2. k * s = s * k /\ k * 1 = k
    OBVIOUS
  <2> QED
    BY <1>1, <2>1, <2>2
<1>5. k % 2 = 0
  BY <1>0, <1>2, <1>3, <1>4
<1>6. PICK j \in Nat : k = 2 * j
  BY <1>5, Divides
<1>7. Blocks = (s * 2) * j /\ s * 2 \in Nat \ {0} /\ j > 0
  BY <1>1, <1>2, <1>6
<1>8. Blocks % (s * 2) = 0
  <2> DEFINE n == s * 2
  <2>1. n \in Nat \ {0} /\ Blocks = n * j
    BY <1>7
  <2> HIDE DEF n
  <2>2. Blocks % n = 0
    BY <2>1, Multiple
  <2> QED
    BY <2>2 DEF n
<1>9. s * 2 <= Blocks
  <2>1. (s * 2) * 1 <= (s * 2) * j
    BY <1>7
  <2> QED
    BY <1>7, <2>1
<1> QED
  BY <1>7, <1>8, <1>9

-----------------------------------------------------------------------------
(* Records of blocks.                                                      *)

\* n records make Blocks blocks and a rest.
LEMMA Edges ==
  ASSUME NEW n \in Nat, NEW b \in Nat, NEW m \in Nat, b + m <= Blocks
  PROVE  LET r == n \div Blocks
         IN  /\ r \in Nat /\ b * r \in Nat /\ (b + m) * r \in Nat
             /\ b * r <= (b + m) * r /\ (b + m) * r <= n
<1> DEFINE r == n \div Blocks
<1>0. Blocks \in Nat \ {0}
  BY ConstantsAssumption DEF PowerOfTwo
<1>1. n = Blocks * r + (n % Blocks) /\ r \in Nat /\ n % Blocks >= 0
  BY <1>0
<1> HIDE DEF r
<1>2. b * r \in Nat /\ (b + m) * r \in Nat /\ b * r <= (b + m) * r
  BY <1>1, Scaled
<1>3. (b + m) * r <= Blocks * r /\ Blocks * r \in Nat
  BY <1>0, <1>1, Scaled
<1>4. n % Blocks \in Nat
  BY <1>0
<1>5. (b + m) * r <= n
  BY <1>1, <1>2, <1>3, <1>4
<1> QED
  BY <1>1, <1>2, <1>5 DEF r

LEMMA WholeFile ==
  ASSUME NEW n \in Nat
  PROVE  /\ n \div Blocks \in Nat
         /\ 0 * (n \div Blocks) = 0
         /\ Blocks * (n \div Blocks) \in Nat /\ Blocks * (n \div Blocks) <= n
         /\ n % Blocks = 0 => Blocks * (n \div Blocks) = n
<1> DEFINE r == n \div Blocks
<1>0. Blocks \in Nat \ {0}
  BY ConstantsAssumption DEF PowerOfTwo
<1>1. n = Blocks * r + (n % Blocks) /\ r \in Nat /\ n % Blocks \in Nat
  BY <1>0
<1> HIDE DEF r
<1>2. Blocks * r \in Nat /\ 0 * r = 0
  BY <1>0, <1>1
<1>3. Blocks * r <= n /\ (n % Blocks = 0 => Blocks * r = n)
  BY <1>1, <1>2
<1> QED
  BY <1>1, <1>2, <1>3 DEF r

\* Slice and Overwrite, of any array.
SliceOf(f, lo, hi) == [i \in 1 .. hi - lo |-> f[lo + i - 1]]

Written(f, lo, s) ==
  [i \in DOMAIN f |-> IF i \in lo .. lo + Len(s) - 1 THEN s[i - lo + 1] ELSE f[i]]

LEMMA SliceProps ==
  ASSUME NEW n \in Nat, NEW f \in [0 .. n - 1 -> Datum], NEW lo \in Nat, NEW hi \in Nat,
         lo <= hi, hi <= n
  PROVE  /\ SliceOf(f, lo, hi) \in Seq(Datum)
         /\ Len(SliceOf(f, lo, hi)) = hi - lo
         /\ DOMAIN SliceOf(f, lo, hi) = 1 .. hi - lo
         /\ Elements(SliceOf(f, lo, hi)) = Content(f, lo, hi)
         /\ InOrder(SliceOf(f, lo, hi)) <=> OrderedIn(f, lo, hi)
<1> DEFINE s == SliceOf(f, lo, hi)
<1>1. \A i \in 1 .. hi - lo : lo + i - 1 \in 0 .. n - 1 /\ lo + i - 1 \in lo .. hi - 1
  OBVIOUS
<1>2. hi - lo \in Nat
  OBVIOUS
<1>3. \A i \in 1 .. hi - lo : f[lo + i - 1] \in Datum
  BY <1>1
<1>4. s \in Seq(Datum) /\ Len(s) = hi - lo
  BY <1>2, <1>3, IsASeq DEF SliceOf
<1>5. DOMAIN s = 1 .. hi - lo /\ \A i \in 1 .. hi - lo : s[i] = f[lo + i - 1]
  BY DEF SliceOf
<1>6. \A k \in lo .. hi - 1 : k - lo + 1 \in 1 .. hi - lo /\ s[k - lo + 1] = f[k]
  BY <1>5
<1> HIDE DEF s
<1>7. Elements(s) = Content(f, lo, hi)
  BY <1>1, <1>5, <1>6 DEF Elements, Content
<1>8. ASSUME InOrder(s), NEW i \in lo .. hi - 1, NEW j \in lo .. hi - 1, i < j
      PROVE  f[i][1] <= f[j][1]
  <2>1. i - lo + 1 \in DOMAIN s /\ j - lo + 1 \in DOMAIN s /\ i - lo + 1 < j - lo + 1
    BY <1>5, <1>6, <1>8
  <2> QED
    BY <1>6, <1>8, <2>1 DEF InOrder
<1>9. ASSUME OrderedIn(f, lo, hi), NEW i \in DOMAIN s, NEW j \in DOMAIN s, i < j
      PROVE  s[i][1] <= s[j][1]
  <2>1. lo + i - 1 \in lo .. hi - 1 /\ lo + j - 1 \in lo .. hi - 1 /\ lo + i - 1 < lo + j - 1
    BY <1>1, <1>5, <1>9
  <2> QED
    BY <1>5, <1>9, <2>1 DEF OrderedIn
<1> QED
  BY <1>4, <1>5, <1>7, <1>8, <1>9 DEF s, InOrder, OrderedIn

LEMMA WrittenProps ==
  ASSUME NEW n \in Nat, NEW f \in [0 .. n - 1 -> Datum], NEW lo \in Nat, NEW s \in Seq(Datum),
         lo + Len(s) <= n
  PROVE  LET g == Written(f, lo, s)
             hi == lo + Len(s)
         IN  /\ g \in [0 .. n - 1 -> Datum]
             /\ \A i \in 0 .. n - 1 : i < lo \/ i >= hi => g[i] = f[i]
             /\ Content(g, lo, hi) = Elements(s)
             /\ InOrder(s) => OrderedIn(g, lo, hi)
<1> DEFINE g == Written(f, lo, s)
           hi == lo + Len(s)
<1>0. Len(s) \in Nat /\ DOMAIN s = 1 .. Len(s) /\ hi \in Nat
  BY LenProperties
<1>1. \A i \in lo .. hi - 1 : i - lo + 1 \in 1 .. Len(s) /\ i \in 0 .. n - 1
  BY <1>0
<1>2. \A i \in 1 .. Len(s) : s[i] \in Datum
  BY ElementOfSeq
<1>3. \A i \in 0 .. n - 1 : g[i] = IF i \in lo .. hi - 1 THEN s[i - lo + 1] ELSE f[i]
  BY DEF Written
<1>4. g \in [0 .. n - 1 -> Datum]
  <2>1. g = [i \in 0 .. n - 1 |-> IF i \in lo .. hi - 1 THEN s[i - lo + 1] ELSE f[i]]
    BY DEF Written
  <2> QED
    BY <1>1, <1>2, <2>1
<1> HIDE DEF g, hi
<1>5. \A i \in 0 .. n - 1 : i < lo \/ i >= hi => g[i] = f[i]
  BY <1>0, <1>3
<1>6. \A i \in lo .. hi - 1 : g[i] = s[i - lo + 1] /\ i - lo + 1 \in DOMAIN s
  BY <1>0, <1>1, <1>3
<1>7. \A k \in DOMAIN s : lo + k - 1 \in lo .. hi - 1 /\ g[lo + k - 1] = s[k]
  <2>1. \A k \in DOMAIN s : lo + k - 1 \in lo .. hi - 1 /\ (lo + k - 1) - lo + 1 = k
    BY <1>0 DEF hi
  <2> QED
    BY <1>6, <2>1
<1>8. Content(g, lo, hi) = Elements(s)
  <2>1. Content(g, lo, hi) \subseteq Elements(s)
    BY <1>6 DEF Content, Elements
  <2>2. Elements(s) \subseteq Content(g, lo, hi)
    BY <1>7 DEF Content, Elements
  <2> QED
    BY <2>1, <2>2
<1>9. ASSUME InOrder(s), NEW i \in lo .. hi - 1, NEW j \in lo .. hi - 1, i < j
      PROVE  g[i][1] <= g[j][1]
  <2>1. i - lo + 1 < j - lo + 1
    BY <1>0, <1>9
  <2> QED
    BY <1>6, <1>9, <2>1 DEF InOrder
<1> QED
  BY <1>4, <1>5, <1>8, <1>9 DEF g, hi, OrderedIn

LEMMA ContentSplit ==
  ASSUME NEW f, NEW lo \in Nat, NEW mid \in Nat, NEW hi \in Nat, lo <= mid, mid <= hi
  PROVE  Content(f, lo, hi) = Content(f, lo, mid) \cup Content(f, mid, hi)
<1>1. lo .. hi - 1 = (lo .. mid - 1) \cup (mid .. hi - 1)
  OBVIOUS
<1> QED
  BY <1>1 DEF Content

\* The n blocks from b hold the same in f and in g.
Same(f, g, r, b, n) == \A i \in b * r .. (b + n) * r - 1 : g[i] = f[i]

LEMMA SameRun ==
  ASSUME NEW f, NEW g, NEW r, NEW b, NEW n, Same(f, g, r, b, n)
  PROVE  /\ Run(g, r, b, n) <=> Run(f, r, b, n)
         /\ Content(g, b * r, (b + n) * r) = Content(f, b * r, (b + n) * r)
BY DEF Same, Run, OrderedIn, Content

\* What is written into blocks b to b + m - 1 leaves the others alone.
LEMMA OtherBlocks ==
  ASSUME NEW n \in Nat, NEW f \in [0 .. n - 1 -> Datum], NEW g,
         NEW b \in Nat, NEW m \in Nat, b + m <= Blocks,
         \A i \in 0 .. n - 1 :
            i < b * (n \div Blocks) \/ i >= (b + m) * (n \div Blocks) => g[i] = f[i],
         NEW c \in Nat, NEW k \in Nat, c + k <= Blocks, c + k <= b \/ b + m <= c
  PROVE  Same(f, g, n \div Blocks, c, k)
<1> DEFINE r == n \div Blocks
           lo == c * r
           hi == (c + k) * r
           x == b * r
           y == (b + m) * r
<1>1. /\ r \in Nat /\ lo \in Nat /\ hi \in Nat /\ lo <= hi /\ hi <= n
      /\ x \in Nat /\ y \in Nat /\ x <= y /\ y <= n
  BY Edges
<1>2. hi <= x \/ y <= lo
  <2> HIDE DEF r
  <2>1. c + k <= b => hi <= x
    BY <1>1, Scaled, c + k \in Nat
  <2>2. b + m <= c => y <= lo
    BY <1>1, Scaled, b + m \in Nat
  <2> QED
    BY <2>1, <2>2
<1>3. \A i \in 0 .. n - 1 : i < x \/ i >= y => g[i] = f[i]
  OBVIOUS
<1> HIDE DEF lo, hi, x, y
<1>4. \A i \in lo .. hi - 1 : g[i] = f[i]
  BY <1>1, <1>2, <1>3
<1> QED
  BY <1>4 DEF Same, lo, hi

-----------------------------------------------------------------------------
(* The control: types, phases, rounds and claims.                          *)

LEMMA Consts ==
  /\ Threads \in Nat \ {0} /\ Blocks \in Nat \ {0} /\ Blocks >= 4
  /\ 0 \in Workers /\ Workers \subseteq BlockIds
BY ConstantsAssumption DEF Workers, BlockIds

\* The pairs of a round: both halves are runs of it, and pairs do not overlap.
LEMMA Pairs ==
  ASSUME NEW s \in Nat \ {0}, Blocks % s = 0, s < Blocks, NEW b, Pair(b, s)
  PROVE  /\ b \in BlockIds /\ b \in Nat /\ b + s \in BlockIds
         /\ b % s = 0 /\ (b + s) % s = 0 /\ b + s * 2 <= Blocks
         /\ \A c : Pair(c, s) /\ c # b => c + s * 2 <= b \/ b + s * 2 <= c
<1>0. b \in BlockIds /\ b \in Nat /\ b + s \in BlockIds /\ b < Blocks /\ b % (s * 2) = 0
  BY Consts DEF Pair, BlockIds
<1>1. s * 2 \in Nat \ {0} /\ Blocks % (s * 2) = 0
  BY Doubles
<1>2. b % s = 0 /\ (b + s) % s = 0
  <2>1. PICK k \in Nat : b = (s * 2) * k
    BY <1>0, <1>1, Divides
  <2>2. b = s * (2 * k) /\ b + s = s * (2 * k + 1) /\ 2 * k \in Nat /\ 2 * k + 1 \in Nat
    BY <2>1
  <2> QED
    BY <2>2, Multiple
<1> DEFINE n == s * 2
<1>3. n \in Nat \ {0} /\ Blocks % n = 0 /\ b % n = 0
  BY <1>0, <1>1
<1>4. \A c : Pair(c, s) => c \in Nat /\ c % n = 0
  BY DEF Pair, BlockIds
<1> HIDE DEF n
<1>5. b + n <= Blocks
  BY <1>0, <1>3, Apart, Consts
<1>6. ASSUME NEW c, Pair(c, s), c # b
      PROVE  c + n <= b \/ b + n <= c
  <2>1. c \in Nat /\ c % n = 0
    BY <1>4, <1>6
  <2>2. c < b => c + n <= b
    BY <1>0, <1>3, <2>1, Apart
  <2>3. b < c => b + n <= c
    BY <1>0, <1>3, <2>1, Apart
  <2> QED
    BY <1>0, <1>6, <2>1, <2>2, <2>3
<1> QED
  BY <1>0, <1>2, <1>5, <1>6 DEF n

\* Where a worker that merges reads and writes.
Place(r, n, b, s, left, mid, right) ==
  /\ r \in Nat /\ n \in Nat /\ b \in Nat /\ s \in Nat \ {0} /\ b + s * 2 <= Blocks
  /\ left = b * r /\ mid = (b + s) * r /\ right = (b + s * 2) * r
  /\ left \in Nat /\ mid \in Nat /\ right \in Nat
  /\ left <= mid /\ mid <= right /\ right <= n

LEMMA BusyPlace ==
  ASSUME Typed, Rounds, Claims, NEW w \in Workers, pc[w] \in Busy
  PROVE  /\ Place(recs_per_block, records, block[w], step[w], Left(w), Mid(w), Right(w))
         /\ Pair(block[w], step[w]) /\ block[w] \in BlockIds
         /\ Blocks % step[w] = 0 /\ step[w] < Blocks /\ Stage(w) = step[w]
<1> DEFINE b == block[w]
           s == step[w]
           r == records \div Blocks
<1>1. records \in Nat /\ s \in Nat \ {0}
  BY DEF Typed
<1>2. Pair(b, s) /\ Blocks % s = 0 /\ s < Blocks /\ Stage(w) = s
  BY DEF Claims, Rounds, Busy, Merging, Stage
<1>3. Left(w) = b * r /\ Mid(w) = Clipped((b + s) * r) /\ Right(w) = Clipped((b + s * 2) * r)
  BY DEF Left, Mid, Right, recs_per_block
<1>4. recs_per_block = r
  BY DEF recs_per_block
<1> HIDE DEF b, s
<1>5. b \in Nat /\ b \in BlockIds /\ b + s * 2 <= Blocks
  BY <1>1, <1>2, Pairs
<1>6. b + s <= Blocks /\ b + s \in Nat /\ (b + s) + s = b + s * 2 /\ s * 2 \in Nat
  BY <1>1, <1>5, Consts
<1>7. r \in Nat /\ b * r \in Nat /\ (b + s) * r \in Nat /\ b * r <= (b + s) * r /\ (b + s) * r <= records
  BY <1>1, <1>5, <1>6, Edges
<1>8. /\ ((b + s) + s) * r \in Nat /\ (b + s) * r <= ((b + s) + s) * r
      /\ ((b + s) + s) * r <= records
  BY <1>1, <1>5, <1>6, Edges
<1> HIDE DEF r
<1>9. Mid(w) = (b + s) * r /\ Right(w) = (b + s * 2) * r
  BY <1>1, <1>3, <1>6, <1>7, <1>8 DEF Clipped
<1>10. Place(r, records, b, s, Left(w), Mid(w), Right(w))
  BY <1>1, <1>3, <1>5, <1>6, <1>7, <1>8, <1>9 DEF Place
<1> QED
  BY <1>2, <1>4, <1>5, <1>10 DEF b, s

\* What a worker that sorts its block writes.
LEMMA SortWrites ==
  ASSUME Typed, Claims, NEW w \in Workers, Sort(w)
  PROVE  LET lo == block[w] * recs_per_block
             hi == (block[w] + 1) * recs_per_block
         IN  /\ block[w] \in block_map /\ block[w] \in BlockIds /\ recs_per_block \in Nat
             /\ lo \in Nat /\ hi \in Nat /\ lo <= hi /\ hi <= records
             /\ \E s \in Seq(Datum) :
                  /\ base' = Written(base, lo, s) /\ lo + Len(s) = hi
                  /\ InOrder(s) /\ Elements(s) = Content(base, lo, hi)
<1> DEFINE b == block[w]
           r == records \div Blocks
           lo == b * r
           hi == (b + 1) * r
           t == SliceOf(base, lo, hi)
<1>1. records \in Nat /\ base \in [0 .. records - 1 -> Datum]
  BY DEF Typed
<1>2. b \in block_map /\ b \in BlockIds /\ b \in Nat /\ b + 1 <= Blocks
  <2>1. pc[w] = "sort" /\ block_map \subseteq BlockIds
    BY DEF Sort, Goto, Typed
  <2>2. b \in block_map
    BY <2>1 DEF Claims
  <2> HIDE DEF b
  <2> QED
    BY <2>1, <2>2, Consts DEF BlockIds
<1>3. r \in Nat /\ lo \in Nat /\ hi \in Nat /\ lo <= hi /\ hi <= records
  BY <1>1, <1>2, Edges
<1>4. lo + r = hi
  <2> HIDE DEF r, b
  <2> QED
    BY <1>2, <1>3
<1>5. PICK s \in qsort(Slice(lo, Clipped(lo + r))) :
         base' = Written(base, lo, s)
  BY DEF Sort, recs_per_block, Overwrite, Written
<1>6. Clipped(lo + r) = hi
  BY <1>1, <1>3, <1>4 DEF Clipped
<1>7. Slice(lo, hi) = t
  BY DEF Slice, SliceOf
<1> HIDE DEF lo, hi, r
<1>8. /\ t \in Seq(Datum) /\ Len(t) = hi - lo /\ DOMAIN t = 1 .. hi - lo
      /\ Elements(t) = Content(base, lo, hi)
  BY <1>1, <1>3, SliceProps
<1> HIDE DEF t
<1>9. s \in [1 .. hi - lo -> Elements(t)] /\ InOrder(s) /\ Elements(s) = Elements(t)
  BY <1>5, <1>6, <1>7, <1>8 DEF qsort
<1>10. Elements(t) \subseteq Datum
  BY <1>8, ElementOfSeq DEF Elements
<1>11. hi - lo \in Nat
  BY <1>3
<1>12. s \in Seq(Datum) /\ Len(s) = hi - lo
  BY <1>9, <1>10, <1>11
<1>13. lo + Len(s) = hi
  BY <1>3, <1>12
<1> QED
  BY <1>2, <1>3, <1>5, <1>8, <1>9, <1>12, <1>13 DEF lo, hi, r, recs_per_block

\* What a worker that has merged copies back: first the left half.
LEMMA MergeMakes ==
  ASSUME Typed, Rounds, Claims, NEW w \in Workers, Merge(w), pc'[w] = "copy"
  PROVE  \E m \in Seq(Datum) :
           /\ tmp' = [tmp EXCEPT ![w] = m]
           /\ Len(m) = Right(w) - Left(w)
           /\ Elements(m) = Content(base, Left(w), Right(w))
           /\ Halves(base, recs_per_block, block[w], step[w]) => InOrder(m)
<1> DEFINE x == Left(w)
           y == Mid(w)
           z == Right(w)
           s == SliceOf(base, x, y)
           t == SliceOf(base, y, z)
           m == merge(s, t)
<1>0. pc[w] = "merge" /\ pc[w] \in Busy
  BY DEF Merge, Goto, Busy
<1>1. Place(recs_per_block, records, block[w], step[w], x, y, z)
  BY <1>0, BusyPlace
<1>2. x \in Nat /\ y \in Nat /\ z \in Nat /\ x <= y /\ y <= z /\ z <= records /\ y <= records
  BY <1>1 DEF Place
<1>3. records \in Nat /\ base \in [0 .. records - 1 -> Datum]
  BY DEF Typed
<1>4. tmp' = [tmp EXCEPT ![w] = m]
  <2>1. pc'[w] # "claim merge"
    OBVIOUS
  <2>2. pc \in [Workers -> Pcs]
    BY DEF Typed
  <2>3. tmp' = [tmp EXCEPT ![w] = merge(Slice(x, y), Slice(y, z))]
    BY <2>1, <2>2 DEF Merge, Goto
  <2>4. Slice(x, y) = s /\ Slice(y, z) = t
    BY DEF Slice, SliceOf
  <2> HIDE DEF s, t, x, y, z
  <2> QED
    BY <2>3, <2>4
<1>5. Halves(base, recs_per_block, block[w], step[w]) => OrderedIn(base, x, y) /\ OrderedIn(base, y, z)
  <2>1. (block[w] + step[w]) + step[w] = block[w] + step[w] * 2
    BY <1>1 DEF Place
  <2> QED
    BY <1>1, <2>1 DEF Halves, Run, Place
<1> HIDE DEF x, y, z
<1>6. /\ s \in Seq(Datum) /\ Len(s) = y - x /\ Elements(s) = Content(base, x, y)
      /\ InOrder(s) <=> OrderedIn(base, x, y)
  BY <1>2, <1>3, SliceProps
<1>7. /\ t \in Seq(Datum) /\ Len(t) = z - y /\ Elements(t) = Content(base, y, z)
      /\ InOrder(t) <=> OrderedIn(base, y, z)
  BY <1>2, <1>3, SliceProps
<1> HIDE DEF s, t
<1>8. /\ m \in Seq(Datum) /\ Len(m) = Len(s) + Len(t) /\ Elements(m) = Elements(s) \cup Elements(t)
      /\ InOrder(s) /\ InOrder(t) => InOrder(m)
  BY <1>6, <1>7, MergeProps
<1> HIDE DEF m
<1>9. Content(base, x, z) = Content(base, x, y) \cup Content(base, y, z)
  BY <1>2, ContentSplit
<1>10. Len(m) = z - x /\ Elements(m) = Content(base, x, z)
  BY <1>2, <1>6, <1>7, <1>8, <1>9
<1> QED
  BY <1>4, <1>5, <1>6, <1>7, <1>8, <1>10 DEF x, z

LEMMA CopyWrites ==
  ASSUME Typed, Rounds, Claims, Arrays, NEW w \in Workers, CopyHalf(w) \/ CopyBack(w)
  PROVE  \E s \in Seq(Datum) :
           /\ base' = Written(base, Left(w), s)
           /\ Elements(s) \subseteq Elements(tmp[w])
           /\ CopyHalf(w) => Left(w) + Len(s) = Mid(w)
           /\ CopyBack(w) => Left(w) + Len(s) = Right(w) /\ s = tmp[w]
<1> DEFINE x == Left(w)
           y == Mid(w)
           z == Right(w)
           t == tmp[w]
<1>0. pc[w] \in Busy /\ pc[w] \in {"copy", "copying"}
  BY DEF CopyHalf, CopyBack, Goto, Busy
<1>1. Place(recs_per_block, records, block[w], step[w], x, y, z)
  BY <1>0, BusyPlace
<1>2. x \in Nat /\ y \in Nat /\ z \in Nat /\ x <= y /\ y <= z
  BY <1>1 DEF Place
<1>3. t \in Seq(Datum) /\ Len(t) = z - x
  BY <1>0 DEF Typed, Arrays
<1>4. CASE CopyBack(w)
  <2>1. base' = Written(base, x, t)
    BY <1>4 DEF CopyBack, Overwrite, Written
  <2>2. ~ CopyHalf(w)
    BY <1>4 DEF CopyBack, CopyHalf, Goto
  <2>3. x + Len(t) = z
    <3> HIDE DEF x, y, z, t
    <3> QED
      BY <1>2, <1>3
  <2> QED
    BY <1>3, <2>1, <2>2, <2>3
<1>5. CASE CopyHalf(w)
  <2> DEFINE s == SubSeq(t, 1, y - x)
  <2>1. base' = Written(base, x, s)
    BY <1>5 DEF CopyHalf, Overwrite, Written
  <2>2. ~ CopyBack(w)
    BY <1>5 DEF CopyBack, CopyHalf, Goto
  <2> HIDE DEF x, y, z, t
  <2>3. Len(t) \in Nat /\ y - x \in 0 .. Len(t) /\ 1 \in 1 .. Len(t) + 1
    BY <1>2, <1>3
  <2>4. s \in Seq(Datum) /\ Len(s) = y - x /\ \A i \in 1 .. y - x : s[i] = t[i]
    <3>1. /\ s \in Seq(Datum)
          /\ Len(s) = IF 1 <= y - x THEN (y - x) - 1 + 1 ELSE 0
          /\ \A i \in 1 .. (y - x) - 1 + 1 : s[i] = t[1 + i - 1]
      BY <1>3, <2>3, SubSeqProperties
    <3> QED
      BY <2>3, <3>1
  <2>5. DOMAIN s = 1 .. y - x /\ DOMAIN t = 1 .. Len(t)
    BY <1>3, <2>3, <2>4
  <2>6. x + Len(s) = y
    BY <1>2, <2>4
  <2> HIDE DEF s
  <2>7. Elements(s) \subseteq Elements(t)
    <3>1. \A i \in DOMAIN s : i \in DOMAIN t /\ s[i] = t[i]
      BY <2>3, <2>4, <2>5
    <3> QED
      BY <3>1 DEF Elements
  <2> QED
    BY <2>1, <2>2, <2>4, <2>6, <2>7 DEF x, y, z, t
<1> QED
  BY <1>4, <1>5

LEMMA FinalWrites ==
  ASSUME Typed, FinalMerge, main' = "done"
  PROVE  /\ base' \in [0 .. records - 1 -> Datum]
         /\ Content(base', 0, records) = Content(base, 0, records)
         /\ OrderedIn(base, 0, records) => OrderedIn(base', 0, records)
<1> DEFINE n == records
           h == n \div 2
           s == SliceOf(base, 0, h)
           t == SliceOf(base, h, n)
           m == merge(s, t)
<1>1. n \in Nat /\ base \in [0 .. n - 1 -> Datum]
  BY DEF Typed
<1>2. base' = Written(base, 0, m)
  <2>1. Slice(0, h) = s /\ Slice(h, n) = t
    BY DEF Slice, SliceOf
  <2>2. main' # "failed"
    OBVIOUS
  <2>3. base' = Written(base, 0, merge(Slice(0, h), Slice(h, n)))
    BY <2>2 DEF FinalMerge, Overwrite, Written
  <2> HIDE DEF s, t, h, n
  <2> QED
    BY <2>1, <2>3
<1> HIDE DEF n
<1>3. h \in Nat /\ h <= n /\ 0 \in Nat /\ n <= n /\ 0 <= h
  BY <1>1
<1> HIDE DEF h
<1>4. /\ s \in Seq(Datum) /\ Len(s) = h - 0 /\ Elements(s) = Content(base, 0, h)
      /\ InOrder(s) <=> OrderedIn(base, 0, h)
  BY <1>1, <1>3, SliceProps
<1>5. /\ t \in Seq(Datum) /\ Len(t) = n - h /\ Elements(t) = Content(base, h, n)
      /\ InOrder(t) <=> OrderedIn(base, h, n)
  BY <1>1, <1>3, SliceProps
<1> HIDE DEF s, t
<1>6. /\ m \in Seq(Datum) /\ Len(m) = Len(s) + Len(t) /\ Elements(m) = Elements(s) \cup Elements(t)
      /\ InOrder(s) /\ InOrder(t) => InOrder(m)
  BY <1>4, <1>5, MergeProps
<1> HIDE DEF m
<1>7. Len(m) = n /\ 0 + Len(m) = n
  BY <1>1, <1>3, <1>4, <1>5, <1>6
<1>8. Content(base, 0, n) = Content(base, 0, h) \cup Content(base, h, n)
  BY <1>1, <1>3, ContentSplit
<1>9. OrderedIn(base, 0, n) => OrderedIn(base, 0, h) /\ OrderedIn(base, h, n)
  BY <1>1, <1>3 DEF OrderedIn
<1>10. /\ base' \in [0 .. n - 1 -> Datum]
       /\ Content(base', 0, n) = Elements(m)
       /\ InOrder(m) => OrderedIn(base', 0, n)
  <2>1. 0 + Len(m) <= n
    BY <1>1, <1>7
  <2>2. LET g == Written(base, 0, m)
            hi == 0 + Len(m)
        IN  /\ g \in [0 .. n - 1 -> Datum] /\ Content(g, 0, hi) = Elements(m)
            /\ InOrder(m) => OrderedIn(g, 0, hi)
    BY <1>1, <1>3, <1>6, <2>1, WrittenProps
  <2> QED
    BY <1>2, <1>7, <2>2
<1> QED
  BY <1>4, <1>5, <1>6, <1>8, <1>9, <1>10 DEF n

-----------------------------------------------------------------------------
(* The steps keep the types, the phases, the rounds and the claims.        *)

\* Everybody is held at the same barrier.
LEMMA Release ==
  ASSUME Typed, Together, NEW w \in Workers, pthread_barrier_wait(w), Released(w)
  PROVE  /\ waiting' = {}
         /\ \E at \in DOMAIN After :
              /\ \A v \in Workers : pc[v] = at
              /\ pc' = [v \in Workers |-> After[at]]
<1>1. waiting' = {} /\ pc' = [v \in Workers |-> After[pc[v]]] /\ pc[w] \in DOMAIN After
  BY DEF pthread_barrier_wait
<1>2. \A v \in Workers : pc[v] \in DOMAIN After
  BY <1>1 DEF Released, Typed
<1>3. DOMAIN After = {"started", "sorted", "round", "cleared", "merged"}
  BY DEF After
<1>4. PICK P \in Phases : \A v \in Workers : pc[v] \in P
  BY DEF Together
<1>5. \A v \in Workers : pc[v] = pc[w]
  <2>1. P \in {{"started"}, Sorting, Turning, Clearing, Merging}
    BY DEF Phases
  <2>2. \E at \in DOMAIN After : \A p \in P : p \in DOMAIN After => p = at
    <3>1. CASE P = {"started"}
      BY <1>3, <3>1
    <3>2. CASE P = Sorting
      BY <1>3, <3>2 DEF Sorting
    <3>3. CASE P = Turning
      BY <1>3, <3>3 DEF Turning
    <3>4. CASE P = Clearing
      BY <1>3, <3>4 DEF Clearing
    <3>5. CASE P = Merging
      BY <1>3, <3>5 DEF Merging
    <3> QED
      BY <2>1, <3>1, <3>2, <3>3, <3>4, <3>5
  <2> QED
    BY <1>2, <1>4, <2>2
<1>6. pc' = [v \in Workers |-> After[pc[w]]]
  BY <1>1, <1>5
<1> QED
  BY <1>1, <1>5, <1>6

LEMMA AfterIs ==
  /\ After["started"] = "own" /\ After["sorted"] = "round" /\ After["round"] = "clear"
  /\ After["cleared"] = "claim merge" /\ After["merged"] = "next"
  /\ DOMAIN After = {"started", "sorted", "round", "cleared", "merged"}
BY DEF After

\* The moves of one worker on its own.
Moves(w) ==
  \/ Goto(w, "own", "sort") \/ Goto(w, "own", "claim")
  \/ Goto(w, "claim", "sort") \/ Goto(w, "claim", "sorted") \/ Goto(w, "sort", "claim")
  \/ Goto(w, "clear", "cleared")
  \/ Goto(w, "claim merge", "merge") \/ Goto(w, "claim merge", "merged")
  \/ Goto(w, "merge", "copy") \/ Goto(w, "merge", "claim merge")
  \/ Goto(w, "copy", "copying") \/ Goto(w, "copying", "claim merge")
  \/ Goto(w, "next", "round") \/ Goto(w, "next", "exited")

LEMMA PcSteps ==
  ASSUME [Next]_vars
  PROVE  \/ UNCHANGED <<pc, waiting>>
         \/ \E w \in Workers : pthread_barrier_wait(w) \/ (Moves(w) /\ UNCHANGED waiting)
<1>1. CASE UNCHANGED vars \/ Main
  BY <1>1 DEF vars, Main, JoinWorkers, FinalMerge
<1>2. ASSUME NEW w \in Workers, Worker(w)
      PROVE  \/ UNCHANGED <<pc, waiting>> \/ pthread_barrier_wait(w)
             \/ (Moves(w) /\ UNCHANGED waiting)
  <2>1. CASE ClaimOwn(w)
    BY <2>1 DEF ClaimOwn, Moves
  <2>2. CASE Claim(w)
    BY <2>2 DEF Claim, Moves
  <2>3. CASE Sort(w)
    BY <2>3 DEF Sort, Moves
  <2>4. CASE ClearMerges(w)
    BY <2>4 DEF ClearMerges, Moves
  <2>5. CASE ClaimMerge(w)
    BY <2>5 DEF ClaimMerge, Moves
  <2>6. CASE Merge(w)
    BY <2>6 DEF Merge, Moves
  <2>7. CASE MergeFails(w)
    BY <2>7 DEF MergeFails
  <2>8. CASE CopyHalf(w)
    BY <2>8 DEF CopyHalf, Moves
  <2>9. CASE CopyBack(w)
    BY <2>9 DEF CopyBack, Moves
  <2>10. CASE NextRound(w)
    BY <2>10 DEF NextRound, Moves
  <2> QED
    BY <1>2, <2>1, <2>2, <2>3, <2>4, <2>5, <2>6, <2>7, <2>8, <2>9, <2>10 DEF Worker
<1> QED
  BY <1>1, <1>2 DEF Next

LEMMA ClaimsInRange ==
  ASSUME Typed, NEW w \in Workers, ClaimOwn(w) \/ Claim(w) \/ ClaimMerge(w)
  PROVE  /\ block_map' \subseteq BlockIds /\ merge_map' \subseteq BlockIds
         /\ block' \in [Workers -> BlockIds \cup {-1}]
<1>1. /\ block_map \subseteq BlockIds /\ merge_map \subseteq BlockIds
      /\ block \in [Workers -> BlockIds \cup {-1}]
  BY DEF Typed
<1>2. CASE ClaimOwn(w)
  BY <1>1, <1>2, Consts DEF ClaimOwn, ClaimBlock
<1>3. CASE Claim(w)
  BY <1>1, <1>3 DEF Claim, ClaimBlock
<1>4. CASE ClaimMerge(w)
  BY <1>1, <1>4 DEF ClaimMerge, Unmerged, mapVars, fileVars
<1> QED
  BY <1>2, <1>3, <1>4

LEMMA BaseTyped ==
  ASSUME Typed, Rounds, Claims, Arrays, [Next]_vars
  PROVE  records' = records /\ base' \in [0 .. records - 1 -> Datum]
<1>0. records \in Nat /\ base \in [0 .. records - 1 -> Datum]
  BY DEF Typed
<1>1. CASE base' = base
  <2>1. records' = records
    BY DEF Next, vars, fileVars, Main, Worker, JoinWorkers, FinalMerge, pthread_barrier_wait,
           ClaimOwn, Claim, Sort, ClearMerges, ClaimMerge, Merge, MergeFails, CopyHalf, CopyBack,
           NextRound
  <2> QED
    BY <1>0, <1>1, <2>1
<1>2. ASSUME NEW w \in Workers, Sort(w)
      PROVE  records' = records /\ base' \in [0 .. records - 1 -> Datum]
  <2> DEFINE lo == block[w] * recs_per_block
             hi == (block[w] + 1) * recs_per_block
  <2>1. lo \in Nat /\ hi <= records /\ \E s \in Seq(Datum) : base' = Written(base, lo, s) /\ lo + Len(s) = hi
    BY <1>2, SortWrites
  <2> HIDE DEF lo, hi
  <2>2. PICK s \in Seq(Datum) : base' = Written(base, lo, s) /\ lo + Len(s) <= records
    BY <2>1
  <2>3. base' \in [0 .. records - 1 -> Datum]
    BY <1>0, <2>1, <2>2, WrittenProps
  <2> QED
    BY <1>2, <2>3 DEF Sort
<1>3. ASSUME NEW w \in Workers, CopyHalf(w) \/ CopyBack(w)
      PROVE  records' = records /\ base' \in [0 .. records - 1 -> Datum]
  <2> DEFINE x == Left(w)
             y == Mid(w)
             z == Right(w)
  <2>0. pc[w] \in Busy
    BY <1>3 DEF CopyHalf, CopyBack, Goto, Busy
  <2>1. Place(recs_per_block, records, block[w], step[w], x, y, z)
    BY <2>0, BusyPlace
  <2>2. PICK s \in Seq(Datum) : base' = Written(base, x, s) /\ (x + Len(s) = y \/ x + Len(s) = z)
    BY <1>3, CopyWrites
  <2> HIDE DEF x, y, z
  <2>a. x \in Nat /\ y <= z /\ z <= records /\ y \in Nat /\ z \in Nat /\ records \in Nat
    BY <2>1 DEF Place
  <2>3. x \in Nat /\ x + Len(s) <= records
    BY <2>a, <2>2
  <2>4. base' \in [0 .. records - 1 -> Datum]
    BY <1>0, <2>2, <2>3, WrittenProps
  <2> QED
    BY <1>3, <2>4 DEF CopyHalf, CopyBack
<1>4. CASE FinalMerge
  <2>1. CASE main' = "done"
    BY <1>4, <2>1, FinalWrites DEF FinalMerge
  <2>2. CASE main' # "done"
    BY <1>0, <1>4, <2>2 DEF FinalMerge
  <2> QED
    BY <2>1, <2>2
<1>5. base' = base \/ FinalMerge \/ \E w \in Workers : Sort(w) \/ CopyHalf(w) \/ CopyBack(w)
  BY DEF Next, vars, fileVars, Main, Worker, JoinWorkers, pthread_barrier_wait,
         ClaimOwn, Claim, ClearMerges, ClaimMerge, Merge, MergeFails, NextRound
<1> QED
  BY <1>1, <1>2, <1>3, <1>4, <1>5

LEMMA TypedStep ==
  ASSUME Typed, Together, Rounds, Claims, Arrays, [Next]_vars
  PROVE  Typed'
<1>1. records' \in Nat /\ base' \in [0 .. records' - 1 -> Datum]
  BY BaseTyped DEF Typed
<1> DEFINE Rest1 ==
      /\ block_map \subseteq BlockIds /\ merge_map \subseteq BlockIds
      /\ step \in [Workers -> Nat \ {0}]
      /\ block \in [Workers -> BlockIds \cup {-1}]
      /\ main \in {"join", "final merge", "done", "failed"}
           Rest2 ==
      /\ pc \in [Workers -> Pcs]
      /\ waiting \subseteq {w \in Workers : pc[w] \in DOMAIN After}
           Rest3 == tmp \in [Workers -> Seq(Datum)]
<1>0. Rest1 /\ Rest2 /\ Rest3
  BY DEF Typed
<1>2. Rest1'
  <2>1. CASE UNCHANGED vars
    BY <1>0, <2>1 DEF vars, mapVars, localVars
  <2>2. CASE Main
    BY <1>0, <2>2 DEF Main, JoinWorkers, FinalMerge, mapVars, localVars
  <2>3. ASSUME NEW w \in Workers, Worker(w)
        PROVE  Rest1'
    <3>1. CASE ClaimOwn(w) \/ Claim(w) \/ ClaimMerge(w)
      <4>1. UNCHANGED <<step, main>>
        BY <3>1 DEF ClaimOwn, Claim, ClaimMerge
      <4> QED
        BY <1>0, <3>1, <4>1, ClaimsInRange
    <3>2. CASE NextRound(w)
      <4>0. Doubled(step[w]) \in Nat \ {0}
        <5>1. step[w] \in Nat \ {0}
          BY <1>0
        <5> QED
          BY <5>1 DEF Doubled
      <4>1. step' \in [Workers -> Nat \ {0}]
        BY <1>0, <3>2, <4>0 DEF NextRound
      <4> QED
        BY <1>0, <3>2, <4>1 DEF NextRound, mapVars
    <3>3. CASE pthread_barrier_wait(w) \/ Sort(w) \/ Merge(w) \/ MergeFails(w) \/ CopyHalf(w) \/ CopyBack(w)
      BY <1>0, <3>3 DEF pthread_barrier_wait, Sort, Merge, MergeFails, CopyHalf, CopyBack, mapVars,
                       localVars
    <3>4. CASE ClearMerges(w)
      BY <1>0, <3>4 DEF ClearMerges, localVars
    <3> QED
      BY <2>3, <3>1, <3>2, <3>3, <3>4 DEF Worker
  <2> QED
    BY <2>1, <2>2, <2>3 DEF Next
<1>3. Rest2'
  <2>1. CASE UNCHANGED <<pc, waiting>>
    BY <1>0, <2>1
  <2>2. ASSUME NEW w \in Workers, pthread_barrier_wait(w)
        PROVE  Rest2'
    <3>1. CASE Released(w)
      <4>1. PICK at \in DOMAIN After : pc' = [v \in Workers |-> After[at]] /\ waiting' = {}
        BY <2>2, <3>1, Release
      <4>2. After[at] \in Pcs
        BY AfterIs DEF Pcs
      <4> QED
        BY <4>1, <4>2
    <3>2. CASE ~ Released(w)
      BY <1>0, <2>2, <3>2 DEF pthread_barrier_wait
    <3> QED
      BY <3>1, <3>2
  <2>3. ASSUME NEW w \in Workers, Moves(w), UNCHANGED waiting
        PROVE  Rest2'
    <3>1. pc' \in [Workers -> Pcs] /\ \A v \in Workers : v # w => pc'[v] = pc[v]
      BY <1>0, <2>3 DEF Moves, Goto, Pcs
    <3>2. pc[w] \notin DOMAIN After
      BY <2>3, AfterIs DEF Moves, Goto
    <3> QED
      BY <1>0, <2>3, <3>1, <3>2
  <2>4. \/ UNCHANGED <<pc, waiting>>
        \/ \E w \in Workers : pthread_barrier_wait(w) \/ (Moves(w) /\ UNCHANGED waiting)
    BY PcSteps
  <2> HIDE DEF Rest2
  <2> QED
    BY <2>1, <2>2, <2>3, <2>4
<1>4. Rest3'
  <2>1. CASE UNCHANGED tmp
    BY <1>0, <2>1
  <2>2. ASSUME NEW w \in Workers, Merge(w)
        PROVE  Rest3'
    <3>1. CASE pc'[w] = "copy"
      BY <1>0, <2>2, <3>1, MergeMakes
    <3>2. CASE pc'[w] # "copy"
      BY <1>0, <2>2, <3>2 DEF Merge, Goto, Typed
    <3> QED
      BY <3>1, <3>2
  <2>3. ASSUME NEW w \in Workers, CopyBack(w)
        PROVE  Rest3'
    <3>1. <<>> \in Seq(Datum)
      OBVIOUS
    <3>2. tmp' = [tmp EXCEPT ![w] = <<>>]
      BY <2>3 DEF CopyBack
    <3> QED
      BY <1>0, <3>1, <3>2
  <2>4. UNCHANGED tmp \/ \E w \in Workers : Merge(w) \/ CopyBack(w)
    BY DEF Next, vars, Main, Worker, JoinWorkers, FinalMerge, pthread_barrier_wait, localVars,
           ClaimOwn, Claim, Sort, ClearMerges, ClaimMerge, MergeFails, CopyHalf, NextRound
  <2> QED
    BY <2>1, <2>2, <2>3, <2>4
<1> QED
  BY <1>1, <1>2, <1>3, <1>4 DEF Typed

LEMMA MoveInPhase ==
  ASSUME Typed, NEW w \in Workers, Moves(w), NEW P \in Phases, pc[w] \in P
  PROVE  /\ pc'[w] \in P /\ pc'[w] \in Pcs
         /\ \A v \in Workers : v # w => pc'[v] = pc[v]
<1>0. pc \in [Workers -> Pcs]
  BY DEF Typed
<1>1. PICK to \in Pcs : pc' = [pc EXCEPT ![w] = to] /\ to \in P
  <2>1. P \in {{"started"}, Sorting, Turning, Clearing, Merging}
    BY DEF Phases
  <2>2. CASE P = {"started"}
    BY <2>2 DEF Moves, Goto
  <2>3. CASE P = Sorting
    BY <2>3 DEF Moves, Goto, Sorting, Pcs
  <2>4. CASE P = Turning
    BY <2>4 DEF Moves, Goto, Turning, Pcs
  <2>5. CASE P = Clearing
    BY <2>5 DEF Moves, Goto, Clearing, Pcs
  <2>6. CASE P = Merging
    BY <2>6 DEF Moves, Goto, Merging, Pcs
  <2> QED
    BY <2>1, <2>2, <2>3, <2>4, <2>5, <2>6
<1> QED
  BY <1>0, <1>1

LEMMA TogetherStep ==
  ASSUME Typed, Together, [Next]_vars
  PROVE  Together'
<1>1. CASE UNCHANGED pc
  BY <1>1 DEF Together
<1>2. ASSUME NEW w \in Workers, pthread_barrier_wait(w)
      PROVE  Together'
  <2>1. CASE Released(w)
    <3>1. PICK at \in DOMAIN After : pc' = [v \in Workers |-> After[at]]
      BY <1>2, <2>1, Release
    <3>2. \E P \in Phases : After[at] \in P
      BY AfterIs DEF Phases, Sorting, Turning, Clearing, Merging
    <3> QED
      BY <3>1, <3>2 DEF Together
  <2>2. CASE ~ Released(w)
    BY <1>1, <1>2, <2>2 DEF pthread_barrier_wait
  <2> QED
    BY <2>1, <2>2
<1>3. ASSUME NEW w \in Workers, Moves(w)
      PROVE  Together'
  <2>1. PICK P \in Phases : \A v \in Workers : pc[v] \in P
    BY DEF Together
  <2>2. \A v \in Workers : pc'[v] \in P
    BY <1>3, <2>1, MoveInPhase
  <2> QED
    BY <2>2 DEF Together
<1> QED
  BY <1>1, <1>2, <1>3, PcSteps

\* If one worker is in a phase, all are.
LEMMA OnePhase ==
  ASSUME Together, NEW w \in Workers, NEW v \in Workers
  PROVE  /\ pc[w] = "started" <=> pc[v] = "started"
         /\ pc[w] \in Sorting <=> pc[v] \in Sorting
         /\ pc[w] \in Turning <=> pc[v] \in Turning
         /\ pc[w] \in Clearing <=> pc[v] \in Clearing
         /\ pc[w] \in Merging <=> pc[v] \in Merging
<1>1. PICK P \in Phases : pc[w] \in P /\ pc[v] \in P
  BY DEF Together
<1>2. P \in {{"started"}, Sorting, Turning, Clearing, Merging}
  BY DEF Phases
<1>3. CASE P = {"started"}
  BY <1>1, <1>3 DEF Sorting, Turning, Clearing, Merging
<1>4. CASE P = Sorting
  BY <1>1, <1>4 DEF Sorting, Turning, Clearing, Merging
<1>5. CASE P = Turning
  BY <1>1, <1>5 DEF Sorting, Turning, Clearing, Merging
<1>6. CASE P = Clearing
  BY <1>1, <1>6 DEF Sorting, Turning, Clearing, Merging
<1>7. CASE P = Merging
  BY <1>1, <1>7 DEF Sorting, Turning, Clearing, Merging
<1> QED
  BY <1>2, <1>3, <1>4, <1>5, <1>6, <1>7

LEMMA Fits ==
  ASSUME NEW n \in Nat \ {0}, Blocks % n = 0
  PROVE  n <= Blocks
<1>1. 0 % n = 0 /\ 0 < Blocks /\ 0 \in Nat /\ Blocks \in Nat
  BY Consts
<1>2. 0 + n <= Blocks
  BY <1>1, Apart
<1> QED
  BY <1>2

LEMMA StepSteps ==
  ASSUME [Next]_vars
  PROVE  \/ UNCHANGED <<pc, step>>
         \/ \E w \in Workers :
              \/ pthread_barrier_wait(w) \/ NextRound(w)
              \/ Moves(w) /\ pc[w] # "next" /\ UNCHANGED step
<1>1. CASE UNCHANGED vars \/ Main
  BY <1>1 DEF vars, Main, JoinWorkers, FinalMerge, localVars
<1>2. ASSUME NEW w \in Workers, Worker(w)
      PROVE  \/ UNCHANGED <<pc, step>> \/ pthread_barrier_wait(w) \/ NextRound(w)
             \/ (Moves(w) /\ pc[w] # "next" /\ UNCHANGED step)
  <2>1. CASE ClaimOwn(w)
    BY <2>1 DEF ClaimOwn, Moves, Goto
  <2>2. CASE Claim(w)
    BY <2>2 DEF Claim, Moves, Goto
  <2>3. CASE Sort(w)
    BY <2>3 DEF Sort, Moves, Goto, localVars
  <2>4. CASE ClearMerges(w)
    BY <2>4 DEF ClearMerges, Moves, Goto, localVars
  <2>5. CASE ClaimMerge(w)
    BY <2>5 DEF ClaimMerge, Moves, Goto
  <2>6. CASE Merge(w)
    BY <2>6 DEF Merge, Moves, Goto
  <2>7. CASE MergeFails(w)
    BY <2>7 DEF MergeFails, localVars
  <2>8. CASE CopyHalf(w)
    BY <2>8 DEF CopyHalf, Moves, Goto, localVars
  <2>9. CASE CopyBack(w)
    BY <2>9 DEF CopyBack, Moves, Goto
  <2> QED
    BY <1>2, <2>1, <2>2, <2>3, <2>4, <2>5, <2>6, <2>7, <2>8, <2>9 DEF Worker
<1> QED
  BY <1>1, <1>2 DEF Next

LEMMA RoundsStep ==
  ASSUME Typed, Together, Rounds, [Next]_vars
  PROVE  Rounds'
<1>0. pc \in [Workers -> Pcs] /\ step \in [Workers -> Nat \ {0}]
  BY DEF Typed
<1>1. CASE UNCHANGED <<pc, step>>
  BY <1>1 DEF Rounds, Stage
<1>2. ASSUME NEW w \in Workers, pthread_barrier_wait(w), Released(w)
      PROVE  Rounds'
  <2>1. PICK at \in DOMAIN After :
          (\A v \in Workers : pc[v] = at) /\ pc' = [v \in Workers |-> After[at]]
    BY <1>2, Release
  <2>2. step' = step /\ \A v \in Workers : pc'[v] = After[at]
    BY <1>2, <2>1 DEF pthread_barrier_wait, localVars
  <2>3. \A v \in Workers : Stage(v) = step[v]
    BY <2>1, AfterIs DEF Stage
  <2>4. \A u, v \in Workers : step[u] = step[v]
    BY <2>3 DEF Rounds
  <2>5. \A v \in Workers : Blocks % step[v] = 0 /\ step[v] \in Nat \ {0}
    BY <1>0, <2>3 DEF Rounds
  <2>6. CASE at = "merged"
    <3>1. \A v \in Workers : pc'[v] = "next"
      BY <2>2, <2>6, AfterIs
    <3>2. \A v \in Workers : Stage(v)' = step[v] * 2
      BY <2>2, <3>1 DEF Stage
    <3>3. \A v \in Workers : step[v] < Blocks
      BY <2>1, <2>6 DEF Rounds, Merging
    <3>4. \A v \in Workers : Blocks % (step[v] * 2) = 0
      BY <2>5, <3>3, Doubles
    <3> QED
      BY <2>4, <3>1, <3>2, <3>4 DEF Rounds, Sorting, Clearing, Merging
  <2>7. CASE at # "merged"
    <3>1. \A v \in Workers : pc'[v] # "next" /\ pc'[v] # "exited"
      BY <2>2, <2>7, AfterIs
    <3>2. \A v \in Workers : Stage(v)' = step[v]
      BY <2>2, <3>1 DEF Stage
    <3>3. \A v \in Workers : pc'[v] = "started" \/ pc'[v] \in Sorting => step[v] = 1
      BY <2>1, <2>2, <2>7, AfterIs DEF Rounds, Sorting
    <3>4. \A v \in Workers :
            pc'[v] = "round" \/ pc'[v] \in Clearing \/ pc'[v] \in Merging => step[v] < Blocks
      <4>1. at = "sorted" => \A v \in Workers : step[v] < Blocks
        BY <2>1, Consts DEF Rounds, Sorting
      <4>2. at \in {"round", "cleared"} => \A v \in Workers : step[v] < Blocks
        BY <2>1 DEF Rounds, Clearing
      <4> QED
        BY <2>2, <2>7, <4>1, <4>2, AfterIs DEF Clearing, Merging
    <3> QED
      BY <2>2, <2>4, <2>5, <3>1, <3>2, <3>3, <3>4 DEF Rounds
  <2> QED
    BY <2>6, <2>7
<1>3. ASSUME NEW w \in Workers, Moves(w), pc[w] # "next", UNCHANGED step
      PROVE  Rounds'
  <2>1. PICK P \in Phases : pc[w] \in P
    BY DEF Together
  <2>2. pc'[w] \in P /\ \A v \in Workers : v # w => pc'[v] = pc[v]
    BY <1>3, <2>1, MoveInPhase
  <2>3. pc'[w] \notin {"next", "exited", "started", "round"} /\ pc[w] # "started"
    BY <1>0, <1>3 DEF Moves, Goto
  <2>4. \A v \in Workers : Stage(v)' = Stage(v)
    BY <1>3, <2>2, <2>3 DEF Stage
  <2>5. /\ pc'[w] \in Sorting => pc[w] \in Sorting
        /\ pc'[w] \in Clearing \/ pc'[w] \in Merging => pc[w] \in Clearing \/ pc[w] \in Merging
    BY <1>0, <1>3 DEF Moves, Goto, Sorting, Clearing, Merging
  <2> QED
    BY <1>3, <2>2, <2>3, <2>4, <2>5 DEF Rounds
<1>4. ASSUME NEW w \in Workers, NextRound(w)
      PROVE  Rounds'
  <2> DEFINE s == step[w]
  <2>1. /\ pc[w] = "next" /\ step' = [step EXCEPT ![w] = s * 2]
        /\ \/ s * 2 < Blocks /\ pc' = [pc EXCEPT ![w] = "round"]
           \/ s * 2 >= Blocks /\ pc' = [pc EXCEPT ![w] = "exited"]
    BY <1>4 DEF NextRound, Doubled, Goto
  <2>2. Stage(w) = s * 2 /\ Blocks % (s * 2) = 0
    BY <2>1 DEF Stage, Rounds
  <2>3. s \in Nat \ {0} /\ s * 2 \in Nat \ {0}
    BY <1>0
  <2>4. s * 2 <= Blocks
    <3> DEFINE n == s * 2
    <3>1. n \in Nat \ {0} /\ Blocks % n = 0
      BY <2>2, <2>3
    <3> HIDE DEF n
    <3>2. n <= Blocks
      BY <3>1, Fits
    <3> QED
      BY <3>2 DEF n
  <2> HIDE DEF s
  <2>5. step'[w] = s * 2 /\ \A v \in Workers : v # w => step'[v] = step[v] /\ pc'[v] = pc[v]
    BY <1>0, <2>1
  <2>6. \/ pc'[w] = "round" /\ s * 2 < Blocks
        \/ pc'[w] = "exited" /\ s * 2 = Blocks
    BY <1>0, <2>1, <2>3, <2>4, Consts
  <2>7. Stage(w)' = s * 2 /\ \A v \in Workers : v # w => Stage(v)' = Stage(v)
    BY <2>5, <2>6 DEF Stage
  <2>8. \A v \in Workers : Stage(v)' = Stage(v)
    BY <2>2, <2>7
  <2> QED
    BY <2>5, <2>6, <2>8 DEF Rounds, Sorting, Clearing, Merging
<1>5. ASSUME NEW w \in Workers, pthread_barrier_wait(w), ~ Released(w)
      PROVE  UNCHANGED <<pc, step>>
  BY <1>5 DEF pthread_barrier_wait, localVars
<1> QED
  BY <1>1, <1>2, <1>3, <1>4, <1>5, StepSteps

LEMMA ClaimsStep ==
  ASSUME Typed, Together, Rounds, Claims, [Next]_vars
  PROVE  Claims'
<1>0. /\ pc \in [Workers -> Pcs] /\ step \in [Workers -> Nat \ {0}]
      /\ block \in [Workers -> BlockIds \cup {-1}]
      /\ block_map \subseteq BlockIds /\ merge_map \subseteq BlockIds
  BY DEF Typed
<1> DEFINE maps == <<mapVars, block, step>>
<1>1. CASE UNCHANGED <<pc, maps>>
  BY <1>1 DEF Claims, Pair, mapVars
<1>2. ASSUME NEW w \in Workers, pthread_barrier_wait(w), Released(w)
      PROVE  Claims'
  <2>1. PICK at \in DOMAIN After : pc' = [v \in Workers |-> After[at]]
    BY <1>2, Release
  <2>2. \A v \in Workers :
          pc'[v] \notin {"started", "sort", "sorted", "cleared", "merged"} /\ pc'[v] \notin Busy
    BY <2>1, AfterIs DEF Busy
  <2> QED
    BY <2>2 DEF Claims
<1>3. ASSUME NEW w \in Workers, ClaimOwn(w) \/ Claim(w)
      PROVE  Claims'
  <2>1. /\ pc[w] \in Sorting
        /\ step' = step /\ merge_map' = merge_map
        /\ \/ /\ pc' = [pc EXCEPT ![w] = "sort"]
              /\ \E b \in BlockIds \ block_map :
                   block_map' = block_map \cup {b} /\ block' = [block EXCEPT ![w] = b]
           \/ /\ pc' = [pc EXCEPT ![w] = "claim"] \/ pc' = [pc EXCEPT ![w] = "sorted"]
              /\ pc'[w] = "sorted" => BlockIds \subseteq block_map
              /\ UNCHANGED <<block_map, block>>
    <3>1. CASE ClaimOwn(w)
      BY <1>0, <3>1, Consts DEF ClaimOwn, ClaimBlock, Goto, Sorting
    <3>2. CASE Claim(w)
      BY <3>2 DEF Claim, ClaimBlock, Goto, Sorting
    <3> QED
      BY <1>3, <3>1, <3>2
  <2>2. \A v \in Workers : pc[v] \in Sorting
    BY <2>1, OnePhase
  <2>3. \A v \in Workers : pc'[v] \in Sorting /\ (v # w => pc'[v] = pc[v] /\ block'[v] = block[v])
    BY <1>0, <2>1, <2>2 DEF Sorting
  <2>4. \A v \in Workers : pc'[v] \notin Busy \cup {"started", "cleared", "merged"}
    BY <2>3 DEF Sorting, Busy
  <2>5. CASE pc' = [pc EXCEPT ![w] = "sort"]
    <3>1. PICK b \in BlockIds \ block_map :
            block_map' = block_map \cup {b} /\ block' = [block EXCEPT ![w] = b]
      BY <1>0, <2>1, <2>5
    <3>2. pc'[w] = "sort" /\ block'[w] = b
      BY <1>0, <2>5, <3>1
    <3>3. \A v \in Workers : v # w /\ pc'[v] = "sort" => block'[v] \in block_map
      BY <2>3 DEF Claims
    <3>4. \A v \in Workers : pc'[v] = "sort" => block'[v] \in block_map'
      BY <3>1, <3>2, <3>3
    <3>5. \A v \in Workers : pc'[v] = "sorted" => BlockIds \subseteq block_map'
      BY <2>3, <3>1, <3>2 DEF Claims
    <3>6. \A u, v \in Workers : u # v /\ pc'[u] = "sort" /\ pc'[v] = "sort" => block'[u] # block'[v]
      BY <2>3, <3>1, <3>2, <3>3 DEF Claims
    <3> QED
      BY <2>4, <3>4, <3>5, <3>6 DEF Claims
  <2>6. CASE pc' # [pc EXCEPT ![w] = "sort"]
    <3>1. /\ pc'[w] \in {"claim", "sorted"} /\ (pc'[w] = "sorted" => BlockIds \subseteq block_map)
          /\ UNCHANGED <<block_map, block>>
      BY <1>0, <2>1, <2>6
    <3> QED
      BY <2>3, <2>4, <3>1 DEF Claims
  <2> QED
    BY <2>5, <2>6
<1>4. ASSUME NEW w \in Workers, ClearMerges(w)
      PROVE  Claims'
  <2>1. /\ pc[w] = "clear" /\ pc' = [pc EXCEPT ![w] = "cleared"]
        /\ merge_map' = IF w = 0 THEN {} ELSE merge_map
        /\ block' = block /\ block_map' = block_map /\ step' = step
    BY <1>4 DEF ClearMerges, Goto, localVars
  <2>2. \A v \in Workers : pc[v] \in Clearing
    BY <2>1, OnePhase DEF Clearing
  <2>3. \A v \in Workers : pc'[v] \in Clearing /\ (v # w => pc'[v] = pc[v])
    BY <1>0, <2>1, <2>2 DEF Clearing
  <2>4. \A v \in Workers : pc'[v] = "cleared" /\ v = 0 => merge_map' = {}
    BY <2>1, <2>3 DEF Claims
  <2>5. \A v \in Workers : pc'[v] \notin Busy \cup {"started", "sort", "sorted", "merged"}
    BY <2>3 DEF Clearing, Busy
  <2> QED
    BY <2>4, <2>5 DEF Claims
<1>5. ASSUME NEW w \in Workers, ClaimMerge(w)
      PROVE  Claims'
  <2>1. /\ pc[w] \in Merging /\ pc[w] = "claim merge"
        /\ step' = step /\ block_map' = block_map
        /\ \/ /\ pc' = [pc EXCEPT ![w] = "merge"]
              /\ \E b \in Unmerged(step[w]) :
                   merge_map' = merge_map \cup {b} /\ block' = [block EXCEPT ![w] = b]
           \/ /\ pc' = [pc EXCEPT ![w] = "merged"]
              /\ Unmerged(step[w]) = {}
              /\ UNCHANGED <<merge_map, block>>
    BY <1>5 DEF ClaimMerge, Goto, Merging
  <2>2. \A v \in Workers : pc[v] \in Merging
    BY <2>1, OnePhase
  <2>3. \A v \in Workers : pc'[v] \in Merging /\ (v # w => pc'[v] = pc[v] /\ block'[v] = block[v])
    BY <1>0, <2>1, <2>2 DEF Merging
  <2>4. \A v \in Workers : pc'[v] \notin {"started", "sort", "sorted", "cleared"}
    BY <2>3 DEF Merging
  <2>5. Unmerged(step[w]) = {b \in BlockIds : Pair(b, step[w]) /\ b \notin merge_map}
    BY DEF Unmerged, Pair
  <2>6. CASE pc' = [pc EXCEPT ![w] = "merge"]
    <3>1. PICK b \in Unmerged(step[w]) :
            merge_map' = merge_map \cup {b} /\ block' = [block EXCEPT ![w] = b]
      BY <1>0, <2>1, <2>6
    <3>2. pc'[w] = "merge" /\ block'[w] = b /\ Pair(b, step[w]) /\ b \notin merge_map
      BY <1>0, <2>5, <2>6, <3>1
    <3>3. \A v \in Workers :
            v # w /\ pc'[v] \in Busy => block'[v] \in merge_map /\ Pair(block'[v], step'[v])
      BY <2>1, <2>3 DEF Claims
    <3>4. \A v \in Workers :
            pc'[v] \in Busy => block'[v] \in merge_map' /\ Pair(block'[v], step'[v])
      BY <2>1, <3>1, <3>2, <3>3
    <3>5. \A v \in Workers :
            pc'[v] = "merged" => \A c \in BlockIds : Pair(c, step'[v]) => c \in merge_map'
      BY <2>1, <2>3, <3>1, <3>2 DEF Claims
    <3>6. \A u, v \in Workers :
            u # v /\ pc'[u] \in Busy /\ pc'[v] \in Busy => block'[u] # block'[v]
      BY <2>3, <3>2, <3>3 DEF Claims
    <3> QED
      BY <2>4, <3>4, <3>5, <3>6 DEF Claims, Pair
  <2>7. CASE pc' # [pc EXCEPT ![w] = "merge"]
    <3>1. pc'[w] = "merged" /\ Unmerged(step[w]) = {} /\ UNCHANGED <<merge_map, block>>
      BY <1>0, <2>1, <2>7
    <3>2. \A c \in BlockIds : Pair(c, step[w]) => c \in merge_map
      BY <2>5, <3>1
    <3>3. pc'[w] \notin Busy
      BY <3>1 DEF Busy
    <3> QED
      BY <2>1, <2>3, <2>4, <3>1, <3>2, <3>3 DEF Claims, Pair
  <2> QED
    BY <2>6, <2>7
<1>6. ASSUME NEW w \in Workers, Sort(w) \/ Merge(w) \/ CopyHalf(w) \/ CopyBack(w)
      PROVE  Claims'
  <2>1. /\ UNCHANGED maps
        /\ \/ pc[w] = "sort" /\ pc' = [pc EXCEPT ![w] = "claim"]
           \/ pc[w] \in Busy /\ pc' = [pc EXCEPT ![w] = "claim merge"]
           \/ pc[w] \in Busy /\ pc' = [pc EXCEPT ![w] = "copy"]
           \/ pc[w] \in Busy /\ pc' = [pc EXCEPT ![w] = "copying"]
    BY <1>6 DEF Sort, Merge, CopyHalf, CopyBack, Goto, Busy, mapVars, localVars
  <2>2. \A v \in Workers : v # w => pc'[v] = pc[v]
    BY <1>0, <2>1
  <2>3. /\ pc'[w] \notin {"started", "sort", "sorted", "cleared", "merged"}
        /\ pc'[w] \in Busy => pc[w] \in Busy
    BY <1>0, <2>1 DEF Busy
  <2>4. UNCHANGED <<block_map, merge_map, block, step>>
    BY <2>1 DEF mapVars
  <2> QED
    BY <2>2, <2>3, <2>4 DEF Claims, Pair
<1>7. ASSUME NEW w \in Workers, NextRound(w)
      PROVE  Claims'
  <2>1. /\ pc[w] = "next" /\ UNCHANGED <<block_map, merge_map, block>>
        /\ pc' = [pc EXCEPT ![w] = "round"] \/ pc' = [pc EXCEPT ![w] = "exited"]
    BY <1>7 DEF NextRound, Goto, mapVars
  <2>2. \A v \in Workers : pc[v] \in Turning
    BY <2>1, OnePhase DEF Turning
  <2>3. \A v \in Workers : pc'[v] \in Turning
    BY <1>0, <2>1, <2>2 DEF Turning
  <2>4. \A v \in Workers :
          pc'[v] \notin {"started", "sort", "sorted", "cleared", "merged"} /\ pc'[v] \notin Busy
    BY <2>3 DEF Turning, Busy
  <2> QED
    BY <2>4 DEF Claims
<1>8. \/ UNCHANGED <<pc, maps>>
      \/ \E w \in Workers :
           \/ pthread_barrier_wait(w) /\ Released(w)
           \/ ClaimOwn(w) \/ Claim(w) \/ ClearMerges(w) \/ ClaimMerge(w)
           \/ Sort(w) \/ Merge(w) \/ CopyHalf(w) \/ CopyBack(w) \/ NextRound(w)
  BY DEF Next, vars, Main, Worker, JoinWorkers, FinalMerge, pthread_barrier_wait, MergeFails,
         mapVars, localVars
<1> QED
  BY <1>1, <1>2, <1>3, <1>4, <1>5, <1>6, <1>7, <1>8

-----------------------------------------------------------------------------
(* No two workers touch the same record.                                   *)

LEMMA TouchesNothingShared ==
  ASSUME Typed, Together, Rounds, Claims
  PROVE  NoSharedRecord
<1> DEFINE r == records \div Blocks
<1>0. records \in Nat /\ recs_per_block = r
  BY DEF Typed, recs_per_block
<1> SUFFICES ASSUME NEW v \in Workers, NEW w \in Workers, v # w
             PROVE  Touches(v) \cap Touches(w) = {}
  BY DEF NoSharedRecord
<1>1. CASE pc[v] \in Busy /\ pc[w] \in Busy
  <2> DEFINE b == block[v]
             c == block[w]
             s == step[w]
  <2>1. /\ Place(r, records, b, step[v], Left(v), Mid(v), Right(v)) /\ Pair(b, step[v])
        /\ Stage(v) = step[v]
    BY <1>0, <1>1, BusyPlace
  <2>2. /\ Place(r, records, c, s, Left(w), Mid(w), Right(w)) /\ Pair(c, s)
        /\ Blocks % s = 0 /\ s < Blocks /\ Stage(w) = s
    BY <1>0, <1>1, BusyPlace
  <2>3. step[v] = s
    BY <2>1, <2>2 DEF Rounds
  <2>4. b # c
    BY <1>1 DEF Claims
  <2>5. Touches(v) = Left(v) .. Right(v) - 1 /\ Touches(w) = Left(w) .. Right(w) - 1
    BY <1>1 DEF Touches, Busy
  <2> HIDE DEF b, c, s, r
  <2>6. s \in Nat \ {0} /\ b \in Nat /\ c \in Nat /\ r \in Nat /\ s * 2 \in Nat
    BY <2>1, <2>2 DEF Place
  <2>7. b + s * 2 <= c \/ c + s * 2 <= b
    BY <2>1, <2>2, <2>3, <2>4, <2>6, Pairs
  <2>8. Right(v) = (b + s * 2) * r /\ Left(v) = b * r /\ Right(w) = (c + s * 2) * r /\ Left(w) = c * r
    BY <2>1, <2>2, <2>3 DEF Place
  <2>9. (b + s * 2) * r <= c * r \/ (c + s * 2) * r <= b * r
    <3>1. b + s * 2 \in Nat /\ c + s * 2 \in Nat
      BY <2>6
    <3> QED
      BY <2>6, <2>7, <3>1, Scaled
  <2>10. Right(v) <= Left(w) \/ Right(w) <= Left(v)
    BY <2>8, <2>9
  <2>11. /\ Right(v) \in Nat /\ Left(w) \in Nat /\ Right(w) \in Nat /\ Left(v) \in Nat
    BY <2>1, <2>2 DEF Place
  <2> QED
    BY <2>5, <2>10, <2>11
<1>2. CASE pc[v] = "sort" /\ pc[w] = "sort"
  <2> DEFINE b == block[v]
             c == block[w]
  <2>1. b \in Nat /\ c \in Nat /\ b + 1 <= Blocks /\ c + 1 <= Blocks /\ b # c
    <3>1. b \in BlockIds /\ c \in BlockIds /\ b # c
      BY <1>2 DEF Claims, Typed
    <3> HIDE DEF b, c
    <3> QED
      BY <3>1, Consts DEF BlockIds
  <2>2. /\ Touches(v) = b * r .. Clipped(b * r + r) - 1
        /\ Touches(w) = c * r .. Clipped(c * r + r) - 1
    BY <1>2 DEF Touches, Left, recs_per_block
  <2> HIDE DEF b, c
  <2>3. /\ r \in Nat /\ b * r \in Nat /\ (b + 1) * r \in Nat /\ (b + 1) * r <= records
        /\ c * r \in Nat /\ (c + 1) * r \in Nat /\ (c + 1) * r <= records
    BY <1>0, <2>1, Edges
  <2> HIDE DEF r
  <2>4. b * r + r = (b + 1) * r /\ c * r + r = (c + 1) * r
    BY <2>1, <2>3
  <2>5. Clipped(b * r + r) = (b + 1) * r /\ Clipped(c * r + r) = (c + 1) * r
    BY <1>0, <2>3, <2>4 DEF Clipped
  <2>6. (b + 1) * r <= c * r \/ (c + 1) * r <= b * r
    <3>1. b + 1 <= c \/ c + 1 <= b
      BY <2>1
    <3>2. b + 1 \in Nat /\ c + 1 \in Nat
      BY <2>1
    <3> QED
      BY <2>1, <2>3, <3>1, <3>2, Scaled
  <2> DEFINE x == b * r
             y == (b + 1) * r
             z == c * r
             u == (c + 1) * r
  <2>7. Touches(v) = x .. y - 1 /\ Touches(w) = z .. u - 1
    BY <2>2, <2>5
  <2>8. x \in Nat /\ y \in Nat /\ z \in Nat /\ u \in Nat /\ (y <= z \/ u <= x)
    BY <2>3, <2>6
  <2> HIDE DEF x, y, z, u
  <2> QED
    BY <2>7, <2>8
<1>3. CASE \/ pc[v] = "sort" /\ pc[w] \in Busy
           \/ pc[v] \in Busy /\ pc[w] = "sort"
  <2>1. (pc[v] \in Sorting <=> pc[w] \in Sorting)
    BY OnePhase
  <2> QED
    BY <1>3, <2>1 DEF Sorting, Busy
<1>4. CASE ~ (pc[v] = "sort" \/ pc[v] \in Busy) \/ ~ (pc[w] = "sort" \/ pc[w] \in Busy)
  BY <1>4 DEF Touches, Busy
<1> QED
  BY <1>1, <1>2, <1>3, <1>4

-----------------------------------------------------------------------------
(* What the steps write.                                                   *)

LEMMA SortElsewhere ==
  ASSUME Typed, Claims, NEW w \in Workers, Sort(w)
  PROVE  /\ Run(base', recs_per_block, block[w], 1)
         /\ \A c \in BlockIds :
              c # block[w] => (Run(base', recs_per_block, c, 1) <=> Run(base, recs_per_block, c, 1))
         /\ Content(base', 0, records) = Content(base, 0, records)
<1> DEFINE r == records \div Blocks
           b == block[w]
           x == b * r
           y == (b + 1) * r
<1>0. records \in Nat /\ base \in [0 .. records - 1 -> Datum] /\ recs_per_block = r
  BY DEF Typed, recs_per_block
<1>1. /\ b \in BlockIds /\ r \in Nat /\ x \in Nat /\ y \in Nat /\ x <= y /\ y <= records
      /\ \E s \in Seq(Datum) :
           /\ base' = Written(base, x, s) /\ x + Len(s) = y
           /\ InOrder(s) /\ Elements(s) = Content(base, x, y)
  BY <1>0, SortWrites
<1> HIDE DEF x, y
<1>2. PICK s \in Seq(Datum) :
         /\ base' = Written(base, x, s) /\ x + Len(s) = y
         /\ InOrder(s) /\ Elements(s) = Content(base, x, y)
  BY <1>1
<1>3. /\ base' \in [0 .. records - 1 -> Datum]
      /\ \A i \in 0 .. records - 1 : i < x \/ i >= y => base'[i] = base[i]
      /\ Content(base', x, y) = Content(base, x, y)
      /\ OrderedIn(base', x, y)
  <2>1. x + Len(s) <= records
    BY <1>1, <1>2
  <2>2. LET g == Written(base, x, s)
            hi == x + Len(s)
        IN  /\ g \in [0 .. records - 1 -> Datum]
            /\ \A i \in 0 .. records - 1 : i < x \/ i >= hi => g[i] = base[i]
            /\ Content(g, x, hi) = Elements(s)
            /\ InOrder(s) => OrderedIn(g, x, hi)
    BY <1>0, <1>1, <2>1, WrittenProps
  <2> QED
    BY <1>2, <2>2
<1>4. b \in Nat /\ 1 \in Nat /\ b + 1 <= Blocks
  BY <1>1, Consts DEF BlockIds
<1>5. ASSUME NEW c \in BlockIds, c # b
      PROVE  Run(base', r, c, 1) <=> Run(base, r, c, 1)
  <2>1. c \in Nat /\ c + 1 <= Blocks /\ (c + 1 <= b \/ b + 1 <= c)
    BY <1>4, <1>5, Consts DEF BlockIds
  <2> HIDE DEF b
  <2>2. \A i \in 0 .. records - 1 :
          i < b * (records \div Blocks) \/ i >= (b + 1) * (records \div Blocks) => base'[i] = base[i]
    BY <1>3 DEF x, y
  <2> QED
    BY <1>0, <1>4, <2>1, <2>2, OtherBlocks, SameRun
<1>6. Run(base', r, b, 1)
  BY <1>3 DEF Run, x, y
<1>7. Content(base', 0, records) = Content(base, 0, records)
  <2>1. \A i \in 0 .. x - 1 : base'[i] = base[i]
    BY <1>0, <1>1, <1>3
  <2>2. \A i \in y .. records - 1 : base'[i] = base[i]
    BY <1>0, <1>1, <1>3
  <2>3. Content(base', 0, x) = Content(base, 0, x) /\ Content(base', y, records) = Content(base, y, records)
    BY <2>1, <2>2 DEF Content
  <2>4. \A f : Content(f, 0, records) = Content(f, 0, x) \cup (Content(f, x, y) \cup Content(f, y, records))
    <3> TAKE f
    <3>1. Content(f, 0, records) = Content(f, 0, x) \cup Content(f, x, records)
      BY <1>0, <1>1, ContentSplit
    <3>2. Content(f, x, records) = Content(f, x, y) \cup Content(f, y, records)
      BY <1>0, <1>1, ContentSplit
    <3> QED
      BY <3>1, <3>2
  <2> QED
    BY <1>3, <2>3, <2>4
<1> QED
  BY <1>0, <1>5, <1>6, <1>7

\* A worker that copies writes between Left and Right, records that its array holds;
\* what lies outside is left alone.
LEMMA CopyElsewhere ==
  ASSUME Typed, Rounds, Claims, Arrays, NEW w \in Workers, CopyHalf(w) \/ CopyBack(w)
  PROVE  LET b == block[w]
             s == step[w]
             r == recs_per_block
         IN  /\ \A c \in Nat, k \in Nat :
                  c + k <= Blocks /\ (c + k <= b \/ b + s * 2 <= c) => Same(base, base', r, c, k)
             /\ CopyBack(w) => /\ Run(base', r, b, s * 2)
                               /\ Content(base', Left(w), Right(w)) = Elements(tmp[w])
             /\ Content(base', Left(w), Right(w)) \subseteq Elements(tmp[w])
             /\ Content(base', 0, Left(w)) = Content(base, 0, Left(w))
             /\ Content(base', Right(w), records) = Content(base, Right(w), records)
<1> DEFINE b == block[w]
           s == step[w]
           r == records \div Blocks
           x == Left(w)
           y == Mid(w)
           z == Right(w)
           t == tmp[w]
<1>0. records \in Nat /\ base \in [0 .. records - 1 -> Datum] /\ recs_per_block = r
  BY DEF Typed, recs_per_block
<1>1. pc[w] \in Busy /\ pc[w] \in {"copy", "copying"}
  BY DEF CopyHalf, CopyBack, Goto, Busy
<1>2. Place(r, records, b, s, x, y, z)
  BY <1>0, <1>1, BusyPlace
<1>3. InOrder(t) /\ Content(base, x, z) \subseteq Elements(t)
  BY <1>1 DEF Arrays
<1>4. PICK q \in Seq(Datum) :
         /\ base' = Written(base, x, q) /\ Elements(q) \subseteq Elements(t)
         /\ CopyHalf(w) => x + Len(q) = y
         /\ CopyBack(w) => x + Len(q) = z /\ q = t
  BY CopyWrites
<1> HIDE DEF b, s, r, x, y, z, t
<1>5. x \in Nat /\ y \in Nat /\ z \in Nat /\ x <= y /\ y <= z /\ z <= records
  BY <1>2 DEF Place
<1>a. x = b * r /\ z = (b + s * 2) * r /\ b \in Nat /\ s * 2 \in Nat /\ b + s * 2 <= Blocks
  BY <1>2 DEF Place
<1> DEFINE m == x + Len(q)
<1>6. m \in Nat /\ x <= m /\ m <= z /\ m <= records
  BY <1>0, <1>4, <1>5
<1>7. /\ \A i \in 0 .. records - 1 : i < x \/ i >= m => base'[i] = base[i]
      /\ Content(base', x, m) = Elements(q)
      /\ InOrder(q) => OrderedIn(base', x, m)
  <2>1. LET g == Written(base, x, q)
            hi == x + Len(q)
        IN  /\ \A i \in 0 .. records - 1 : i < x \/ i >= hi => g[i] = base[i]
            /\ Content(g, x, hi) = Elements(q)
            /\ InOrder(q) => OrderedIn(g, x, hi)
    BY <1>0, <1>5, <1>6, WrittenProps
  <2> QED
    BY <1>4, <2>1
<1>8. CopyBack(w) => m = z /\ q = t
  BY <1>4
<1> HIDE DEF m
<1>9. \A i \in 0 .. records - 1 : i < x \/ i >= z => base'[i] = base[i]
  BY <1>5, <1>6, <1>7
<1>10. ASSUME NEW c \in Nat, NEW k \in Nat, c + k <= Blocks, c + k <= b \/ b + s * 2 <= c
       PROVE  Same(base, base', r, c, k)
  <2>1. \A i \in 0 .. records - 1 :
          i < b * (records \div Blocks) \/ i >= (b + s * 2) * (records \div Blocks) => base'[i] = base[i]
    BY <1>9, <1>a DEF r
  <2> DEFINE d == s * 2
  <2>2. d \in Nat /\ b + d <= Blocks /\ (c + k <= b \/ b + d <= c) /\ b \in Nat
        /\ \A i \in 0 .. records - 1 :
             i < b * (records \div Blocks) \/ i >= (b + d) * (records \div Blocks) => base'[i] = base[i]
    BY <1>10, <1>a, <2>1
  <2> HIDE DEF d
  <2>3. Same(base, base', records \div Blocks, c, k)
    BY <1>0, <1>10, <2>2, OtherBlocks
  <2> QED
    BY <2>3 DEF r
<1>11. CopyBack(w) => Run(base', r, b, s * 2) /\ Content(base', x, z) = Elements(t)
  BY <1>3, <1>7, <1>8, <1>a DEF Run
<1>12. Content(base', x, z) \subseteq Elements(t)
  <2>1. \A i \in x .. z - 1 : base'[i] \in Elements(q) \/ base'[i] = base[i]
    <3>1. \A i \in x .. z - 1 : i \in x .. m - 1 \/ i >= m
      BY <1>5, <1>6
    <3>2. \A i \in x .. m - 1 : base'[i] \in Elements(q)
      BY <1>7 DEF Content
    <3>3. \A i \in x .. z - 1 : i \in 0 .. records - 1
      BY <1>0, <1>5
    <3> QED
      BY <1>7, <3>1, <3>2, <3>3
  <2>2. \A i \in x .. z - 1 : base[i] \in Elements(t)
    BY <1>3 DEF Content
  <2> QED
    BY <1>4, <2>1, <2>2 DEF Content
<1>13. Content(base', 0, x) = Content(base, 0, x)
  <2>1. \A i \in 0 .. x - 1 : base'[i] = base[i]
    BY <1>0, <1>5, <1>9
  <2> QED
    BY <2>1 DEF Content
<1>14. Content(base', z, records) = Content(base, z, records)
  <2>1. \A i \in z .. records - 1 : base'[i] = base[i]
    BY <1>0, <1>5, <1>9
  <2> QED
    BY <2>1 DEF Content
<1> QED
  BY <1>0, <1>10, <1>11, <1>12, <1>13, <1>14 DEF b, s, x, z, t

-----------------------------------------------------------------------------
(* The steps keep what the blocks and the arrays hold.                     *)

Runs == SortedBlocks /\ SortedRuns /\ MergedRuns /\ Unfinished

\* What the workers leave a barrier with.
LEMMA RunsReleased ==
  ASSUME Typed, Together, Rounds, Claims, Runs, NEW w \in Workers,
         pthread_barrier_wait(w), Released(w)
  PROVE  Runs'
<1> DEFINE r == recs_per_block
<1>0. /\ step \in [Workers -> Nat \ {0}] /\ block_map \subseteq BlockIds
      /\ merge_map \subseteq BlockIds
  BY DEF Typed
<1>1. PICK at \in DOMAIN After :
        (\A v \in Workers : pc[v] = at) /\ pc' = [v \in Workers |-> After[at]]
  BY Release
<1>2. UNCHANGED <<base, records, block_map, merge_map, step, block>> /\ r' = r
  BY DEF pthread_barrier_wait, fileVars, mapVars, localVars, recs_per_block
<1>3. \A v \in Workers : pc'[v] = After[at]
  BY <1>1
<1>4. \A v \in Workers : Blocks % Stage(v) = 0
  BY DEF Rounds
<1> HIDE DEF r
<1>5. \A v \in Workers : pc[v] # "merge" /\ pc'[v] # "merge" /\ pc[v] \notin Busy
  BY <1>1, <1>3, AfterIs DEF Busy
<1>6. CASE at = "started"
  <2>1. block_map' = {}
    BY <1>1, <1>2, <1>6, Consts DEF Claims
  <2>2. \A v \in Workers : pc'[v] = "own"
    BY <1>3, <1>6, AfterIs
  <2> QED
    BY <1>5, <2>1, <2>2
       DEF Runs, SortedBlocks, SortedRuns, MergedRuns, Unfinished, Turning, Clearing, Merging
<1>7. CASE at = "sorted"
  <2>1. \A v \in Workers : pc'[v] = "round" /\ pc[v] = "sorted" /\ step[v] = 1
    BY <1>1, <1>3, <1>7, AfterIs DEF Rounds, Sorting
  <2>2. \A b \in BlockIds : Run(base, r, b, 1)
    <3>1. BlockIds \subseteq block_map
      BY <2>1, Consts DEF Claims
    <3>2. \A v \in Workers : pc[v] \in Sorting
      BY <2>1 DEF Sorting
    <3> QED
      BY <2>1, <3>1, <3>2 DEF Runs, SortedBlocks, r
  <2>3. \A v \in Workers : Stage(v)' = 1
    BY <1>2, <2>1 DEF Stage
  <2>4. SortedRuns'
    BY <1>2, <2>2, <2>3 DEF SortedRuns, r
  <2> QED
    BY <1>5, <2>1, <2>4, Consts
       DEF Runs, SortedBlocks, MergedRuns, Unfinished, Sorting, Merging
<1>8. CASE at = "round"
  <2>1. \A v \in Workers : pc'[v] = "clear" /\ pc[v] = "round"
    BY <1>1, <1>3, <1>8, AfterIs
  <2>2. \A v \in Workers : Stage(v)' = Stage(v)
    BY <1>2, <2>1 DEF Stage
  <2>3. SortedRuns'
    BY <1>2, <2>1, <2>2 DEF Runs, SortedRuns, Turning, r
  <2> QED
    BY <1>5, <2>1, <2>3, Consts
       DEF Runs, SortedBlocks, MergedRuns, Unfinished, Sorting, Merging
<1>9. CASE at = "cleared"
  <2>1. \A v \in Workers : pc'[v] = "claim merge" /\ pc[v] = "cleared"
    BY <1>1, <1>3, <1>9, AfterIs
  <2>2. merge_map = {}
    BY <2>1, Consts DEF Claims
  <2>3. \A v \in Workers : Stage(v) = step[v] /\ pc[v] \in Clearing /\ step[v] < Blocks
    BY <2>1 DEF Stage, Clearing, Rounds
  <2>4. ASSUME NEW v \in Workers, NEW b \in BlockIds, Pair(b, step[v])
        PROVE  Halves(base, r, b, step[v])
    <3>1. step[v] \in Nat \ {0} /\ Blocks % step[v] = 0 /\ step[v] < Blocks
      BY <1>0, <1>4, <2>3
    <3>2. b + step[v] \in BlockIds /\ b % step[v] = 0 /\ (b + step[v]) % step[v] = 0
      BY <2>4, <3>1, Pairs
    <3>3. \A c \in BlockIds : c % step[v] = 0 => Run(base, r, c, step[v])
      BY <2>3 DEF Runs, SortedRuns, r
    <3> QED
      BY <3>2, <3>3 DEF Halves
  <2>5. MergedRuns'
    BY <1>2, <2>2, <2>4 DEF MergedRuns, Pair, r
  <2> QED
    BY <1>5, <2>1, <2>5, Consts
       DEF Runs, SortedBlocks, SortedRuns, Unfinished, Sorting, Turning, Clearing
<1>10. CASE at = "merged"
  <2>1. \A v \in Workers : pc'[v] = "next" /\ pc[v] = "merged"
    BY <1>1, <1>3, <1>10, AfterIs
  <2>2. \A v \in Workers : Stage(v)' = step[v] * 2 /\ Stage(v) = step[v] /\ step[v] < Blocks
    BY <1>2, <2>1 DEF Stage, Rounds, Merging
  <2>3. ASSUME NEW v \in Workers, NEW b \in BlockIds, b % (step[v] * 2) = 0
        PROVE  Run(base, r, b, step[v] * 2)
    <3> DEFINE s == step[v]
               n == s * 2
    <3>1. s \in Nat \ {0} /\ Blocks % s = 0 /\ s < Blocks
      BY <1>0, <1>4, <2>2
    <3>2. n \in Nat \ {0} /\ Blocks % n = 0 /\ b % n = 0 /\ s < n
      BY <2>3, <3>1, Doubles
    <3> HIDE DEF n
    <3>a. b \in Nat /\ b < Blocks /\ Blocks \in Nat
      BY Consts DEF BlockIds
    <3>3. b + n <= Blocks
      BY <3>2, <3>a, Apart
    <3>4. b + s < Blocks
      BY <3>1, <3>2, <3>3, <3>a
    <3>5. Pair(b, s)
      BY <2>3, <3>4 DEF Pair
    <3>6. b \in merge_map
      BY <2>1, <3>5 DEF Claims
    <3> QED
      BY <1>5, <2>1, <3>5, <3>6 DEF Runs, MergedRuns, Merging, r
  <2>4. SortedRuns'
    BY <1>2, <2>2, <2>3 DEF SortedRuns, r
  <2> QED
    BY <1>5, <2>1, <2>4, Consts
       DEF Runs, SortedBlocks, MergedRuns, Unfinished, Sorting, Merging
<1> QED
  BY <1>6, <1>7, <1>8, <1>9, <1>10, AfterIs

LEMMA RunsClaimed ==
  ASSUME Typed, Together, Rounds, Claims, Runs, NEW w \in Workers, ClaimOwn(w) \/ Claim(w)
  PROVE  Runs'
<1>0. pc \in [Workers -> Pcs] /\ block \in [Workers -> BlockIds \cup {-1}]
  BY DEF Typed
<1>1. /\ pc[w] \in {"own", "claim"}
      /\ UNCHANGED <<base, records>>
      /\ \/ /\ pc' = [pc EXCEPT ![w] = "sort"]
            /\ \E b \in BlockIds :
                 block_map' = block_map \cup {b} /\ block' = [block EXCEPT ![w] = b]
         \/ /\ pc' = [pc EXCEPT ![w] = "claim"] \/ pc' = [pc EXCEPT ![w] = "sorted"]
            /\ UNCHANGED <<block_map, block>>
  <2>1. CASE ClaimOwn(w)
    BY <2>1, Consts DEF ClaimOwn, ClaimBlock, Goto, fileVars
  <2>2. CASE Claim(w)
    BY <2>2 DEF Claim, ClaimBlock, Goto, fileVars
  <2> QED
    BY <2>1, <2>2
<1>2. \A v \in Workers : pc[v] \in Sorting
  BY <1>1, OnePhase DEF Sorting
<1>3. \A v \in Workers : pc'[v] \in Sorting /\ (v # w => pc'[v] = pc[v] /\ block'[v] = block[v])
  BY <1>0, <1>1, <1>2 DEF Sorting
<1>4. recs_per_block' = recs_per_block
  BY <1>1 DEF recs_per_block
<1>5. \A b \in block_map :
        Run(base, recs_per_block, b, 1) \/ \E v \in Workers : v # w /\ pc[v] = "sort" /\ block[v] = b
  BY <1>1, <1>2 DEF Runs, SortedBlocks
<1>6. \A b \in block_map' : b \in block_map \/ (pc'[w] = "sort" /\ block'[w] = b)
  BY <1>0, <1>1
<1>7. SortedBlocks'
  BY <1>1, <1>3, <1>4, <1>5, <1>6 DEF SortedBlocks
<1> QED
  BY <1>3, <1>7
     DEF Runs, SortedRuns, MergedRuns, Unfinished, Sorting, Turning, Clearing, Merging

LEMMA RunsSorted ==
  ASSUME Typed, Together, Rounds, Claims, Runs, NEW w \in Workers, Sort(w)
  PROVE  Runs'
<1>0. pc \in [Workers -> Pcs] /\ block_map \subseteq BlockIds
  BY DEF Typed
<1>1. /\ pc[w] = "sort" /\ pc' = [pc EXCEPT ![w] = "claim"]
      /\ UNCHANGED <<records, block_map, block>>
  BY DEF Sort, Goto, mapVars, localVars
<1>2. \A v \in Workers : pc[v] \in Sorting
  BY <1>1, OnePhase DEF Sorting
<1>3. \A v \in Workers : pc'[v] \in Sorting /\ (v # w => pc'[v] = pc[v])
  BY <1>0, <1>1, <1>2 DEF Sorting
<1>4. recs_per_block' = recs_per_block
  BY <1>1 DEF recs_per_block
<1>5. /\ Run(base', recs_per_block, block[w], 1)
      /\ \A c \in BlockIds :
           c # block[w] => (Run(base', recs_per_block, c, 1) <=> Run(base, recs_per_block, c, 1))
  BY SortElsewhere
<1>6. \A b \in block_map :
        Run(base, recs_per_block, b, 1) \/ \E v \in Workers : pc[v] = "sort" /\ block[v] = b
  BY <1>2 DEF Runs, SortedBlocks
<1>7. \A b \in block_map :
        Run(base', recs_per_block, b, 1) \/ \E v \in Workers : pc'[v] = "sort" /\ block[v] = b
  BY <1>0, <1>3, <1>5, <1>6
<1>8. SortedBlocks'
  BY <1>1, <1>4, <1>7 DEF SortedBlocks
<1> QED
  BY <1>3, <1>8
     DEF Runs, SortedRuns, MergedRuns, Unfinished, Sorting, Turning, Clearing, Merging

LEMMA RunsTurned ==
  ASSUME Typed, Together, Rounds, Claims, Runs, NEW w \in Workers, ClearMerges(w) \/ NextRound(w)
  PROVE  Runs'
<1>0. pc \in [Workers -> Pcs] /\ step \in [Workers -> Nat \ {0}]
  BY DEF Typed
<1>1. UNCHANGED <<base, records>> /\ recs_per_block' = recs_per_block
  BY DEF ClearMerges, NextRound, fileVars, recs_per_block
<1>2. \A v \in Workers : pc[v] \in Turning \cup Clearing /\ pc'[v] \in Turning \cup Clearing
  <2>1. CASE ClearMerges(w)
    <3>1. pc[w] = "clear" /\ pc' = [pc EXCEPT ![w] = "cleared"]
      BY <2>1 DEF ClearMerges, Goto
    <3> QED
      BY <1>0, <3>1, OnePhase DEF Clearing
  <2>2. CASE NextRound(w)
    <3>1. /\ pc[w] = "next"
          /\ pc' = [pc EXCEPT ![w] = "round"] \/ pc' = [pc EXCEPT ![w] = "exited"]
      BY <2>2 DEF NextRound, Goto
    <3> QED
      BY <1>0, <3>1, OnePhase DEF Turning
  <2> QED
    BY <2>1, <2>2
<1>3. \A v \in Workers : Stage(v)' = Stage(v)
  <2>1. CASE ClearMerges(w)
    <3>1. pc[w] = "clear" /\ pc' = [pc EXCEPT ![w] = "cleared"] /\ step' = step
      BY <2>1 DEF ClearMerges, Goto, localVars
    <3> QED
      BY <1>0, <3>1 DEF Stage
  <2>2. CASE NextRound(w)
    <3>1. /\ pc[w] = "next" /\ step' = [step EXCEPT ![w] = step[w] * 2]
          /\ pc' = [pc EXCEPT ![w] = "round"] \/ pc' = [pc EXCEPT ![w] = "exited"]
      BY <2>2 DEF NextRound, Goto, Doubled
    <3> QED
      BY <1>0, <3>1 DEF Stage
  <2> QED
    BY <2>1, <2>2
<1>4. SortedRuns'
  BY <1>1, <1>2, <1>3 DEF Runs, SortedRuns
<1> QED
  BY <1>2, <1>4, Consts
     DEF Runs, SortedBlocks, MergedRuns, Unfinished, Sorting, Turning, Clearing, Merging

LEMMA RunsMergeClaimed ==
  ASSUME Typed, Together, Rounds, Claims, Runs, NEW w \in Workers, ClaimMerge(w)
  PROVE  Runs'
<1> DEFINE r == recs_per_block
<1>0. pc \in [Workers -> Pcs] /\ block \in [Workers -> BlockIds \cup {-1}]
  BY DEF Typed
<1>1. /\ pc[w] = "claim merge" /\ UNCHANGED <<base, records, step>> /\ r' = r
      /\ \/ /\ pc' = [pc EXCEPT ![w] = "merge"]
            /\ \E b \in Unmerged(step[w]) :
                 merge_map' = merge_map \cup {b} /\ block' = [block EXCEPT ![w] = b]
         \/ pc' = [pc EXCEPT ![w] = "merged"] /\ UNCHANGED <<merge_map, block>>
  BY DEF ClaimMerge, Goto, fileVars, recs_per_block
<1> HIDE DEF r
<1>2. \A v \in Workers : pc[v] \in Merging
  BY <1>1, OnePhase DEF Merging
<1>3. \A v \in Workers : pc'[v] \in Merging /\ (v # w => pc'[v] = pc[v] /\ block'[v] = block[v])
  BY <1>0, <1>1, <1>2 DEF Merging
<1>4. \A v \in Workers : Stage(v) = step[v] /\ step[v] = step[w]
  <2>1. \A v \in Workers : Stage(v) = step[v]
    BY <1>2 DEF Stage, Merging
  <2> QED
    BY <2>1 DEF Rounds
<1>5. pc[w] \notin Busy
  BY <1>1 DEF Busy
<1>6. \A c \in BlockIds : Pair(c, step[w]) =>
        /\ c \notin merge_map => Halves(base, r, c, step[w])
        /\ c \in merge_map =>
             \/ Run(base, r, c, step[w] * 2)
             \/ \E v \in Workers : v # w /\ pc[v] \in Busy /\ block[v] = c
  BY <1>2, <1>5 DEF Runs, MergedRuns, r
<1>7. \A v \in Workers : v # w /\ pc'[v] = "merge" => Halves(base, r, block'[v], step[v])
  BY <1>3 DEF Runs, Unfinished, r
<1>8. CASE pc' = [pc EXCEPT ![w] = "merge"]
  <2>1. PICK b \in Unmerged(step[w]) :
          merge_map' = merge_map \cup {b} /\ block' = [block EXCEPT ![w] = b]
    BY <1>0, <1>1, <1>8
  <2>2. b \in BlockIds /\ Pair(b, step[w]) /\ b \notin merge_map
    BY <2>1 DEF Unmerged, Pair
  <2>3. pc'[w] = "merge" /\ block'[w] = b /\ pc'[w] \in Busy
    BY <1>0, <1>8, <2>1 DEF Busy
  <2>4. Halves(base, r, b, step[w])
    BY <1>6, <2>2
  <2>5. \A v \in Workers : pc'[v] = "merge" => Halves(base, r, block'[v], step[v])
    BY <1>7, <2>3, <2>4
  <2>6. \A c \in BlockIds : Pair(c, step[w]) =>
          /\ c \notin merge_map' => Halves(base, r, c, step[w])
          /\ c \in merge_map' =>
               \/ Run(base, r, c, step[w] * 2)
               \/ \E v \in Workers : pc'[v] \in Busy /\ block'[v] = c
    BY <1>3, <1>6, <2>1, <2>3
  <2>7. Unfinished'
    BY <1>1, <2>5 DEF Unfinished, r
  <2>8. MergedRuns'
    BY <1>1, <1>4, <2>6 DEF MergedRuns, Pair, r
  <2> QED
    BY <1>3, <2>7, <2>8, Consts
       DEF Runs, SortedBlocks, SortedRuns, Sorting, Turning, Clearing, Merging
<1>9. CASE pc' # [pc EXCEPT ![w] = "merge"]
  <2>1. pc'[w] = "merged" /\ UNCHANGED <<merge_map, block>>
    BY <1>0, <1>1, <1>9
  <2>2. \A c \in BlockIds : Pair(c, step[w]) =>
          /\ c \notin merge_map' => Halves(base, r, c, step[w])
          /\ c \in merge_map' =>
               \/ Run(base, r, c, step[w] * 2)
               \/ \E v \in Workers : pc'[v] \in Busy /\ block'[v] = c
    BY <1>3, <1>6, <2>1
  <2>3. Unfinished'
    BY <1>1, <1>7, <2>1 DEF Unfinished, r
  <2>4. MergedRuns'
    BY <1>1, <1>4, <2>2 DEF MergedRuns, Pair, r
  <2> QED
    BY <1>3, <2>3, <2>4, Consts
       DEF Runs, SortedBlocks, SortedRuns, Sorting, Turning, Clearing, Merging
<1> QED
  BY <1>8, <1>9

\* An empty half: the other one is the whole run.
LEMMA EmptyHalf ==
  ASSUME Typed, Rounds, Claims, NEW w \in Workers, pc[w] \in Busy,
         Mid(w) = Left(w) \/ Right(w) = Mid(w),
         Halves(base, recs_per_block, block[w], step[w])
  PROVE  Run(base, recs_per_block, block[w], step[w] * 2)
<1>1. Place(recs_per_block, records, block[w], step[w], Left(w), Mid(w), Right(w))
  BY BusyPlace
<1>2. (block[w] + step[w]) + step[w] = block[w] + step[w] * 2
  BY <1>1 DEF Place
<1>3. OrderedIn(base, Left(w), Mid(w)) /\ OrderedIn(base, Mid(w), Right(w))
  BY <1>1, <1>2 DEF Halves, Run, Place
<1>4. OrderedIn(base, Left(w), Right(w))
  BY <1>3
<1> QED
  BY <1>1, <1>4 DEF Run, Place

LEMMA RunsMerged ==
  ASSUME Typed, Together, Rounds, Claims, Runs, NEW w \in Workers, Merge(w)
  PROVE  Runs'
<1> DEFINE r == recs_per_block
<1>0. pc \in [Workers -> Pcs]
  BY DEF Typed
<1>1. /\ pc[w] = "merge" /\ UNCHANGED <<base, records, step, block, merge_map>> /\ r' = r
      /\ \/ pc' = [pc EXCEPT ![w] = "copy"]
         \/ /\ pc' = [pc EXCEPT ![w] = "claim merge"]
            /\ Mid(w) = Left(w) \/ Right(w) = Mid(w)
  BY DEF Merge, Goto, fileVars, mapVars, recs_per_block
<1> HIDE DEF r
<1>2. \A v \in Workers : pc[v] \in Merging
  BY <1>1, OnePhase DEF Merging
<1>3. \A v \in Workers : pc'[v] \in Merging /\ (v # w => pc'[v] = pc[v])
  BY <1>0, <1>1, <1>2 DEF Merging
<1>4. \A v \in Workers : Stage(v) = step[v] /\ step[v] = step[w]
  <2>1. \A v \in Workers : Stage(v) = step[v]
    BY <1>2 DEF Stage, Merging
  <2> QED
    BY <2>1 DEF Rounds
<1>5. pc[w] \in Busy /\ pc'[w] # "merge"
  BY <1>0, <1>1 DEF Busy
<1>6. \A c \in BlockIds : Pair(c, step[w]) =>
        /\ c \notin merge_map => Halves(base, r, c, step[w])
        /\ c \in merge_map =>
             \/ Run(base, r, c, step[w] * 2)
             \/ \E v \in Workers : pc[v] \in Busy /\ block[v] = c
  BY <1>2 DEF Runs, MergedRuns, r
<1>7. pc'[w] \in Busy \/ Run(base, r, block[w], step[w] * 2)
  <2>1. CASE pc' = [pc EXCEPT ![w] = "copy"]
    BY <1>0, <2>1 DEF Busy
  <2>2. CASE Mid(w) = Left(w) \/ Right(w) = Mid(w)
    <3>1. Halves(base, recs_per_block, block[w], step[w])
      BY <1>1 DEF Runs, Unfinished
    <3> QED
      BY <1>5, <2>2, <3>1, EmptyHalf DEF r
  <2> QED
    BY <1>1, <2>1, <2>2
<1>8. \A c \in BlockIds : Pair(c, step[w]) =>
        /\ c \notin merge_map => Halves(base, r, c, step[w])
        /\ c \in merge_map =>
             \/ Run(base, r, c, step[w] * 2)
             \/ \E v \in Workers : pc'[v] \in Busy /\ block[v] = c
  BY <1>3, <1>6, <1>7
<1>9. MergedRuns'
  BY <1>1, <1>4, <1>8 DEF MergedRuns, Pair, r
<1>10. Unfinished'
  BY <1>1, <1>3, <1>5 DEF Runs, Unfinished, r
<1> QED
  BY <1>3, <1>9, <1>10, Consts
     DEF Runs, SortedBlocks, SortedRuns, Sorting, Turning, Clearing, Merging

LEMMA RunsCopied ==
  ASSUME Typed, Together, Rounds, Claims, Arrays, Runs, NEW w \in Workers,
         CopyHalf(w) \/ CopyBack(w)
  PROVE  Runs'
<1> DEFINE r == recs_per_block
           b == block[w]
           s == step[w]
<1>0. pc \in [Workers -> Pcs] /\ step \in [Workers -> Nat \ {0}]
  BY DEF Typed
<1>1. /\ UNCHANGED <<records, step, block, merge_map>> /\ r' = r
      /\ \/ pc[w] = "copy" /\ pc' = [pc EXCEPT ![w] = "copying"] /\ CopyHalf(w)
         \/ pc[w] = "copying" /\ pc' = [pc EXCEPT ![w] = "claim merge"] /\ CopyBack(w)
  BY DEF CopyHalf, CopyBack, Goto, mapVars, localVars, recs_per_block
<1>2. \A v \in Workers : pc[v] \in Merging
  BY <1>1, OnePhase DEF Merging
<1>3. \A v \in Workers : pc'[v] \in Merging /\ (v # w => pc'[v] = pc[v])
  BY <1>0, <1>1, <1>2 DEF Merging
<1>4. \A v \in Workers : Stage(v) = step[v] /\ step[v] = s
  <2>1. \A v \in Workers : Stage(v) = step[v]
    BY <1>2 DEF Stage, Merging
  <2> QED
    BY <2>1 DEF Rounds
<1>5. pc[w] \in Busy /\ pc'[w] # "merge" /\ pc[w] # "merge"
  BY <1>0, <1>1 DEF Busy
<1>6. /\ Pair(b, s) /\ b \in BlockIds /\ b \in merge_map /\ Blocks % s = 0 /\ s < Blocks
      /\ s \in Nat \ {0}
  BY <1>0, <1>5, BusyPlace DEF Claims
<1>7. /\ \A c \in Nat, k \in Nat :
           c + k <= Blocks /\ (c + k <= b \/ b + s * 2 <= c) => Same(base, base', r, c, k)
      /\ CopyBack(w) => Run(base', r, b, s * 2)
  BY CopyElsewhere
<1> HIDE DEF r, b, s
<1>8. ASSUME NEW c \in BlockIds, Pair(c, s), c # b
      PROVE  /\ Halves(base', r, c, s) <=> Halves(base, r, c, s)
             /\ Run(base', r, c, s * 2) <=> Run(base, r, c, s * 2)
  <2>1. c \in Nat /\ c + s * 2 <= Blocks /\ (c + s * 2 <= b \/ b + s * 2 <= c)
    BY <1>6, <1>8, Pairs
  <2>2. /\ c \in Nat /\ c + s \in Nat /\ s \in Nat /\ s * 2 \in Nat /\ b \in Nat
        /\ c + s <= Blocks /\ (c + s) + s <= Blocks
        /\ c + s <= b \/ b + s * 2 <= c
        /\ (c + s) + s <= b \/ b + s * 2 <= c + s
    BY <1>6, <2>1, Consts DEF BlockIds
  <2>3. Same(base, base', r, c, s * 2)
    BY <1>7, <2>1, <2>2
  <2>4. Same(base, base', r, c, s)
    BY <1>7, <2>2
  <2>5. Same(base, base', r, c + s, s)
    BY <1>7, <2>2
  <2> QED
    BY <2>3, <2>4, <2>5, SameRun DEF Halves
<1>9. \A c \in BlockIds : Pair(c, s) =>
        /\ c \notin merge_map => Halves(base, r, c, s)
        /\ c \in merge_map =>
             \/ Run(base, r, c, s * 2)
             \/ \E v \in Workers : pc[v] \in Busy /\ block[v] = c
  BY <1>2 DEF Runs, MergedRuns, r, s
<1>10. pc'[w] \in Busy \/ Run(base', r, b, s * 2)
  BY <1>0, <1>1, <1>7 DEF Busy
<1>11. ASSUME NEW c \in BlockIds, Pair(c, s)
       PROVE  /\ c \notin merge_map => Halves(base', r, c, s)
              /\ c \in merge_map =>
                   \/ Run(base', r, c, s * 2)
                   \/ \E v \in Workers : pc'[v] \in Busy /\ block[v] = c
  <2>1. CASE c = b
    BY <1>6, <1>10, <2>1 DEF b
  <2>2. CASE c # b
    <3>1. \A v \in Workers : pc[v] \in Busy /\ block[v] = c => pc'[v] \in Busy
      BY <1>3, <2>2 DEF b
    <3> QED
      BY <1>8, <1>9, <1>11, <2>2, <3>1
  <2> QED
    BY <2>1, <2>2
<1>12. MergedRuns'
  BY <1>1, <1>4, <1>11 DEF MergedRuns, Pair, r
<1>13. ASSUME NEW v \in Workers, pc'[v] = "merge"
       PROVE  Halves(base', r, block[v], s)
  <2>1. v # w /\ pc[v] = "merge" /\ pc[v] \in Busy
    BY <1>3, <1>5, <1>13 DEF Busy
  <2>2. block[v] # b /\ Pair(block[v], s) /\ block[v] \in BlockIds
    BY <1>4, <1>5, <2>1, BusyPlace DEF Claims, b
  <2>3. Halves(base, r, block[v], s)
    BY <1>4, <2>1 DEF Runs, Unfinished, r
  <2> QED
    BY <1>8, <2>2, <2>3
<1>14. Unfinished'
  BY <1>1, <1>4, <1>13 DEF Unfinished, r
<1> QED
  BY <1>3, <1>12, <1>14, Consts
     DEF Runs, SortedBlocks, SortedRuns, Sorting, Turning, Clearing, Merging

\* Once main has gone on, no worker is left.
LEMMA WorkersGone ==
  ASSUME Finished, main \in {"final merge", "done"}, NEW w \in Workers
  PROVE  ~ Worker(w)
<1>1. pc[w] = "exited"
  BY DEF Finished
<1> QED
  BY <1>1, AfterIs
     DEF Worker, pthread_barrier_wait, ClaimOwn, Claim, Sort, ClearMerges, ClaimMerge, Merge,
         MergeFails, CopyHalf, CopyBack, NextRound, Goto

LEMMA ContentsStep ==
  ASSUME IInv, [Next]_vars
  PROVE  Contents'
<1> USE DEF IInv
<1> SUFFICES ASSUME main' # "done"
             PROVE  Runs'
  BY DEF Contents, Runs
<1>1. main # "done"
  <2> SUFFICES ASSUME main = "done"
               PROVE  FALSE
    OBVIOUS
  <2>1. \A w \in Workers : ~ Worker(w)
    BY WorkersGone
  <2>2. ~ Main
    BY DEF Main, JoinWorkers, FinalMerge
  <2> QED
    BY <2>1, <2>2 DEF Next, vars
<1>2. Runs
  BY <1>1 DEF Contents, Runs
<1>3. CASE UNCHANGED <<base, records, block_map, merge_map, pc, step, block>>
  BY <1>2, <1>3
     DEF Runs, SortedBlocks, SortedRuns, MergedRuns, Unfinished, Stage, Pair, recs_per_block
<1>4. \/ UNCHANGED <<base, records, block_map, merge_map, pc, step, block>>
      \/ \E w \in Workers :
           \/ pthread_barrier_wait(w) /\ Released(w)
           \/ ClaimOwn(w) \/ Claim(w) \/ ClearMerges(w) \/ ClaimMerge(w)
           \/ Sort(w) \/ Merge(w) \/ CopyHalf(w) \/ CopyBack(w) \/ NextRound(w)
  BY DEF Next, vars, Main, Worker, JoinWorkers, FinalMerge, pthread_barrier_wait, MergeFails,
         fileVars, mapVars, localVars
<1> QED
  BY <1>2, <1>3, <1>4, RunsReleased, RunsClaimed, RunsSorted, RunsTurned, RunsMergeClaimed,
     RunsMerged, RunsCopied

\* A worker's array and what it is copied over, if neither is touched.
Array(t, p, f, lo, hi) ==
  /\ p \notin {"copy", "copying"} => t = <<>>
  /\ p \in {"copy", "copying"} =>
       InOrder(t) /\ Len(t) = hi - lo /\ Content(f, lo, hi) \subseteq Elements(t)
  /\ p = "copy" => Elements(t) = Content(f, lo, hi)

LEMMA ArraysAre == Arrays <=> \A w \in Workers : Array(tmp[w], pc[w], base, Left(w), Right(w))
BY DEF Arrays, Array

LEMMA ArraysKept ==
  ASSUME Arrays, UNCHANGED <<base, records, step, block, tmp>>,
         \A w \in Workers : \/ pc'[w] = pc[w]
                            \/ {pc[w], pc'[w]} \cap {"copy", "copying"} = {}
  PROVE  Arrays'
<1>1. \A w \in Workers : Left(w)' = Left(w) /\ Right(w)' = Right(w)
  BY DEF Left, Right, Clipped, recs_per_block
<1> QED
  BY <1>1 DEF Arrays

LEMMA ArraysStep ==
  ASSUME IInv, [Next]_vars
  PROVE  Arrays'
<1> USE DEF IInv
<1>0. /\ pc \in [Workers -> Pcs] /\ tmp \in [Workers -> Seq(Datum)] /\ records \in Nat
      /\ block \in [Workers -> BlockIds \cup {-1}]
  BY DEF Typed
<1>1. CASE UNCHANGED <<base, records, step, block, tmp, pc>>
  BY <1>1, ArraysKept
<1>2. ASSUME NEW w \in Workers, pthread_barrier_wait(w), Released(w)
      PROVE  Arrays'
  <2>1. PICK at \in DOMAIN After :
          (\A v \in Workers : pc[v] = at) /\ pc' = [v \in Workers |-> After[at]]
    BY <1>2, Release
  <2>2. \A v \in Workers : {pc[v], pc'[v]} \cap {"copy", "copying"} = {}
    BY <2>1, AfterIs
  <2>3. UNCHANGED <<base, records, step, block, tmp>>
    BY <1>2 DEF pthread_barrier_wait, fileVars, localVars
  <2> QED
    BY <2>2, <2>3, ArraysKept
\* Nobody copies in the other phases.
<1>3. ASSUME NEW w \in Workers, ClaimOwn(w) \/ Claim(w) \/ Sort(w) \/ ClearMerges(w) \/ NextRound(w)
      PROVE  Arrays'
  <2>1. tmp' = tmp /\ pc[w] \notin Merging /\ \E to : pc' = [pc EXCEPT ![w] = to] /\ to \notin Merging
    BY <1>3 DEF ClaimOwn, Claim, Sort, ClearMerges, NextRound, Goto, Merging, localVars
  <2>2. \A v \in Workers : pc[v] \notin Merging
    BY <2>1, OnePhase
  <2>3. \A v \in Workers : pc[v] \notin Merging /\ pc'[v] \notin Merging
    BY <1>0, <2>1, <2>2
  <2>4. \A v \in Workers : pc[v] \notin {"copy", "copying"} /\ pc'[v] \notin {"copy", "copying"}
    BY <2>3 DEF Merging
  <2> QED
    BY <2>1, <2>4 DEF Arrays
<1>4. ASSUME NEW w \in Workers, ClaimMerge(w)
      PROVE  Arrays'
  <2>1. /\ pc[w] = "claim merge" /\ UNCHANGED <<base, records, step, tmp>>
        /\ \E to \in {"merge", "merged"} : pc' = [pc EXCEPT ![w] = to]
        /\ block' = block \/ \E b : block' = [block EXCEPT ![w] = b]
    BY <1>4 DEF ClaimMerge, Goto, fileVars
  <2>2. /\ pc[w] \notin {"copy", "copying"} /\ pc'[w] \notin {"copy", "copying"}
        /\ \A v \in Workers : v # w => pc'[v] = pc[v] /\ block'[v] = block[v]
    BY <1>0, <2>1
  <2>3. \A v \in Workers : v # w => Left(v)' = Left(v) /\ Right(v)' = Right(v)
    BY <2>1, <2>2 DEF Left, Right, Clipped, recs_per_block
  <2> QED
    BY <2>1, <2>2, <2>3 DEF Arrays
<1>5. ASSUME NEW w \in Workers, Merge(w)
      PROVE  Arrays'
  <2>1. /\ pc[w] = "merge" /\ UNCHANGED <<base, records, step, block>>
        /\ \/ pc' = [pc EXCEPT ![w] = "copy"]
           \/ pc' = [pc EXCEPT ![w] = "claim merge"] /\ tmp' = tmp
    BY <1>5 DEF Merge, Goto, fileVars
  <2>2. \A v \in Workers : Left(v)' = Left(v) /\ Right(v)' = Right(v)
    BY <2>1 DEF Left, Right, Clipped, recs_per_block
  <2>3. CASE pc'[w] = "copy"
    <3>1. PICK m \in Seq(Datum) :
            /\ tmp' = [tmp EXCEPT ![w] = m]
            /\ Len(m) = Right(w) - Left(w)
            /\ Elements(m) = Content(base, Left(w), Right(w))
            /\ Halves(base, recs_per_block, block[w], step[w]) => InOrder(m)
      BY <1>5, <2>3, MergeMakes
    <3>2. Halves(base, recs_per_block, block[w], step[w])
      <4>1. main # "done"
        BY <2>1 DEF Finished
      <4> QED
        BY <2>1, <4>1 DEF Contents, Unfinished
    <3>3. /\ tmp'[w] = m /\ pc'[w] = "copy"
          /\ \A v \in Workers : v # w => pc'[v] = pc[v] /\ tmp'[v] = tmp[v]
      BY <1>0, <2>1, <2>3, <3>1
    <3> QED
      BY <2>1, <2>2, <3>1, <3>2, <3>3 DEF Arrays
  <2>4. CASE pc'[w] # "copy"
    <3>1. pc' = [pc EXCEPT ![w] = "claim merge"] /\ tmp' = tmp
      BY <1>0, <2>1, <2>4
    <3>2. \A v \in Workers : \/ pc'[v] = pc[v]
                             \/ {pc[v], pc'[v]} \cap {"copy", "copying"} = {}
      BY <1>0, <2>1, <3>1
    <3> QED
      BY <2>1, <3>1, <3>2, ArraysKept
  <2> QED
    BY <2>3, <2>4
<1>6. ASSUME NEW w \in Workers, CopyHalf(w) \/ CopyBack(w)
      PROVE  Arrays'
  <2>1. /\ UNCHANGED <<records, step, block>>
        /\ \/ pc[w] = "copy" /\ pc' = [pc EXCEPT ![w] = "copying"] /\ tmp' = tmp
           \/ /\ pc[w] = "copying" /\ pc' = [pc EXCEPT ![w] = "claim merge"]
              /\ tmp' = [tmp EXCEPT ![w] = <<>>]
    BY <1>6 DEF CopyHalf, CopyBack, Goto, localVars
  <2>2. \A v \in Workers : Left(v)' = Left(v) /\ Right(v)' = Right(v)
    BY <2>1 DEF Left, Right, Clipped, recs_per_block
  <2>3. \A v \in Workers : v # w => pc'[v] = pc[v] /\ tmp'[v] = tmp[v]
    BY <1>0, <2>1
  <2>4. /\ Content(base', Left(w), Right(w)) \subseteq Elements(tmp[w])
        /\ \A c \in Nat, k \in Nat :
             c + k <= Blocks /\ (c + k <= block[w] \/ block[w] + step[w] * 2 <= c)
             => Same(base, base', recs_per_block, c, k)
    BY <1>6, CopyElsewhere
  <2>5. Array(tmp'[w], pc'[w], base', Left(w), Right(w))
    <3>1. CASE pc[w] = "copy"
      <4>1. pc'[w] = "copying" /\ tmp'[w] = tmp[w]
        BY <1>0, <2>1, <3>1
      <4> QED
        BY <2>4, <3>1, <4>1 DEF Array, Arrays
    <3>2. CASE pc[w] # "copy"
      <4>1. pc'[w] = "claim merge" /\ tmp'[w] = <<>>
        BY <1>0, <2>1, <3>2
      <4> QED
        BY <4>1 DEF Array
    <3> QED
      BY <3>1, <3>2
  <2>6. ASSUME NEW v \in Workers, v # w
        PROVE  Array(tmp'[v], pc'[v], base', Left(v), Right(v))
    <3>1. CASE pc[v] \notin {"copy", "copying"}
      BY <2>3, <2>6, <3>1 DEF Array, Arrays
    <3>2. CASE pc[v] \in {"copy", "copying"}
      <4> DEFINE b == block[w]
                 c == block[v]
                 s == step[w]
                 r == recs_per_block
      <4>0. pc[v] \in Busy /\ pc[w] \in Busy
        BY <2>1, <3>2 DEF Busy
      <4>1. /\ Place(r, records, c, step[v], Left(v), Mid(v), Right(v)) /\ Pair(c, step[v])
            /\ Stage(v) = step[v]
        BY <4>0, BusyPlace
      <4>2. /\ Place(r, records, b, s, Left(w), Mid(w), Right(w)) /\ Pair(b, s)
            /\ Blocks % s = 0 /\ s < Blocks /\ Stage(w) = s
        BY <4>0, BusyPlace
      <4>3. step[v] = s /\ b # c
        BY <2>6, <4>0, <4>1, <4>2 DEF Rounds, Claims
      <4>a. \A x \in Nat, k \in Nat :
              x + k <= Blocks /\ (x + k <= b \/ b + s * 2 <= x) => Same(base, base', r, x, k)
        BY <2>4
      <4> HIDE DEF b, c, s, r
      <4>4. /\ s \in Nat \ {0} /\ s * 2 \in Nat /\ c \in Nat /\ c + s * 2 <= Blocks
            /\ Left(v) = c * r /\ Right(v) = (c + s * 2) * r
        BY <4>1, <4>3 DEF Place
      <4>5. c + s * 2 <= b \/ b + s * 2 <= c
        BY <4>1, <4>2, <4>3, <4>4, Pairs
      <4>6. Same(base, base', r, c, s * 2)
        BY <4>4, <4>5, <4>a
      <4>7. Content(base', Left(v), Right(v)) = Content(base, Left(v), Right(v))
        BY <4>4, <4>6, SameRun
      <4> QED
        BY <2>3, <2>6, <4>7 DEF Array, Arrays
    <3> QED
      BY <3>1, <3>2
  <2>7. \A v \in Workers : Array(tmp'[v], pc'[v], base', Left(v)', Right(v)')
    BY <2>2, <2>5, <2>6
  <2> QED
    BY <2>7 DEF Array, Arrays
<1>7. CASE FinalMerge
  <2>1. \A w \in Workers : pc[w] = "exited" /\ pc' = pc /\ tmp' = tmp
    BY <1>7 DEF FinalMerge, Finished, localVars
  <2> QED
    BY <2>1 DEF Arrays
<1>8. \/ UNCHANGED <<base, records, step, block, tmp, pc>> \/ FinalMerge
      \/ \E w \in Workers :
           \/ pthread_barrier_wait(w) /\ Released(w)
           \/ ClaimOwn(w) \/ Claim(w) \/ ClearMerges(w) \/ ClaimMerge(w)
           \/ Sort(w) \/ Merge(w) \/ CopyHalf(w) \/ CopyBack(w) \/ NextRound(w)
  BY DEF Next, vars, Main, Worker, JoinWorkers, pthread_barrier_wait, MergeFails, fileVars, localVars
<1> QED
  BY <1>1, <1>2, <1>3, <1>4, <1>5, <1>6, <1>7, <1>8

\* After the last round the blocks are one run.
LEMMA LastRun ==
  ASSUME IInv, main # "done", \A w \in Workers : pc[w] = "exited"
  PROVE  /\ OrderedIn(base, 0, Blocks * recs_per_block)
         /\ records % Blocks = 0 => OrderedIn(base, 0, records)
         /\ Blocks * recs_per_block \in Nat /\ Blocks * recs_per_block <= records
<1> USE DEF IInv
<1> DEFINE r == records \div Blocks
<1>0. records \in Nat /\ recs_per_block = r
  BY DEF Typed, recs_per_block
<1>1. /\ r \in Nat /\ 0 * r = 0 /\ Blocks * r \in Nat /\ Blocks * r <= records
      /\ records % Blocks = 0 => Blocks * r = records
  BY <1>0, WholeFile
<1>2. Stage(0) = Blocks /\ pc[0] \in Turning /\ 0 \in BlockIds /\ 0 % Blocks = 0
  <2>1. 0 \in Workers /\ 0 \in BlockIds
    BY Consts DEF Workers, BlockIds
  <2>2. pc[0] = "exited" /\ step[0] = Blocks
    BY <2>1 DEF Rounds
  <2> QED
    BY <2>1, <2>2, Consts DEF Stage, Turning
<1>3. Run(base, r, 0, Blocks)
  BY <1>0, <1>2, Consts DEF Contents, SortedRuns
<1> HIDE DEF r
<1>4. 0 + Blocks = Blocks
  BY Consts
<1>5. OrderedIn(base, 0, Blocks * r)
  BY <1>1, <1>3, <1>4 DEF Run
<1> QED
  BY <1>0, <1>1, <1>5

LEMMA FinishedStep ==
  ASSUME IInv, [Next]_vars
  PROVE  Finished'
<1> USE DEF IInv
<1>1. CASE main \in {"final merge", "done"} /\ ~ FinalMerge
  <2>1. \A w \in Workers : ~ Worker(w)
    BY <1>1, WorkersGone
  <2>2. UNCHANGED <<main, pc, base, records>>
    BY <1>1, <2>1 DEF Next, Main, JoinWorkers, vars, fileVars
  <2> QED
    BY <2>2 DEF Finished
<1>2. CASE FinalMerge
  <2>1. pc' = pc /\ records' = records /\ main' \in {"done", "failed"} /\ main = "final merge"
    BY <1>2 DEF FinalMerge
  <2>2. \A w \in Workers : pc[w] = "exited"
    BY <2>1 DEF Finished
  <2>3. main' = "done" /\ records % Blocks = 0 => OrderedIn(base', 0, records)
    BY <1>2, <2>1, <2>2, LastRun, FinalWrites
  <2> QED
    BY <2>1, <2>2, <2>3 DEF Finished
<1>3. CASE JoinWorkers
  <2>1. /\ UNCHANGED <<pc, base, records>> /\ main = "join"
        /\ \A w \in Workers : pc[w] = "exited"
    BY <1>3 DEF JoinWorkers, fileVars
  <2>2. records % Blocks = 0 => OrderedIn(base, 0, records)
    BY <2>1, LastRun
  <2> QED
    BY <2>1, <2>2 DEF Finished
<1>4. CASE main \notin {"final merge", "done"} /\ ~ FinalMerge /\ ~ JoinWorkers
  <2>1. main' = main \/ main' = "failed"
    BY <1>4 DEF Next, Main, Worker, vars, pthread_barrier_wait, ClaimOwn, Claim, Sort, ClearMerges,
                ClaimMerge, Merge, MergeFails, CopyHalf, CopyBack, NextRound
  <2> QED
    BY <1>4, <2>1 DEF Finished
<1> QED
  BY <1>1, <1>2, <1>3, <1>4

-----------------------------------------------------------------------------
(* The theorems.                                                           *)

LEMMA InitIInv ==
  ASSUME Init
  PROVE  IInv
<1>0. 0 \in Workers /\ Threads \in Nat /\ Blocks \in Nat \ {0}
  BY Consts
<1>1. PICK marks \in Inputs :
        /\ base = [i \in DOMAIN marks |-> <<marks[i], i + 1>>]
        /\ records = Cardinality(DOMAIN marks)
  BY DEF Init
<1>2. /\ IsFiniteSet(DOMAIN marks) /\ marks \in [0 .. Cardinality(DOMAIN marks) - 1 -> Int]
  BY ConstantsAssumption
<1>3. records \in Nat /\ marks \in [0 .. records - 1 -> Int]
  BY <1>1, <1>2, FS_CardinalityType
<1>4. base \in [0 .. records - 1 -> Datum]
  BY <1>1, <1>3 DEF Datum
<1>5. \A w \in Workers : pc[w] = "started" /\ step[w] = 1 /\ tmp[w] = <<>>
  BY DEF Init
<1>6. Typed
  BY <1>3, <1>4 DEF Init, Typed, Pcs
<1>7. Together
  BY <1>5 DEF Together, Phases
<1>8. \A w \in Workers : Stage(w) = 1
  BY <1>5 DEF Stage
<1>9. Rounds
  <2>1. Blocks % 1 = 0
    BY <1>0
  <2> QED
    BY <1>5, <1>8, <2>1 DEF Rounds, Clearing, Merging
<1>10. Claims
  BY <1>5 DEF Init, Claims, Busy
<1>11. Contents
  BY <1>0, <1>5
     DEF Contents, SortedBlocks, SortedRuns, MergedRuns, Unfinished, Sorting, Turning, Clearing,
         Merging
<1>12. Arrays
  BY <1>5 DEF Arrays
<1>13. Finished
  BY DEF Init, Finished
<1> QED
  BY <1>6, <1>7, <1>9, <1>10, <1>11, <1>12, <1>13 DEF IInv

LEMMA IInvStep ==
  ASSUME IInv, [Next]_vars
  PROVE  IInv'
BY TypedStep, TogetherStep, RoundsStep, ClaimsStep, ContentsStep, ArraysStep, FinishedStep DEF IInv

\* The inductive invariant holds for any number of workers and blocks main accepts, and any file.
THEOREM Invariant == Spec => []IInv
<1>1. Init => IInv
  BY InitIInv
<1>2. IInv /\ [Next]_vars => IInv'
  BY IInvStep
<1> QED
  BY <1>1, <1>2, PTL DEF Spec

\* No two workers touch a record at a time: claims within a round, barriers between rounds.
THEOREM RecordsNotShared == Spec => []NoSharedRecord
<1>1. IInv => NoSharedRecord
  BY TouchesNothingShared DEF IInv
<1> QED
  BY <1>1, Invariant, PTL

LEMMA SortedFollows ==
  ASSUME IInv
  PROVE  Sorted
<1> USE DEF IInv
<1>0. records \in Nat /\ base \in [0 .. records - 1 -> Datum]
  BY DEF Typed
<1>a. ASSUME NEW lo \in Nat, NEW hi \in Nat, lo <= hi, hi <= records
      PROVE  /\ Elements(Slice(lo, hi)) = Content(base, lo, hi)
             /\ InOrder(Slice(lo, hi)) <=> OrderedIn(base, lo, hi)
  <2>1. Slice(lo, hi) = SliceOf(base, lo, hi)
    BY DEF Slice, SliceOf
  <2> QED
    BY <1>0, <1>a, <2>1, SliceProps
<1>1. ASSUME NEW w \in Workers, pc[w] = "merge"
      PROVE  InOrder(Slice(Left(w), Mid(w))) /\ InOrder(Slice(Mid(w), Right(w)))
  <2>1. pc[w] \in Busy /\ main # "done"
    BY <1>1 DEF Busy, Finished
  <2>2. Halves(base, recs_per_block, block[w], step[w])
    BY <1>1, <2>1 DEF Contents, Unfinished
  <2>3. Place(recs_per_block, records, block[w], step[w], Left(w), Mid(w), Right(w))
    BY <2>1, BusyPlace
  <2>4. (block[w] + step[w]) + step[w] = block[w] + step[w] * 2
    BY <2>3 DEF Place
  <2>5. OrderedIn(base, Left(w), Mid(w)) /\ OrderedIn(base, Mid(w), Right(w))
    BY <2>2, <2>3, <2>4 DEF Halves, Run, Place
  <2>6. /\ Left(w) \in Nat /\ Mid(w) \in Nat /\ Right(w) \in Nat
        /\ Left(w) <= Mid(w) /\ Mid(w) <= Right(w) /\ Right(w) <= records /\ Mid(w) <= records
    BY <1>0, <2>3 DEF Place
  <2> QED
    BY <1>a, <2>5, <2>6
<1>2. ASSUME NEW w \in Workers, pc[w] = "copy"
      PROVE  InOrder(tmp[w]) /\ Elements(tmp[w]) = Elements(Slice(Left(w), Right(w)))
  <2>1. pc[w] \in Busy
    BY <1>2 DEF Busy
  <2>2. Place(recs_per_block, records, block[w], step[w], Left(w), Mid(w), Right(w))
    BY <2>1, BusyPlace
  <2>3. Left(w) \in Nat /\ Right(w) \in Nat /\ Left(w) <= Right(w) /\ Right(w) <= records
    BY <2>2 DEF Place
  <2>4. InOrder(tmp[w]) /\ Elements(tmp[w]) = Content(base, Left(w), Right(w))
    BY <1>2 DEF Arrays
  <2> QED
    BY <1>a, <2>3, <2>4
<1>3. ASSUME main = "final merge"
      PROVE  InOrder(Slice(0, Blocks * recs_per_block))
  <2>1. /\ OrderedIn(base, 0, Blocks * recs_per_block)
        /\ Blocks * recs_per_block \in Nat /\ Blocks * recs_per_block <= records
    BY <1>3, LastRun DEF Finished
  <2> DEFINE m == Blocks * recs_per_block
  <2>2. OrderedIn(base, 0, m) /\ m \in Nat /\ m <= records /\ 0 <= m
    BY <2>1
  <2> HIDE DEF m
  <2>3. InOrder(Slice(0, m))
    BY <1>a, <2>2
  <2> QED
    BY <2>3 DEF m
<1>4. ASSUME main = "done", records % Blocks = 0
      PROVE  InOrder(Slice(0, records))
  BY <1>0, <1>4, <1>a DEF Finished
<1> QED
  BY <1>1, <1>2, <1>3, <1>4 DEF Sorted

\* What is merged is sorted, what is copied back is what was merged, and the blocks are
\* one sorted run in the end.
THEOREM FileSorted == Spec => []Sorted
<1>1. IInv => Sorted
  BY SortedFollows
<1> QED
  BY <1>1, Invariant, PTL

\* What is in the file, and what one array adds to it.
LEMMA HeldIs ==
  ASSUME Typed
  PROVE  /\ Elements(base) = Content(base, 0, records)
         /\ \A x : x \in Held <=>
              \/ x \in Content(base, 0, records)
              \/ main # "failed" /\ \E w \in Workers : x \in Elements(tmp[w])
<1>1. DOMAIN base = 0 .. records - 1
  BY DEF Typed
<1>2. Elements(base) = Content(base, 0, records)
  BY <1>1 DEF Elements, Content
<1>3. \A x : x \in Copies(Workers) <=> \E w \in Workers : x \in Elements(tmp[w])
  BY DEF Copies
<1>4. CASE main = "failed"
  <2>1. Held = Elements(base)
    BY <1>4 DEF Held
  <2> QED
    BY <1>2, <1>4, <2>1
<1>5. CASE main # "failed"
  <2>1. Held = Elements(base) \cup Copies(Workers)
    BY <1>5 DEF Held
  <2> QED
    BY <1>2, <1>3, <1>5, <2>1
<1> QED
  BY <1>4, <1>5

LEMMA HeldStep ==
  ASSUME IInv, Next, main' # "failed"
  PROVE  Held' = Held
<1> USE DEF IInv
<1>0. /\ records \in Nat /\ records' = records /\ tmp \in [Workers -> Seq(Datum)]
      /\ pc \in [Workers -> Pcs]
  BY BaseTyped DEF Typed
<1> DEFINE old == Content(base, 0, records)
           new == Content(base', 0, records)
<1>a. \A x : x \in Held <=> x \in old \/ \E w \in Workers : x \in Elements(tmp[w])
  BY HeldIs DEF Next
<1>b. \A x : x \in Held' <=> x \in new \/ \E w \in Workers : x \in Elements(tmp'[w])
  <2>1. Typed'
    BY TypedStep
  <2>2. DOMAIN base' = 0 .. records - 1
    BY <1>0, <2>1 DEF Typed
  <2>3. Elements(base') = new
    BY <2>2 DEF Elements, Content
  <2>4. Held' = Elements(base') \cup Copies(Workers)'
    BY DEF Held
  <2>5. \A x : x \in Copies(Workers)' <=> \E w \in Workers : x \in Elements(tmp'[w])
    BY DEF Copies, Workers
  <2> QED
    BY <2>3, <2>4, <2>5
<1> HIDE DEF old, new
<1>1. CASE new = old /\ tmp' = tmp
  <2>1. \A x : x \in Held' <=> x \in Held
    BY <1>1, <1>a, <1>b
  <2> QED
    BY <2>1
<1>2. ASSUME NEW w \in Workers, Sort(w)
      PROVE  new = old /\ tmp' = tmp
  BY <1>2, SortElsewhere DEF Sort, localVars, old, new
<1>3. ASSUME FinalMerge
      PROVE  new = old /\ tmp' = tmp
  <2>1. CASE main' = "done"
    BY <1>3, <2>1, FinalWrites DEF FinalMerge, localVars, old, new
  <2>2. CASE main' # "done"
    BY <1>3, <2>2 DEF FinalMerge, localVars, old, new
  <2> QED
    BY <2>1, <2>2
<1>4. ASSUME NEW w \in Workers, Merge(w), pc'[w] = "copy"
      PROVE  Held' = Held
  <2>1. PICK m \in Seq(Datum) :
          tmp' = [tmp EXCEPT ![w] = m] /\ Elements(m) = Content(base, Left(w), Right(w))
    BY <1>4, MergeMakes
  <2>2. pc[w] = "merge" /\ base' = base
    BY <1>4 DEF Merge, Goto, fileVars
  <2>3. Elements(m) \subseteq old
    <3>1. pc[w] \in Busy
      BY <2>2 DEF Busy
    <3>2. Place(recs_per_block, records, block[w], step[w], Left(w), Mid(w), Right(w))
      BY <3>1, BusyPlace
    <3>3. Left(w) \in Nat /\ Right(w) \in Nat /\ Right(w) <= records
      BY <3>2 DEF Place
    <3>4. Left(w) .. Right(w) - 1 \subseteq 0 .. records - 1
      BY <1>0, <3>3
    <3> QED
      BY <2>1, <3>4 DEF Content, old
  <2>4. Elements(tmp[w]) = {}
    <3>1. tmp[w] = <<>>
      BY <2>2 DEF Arrays
    <3> QED
      BY <3>1 DEF Elements
  <2>5. tmp'[w] = m /\ \A v \in Workers : v # w => tmp'[v] = tmp[v]
    BY <1>0, <2>1
  <2>6. new = old
    BY <2>2 DEF old, new
  <2>7. \A x : x \in Held' <=> x \in Held
    BY <1>a, <1>b, <2>3, <2>4, <2>5, <2>6
  <2> QED
    BY <2>7
<1>5. ASSUME NEW w \in Workers, CopyHalf(w) \/ CopyBack(w)
      PROVE  Held' = Held
  <2> DEFINE x == Left(w)
             z == Right(w)
             t == tmp[w]
  <2>0. pc[w] \in Busy /\ pc[w] \in {"copy", "copying"}
    BY <1>5 DEF CopyHalf, CopyBack, Goto, Busy
  <2>1. x \in Nat /\ z \in Nat /\ x <= z /\ z <= records
    <3>1. Place(recs_per_block, records, block[w], step[w], x, Mid(w), z)
      BY <2>0, BusyPlace
    <3> QED
      BY <3>1 DEF Place
  <2>2. Content(base, x, z) \subseteq Elements(t)
    BY <2>0 DEF Arrays
  <2>3. /\ Content(base', x, z) \subseteq Elements(t)
        /\ CopyBack(w) => Content(base', x, z) = Elements(t)
        /\ Content(base', 0, x) = Content(base, 0, x)
        /\ Content(base', z, records) = Content(base, z, records)
    BY <1>5, CopyElsewhere
  <2> HIDE DEF x, z
  <2>4. \A f : Content(f, 0, records) = Content(f, 0, x) \cup (Content(f, x, z) \cup Content(f, z, records))
    <3> TAKE f
    <3>1. Content(f, 0, records) = Content(f, 0, x) \cup Content(f, x, records)
      BY <1>0, <2>1, ContentSplit
    <3>2. Content(f, x, records) = Content(f, x, z) \cup Content(f, z, records)
      BY <1>0, <2>1, ContentSplit
    <3> QED
      BY <3>1, <3>2
  <2>5. \A y : y \in new => y \in old \/ y \in Elements(t)
    BY <2>3, <2>4 DEF old, new
  <2>6. \A y : y \in old => y \in new \/ y \in Elements(t)
    BY <2>2, <2>3, <2>4 DEF old, new
  <2>7. CASE CopyHalf(w)
    <3>1. tmp' = tmp
      BY <2>7 DEF CopyHalf, localVars
    <3>2. \A y : y \in Held' <=> y \in Held
      BY <1>a, <1>b, <2>5, <2>6, <3>1
    <3> QED
      BY <3>2
  <2>8. CASE CopyBack(w)
    <3>1. tmp'[w] = <<>> /\ \A v \in Workers : v # w => tmp'[v] = tmp[v]
      BY <1>0, <2>8 DEF CopyBack
    <3>2. Elements(tmp'[w]) = {}
      BY <3>1 DEF Elements
    <3>3. Elements(t) \subseteq new
      BY <2>3, <2>4, <2>8 DEF new
    <3>4. \A y : y \in Held' <=> y \in Held
      BY <1>a, <1>b, <2>5, <2>6, <3>1, <3>2, <3>3
    <3> QED
      BY <3>4
  <2> QED
    BY <1>5, <2>7, <2>8
<1>6. ASSUME base' = base, tmp' = tmp
      PROVE  new = old /\ tmp' = tmp
  BY <1>6 DEF old, new
<1>7. \/ base' = base /\ tmp' = tmp
      \/ FinalMerge
      \/ \E w \in Workers :
           Sort(w) \/ CopyHalf(w) \/ CopyBack(w) \/ (Merge(w) /\ pc'[w] = "copy")
  <2>1. ASSUME NEW w \in Workers, Merge(w), pc'[w] # "copy"
        PROVE  base' = base /\ tmp' = tmp
    BY <1>0, <2>1 DEF Merge, Goto, fileVars
  <2>2. \/ base' = base /\ tmp' = tmp
        \/ FinalMerge
        \/ \E w \in Workers : Sort(w) \/ CopyHalf(w) \/ CopyBack(w) \/ Merge(w)
    BY DEF Next, vars, Main, Worker, JoinWorkers, pthread_barrier_wait, MergeFails, fileVars,
           localVars, ClaimOwn, Claim, ClearMerges, ClaimMerge, NextRound
  <2> QED
    BY <2>1, <2>2
<1> QED
  BY <1>1, <1>2, <1>3, <1>4, <1>5, <1>6, <1>7

\* A record that is lost with the process was in an array that a worker is copying from:
\* other arrays are empty, or hold what the file still holds too.
LEMMA FailStep ==
  ASSUME IInv, Next, main' = "failed"
  PROVE  Held' \subseteq Held /\ Held \ Held' \subseteq Copies(Copying)
<1> USE DEF IInv
<1>1. main # "failed"
  BY DEF Next
<1>2. base' = base /\ records' = records
  BY <1>1 DEF Next, Main, Worker, JoinWorkers, FinalMerge, pthread_barrier_wait, MergeFails, fileVars,
         ClaimOwn, Claim, Sort, ClearMerges, ClaimMerge, Merge, CopyHalf, CopyBack, NextRound
<1>3. Held' = Elements(base)
  BY <1>2 DEF Held, Elements
<1>4. ASSUME NEW w \in Workers, NEW x \in Elements(tmp[w]), x \notin Elements(base)
      PROVE  x \in Copies(Copying)
  <2>1. pc[w] \in {"copy", "copying"}
    <3>1. tmp[w] # <<>>
      BY <1>4 DEF Elements
    <3> QED
      BY <3>1 DEF Arrays
  <2>2. CASE pc[w] = "copy"
    <3>1. Place(recs_per_block, records, block[w], step[w], Left(w), Mid(w), Right(w))
      BY <2>2, BusyPlace DEF Busy
    <3>2. Left(w) \in Nat /\ Right(w) \in Nat /\ Right(w) <= records /\ records \in Nat
      BY <3>1 DEF Place
    <3>3. Left(w) .. Right(w) - 1 \subseteq 0 .. records - 1
      BY <3>2
    <3>4. Elements(tmp[w]) = Content(base, Left(w), Right(w))
      BY <2>2 DEF Arrays
    <3>5. Content(base, Left(w), Right(w)) \subseteq Content(base, 0, records)
      BY <3>3 DEF Content
    <3> QED
      BY <1>4, <3>4, <3>5, HeldIs
  <2>3. CASE pc[w] = "copying"
    BY <1>4, <2>3 DEF Copies, Copying
  <2> QED
    BY <2>1, <2>2, <2>3
<1>5. Held = Elements(base) \cup Copies(Workers)
  BY <1>1 DEF Held
<1> QED
  BY <1>3, <1>4, <1>5 DEF Copies

\* A step never loses or invents a record, although the blocks are overwritten in place;
\* but if a worker ends the process with exit, what others are copying is lost.
THEOREM NoRecordLost == Spec => RecordsKept
<1> DEFINE Kept == /\ Held' \subseteq Held
                   /\ Held \ Held' \subseteq IF main' = "failed" THEN Copies(Copying) ELSE {}
<1>1. IInv /\ [Next]_vars => [Kept]_vars
  <2> SUFFICES ASSUME IInv, Next
               PROVE  Kept
    OBVIOUS
  <2>1. CASE main' = "failed"
    BY <2>1, FailStep
  <2>2. CASE main' # "failed"
    BY <2>2, HeldStep
  <2> QED
    BY <2>1, <2>2
<1> QED
  BY <1>1, Invariant, PTL DEF Spec, RecordsKept
=============================================================================
