------------------------------- MODULE Numeric -------------------------------
(***************************************************************************)
(* The other programs under src/examples/common: odd-even sort, pi, mean   *)
(* value analysis, matrix multiplication, the fast Fourier transform and   *)
(* its permutation. All numbers are integers or pairs of integers.         *)
(***************************************************************************)
EXTENDS Programs

---------------------------------------------------------------------------
(* odd_even.c: neighbours swap their sorted lists; the lower keeps the     *)
(* small half and the upper the large one. The number n of processes is    *)
(* bc_size; half of it, rounded down, is the number of rounds of two       *)
(* exchanges, so that an odd n makes one exchange too few.                 *)

NLocal    == 2
Unsorted  == << <<7, 8>>, <<5, 6>>, <<2, 3>>, <<1, 3>> >>    \* after qsort

Merged(a, b)       == SortSeq(a \o b, LAMBDA u, v : u < v)
CompareAccum(own, other, keepsmall) ==
    IF keepsmall THEN SubSeq(Merged(own, other), 1, Len(own))
                 ELSE SubSeq(Merged(own, other), Len(other) + 1, Len(own) + Len(other))
OddRank(p)    == IF p % 2 = 1 THEN p - 1 ELSE p + 1
EvenRank(p)   == IF p % 2 = 1 THEN p + 1 ELSE p - 1
Partner(n, q) == q > -1 /\ q < n
Half(from, to) == <<"half", from, to>>

SortCreate(n, p, q)  == IF Partner(n, q) THEN <<Source(Half(q, p), <<q>>, "pipe"),
                                                Sink(Half(p, q), <<q>>, NLocal, "pipe")>> ELSE << >>
SortDestroy(n, p, q) == IF Partner(n, q) THEN <<Destroy(Half(q, p)), Destroy(Half(p, q))>> ELSE << >>
(* The partners of p in the order it meets them, round by round. *)
Meetings == [n \in 1..Len(Unsorted) |-> [p \in 0..(n - 1) |->
    SelectSeq(FlattenSeq([i \in 1..(n \div 2) |-> <<EvenRank(p), OddRank(p)>>]),
              LAMBDA q : Partner(n, q))]]
(* The elements of p after each of its meetings that are over. *)
Elements(n, p, h) ==
    LET e[i \in 0..Len(h)] == IF i = 0 THEN Unsorted[p + 1]
                              ELSE CompareAccum(e[i - 1], h[i], p < Meetings[n][p][i])
    IN  [i \in 1..(Len(h) + 1) |-> e[i - 1]]
OddEven(n, p, h) ==
    LET e == Elements(n, p, h)
        met    == Meetings[n][p]
        own(i) == IF i > Len(e) THEN Unsorted[1] ELSE e[i]
    IN  SortCreate(n, p, OddRank(p)) \o SortCreate(n, p, EvenRank(p))
        \o Loop(1, Len(met), LAMBDA i :
              <<Put(Half(p, met[i]), own(i)), Get(Half(met[i], p), NLocal)>>)
        \o SortDestroy(n, p, OddRank(p)) \o SortDestroy(n, p, EvenRank(p))
OddEvenOk(n, hh) ==
    LET all == FlattenSeq([i \in 1..n |-> Elements(n, i - 1, hh[i - 1])[Len(hh[i - 1]) + 1]])
    IN  Ascending(all) /\ SameUnits(all, FlattenSeq([i \in 1..n |-> Unsorted[i]]))

---------------------------------------------------------------------------
(* pi_dsys.c: each process sums every bc_size-th term and 0 the sums. The  *)
(* channels are not destroyed. Term i of an estimate of n terms is n * i.  *)

PiProcs    == 3
PiIters    == <<2, 4>>
Partial(p, n) == Total([i \in 1..n |-> IF i % PiProcs = (p + 1) % PiProcs THEN n * i ELSE 0])
Pi(p, h) ==
    IF p = 0 THEN <<Source("sum", <<1, 2>>, "reduce_sum")>> \o Loop(1, 2, LAMBDA i : <<Get("sum", 1)>>)
             ELSE <<Sink("sum", <<0>>, 3, "pipen")>>
                  \o Loop(1, 2, LAMBDA i : <<Commit("sum", Partial(p, PiIters[i]))>>)
PiOk(p, h) ==
    p = 0 => \A i \in 1..2 : Unit(h, i, 1) + Partial(0, PiIters[i])
                                = Total([j \in 1..PiIters[i] |-> PiIters[i] * j])

---------------------------------------------------------------------------
(* mva.c: in each round every process tells all others the length of its   *)
(* queues and gets the sum of theirs, then their largest error. A process  *)
(* goes by the smaller of its own error and that one, so that three or     *)
(* more need not stop in the same round; two do.                           *)

Queues     == 2
Errors     == << <<9, 3, 1, 1>>, <<8, 5, 2, 1>>, <<9, 6, 2, 1>> >>
Epsilon    == 4
QLen(p, round, j) == 100 * round + 10 * p + j
Others(n, p)  == Without(Upto(0, n - 1), p)
Asks       == Queues + 1        \* gets per round
(* The round has ended and isdone is true. *)
IsDone(p, h, round) ==
    LET remote == h[round * Asks][1]
        own    == Errors[p + 1][round]
    IN  (IF own > remote THEN remote ELSE own) < Epsilon
MvaRound(p, round) ==
    Loop(1, Queues, LAMBDA j : <<Put("data", <<QLen(p, round, j)>>), Get("data", 1)>>)
    \o <<Put("err", <<Errors[p + 1][round]>>), Get("err", 1)>>
Mva(n, p, h) ==
    LET over == Len(h) \div Asks
        done == over > 0 /\ IsDone(p, h, over)
    IN  <<Sink("data", Others(n, p), 10, "replicate"), Source("data", Others(n, p), "reduce_sum"),
          Sink("err", Others(n, p), 10, "replicate"), Source("err", Others(n, p), "reduce_max")>>
        \o Loop(1, IF done THEN over ELSE over + 1, LAMBDA round : MvaRound(p, round))
        \o If(done, <<Destroy("data"), DestroySink("data"), Destroy("err"), DestroySink("err")>>)
MvaOk(p, h) == h = FlattenSeq([round \in 1..2 |->
                      Append([j \in 1..Queues |-> <<QLen(1 - p, round, j)>>],
                             <<Errors[2 - p][round]>>)])
=============================================================================
