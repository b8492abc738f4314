----------------------------- MODULE Transforms ------------------------------
(***************************************************************************)
(* Matrix multiplication over a ring of processes (common/matrix_mul.c),   *)
(* the fast Fourier transform with a coefficient for each process          *)
(* (common/fft.c) and its permutation with several for each                *)
(* (common/fft_iperm.c).                                                   *)
(***************************************************************************)
EXTENDS Programs

---------------------------------------------------------------------------
(* matrix_mul.c: each process has a row of A; the columns of B go round.   *)

RingSize == 3
MatA     == << <<1, 2>>, <<3, 4>>, <<5, 6>> >>
MatB     == << <<7, 8, 9>>, <<1, 2, 3>> >>
Columns  == [c \in 1..RingSize |-> <<MatB[1][c], MatB[2][c]>>]     \* transpose
MultiplyRowColumn(row, col) == Total([i \in DOMAIN row |-> row[i] * col[i]])
SrcRank(p)  == IF p = RingSize - 1 THEN 0 ELSE p + 1
SinkRank(p) == IF p = 0 THEN RingSize - 1 ELSE p - 1
(* The columns process p holds after i steps, and the row it has computed. *)
ColumnAt(p, h, i) == IF i = 0 \/ i > Len(h) THEN Columns[p + 1] ELSE h[i]
RowResult(p, h) ==
    [c \in 1..RingSize |-> MultiplyRowColumn(MatA[p + 1], ColumnAt(p, h, (c - 1 - p) % RingSize))]
RingLink(from, to) == <<"column", from, to>>
MatrixMul(p, h) ==
    LET src  == RingLink(SrcRank(p), p)
        sink == RingLink(p, SinkRank(p))
        row  == <<"row">>
    IN  <<Source(src, <<SrcRank(p)>>, "pipe"), Sink(sink, <<SinkRank(p)>>, 2, "pipe")>>
        \o Loop(1, RingSize - 1, LAMBDA i : <<Put(sink, ColumnAt(p, h, i - 1)), Get(src, 2)>>)
        \o <<Destroy(src), Destroy(sink)>>
        \o (IF p = 0 THEN <<Source(row, <<1, 2>>, "collect"), Get(row, RingSize), Destroy(row)>>
                     ELSE <<Sink(row, <<0>>, RingSize, "pipe"), Put(row, RowResult(p, h)), Destroy(row)>>)
MatrixMulOk(p, h) ==
    p = 0 => RowResult(0, h) \o h[RingSize]
                = FlattenSeq([r \in 1..RingSize |->
                     [c \in 1..RingSize |-> MultiplyRowColumn(MatA[r], Columns[c])]])

---------------------------------------------------------------------------
(* fft.c. With four processes all roots of unity are Gaussian integers.    *)

Bits == 2
Nodes == 4
BitReverse(num, nbits) == Total([b \in 1..nbits |-> ((num \div 2^(b - 1)) % 2) * 2^(nbits - b)])
Flip(num, bit) == IF (num \div 2^bit) % 2 = 0 THEN num + 2^bit ELSE num - 2^bit    \* bit_comp

CMul(a, b) == <<a[1] * b[1] - a[2] * b[2], a[1] * b[2] + a[2] * b[1]>>
CAdd(a, b) == <<a[1] + b[1], a[2] + b[2]>>
CSub(a, b) == <<a[1] - b[1], a[2] - b[2]>>
Omega(i)   == CASE i = 1 -> <<1, 0>> [] i = 2 -> <<-1, 0>> [] i = 4 -> <<0, 1>>
CPow(a, n) == FoldLeft(LAMBDA r, i : CMul(r, a), <<1, 0>>, Upto(1, n))

Coeff    == << <<1, 0>>, <<2, 0>>, <<4, 0>>, <<3, 0>> >>      \* page201_2
Peer(p, i) == Flip(p, i - 1)
(* The power of omega: step += i whenever the partner was the lesser one,  *)
(* which is p % 2^(i - 1) up to the third bit only.                        *)
Step(p, i) == Total([j \in 1..(i - 1) |-> IF Peer(p, j) < p THEN j ELSE 0])
Twiddle == [p \in 0..(Nodes - 1), i \in 1..Bits |-> CPow(Omega(2^i), Step(p, i))]
Twiddled(p, i, c) == IF Peer(p, i) < p THEN CMul(c, Twiddle[p, i]) ELSE c
Butterfly(p, i, own, recv) == IF Peer(p, i) < p THEN CSub(recv, own) ELSE CAdd(recv, own)
Start == [p \in 0..(Nodes - 1) |-> Coeff[BitReverse(p, Bits) + 1]]      \* permute
(* The coefficient of p after i exchanges, or those that are over. *)
Value(p, h, i) ==
    LET c[j \in 0..i] == IF j = 0 THEN Start[p]
                         ELSE IF j > Len(h) THEN c[j - 1]
                         ELSE Butterfly(p, j, Twiddled(p, j, c[j - 1]), h[j][1])
    IN  c[i]
Arm(from, to) == <<"arm", from, to>>
Fft(p, h) ==
    LET both(i) == <<Arm(Peer(p, i), p), Arm(p, Peer(p, i))>>
    IN  Loop(1, Bits, LAMBDA i : <<Source(both(i)[1], <<Peer(p, i)>>, "pipe"),
                                   Sink(both(i)[2], <<Peer(p, i)>>, 2, "pipe")>>)
        \o Loop(1, Bits, LAMBDA i : <<Put(both(i)[2], <<Twiddled(p, i, Value(p, h, i - 1))>>),
                                      Get(both(i)[1], 1)>>)
        \o Loop(1, Bits, LAMBDA i : <<Destroy(both(i)[1]), Destroy(both(i)[2])>>)
(* The definition of the transform at p. *)
Dft(p) == FoldLeft(LAMBDA s, j : CAdd(s, CMul(Coeff[j], CPow(<<0, 1>>, p * (j - 1)))),
                   <<0, 0>>, Upto(1, Nodes))
FftOk(p, h) == Value(p, h, Bits) = Dft(p)

---------------------------------------------------------------------------
(* fft_iperm.c: coefficient i goes to where the reverse of its bits says,  *)
(* as a pair of its index there and its value, over a channel for each     *)
(* pair of processes. Then 0 gets all of them from the others.             *)

PermNodes == 2
PerNode   == 4
PermBits  == 3
Reversed      == [i \in 0..(PermNodes * PerNode - 1) |-> BitReverse(i, PermBits)]
NodeOf(p, i)  == Reversed[p * PerNode + i] \div PerNode
IndexOf(p, i) == Reversed[p * PerNode + i] % PerNode
Original(p)   == Upto(p * PerNode, p * PerNode + PerNode - 1)
Remote        == [p \in 0..(PermNodes - 1) |->
                    SelectSeq(Upto(0, PerNode - 1), LAMBDA i : NodeOf(p, i) # p)]
Way(from, to) == <<"way", from, to>>
Rest(p)       == Without(Upto(0, PermNodes - 1), p)
Permuted(p, h) ==
    [j \in 1..PerNode |->
        IF NodeOf(p, j - 1) = p THEN Original(p)[IndexOf(p, j - 1) + 1]
        ELSE LET got == SelectSeq(SubSeq(h, 1, IF Len(h) < Len(Remote[p]) THEN Len(h) ELSE Len(Remote[p])),
                                  LAMBDA pair : pair[1] = j - 1)
             IN  IF got = << >> THEN 0 ELSE got[1][2]]
IPermute(p, h) ==
    LET to(i)   == Way(p, NodeOf(p, i))
        from(i) == Way(NodeOf(p, i), p)
        way(j)  == Rest(p)[j]
    IN  Loop(1, PermNodes - 1, LAMBDA j : <<Sink(Way(p, way(j)), <<way(j)>>, 2 * PerNode, "pipe"),
                                            Source(Way(way(j), p), <<way(j)>>, "pipe")>>)
        \o Loop(1, Len(Remote[p]), LAMBDA r :
              LET i == Remote[p][r] IN <<Put(to(i), <<IndexOf(p, i), Original(p)[i + 1]>>)>>)
        \o Loop(1, Len(Remote[p]), LAMBDA r : <<Get(from(Remote[p][r]), 2)>>)
        \o Loop(1, PermNodes - 1, LAMBDA j : <<Destroy(Way(way(j), p)), Destroy(Way(p, way(j)))>>)
FftIperm(p, h) ==
    LET figure(q) == <<"figure", q, 0>>
    IN  IPermute(p, h)
        \o (IF p = 0
            THEN Loop(1, PermNodes - 1, LAMBDA q : <<Source(figure(q), <<q>>, "pipe"),
                     Get(figure(q), PerNode), Get(figure(q), PerNode), Destroy(figure(q))>>)
            ELSE <<Sink(figure(p), <<0>>, PerNode, "pipe"), Put(figure(p), Original(p)),
                   Put(figure(p), Permuted(p, h)), Destroy(figure(p))>>)
FftIpermOk(p, h) ==
    p = 0 => LET got == SubSeq(h, Len(Remote[0]) + 1, Len(h))
             IN  Permuted(0, h) \o got[2]
                    = [i \in 1..(PermNodes * PerNode) |-> Reversed[i - 1]]
=============================================================================
