------------------------------ MODULE Mandelbrot -----------------------------
(***************************************************************************)
(* The Mandelbrot set by farming: rows in rounds, spread and collected     *)
(* (common/mandelbrot.c, common/mandel_farm.c), or one by one to whoever   *)
(* asks (common/mandelbrot_refined.c). A point is a pair of integers.      *)
(***************************************************************************)
EXTENDS Programs

Workers   == <<1, 2>>       \* WORKER_PLIST, SLAVE_PLIST: 7 there
EvenRows  == 4              \* PIX_ROWS, a multiple of the workers
OddRows   == 5              \* PIX_ROWS, one row over a multiple as 4096 and 512 are
Cols      == 2              \* PIX_COLS, 4096 there
MaxIter   == 3              \* max_iter, 255 there

Point(r, c)  == <<c - 1, r - 2>>
Square(z)    == z[1] * z[1] + z[2] * z[2]
Orbit(z, c)  == <<z[1] * z[1] - z[2] * z[2] + c[1], 2 * z[1] * z[2] + c[2]>>
(* calc_mandel_pixel: the steps before the orbit of c leaves the circle.   *)
Pixel(c) ==
    LET count[n \in 0..MaxIter, z \in Seq(Int)] ==
          IF n = MaxIter \/ Square(Orbit(z, c)) > 4 THEN n ELSE count[n + 1, Orbit(z, c)]
    IN  count[0, <<0, 0>>]
RowPoints(r)   == [c \in 1..Cols |-> Point(r, c)]
Block(points)  == [c \in DOMAIN points |-> Pixel(points[c])]       \* calc_mandel_block
RowColours(r)  == Block(RowPoints(r))

(* ceil(PIX_ROWS/NUM_WORKERS): the division is one of integers, so the     *)
(* rows that do not fill a round are never sent out.                       *)
Rounds(rows) == rows \div Len(Workers)

Farmer(rows, h) ==
    <<Sink("points", Workers, Cols, "spread"), Source("colours", Workers, "collect")>>
    \o Loop(0, Rounds(rows) - 1, LAMBDA i :
          <<Put("points", FlattenSeq([w \in 1..Len(Workers) |-> RowPoints(i * Len(Workers) + w - 1)])),
            Get("colours", Cols)>>)
    \o <<Destroy("points"), Destroy("colours")>>
Worker(rows, h) ==
    <<Source("points", <<0>>, "pipe"), Sink("colours", <<0>>, Cols, "pipe")>>
    \o Loop(1, Rounds(rows), LAMBDA i : <<Get("points", Cols), Put("colours", Block(Got(h, i)))>>)
    \o <<Destroy("points"), Destroy("colours")>>
Mandel(rows, p, h)     == IF p = 0 THEN Farmer(rows, h) ELSE Worker(rows, h)
(* mandel_farm.c: the same calls by master and slaves. *)
MandelFarm(rows, p, h) == Mandel(rows, p, h)
(* What generate_xpm is given: the answers, in memory that was cleared.    *)
Image(rows, h) ==
    LET got == FlattenSeq(h)
    IN  [i \in 1..(rows * Cols) |-> IF i \in DOMAIN got THEN got[i] ELSE 0]
MandelOk(rows, p, h) ==
    p = 0 => Image(rows, h) = FlattenSeq([r \in 1..rows |-> RowColours(r - 1)])

---------------------------------------------------------------------------
(* mandelbrot_refined.c: a unit is a row with its number; -1 ends a worker. *)
FewRows == 3
NoMore  == -1
RefinedFarmer(h) ==
    <<Sink("rows", Workers, FewRows + Len(Workers) + 1, "farmn"),
      Source("done", Workers, "collect_any")>>
    \o Loop(0, FewRows - 1, LAMBDA i : <<Commit("rows", i)>>)
    \o Loop(1, Len(Workers), LAMBDA i : <<Commit("rows", NoMore)>>)
    \o Loop(1, FewRows, LAMBDA i : <<Get("done", 1)>>)
    \o <<Destroy("done"), Destroy("rows")>>
RefinedWorker(h) ==
    LET r(i)    == h[i][1]
        ended   == \E i \in DOMAIN h : r(i) = NoMore
    IN  <<Source("rows", <<0>>, "pipe"), Sink("done", <<0>>, 2, "pipe")>>
        \o Loop(1, Len(h), LAMBDA i : <<Get("rows", 1)>>
              \o (IF r(i) = NoMore THEN << >> ELSE <<Put("done", << <<r(i), RowColours(r(i))>> >>)>>))
        \o (IF ended THEN <<Destroy("rows"), Destroy("done")>> ELSE <<Get("rows", 1)>>)
MandelRefined(p, h) == IF p = 0 THEN RefinedFarmer(h) ELSE RefinedWorker(h)
MandelRefinedOk(p, h) ==
    p = 0 => SameUnits(FlattenSeq(h), [i \in 1..FewRows |-> <<i - 1, RowColours(i - 1)>>])
=============================================================================
