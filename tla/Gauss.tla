-------------------------------- MODULE Gauss --------------------------------
(***************************************************************************)
(* Gaussian elimination with one row for each process: over a pipe         *)
(* (common/gauss_pipeline.c), over fan-outs (common/gauss_replicate.c) and *)
(* over the pipe skeleton (skeletons/gauss_pipeline.c). A row has Dim      *)
(* coefficients, the right-hand side and y. It travels as one unit, or as  *)
(* Dim + 2 units where units are copied. The numbers are integers, chosen  *)
(* so that all divisions are exact.                                        *)
(***************************************************************************)
EXTENDS Skeletons

Dim     == 3
Width   == Dim + 2
Matrix  == << <<2, 4, 2, 8, 0>>, <<1, 5, 10, 1, 0>>, <<4, 7, 3, 15, 0>> >>
Final   == Dim - 1        \* last

(* Row r without variable i, which pivot is solved for. *)
Eliminate(r, i, pivot) ==
    [j \in 1..Width |-> CASE j = i             -> 0
                          [] j \in (i + 1)..Dim -> r[j] - r[i] * pivot[j]
                          [] j = Dim + 1       -> r[j] - r[i] * pivot[Width]
                          [] OTHER             -> r[j]]
(* Row r solved for variable i. *)
Divide(r, i) ==
    [j \in 1..Width |-> CASE j = i             -> 1
                          [] j \in (i + 1)..Dim -> r[j] \div r[i]
                          [] j = Width         -> r[Dim + 1] \div r[i]
                          [] OTHER             -> r[j]]

(* gaussian_seq: the reference. *)
GaussStep(m, i) ==
    LET pivot == Divide(m[i], i)
    IN  [k \in 1..Dim |-> IF k < i THEN m[k] ELSE IF k = i THEN pivot ELSE Eliminate(m[k], i, pivot)]
GaussianSeq == FoldLeft(GaussStep, Matrix, Upto(1, Dim))

(* What process p makes of its row and the rows before it. *)
OwnRow(p, rows) ==
    Divide(FoldLeft(LAMBDA r, i : Eliminate(r, i, rows[i]), Matrix[p + 1], Upto(1, p)), p + 1)

(* A row as it is sent and as it is received. *)
Units(whole, r)  == IF whole THEN <<r>> ELSE r
RowOf(whole, h, i) == IF i > Len(h) THEN Matrix[i] ELSE IF whole THEN h[i][1] ELSE h[i]
RowsOf(whole, p, h) == [i \in 1..p |-> RowOf(whole, h, i)]

(* All rows travel down the pipe: each process passes on what it has used. *)
RowStage(whole, p, h, in, out) ==
    LET rows == RowsOf(whole, p, h)
    IN  Loop(1, p, LAMBDA i : <<Get(in, Len(Units(whole, rows[i])))>>
                              \o If(p # Final, <<Put(out, Units(whole, rows[i]))>>))
        \o If(p # Final, <<Put(out, Units(whole, OwnRow(p, rows)))>>)

(* gaussian_par_mcpy and gaussian_par_nmcpy of common/gauss_pipeline.c *)
GaussPipe(whole, p, h) ==
    LET in  == <<"row", p>>
        out == <<"row", p + 1>>
    IN  If(p # 0, <<Source(in, <<p - 1>>, "pipe")>>)
        \o If(p # Final, <<Sink(out, <<p + 1>>, IF whole THEN 2 ELSE Width,
                                IF whole THEN "pipen" ELSE "pipe")>>)
        \o RowStage(whole, p, h, in, out)
        \o If(p # 0, <<Destroy(in)>>) \o If(p # Final, <<Destroy(out)>>)

(* gaussian_mcpy_stage on the pipe skeleton, whose rings hold one row. *)
GaussSkeleton(p, h) ==
    PipeCreate(All, p, TRUE) \o RowStage(FALSE, p, h, Link(p), Link(p + 1)) \o PipeDestroy(All, p)

(* gaussian_par_mcpy and gaussian_par_nmcpy of common/gauss_replicate.c:   *)
(* each process sends its row to all that follow it.                       *)
GaussReplicate(whole, p, h) ==
    LET rows == RowsOf(whole, p, h)
        Of(i) == <<"row of", i>>
    IN  If(p # Final, <<Sink(Of(p), Upto(p + 1, Final), IF whole THEN 2 ELSE 2 * Width,
                             IF whole THEN "replicaten" ELSE "replicate")>>)
        \o Loop(0, p - 1, LAMBDA i : <<Source(Of(i), <<i>>, "pipe"),
                                       Get(Of(i), Len(Units(whole, Matrix[1]))), Destroy(Of(i))>>)
        \o If(p # Final, <<Put(Of(p), Units(whole, OwnRow(p, rows))), Destroy(Of(p))>>)

GaussOk(whole, p, h) == OwnRow(p, RowsOf(whole, p, h)) = GaussianSeq[p + 1]
=============================================================================
