----------------------------- MODULE Reductions -----------------------------
(***************************************************************************)
(* What a get makes of the pieces it has read, one of n units from each    *)
(* producer in the order of the process list (collect.c, reduce.c).        *)
(***************************************************************************)
EXTENDS Integers, Sequences, SequencesExt

(* bc_variable_operation; the integers stand for all numeric types. *)
Add(a, b)     == a + b
Times(a, b)   == a * b
Larger(a, b)  == IF a > b THEN a ELSE b
Smaller(a, b) == IF a < b THEN a ELSE b
(* bc_variable_assign: what the sum and the product start from. *)
Neutral(role) == IF role = "reduce_sum" THEN 0 ELSE 1

(* One fold for each of the n units; sum and product start from a neutral  *)
(* value, the others from the piece of the first producer.                 *)
Fold(op(_, _), base, pieces, n) ==
    [j \in 1..n |-> FoldLeft(op, base, [i \in DOMAIN pieces |-> pieces[i][j]])]
FoldRest(op(_, _), pieces, n) ==
    [j \in 1..n |-> FoldLeft(op, pieces[1][j], [i \in 1..(Len(pieces) - 1) |-> pieces[i + 1][j]])]

(* bc_reduce_operator of usage/reduce.c, called with the address of unit j, *)
(* the size of a unit and the number of producers: it strides by count.     *)
(* (The loop also moves the pointer it frees at its end, reduce.c:240; what *)
(* the memory manager makes of that is not modelled.)                      *)
CustomReduce(buffer, j, count) ==
    FoldLeft(Add, 0,
             [i \in 1..count |-> (IF i % 2 = 0 THEN -1 ELSE 1) * buffer[j + count * (i - 1)]])
OptReduce(pieces, n) == [j \in 1..n |-> CustomReduce(FlattenSeq(pieces), j, Len(pieces))]

SumReduce(pieces, n)    == Fold(Add, Neutral("reduce_sum"), pieces, n)
MulReduce(pieces, n)    == Fold(Times, Neutral("reduce_mul"), pieces, n)
MaxReduce(pieces, n)    == FoldRest(Larger, pieces, n)
MinReduce(pieces, n)    == FoldRest(Smaller, pieces, n)
MinmaxReduce(pieces, n) == FoldRest(Smaller, pieces, n) \o FoldRest(Larger, pieces, n)

Combine(role, pieces, n) ==
    CASE role = "reduce_sum"    -> SumReduce(pieces, n)
      [] role = "reduce_mul"    -> MulReduce(pieces, n)
      [] role = "reduce_max"    -> MaxReduce(pieces, n)
      [] role = "reduce_min"    -> MinReduce(pieces, n)
      [] role = "reduce_minmax" -> MinmaxReduce(pieces, n)
      [] role = "reduce_opt"    -> OptReduce(pieces, n)
      [] OTHER                  -> FlattenSeq(pieces)      \* collect, and a pipe's one piece
=============================================================================
