------------------------------ MODULE Programs ------------------------------
(***************************************************************************)
(* How the examples and benchmarks are written down. A program is the      *)
(* sequence of the library calls one process makes. What it does next may  *)
(* depend on what it has received, so a program is a function of h, the    *)
(* sequence of the results of its gets so far. Everything between two      *)
(* calls is computed from h; calls that follow a get that has not returned *)
(* may be there with any value, since they are not reached.                *)
(*                                                                         *)
(* A channel has one name in all processes, although the code has none:    *)
(* that the ends meet is what a property says. A unit of data is a number. *)
(***************************************************************************)
EXTENDS Integers, Sequences, FiniteSets, SequencesExt

(* bc_sink_create(to, dtype, du, role) and bc_src_create(from, dtype, role). *)
Sink(c, to, du, role)  == [op |-> "sink", c |-> c, peers |-> to, role |-> role, du |-> du]
Source(c, from, role)  == [op |-> "source", c |-> c, peers |-> from, role |-> role]
(* bc_put(c, units, du): a spread puts du units for each consumer. *)
Put(c, units)          == [op |-> "put", c |-> c, units |-> units]
(* bc_var(c) = unit; bc_commit(c): put(NULL, 1) of the unit in the ring. *)
Commit(c, unit)        == [op |-> "put", c |-> c, units |-> <<unit>>]
Get(c, n)              == [op |-> "get", c |-> c, n |-> n]
(* bc_chan_destroy, of a sink of a name the process has a source of as well. *)
DestroySink(c)         == [op |-> "destroy", c |-> c, sink |-> TRUE]
Destroy(c)             == [op |-> "destroy", c |-> c, sink |-> FALSE]

(* for (i = first; i <= last; i++) Body(i) *)
Loop(first, last, Body(_)) ==
    FlattenSeq([i \in 1..(IF last < first THEN 0 ELSE last - first + 1) |-> Body(first + i - 1)])
If(b, calls) == IF b THEN calls ELSE << >>

(* What get i has returned, and its unit j; anything for a get to come. *)
Got(h, i)     == IF i <= Len(h) THEN h[i] ELSE << >>
Unit(h, i, j) == IF i <= Len(h) /\ j <= Len(h[i]) THEN h[i][j] ELSE 0

Plus(a, b)       == a + b
Total(units)     == FoldLeft(Plus, 0, units)
Upto(first, last) == [i \in 1..(last - first + 1) |-> first + i - 1]
Without(pl, p)   == SelectSeq(pl, LAMBDA q : q # p)
Ascending(s)     == IsSorted(s, LAMBDA a, b : a <= b)
SameUnits(s, t)  == ToBag(s) = ToBag(t)
=============================================================================
