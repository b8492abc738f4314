---------------------------- MODULE ProcessLists -----------------------------
(***************************************************************************)
(* The process lists of one process (libdsys/plist.c): the lists the       *)
(* application makes by hand, by filling an empty one, by set operations   *)
(* on others and by division, with their reference counts and the channels *)
(* that use them, and the optional lists bc_init makes. The loops over     *)
(* arrays are folds and selections; what they should compute is stated     *)
(* with sets.                                                              *)
(***************************************************************************)
EXTENDS Integers, Sequences, FiniteSets, SequencesExt

CONSTANTS Size,     \* bc_size
          Names,    \* the lists the application has room for
          MaxCount, \* the longest list it makes by hand
          Careful   \* it divides complete lists only, puts no rank in twice, and
                    \* creates channels on lists whose entries are all set

ASSUME ListsAssumption == /\ Size \in Nat \ {0} /\ MaxCount \in Nat
                          /\ IsFiniteSet(Names) /\ Careful \in BOOLEAN

VARIABLES rank,     \* bc_rank
          lists     \* the lists of the application

vars == <<rank, lists>>

Ranks   == 0..(Size - 1)
Unset   == -1
Garbage == 99       \* a word of memory that was never written
Null    == << >>    \* no list

(* count is the length of plist; held says whether the application has     *)
(* still to destroy the list; tags are what a channel drew a tag for.      *)
NewList(plist, valid) == [plist |-> plist, valid |-> valid, rc |-> 1,
                          held |-> TRUE, used |-> FALSE, tags |-> << >>]
Upto(first, end) == [i \in 1..(IF end < first THEN 0 ELSE end - first + 1) |-> first + i - 1]
With(s, i, value) == [j \in DOMAIN s |-> IF j = i THEN value ELSE s[j]]
Distinct(s) == \A i, j \in DOMAIN s : s[i] = s[j] => i = j
(* The entries at these positions, and these ranks, in order.              *)
Positions(s) == [i \in DOMAIN s |-> i]
Picked(s, at) == FoldLeft(LAMBDA t, i : IF i \in at THEN Append(t, s[i]) ELSE t,
                          << >>, Positions(s))
Ascending(some) == Picked(Upto(0, Size - 1), {r + 1 : r \in some})

---------------------------------------------------------------------------
(* The optional lists, which exclude the calling process where that makes  *)
(* sense. They are never counted or freed by the application.              *)
Optional(kind) ==
    CASE kind = "xall" -> Ascending(Ranks \ {rank})
      [] kind = "odd"  -> Ascending({i \in Ranks \ {rank} : i % 2 = 1})
      [] kind = "even" -> Ascending({i \in Ranks \ {rank} : i % 2 = 0})
      [] kind = "pred" -> Upto(0, rank - 1)
      [] kind = "succ" -> Upto(rank + 1, Size - 1)
      [] kind = "all"  -> Upto(0, Size - 1)
      [] kind = "self" -> <<rank>>
(* bc_plist_pred of the first and bc_plist_succ of the last are NULL. *)
Optionals == {"xall", "odd", "even", "all", "self"}
             \cup (IF rank # 0 THEN {"pred"} ELSE {})
             \cup (IF rank # Size - 1 THEN {"succ"} ELSE {})

---------------------------------------------------------------------------
(* What the calls compute. *)

(* bc_plist_create with a negative count: all ranks but the given ones,    *)
(* which are sorted first and are in there once.                           *)
FillGap(acc, e) == [plist |-> acc.plist \o Upto(acc.s, e - 1),
                    s     |-> (IF acc.s < e THEN e ELSE acc.s) + 1]
Complement(args) ==
    LET acc == FoldLeft(FillGap, [plist |-> << >>, s |-> 0], Ascending(Range(args)))
    IN  acc.plist \o Upto(acc.s, Size - 1)

(* Entries of the other lists are added to the first unless they are in;   *)
(* before it, only those of the first list are looked at                   *)
AddNewLazily(list, u) == IF list # << >> /\ u = list[1] THEN list ELSE Append(list, u)
AddNew(list, u) == IF u \in Range(list) THEN list ELSE Append(list, u)
UnionOf(ls) == FoldLeft(AddNew, ls[1], FlattenSeq(Tail(ls)))

(* inclusion[k]: an entry of the first list counts once, and the first of  *)
(* each value once for every match in the other lists.                     *)
Inclusion(ls, k) ==
    LET u == UnionOf(ls)
        rest == FlattenSeq(Tail(ls))
    IN  (IF k <= Len(ls[1]) THEN 1 ELSE 0)
        + (IF \E j \in 1..(k - 1) : u[j] = u[k] THEN 0
           ELSE Cardinality({j \in DOMAIN rest : rest[j] = u[k]}))
IsectOf(ls) ==
    Picked(UnionOf(ls), {k \in 1..Len(UnionOf(ls)) : Inclusion(ls, k) = Len(ls)})

(* Each entry of b flags the first entry of a that equals it. *)
Flagged(a, b) == {j \in DOMAIN a : a[j] \in Range(b) /\ \A i \in 1..(j - 1) : a[i] # a[j]}
DiffOf(a, b)  == Picked(a, DOMAIN a \ Flagged(a, b))

(* Parts of equal length; the last takes what is left.                     *)
PartEnd(count, num, i) == IF i = num THEN count ELSE i * (count \div num)
Part(pl, num, i) ==
    SubSeq(pl, (i - 1) * (Len(pl) \div num) + 1, PartEnd(Len(pl), num, i))

(* bc_plist_iselem: whatever rank it is asked about *)
IsElem(plist, r) == \E i \in DOMAIN plist : plist[i] = rank

---------------------------------------------------------------------------
Made(l)    == lists[l] # Null
Mine(l)    == Made(l) /\ lists[l].held
Free       == {l \in Names : ~ Made(l)}
Handles    == {l \in Names : Mine(l)} \cup Optionals
Entries(x) == IF x \in Optionals THEN Optional(x) ELSE lists[x].plist
ValidOf(x) == IF x \in Optionals THEN 0 ELSE lists[x].valid
Complete(plist) == Unset \notin Range(plist)

Init == /\ rank \in Ranks
        /\ lists = [l \in Names |-> Null]

Keep(l, list) == lists' = [lists EXCEPT ![l] = list]

(* bc_plist_create(count, ...): valid is not written. *)
Create(l) ==
    /\ l \in Free
    /\ \E args \in UNION {[1..n -> Ranks] : n \in 1..MaxCount}, valid \in {0, Garbage} :
          /\ Careful => Distinct(args)
          /\ Keep(l, NewList(args, valid))
    /\ UNCHANGED rank

(* bc_plist_create(-count, ...) *)
CreateComplement(l) ==
    /\ l \in Free
    /\ \E args \in UNION {[1..n -> Ranks] : n \in 1..2}, valid \in {0, Garbage} :
          /\ Distinct(args)
          /\ Keep(l, NewList(Complement(args), valid))
    /\ UNCHANGED rank

CreateEmpty(l) ==
    /\ l \in Free
    /\ \E n \in 1..MaxCount : Keep(l, NewList([i \in 1..n |-> Unset], n))
    /\ UNCHANGED rank

(* bc_plist_set on a list: an entry not yet set counts towards its         *)
(* validity, another is only reset when no channel uses the list; before   *)
(* it, that check left out                                                 *)
EntrySetAlways(list, i, value) ==
    IF list.plist[i] = Unset
    THEN [list EXCEPT !.plist = With(@, i, value), !.valid = @ - 1]
    ELSE [list EXCEPT !.plist = With(@, i, value)]
EntrySet(list, i, value) ==
    IF list.plist[i] = Unset
    THEN [list EXCEPT !.plist = With(@, i, value), !.valid = @ - 1]
    ELSE IF list.rc > 1 THEN list ELSE [list EXCEPT !.plist = With(@, i, value)]
SetEntry(l) ==
    /\ Mine(l)
    /\ \E i \in DOMAIN lists[l].plist, value \in Ranks :
          /\ Careful => value \notin Range(lists[l].plist)
          /\ Keep(l, EntrySet(lists[l], i, value))
    /\ UNCHANGED rank

(* The set operations refuse invalid lists and make a valid one, but for   *)
(* an empty intersection, which makes none.                                *)
SetOperation(l, operands, made) ==
    /\ l \in Free
    /\ Range(operands) \subseteq Handles
    /\ \A x \in Range(operands) : ValidOf(x) = 0
    /\ Keep(l, NewList(made, 0))
    /\ UNCHANGED rank
Union(l) == \E a, b \in Handles :
    SetOperation(l, <<a, b>>, UnionOf(<<Entries(a), Entries(b)>>))
Isect(l) == \E a, b \in Handles :
    LET made == IsectOf(<<Entries(a), Entries(b)>>)
    IN  made # << >> /\ SetOperation(l, <<a, b>>, made)
Diff(l) == \E a, b \in Handles :
    SetOperation(l, <<a, b>>, DiffOf(Entries(a), Entries(b)))

(* bc_plist_divide by BC_DIVPL_EQUAL: each part is made empty and filled   *)
(* entry by entry.                                                         *)
Filled(part) ==
    FoldLeft(LAMBDA list, i : EntrySet(list, i, part[i]),
             NewList([i \in DOMAIN part |-> Unset], Len(part)), Positions(part))
Divide(whole, into) ==
    /\ whole \in Handles
    /\ Careful => Complete(Entries(whole))
    /\ Range(into) \subseteq Free /\ Distinct(into)
    /\ Len(into) <= Len(Entries(whole))
    /\ lists' = [l \in Names |->
          IF l \in Range(into)
          THEN Filled(Part(Entries(whole), Len(into), CHOOSE i \in DOMAIN into : into[i] = l))
          ELSE lists[l]]
    /\ UNCHANGED rank

---------------------------------------------------------------------------
(* A channel draws a tag for each entry and counts as a reference; its     *)
(* destruction sends to the entries there are then.                        *)
Use(l) ==
    /\ Mine(l) /\ ~ lists[l].used
    /\ Keep(l, [lists[l] EXCEPT !.used = TRUE, !.tags = lists[l].plist, !.rc = @ + 1])
    /\ UNCHANGED rank

(* __bc_internal_plist_destroy; before it, the list freed at the   *)
(* call after its last                                                     *)
DropLate(list) == IF list.rc = 0 THEN Null ELSE [list EXCEPT !.rc = @ - 1]
Drop(list) == IF list.rc = 1 THEN Null ELSE [list EXCEPT !.rc = @ - 1]
Destroy(l) ==
    /\ Mine(l)
    /\ Keep(l, Drop([lists[l] EXCEPT !.held = FALSE]))
    /\ UNCHANGED rank
ChanDestroy(l) ==
    /\ Made(l) /\ lists[l].used
    /\ Keep(l, Drop([lists[l] EXCEPT !.used = FALSE, !.tags = << >>]))
    /\ UNCHANGED rank

(* bc_sink_create does not look at the entries; a careful application does *)
Next == \/ \E l \in Names : \/ Create(l) \/ CreateComplement(l) \/ CreateEmpty(l) \/ SetEntry(l)
                            \/ Union(l) \/ Isect(l) \/ Diff(l)
                            \/ Use(l) /\ (Careful => Complete(lists[l].plist))
                            \/ Destroy(l) \/ ChanDestroy(l)
        \/ \E whole \in Handles, num \in 1..Cardinality(Names) :
              \E into \in [1..num -> Names] : Divide(whole, into)
Spec == Init /\ [][Next]_vars

---------------------------------------------------------------------------
TypeOK ==
    /\ rank \in Ranks
    /\ \A l \in Names : Made(l) =>
          /\ Range(lists[l].plist) \subseteq Ranks \cup {Unset}
          /\ Len(lists[l].plist) <= Size \/ Len(lists[l].plist) <= MaxCount
          /\ Range(lists[l].tags) \subseteq Ranks
          /\ lists[l].valid \in 0..MaxCount \cup {Garbage}
          /\ lists[l].rc \in 1..2
          /\ {lists[l].held, lists[l].used} \subseteq BOOLEAN

(* plist.c counts three things by hand, in calls of the application and of *)
(* its channels that come in any order. A list lives as long as one of     *)
(* both needs it; it is valid exactly when every entry has been set, be it *)
(* by hand or by a division; and what a channel drew tags for is what its  *)
(* destruction will send to, whatever was set meanwhile.                   *)
RcCountsOwners(list)   == list.rc = Cardinality({x \in {"held", "used"} : list[x]})
ValidCountsUnset(list) ==
    list.valid \in {Cardinality({i \in DOMAIN list.plist : list.plist[i] = Unset}), Garbage}
TagsMatchList(list)    == list.used => list.tags = list.plist
ListsConsistent == \A l \in Names : Made(l) =>
    RcCountsOwners(lists[l]) /\ ValidCountsUnset(lists[l]) /\ TagsMatchList(lists[l])

(* The loops of the set operations of plist.c compute what plist.h calls   *)
(* them, on any valid lists the application can have by then: "Set         *)
(* union.", "Set intersection.", "Set difference.", the other ranks, and   *)
(* parts that make the whole. A rank is in the result once, so that no     *)
(* channel has two links for it.                                           *)
IsSet(s, of) == Range(s) = of /\ Distinct(s)
SetsAgree ==
    LET valid == {x \in Handles : ValidOf(x) = 0}
        in(x) == Range(Entries(x))
        own == valid \cap Names
    IN  /\ \A a, b \in own, c \in valid :
              LET three == <<Entries(a), Entries(c), Entries(b)>>
              IN  /\ IsSet(UnionOf(three), in(a) \cup in(b) \cup in(c))
                  /\ IsSet(IsectOf(three), in(a) \cap in(b) \cap in(c))
        /\ \A a, b \in valid : {a, b} \cap own # {} =>
              /\ IsSet(UnionOf(<<Entries(a), Entries(b)>>), in(a) \cup in(b))
              /\ IsSet(IsectOf(<<Entries(a), Entries(b)>>), in(a) \cap in(b))
              /\ IsSet(DiffOf(Entries(a), Entries(b)), in(a) \ in(b))
        /\ \A a \in valid : IsSet(Complement(Entries(a)), Ranks \ in(a))
        /\ \A a \in valid : \A num \in 1..Len(Entries(a)) :
              LET parts == [i \in 1..num |-> Part(Entries(a), num, i)]
              IN  /\ FlattenSeq(parts) = Entries(a)
                  /\ \A i, j \in 1..num : i < j => Len(parts[i]) \in 1..Len(parts[j])

(* bc_plist_iselem(pl, rank) tells of the lists of the application whether *)
(* rank "Is an element" (plist.h:122)                                      *)
IsElementTests ==
    \A l \in Handles \cap Names, r \in Ranks :
       IsElem(lists[l].plist, r) <=> r \in Range(lists[l].plist)
=============================================================================
