-------------------------- MODULE ProcessListsProofs --------------------------
(***************************************************************************)
(* Proofs about the process lists (libdsys/plist.c), for any number of     *)
(* processes and of lists.                                                 *)
(*                                                                         *)
(* The loops of plist.c are folds over sequences, so what they compute is  *)
(* shown by induction on the number of entries they have seen.             *)
(***************************************************************************)
EXTENDS ProcessLists, SequenceTheorems, FiniteSetTheorems, WellFoundedInduction, TLAPS

-----------------------------------------------------------------------------
(* The least-number principle                                              *)
LEMMA Least ==
  ASSUME NEW T \in SUBSET Nat, T # {}
  PROVE  \E m \in T : \A n \in T : m <= n
<1> DEFINE R == {ss \in Nat \X Nat : ss[1] < ss[2]}
<1>1. IsWellFoundedOn(R, Nat)
  BY NatLessThanWellFounded DEF OpToRel
<1>2. \A x, y \in Nat : y < x => <<y, x>> \in R
  OBVIOUS
<1> HIDE DEF R
<1>3. PICK m \in T : \A n \in T : ~ (<<n, m>> \in R)
  BY <1>1, WFMin
<1>4. ASSUME NEW n \in T
      PROVE  m <= n
  <2>1. m \in Nat /\ n \in Nat /\ ~ (n < m)
    BY <1>2, <1>3
  <2>2. QED
    BY <2>1
<1>5. QED
  BY <1>4

(* Induction over an interval                                              *)
LEMMA Induct ==
  ASSUME NEW N \in Nat, NEW S, 0 \in S, \A n \in 0 .. N : n < N /\ n \in S => n + 1 \in S
  PROVE  \A n \in 0 .. N : n \in S
<1>1. SUFFICES ASSUME NEW k \in 0 .. N, k \notin S
               PROVE  FALSE
  OBVIOUS
<1> DEFINE T == {n \in Nat : n <= N /\ n \notin S}
<1>2. PICK m \in T : \A n \in T : m <= n
  <2>1. T \in SUBSET Nat /\ k \in T
    BY <1>1
  <2> HIDE DEF T
  <2>2. QED
    BY <2>1, Least
<1>3. m # 0 /\ m - 1 \in Nat /\ m - 1 < m
  BY <1>2
<1>4. m - 1 \in S
  BY <1>2, <1>3
<1>5. QED
  BY <1>2, <1>3, <1>4

(* Max, by which folds take the entries of a sequence                      *)
LEMMA Greatest ==
  ASSUME NEW n \in Nat, NEW s, s \subseteq 1 .. n, n \in s
  PROVE  Max(s) = n
<1>1. n \in s /\ \A y \in s : n >= y
  OBVIOUS
<1>2. \A x \in s : (\A y \in s : x >= y) => x = n
  OBVIOUS
<1>3. QED
  BY <1>1, <1>2 DEF Max

LEMMA MaxIn ==
  ASSUME NEW N \in Nat, NEW s, s \subseteq 1 .. N, s # {}
  PROVE  Max(s) \in s
<1> DEFINE T == {N - x : x \in s}
<1>1. T \in SUBSET Nat /\ T # {}
  <2>1. PICK x : x \in s
    OBVIOUS
  <2>2. N - x \in T
    BY <2>1
  <2>3. QED
    BY <2>2
<1>2. PICK m \in T : \A n \in T : m <= n
  <2> HIDE DEF T
  <2>1. QED
    BY <1>1, Least
<1>3. PICK x \in s : m = N - x
  OBVIOUS
<1>4. \A y \in s : x >= y
  <2>1. TAKE y \in s
  <2>2. N - y \in T
    OBVIOUS
  <2>3. x \in Int /\ y \in Int /\ m <= N - y
    BY <1>2, <2>2
  <2>4. QED
    BY <1>3, <2>3
<1>5. QED
  BY <1>4 DEF Max

(* What FoldLeft applies to the positions 1 .. N of its sequence; it exists *)
Folding(X, base, N, step) ==
  {it \in [SUBSET (1 .. N) -> X] :
     /\ it[{}] = base
     /\ \A s \in SUBSET (1 .. N) : s # {} => it[s] = step[Max(s)][it[s \ {Max(s)}]]}

LEMMA FoldExists ==
  ASSUME NEW X, NEW base \in X, NEW N \in Nat, NEW step \in [1 .. N -> [X -> X]]
  PROVE  Folding(X, base, N, step) # {}
<1> DEFINE Fold(n, it) ==
             /\ it[{}] = base
             /\ \A s \in SUBSET (1 .. n) : s # {} => it[s] = step[Max(s)][it[s \ {Max(s)}]]
           Folds(n) == {it \in [SUBSET (1 .. n) -> X] : Fold(n, it)}
           T == {n \in 0 .. N : Folds(n) # {}}
<1>1. 0 \in T
  <2> DEFINE it == [s \in SUBSET (1 .. 0) |-> base]
  <2>1. it \in [SUBSET (1 .. 0) -> X]
    OBVIOUS
  <2>2. \A s \in SUBSET (1 .. 0) : s = {}
    OBVIOUS
  <2>3. it[{}] = base
    OBVIOUS
  <2> HIDE DEF it
  <2>4. it \in Folds(0)
    BY <2>1, <2>2, <2>3
  <2> HIDE DEF Folds
  <2>5. QED
    BY <2>4
<1>2. \A n \in 0 .. N : n < N /\ n \in T => n + 1 \in T
  <2>1. SUFFICES ASSUME NEW n \in 0 .. N, n < N, n \in T
                 PROVE  n + 1 \in T
    OBVIOUS
  <2>2. PICK it \in [SUBSET (1 .. n) -> X] : Fold(n, it)
    BY <2>1
  <2>3. PICK j \in Nat : j = n + 1
    OBVIOUS
  <2> DEFINE jt == [s \in SUBSET (1 .. j) |->
                      IF j \in s THEN step[j][it[s \ {j}]] ELSE it[s]]
  <2>4. \A s \in SUBSET (1 .. j) :
          s \ {j} \in SUBSET (1 .. n) /\ (j \notin s => s \in SUBSET (1 .. n))
    BY <2>3
  <2>5. \A s \in SUBSET (1 .. j) : jt[s] = IF j \in s THEN step[j][it[s \ {j}]] ELSE it[s]
    OBVIOUS
  <2>6. j \in 1 .. N /\ step[j] \in [X -> X]
    BY <2>1, <2>3
  <2>7. jt \in [SUBSET (1 .. j) -> X]
    <3>1. \A s \in SUBSET (1 .. j) : (IF j \in s THEN step[j][it[s \ {j}]] ELSE it[s]) \in X
      BY <2>4, <2>6
    <3>2. QED
      BY <3>1
  <2> HIDE DEF jt
  <2>8. \A s \in SUBSET (1 .. j) : s # {} => jt[s] = step[Max(s)][jt[s \ {Max(s)}]]
    <3>1. TAKE s \in SUBSET (1 .. j)
    <3>2. HAVE s # {}
    <3>3. Max(s) \in s
      BY <3>2, MaxIn
    <3>4. s \ {Max(s)} \in SUBSET (1 .. j)
      OBVIOUS
    <3>5. CASE j \in s
      <4>1. Max(s) = j
        BY <3>5, Greatest
      <4>2. j \notin s \ {j} /\ s \ {j} \in SUBSET (1 .. j)
        OBVIOUS
      <4>3. jt[s \ {j}] = it[s \ {j}]
        BY <2>5, <4>2
      <4>4. jt[s] = step[j][it[s \ {j}]]
        BY <2>5, <3>5
      <4>5. QED
        BY <4>1, <4>3, <4>4
    <3>6. CASE j \notin s
      <4>1. jt[s] = it[s] /\ jt[s \ {Max(s)}] = it[s \ {Max(s)}]
        BY <2>5, <3>4, <3>6
      <4>2. QED
        BY <4>1, <2>2, <2>4, <3>2, <3>6
    <3>7. QED
      BY <3>5, <3>6
  <2>9. jt[{}] = base
    BY <2>2, <2>5
  <2>10. jt \in Folds(j)
    BY <2>7, <2>8, <2>9
  <2> HIDE DEF Folds
  <2>11. QED
    BY <2>1, <2>3, <2>10
<1>3. N \in T
  <2> HIDE DEF T
  <2>1. \A n \in 0 .. N : n \in T
    BY <1>1, <1>2, Induct
  <2>2. QED
    BY <2>1
<1>4. QED
  BY <1>3 DEF Folding

(* Whatever does the same as long as it is in X                            *)
FoldsLike(X, base, N, step, g) ==
  /\ g[{}] = base
  /\ \A s \in SUBSET (1 .. N) :
       s # {} /\ g[s \ {Max(s)}] \in X => g[s] = step[Max(s)][g[s \ {Max(s)}]]

(* J[n] is what holds after n entries                                      *)
Inductive(X, base, N, step, J) ==
  /\ J \in [0 .. N -> SUBSET X]
  /\ base \in J[0]
  /\ \A n \in 1 .. N : \A x \in J[n - 1] : step[n][x] \in J[n]

LEMMA FoldInduct ==
  ASSUME NEW X, NEW base, NEW N \in Nat, NEW step, NEW g, NEW J,
         FoldsLike(X, base, N, step, g), Inductive(X, base, N, step, J)
  PROVE  g[1 .. N] \in J[N]
<1>1. \A n \in 1 .. N : g[1 .. n - 1] \in X => g[1 .. n] = step[n][g[1 .. n - 1]]
  <2>1. TAKE n \in 1 .. N
  <2>2. 1 .. n \in SUBSET (1 .. N) /\ n \in 1 .. n /\ n \in Nat
    OBVIOUS
  <2>3. Max(1 .. n) = n
    BY <2>2, Greatest
  <2>4. (1 .. n) \ {n} = 1 .. n - 1
    OBVIOUS
  <2>5. QED
    BY <2>2, <2>3, <2>4 DEF FoldsLike
<1> DEFINE T == {n \in 0 .. N : g[1 .. n] \in J[n]}
<1>2. 0 \in T
  <2>1. 1 .. 0 = {}
    OBVIOUS
  <2>2. QED
    BY <2>1 DEF FoldsLike, Inductive
<1>3. \A n \in 0 .. N : n < N /\ n \in T => n + 1 \in T
  <2>1. SUFFICES ASSUME NEW n \in 0 .. N, n < N, g[1 .. n] \in J[n]
                 PROVE  g[1 .. n + 1] \in J[n + 1]
    OBVIOUS
  <2>2. PICK j \in 1 .. N : j = n + 1 /\ j - 1 = n
    BY <2>1
  <2>3. g[1 .. n] \in X
    BY <2>1 DEF Inductive
  <2>4. QED
    BY <2>1, <2>2, <2>3, <1>1 DEF Inductive
<1>4. \A n \in 0 .. N : n \in T
  <2> HIDE DEF T
  <2>1. QED
    BY <1>2, <1>3, Induct
<1>5. QED
  BY <1>4

-----------------------------------------------------------------------------
(* 1 .. n in order                                                         *)
LEMMA UptoIs ==
  ASSUME NEW first \in Int, NEW end \in Int
  PROVE  /\ Upto(first, end) \in Seq(Int)
         /\ Len(Upto(first, end)) = IF end < first THEN 0 ELSE end - first + 1
         /\ DOMAIN Upto(first, end) = 1 .. Len(Upto(first, end))
         /\ \A i \in DOMAIN Upto(first, end) : Upto(first, end)[i] = first + i - 1
<1> DEFINE n == IF end < first THEN 0 ELSE end - first + 1
<1>1. n \in Nat
  OBVIOUS
<1>2. \A i \in 1 .. n : first + i - 1 \in Int
  BY <1>1
<1> HIDE DEF n
<1>3. [i \in 1 .. n |-> first + i - 1] \in Seq(Int)
  BY <1>1, <1>2
<1>4. Upto(first, end) = [i \in 1 .. n |-> first + i - 1]
  BY DEF Upto, n
<1>5. Len(Upto(first, end)) = n
  BY <1>1, <1>3, <1>4
<1>6. QED
  BY <1>1, <1>3, <1>4, <1>5 DEF n

-----------------------------------------------------------------------------
(* What is true of the list after each entry is true in the end: the loop  *)
(* of bc_plist_union                                                       *)
LEMMA UnionFold ==
  ASSUME NEW V, NEW list \in Seq(V), NEW rest \in Seq(V),
         NEW J \in [0 .. Len(rest) -> SUBSET Seq(V)],
         list \in J[0],
         \A n \in 1 .. Len(rest) : \A t \in J[n - 1] : AddNew(t, rest[n]) \in J[n]
  PROVE  FoldLeft(AddNew, list, rest) \in J[Len(rest)]
<1> DEFINE N == Len(rest)
           X == Seq(V)
           step == [n \in 1 .. N |-> [t \in X |-> AddNew(t, rest[n])]]
<1>1. N \in Nat /\ DOMAIN rest = 1 .. N
  OBVIOUS
<1>2. \A n \in 1 .. N, t \in X : AddNew(t, rest[n]) \in X
  BY DEF AddNew
<1>3. list \in X
  OBVIOUS
<1>4. J \in [0 .. N -> SUBSET X]
  OBVIOUS
<1> HIDE DEF N, X
<1>5. step \in [1 .. N -> [X -> X]]
  BY <1>2
<1>6. \A n \in 1 .. N, t \in X : step[n][t] = AddNew(t, rest[n])
  OBVIOUS
<1> HIDE DEF step
<1>7. \A s \in SUBSET (1 .. N) : s # {} => Max(s) \in 1 .. N /\ s \ {Max(s)} \in SUBSET (1 .. N)
  BY <1>1, MaxIn
<1>8. PICK it \in [SUBSET (1 .. N) -> X] :
        /\ it[{}] = list
        /\ \A s \in SUBSET (1 .. N) : s # {} => it[s] = step[Max(s)][it[s \ {Max(s)}]]
  <2>1. N \in Nat
    BY <1>1
  <2>2. Folding(X, list, N, step) # {}
    BY <2>1, <1>3, <1>5, FoldExists
  <2>3. QED
    BY <2>2 DEF Folding
<1>9. it = [s \in SUBSET DOMAIN rest |->
              IF s = {} THEN list ELSE AddNew(it[s \ {Max(s)}], rest[Max(s)])]
  <2>1. \A s \in SUBSET (1 .. N) : s # {} => it[s] = AddNew(it[s \ {Max(s)}], rest[Max(s)])
    BY <1>6, <1>7, <1>8
  <2>2. QED
    BY <1>1, <1>8, <2>1
<1> DEFINE g == CHOOSE iter : iter = [s \in SUBSET DOMAIN rest |->
                  IF s = {} THEN list ELSE AddNew(iter[s \ {Max(s)}], rest[Max(s)])]
<1>10. g = [s \in SUBSET DOMAIN rest |->
              IF s = {} THEN list ELSE AddNew(g[s \ {Max(s)}], rest[Max(s)])]
  BY <1>9
<1>11. FoldLeft(AddNew, list, rest) = g[DOMAIN rest]
  BY DEF FoldLeft, MapThenFoldSet
<1> HIDE DEF g
<1>12. FoldsLike(X, list, N, step, g)
  <2>1. g[{}] = list
    BY <1>10
  <2>2. \A s \in SUBSET (1 .. N) : s # {} => g[s] = AddNew(g[s \ {Max(s)}], rest[Max(s)])
    BY <1>1, <1>7, <1>10
  <2>3. QED
    BY <2>1, <2>2, <1>6, <1>7 DEF FoldsLike
<1>13. Inductive(X, list, N, step, J)
  <2>1. \A n \in 1 .. N : \A x \in J[n - 1] : step[n][x] \in J[n]
    <3>1. TAKE n \in 1 .. N
    <3>2. n - 1 \in 0 .. N
      BY <1>1
    <3>3. QED
      BY <3>2, <1>4, <1>6 DEF N
  <2>2. QED
    BY <2>1, <1>4 DEF Inductive
<1>14. QED
  <2>1. N \in Nat
    BY <1>1
  <2>2. g[1 .. N] \in J[N]
    BY <2>1, <1>12, <1>13, FoldInduct
  <2>3. QED
    BY <2>2, <1>1, <1>11 DEF N

(* the loop that copies the gaps between the ranks left out                *)
GapState == [plist : Seq(Ranks), s : Nat]
LEMMA FillGapType ==
  ASSUME NEW acc \in GapState, NEW e \in Ranks
  PROVE  FillGap(acc, e) \in GapState
<1>1. acc.s \in Nat /\ e \in Nat /\ acc.plist \in Seq(Ranks)
  BY ListsAssumption DEF GapState, Ranks
<1>2. Upto(acc.s, e - 1) \in Seq(Ranks)
  <2>1. \A i \in DOMAIN Upto(acc.s, e - 1) : Upto(acc.s, e - 1)[i] \in Ranks
    <3>1. e - 1 \in Int /\ acc.s \in Int
      BY <1>1
    <3>2. \A i \in DOMAIN Upto(acc.s, e - 1) :
            /\ i \in 1 .. Len(Upto(acc.s, e - 1)) /\ Upto(acc.s, e - 1)[i] = acc.s + i - 1
      BY <3>1, UptoIs
    <3>3. Len(Upto(acc.s, e - 1)) = IF e - 1 < acc.s THEN 0 ELSE e - 1 - acc.s + 1
      BY <3>1, UptoIs
    <3>4. \A i \in DOMAIN Upto(acc.s, e - 1) : acc.s + i - 1 \in Nat /\ acc.s + i - 1 < e
      BY <1>1, <3>2, <3>3
    <3>5. QED
      BY <3>2, <3>4, ListsAssumption DEF Ranks
  <2>2. Upto(acc.s, e - 1) \in Seq(Int)
    <3>1. e - 1 \in Int /\ acc.s \in Int
      BY <1>1
    <3>2. QED
      BY <3>1, UptoIs
  <2>3. QED
    BY <2>1, <2>2
<1>3. QED
  BY <1>1, <1>2 DEF FillGap, GapState

(* the loop over the ranks left out                                        *)
LEMMA GapFold ==
  ASSUME NEW args \in Seq(Ranks), NEW base \in GapState,
         NEW J \in [0 .. Len(args) -> SUBSET GapState],
         base \in J[0],
         \A n \in 1 .. Len(args) : \A acc \in J[n - 1] : FillGap(acc, args[n]) \in J[n]
  PROVE  FoldLeft(FillGap, base, args) \in J[Len(args)]
<1> DEFINE N == Len(args)
           X == GapState
           step == [n \in 1 .. N |-> [t \in X |-> FillGap(t, args[n])]]
<1>1. N \in Nat /\ DOMAIN args = 1 .. N
  OBVIOUS
<1>2. \A n \in 1 .. N, t \in X : FillGap(t, args[n]) \in X
  BY FillGapType
<1>3. base \in X
  OBVIOUS
<1>4. J \in [0 .. N -> SUBSET X]
  OBVIOUS
<1> HIDE DEF N, X
<1>5. step \in [1 .. N -> [X -> X]]
  BY <1>2
<1>6. \A n \in 1 .. N, t \in X : step[n][t] = FillGap(t, args[n])
  OBVIOUS
<1> HIDE DEF step
<1>7. \A s \in SUBSET (1 .. N) : s # {} => Max(s) \in 1 .. N /\ s \ {Max(s)} \in SUBSET (1 .. N)
  BY <1>1, MaxIn
<1>8. PICK it \in [SUBSET (1 .. N) -> X] :
        /\ it[{}] = base
        /\ \A s \in SUBSET (1 .. N) : s # {} => it[s] = step[Max(s)][it[s \ {Max(s)}]]
  <2>1. N \in Nat
    BY <1>1
  <2>2. Folding(X, base, N, step) # {}
    BY <2>1, <1>3, <1>5, FoldExists
  <2>3. QED
    BY <2>2 DEF Folding
<1>9. it = [s \in SUBSET DOMAIN args |->
              IF s = {} THEN base ELSE FillGap(it[s \ {Max(s)}], args[Max(s)])]
  <2>1. \A s \in SUBSET (1 .. N) : s # {} => it[s] = FillGap(it[s \ {Max(s)}], args[Max(s)])
    BY <1>6, <1>7, <1>8
  <2>2. QED
    BY <1>1, <1>8, <2>1
<1> DEFINE g == CHOOSE iter : iter = [s \in SUBSET DOMAIN args |->
                  IF s = {} THEN base ELSE FillGap(iter[s \ {Max(s)}], args[Max(s)])]
<1>10. g = [s \in SUBSET DOMAIN args |->
              IF s = {} THEN base ELSE FillGap(g[s \ {Max(s)}], args[Max(s)])]
  BY <1>9
<1>11. FoldLeft(FillGap, base, args) = g[DOMAIN args]
  BY DEF FoldLeft, MapThenFoldSet
<1> HIDE DEF g
<1>12. FoldsLike(X, base, N, step, g)
  <2>1. g[{}] = base
    BY <1>10
  <2>2. \A s \in SUBSET (1 .. N) : s # {} => g[s] = FillGap(g[s \ {Max(s)}], args[Max(s)])
    BY <1>1, <1>7, <1>10
  <2>3. QED
    BY <2>1, <2>2, <1>6, <1>7 DEF FoldsLike
<1>13. Inductive(X, base, N, step, J)
  <2>1. \A n \in 1 .. N : \A x \in J[n - 1] : step[n][x] \in J[n]
    <3>1. TAKE n \in 1 .. N
    <3>2. n - 1 \in 0 .. N
      BY <1>1
    <3>3. QED
      BY <3>2, <1>4, <1>6 DEF N
  <2>2. QED
    BY <2>1, <1>4 DEF Inductive
<1>14. QED
  <2>1. N \in Nat
    BY <1>1
  <2>2. g[1 .. N] \in J[N]
    BY <2>1, <1>12, <1>13, FoldInduct
  <2>3. QED
    BY <2>2, <1>1, <1>11 DEF N

(* the loop that copies the entries at some positions                      *)
LEMMA PickFold ==
  ASSUME NEW V, NEW s \in Seq(V), NEW at,
         NEW J \in [0 .. Len(s) -> SUBSET Seq(V)],
         << >> \in J[0],
         \A n \in 1 .. Len(s) : \A t \in J[n - 1] :
           (IF n \in at THEN Append(t, s[n]) ELSE t) \in J[n]
  PROVE  Picked(s, at) \in J[Len(s)]
<1> DEFINE N == Len(s)
           X == Seq(V)
           pick(t, n) == IF n \in at THEN Append(t, s[n]) ELSE t
           step == [n \in 1 .. N |-> [t \in X |-> pick(t, n)]]
<1>1. N \in Nat /\ DOMAIN Positions(s) = 1 .. N /\ (\A n \in 1 .. N : Positions(s)[n] = n)
  BY DEF Positions
<1>2. \A n \in 1 .. N, t \in X : pick(t, n) \in X
  OBVIOUS
<1>3. << >> \in X
  OBVIOUS
<1>4. J \in [0 .. N -> SUBSET X]
  OBVIOUS
<1> HIDE DEF N, X
<1>5. step \in [1 .. N -> [X -> X]]
  BY <1>2
<1>6. \A n \in 1 .. N, t \in X : step[n][t] = pick(t, n)
  OBVIOUS
<1> HIDE DEF step, pick
<1>7. \A S \in SUBSET (1 .. N) : S # {} => Max(S) \in 1 .. N /\ S \ {Max(S)} \in SUBSET (1 .. N)
  BY <1>1, MaxIn
<1>8. PICK it \in [SUBSET (1 .. N) -> X] :
        /\ it[{}] = << >>
        /\ \A S \in SUBSET (1 .. N) : S # {} => it[S] = step[Max(S)][it[S \ {Max(S)}]]
  <2>1. N \in Nat
    BY <1>1
  <2>2. Folding(X, << >>, N, step) # {}
    BY <2>1, <1>3, <1>5, FoldExists
  <2>3. QED
    BY <2>2 DEF Folding
<1>9. it = [S \in SUBSET DOMAIN Positions(s) |->
              IF S = {} THEN << >> ELSE pick(it[S \ {Max(S)}], Positions(s)[Max(S)])]
  <2>1. \A S \in SUBSET (1 .. N) : S # {} => it[S] = pick(it[S \ {Max(S)}], Max(S))
    BY <1>6, <1>7, <1>8
  <2>2. QED
    <3>1. \A S \in SUBSET (1 .. N) : S # {} => it[S] = pick(it[S \ {Max(S)}], Positions(s)[Max(S)])
      BY <1>1, <1>7, <2>1
    <3>2. it[{}] = << >> /\ it \in [SUBSET DOMAIN Positions(s) -> X]
      BY <1>1, <1>8
    <3>3. QED
      BY <1>1, <3>1, <3>2
<1> DEFINE g == CHOOSE iter : iter = [S \in SUBSET DOMAIN Positions(s) |->
                  IF S = {} THEN << >> ELSE pick(iter[S \ {Max(S)}], Positions(s)[Max(S)])]
<1>10. g = [S \in SUBSET DOMAIN Positions(s) |->
              IF S = {} THEN << >> ELSE pick(g[S \ {Max(S)}], Positions(s)[Max(S)])]
  BY <1>9
<1>11. Picked(s, at) = g[DOMAIN Positions(s)]
  BY DEF Picked, FoldLeft, MapThenFoldSet, pick
<1> HIDE DEF g
<1>12. FoldsLike(X, << >>, N, step, g)
  <2>1. g[{}] = << >>
    BY <1>10
  <2>2. \A S \in SUBSET (1 .. N) : S # {} => g[S] = pick(g[S \ {Max(S)}], Max(S))
    BY <1>1, <1>7, <1>10
  <2>3. QED
    BY <2>1, <2>2, <1>6, <1>7 DEF FoldsLike
<1>13. Inductive(X, << >>, N, step, J)
  <2>1. \A n \in 1 .. N : \A x \in J[n - 1] : step[n][x] \in J[n]
    <3>1. TAKE n \in 1 .. N
    <3>2. n - 1 \in 0 .. N
      BY <1>1
    <3>3. QED
      BY <3>2, <1>4, <1>6 DEF N, pick
  <2>2. QED
    BY <2>1, <1>4 DEF Inductive
<1>14. QED
  <2>1. N \in Nat
    BY <1>1
  <2>2. g[1 .. N] \in J[N]
    BY <2>1, <1>12, <1>13, FoldInduct
  <2>3. QED
    BY <2>2, <1>1, <1>11 DEF N

(* Functions on 1 .. n are sequences                                       *)
LEMMA FunctionSeq ==
  ASSUME NEW S, NEW n \in Nat, NEW f \in [1 .. n -> S]
  PROVE  f \in Seq(S) /\ Len(f) = n
OBVIOUS

(* A list with one entry replaced                                          *)
LEMMA WithIs ==
  ASSUME NEW S, NEW s \in Seq(S), NEW i, NEW value \in S
  PROVE  /\ With(s, i, value) \in Seq(S) /\ Len(With(s, i, value)) = Len(s)
         /\ DOMAIN With(s, i, value) = DOMAIN s
         /\ \A j \in DOMAIN s : With(s, i, value)[j] = IF j = i THEN value ELSE s[j]
<1>1. With(s, i, value) \in [1 .. Len(s) -> S] /\ Len(s) \in Nat /\ DOMAIN s = 1 .. Len(s)
  BY DEF With
<1>2. QED
  BY <1>1, FunctionSeq DEF With

(* bc_plist_divide sets every entry of a part it made empty                *)
LEMMA FilledIs ==
  ASSUME NEW part \in Seq(Int)
  PROVE  Filled(part) = NewList(part, 0)
<1> DEFINE N == Len(part)
           X == [plist : Seq(Int), valid : Int, rc : {1}, held : {TRUE}, used : {FALSE},
                 tags : {<< >>}]
           at(n) == NewList([i \in 1 .. N |-> IF i <= n THEN part[i] ELSE Unset], N - n)
           base == NewList([i \in DOMAIN part |-> Unset], Len(part))
           set(t, n) == EntrySet(t, n, part[n])
           step == [n \in 1 .. N |-> [t \in X |-> set(t, n)]]
           J == [n \in 0 .. N |-> {at(n)}]
<1>1. /\ N \in Nat /\ DOMAIN part = 1 .. N /\ DOMAIN Positions(part) = 1 .. N
      /\ \A n \in 1 .. N : Positions(part)[n] = n /\ part[n] \in Int
  BY DEF Positions
<1>2. Unset \in Int
  BY DEF Unset
<1>3. \A n \in 1 .. N, t \in X : set(t, n) \in X
  <2>1. TAKE n \in 1 .. N, t \in X
  <2>2. With(t.plist, n, part[n]) \in Seq(Int)
    <3>1. t.plist \in Seq(Int) /\ part[n] \in Int
      BY <1>1, <1>2
    <3>2. QED
      BY <3>1, WithIs
  <2>3. t.valid - 1 \in Int /\ t.rc = 1
    OBVIOUS
  <2>4. QED
    BY <2>2, <2>3 DEF EntrySet
<1>4. \A n \in 0 .. N : at(n) \in X
  <2>1. TAKE n \in 0 .. N
  <2>2. [i \in 1 .. N |-> IF i <= n THEN part[i] ELSE Unset] \in Seq(Int)
    <3>1. [i \in 1 .. N |-> IF i <= n THEN part[i] ELSE Unset] \in [1 .. N -> Int]
      BY <1>1, <1>2
    <3>2. N \in Nat
      BY <1>1
    <3> HIDE DEF N
    <3>3. QED
      BY <3>1, <3>2, FunctionSeq
  <2>3. N - n \in Int
    BY <1>1
  <2>4. QED
    BY <2>2, <2>3 DEF NewList
<1>5. base = at(0) /\ at(N) = NewList(part, 0)
  <2>1. [i \in 1 .. N |-> IF i <= 0 THEN part[i] ELSE Unset] = [i \in DOMAIN part |-> Unset]
    BY <1>1
  <2>2. [i \in 1 .. N |-> IF i <= N THEN part[i] ELSE Unset] = part
    BY <1>1
  <2>3. N - 0 = N /\ N - N = 0
    BY <1>1
  <2>4. QED
    BY <2>1, <2>2, <2>3
<1>6. \A n \in 1 .. N : set(at(n - 1), n) = at(n)
  <2>1. TAKE n \in 1 .. N
  <2> DEFINE before == [i \in 1 .. N |-> IF i <= n - 1 THEN part[i] ELSE Unset]
             after == [i \in 1 .. N |-> IF i <= n THEN part[i] ELSE Unset]
  <2>2. before[n] = Unset
    OBVIOUS
  <2>3. With(before, n, part[n]) = after
    BY <1>1 DEF With
  <2>4. N - (n - 1) - 1 = N - n
    BY <1>1
  <2> HIDE DEF before, after
  <2>5. EntrySet(NewList(before, N - (n - 1)), n, part[n]) = NewList(after, N - n)
    BY <2>2, <2>3, <2>4 DEF EntrySet, NewList
  <2>6. QED
    BY <2>5 DEF before, after
<1> HIDE DEF N, X, at
<1>7. base \in X
  BY <1>1, <1>4, <1>5
<1> HIDE DEF base
<1>8. step \in [1 .. N -> [X -> X]]
  BY <1>3
<1>9. \A n \in 1 .. N, t \in X : step[n][t] = set(t, n)
  OBVIOUS
<1> HIDE DEF step, set
<1>10. \A s \in SUBSET (1 .. N) : s # {} => Max(s) \in 1 .. N /\ s \ {Max(s)} \in SUBSET (1 .. N)
  BY <1>1, MaxIn
<1>11. PICK it \in [SUBSET (1 .. N) -> X] :
         /\ it[{}] = base
         /\ \A s \in SUBSET (1 .. N) : s # {} => it[s] = step[Max(s)][it[s \ {Max(s)}]]
  <2>1. N \in Nat
    BY <1>1
  <2>2. Folding(X, base, N, step) # {}
    BY <2>1, <1>7, <1>8, FoldExists
  <2>3. QED
    BY <2>2 DEF Folding
<1>12. it = [s \in SUBSET DOMAIN Positions(part) |->
               IF s = {} THEN base ELSE set(it[s \ {Max(s)}], Positions(part)[Max(s)])]
  <2>1. \A s \in SUBSET (1 .. N) : s # {} => it[s] = set(it[s \ {Max(s)}], Positions(part)[Max(s)])
    <3>1. \A s \in SUBSET (1 .. N) : s # {} => it[s] = set(it[s \ {Max(s)}], Max(s))
      BY <1>9, <1>10, <1>11
    <3>2. QED
      BY <1>1, <1>10, <3>1
  <2>2. it[{}] = base /\ it \in [SUBSET DOMAIN Positions(part) -> X]
    BY <1>1, <1>11
  <2>3. QED
    BY <1>1, <2>1, <2>2
<1> DEFINE g == CHOOSE iter : iter = [s \in SUBSET DOMAIN Positions(part) |->
                  IF s = {} THEN base ELSE set(iter[s \ {Max(s)}], Positions(part)[Max(s)])]
<1>13. g = [s \in SUBSET DOMAIN Positions(part) |->
              IF s = {} THEN base ELSE set(g[s \ {Max(s)}], Positions(part)[Max(s)])]
  BY <1>12
<1>14. Filled(part) = g[DOMAIN Positions(part)]
  BY DEF Filled, FoldLeft, MapThenFoldSet, base, set
<1> HIDE DEF g
<1>15. FoldsLike(X, base, N, step, g)
  <2>1. g[{}] = base
    BY <1>13
  <2>2. \A s \in SUBSET (1 .. N) : s # {} => g[s] = set(g[s \ {Max(s)}], Max(s))
    BY <1>1, <1>10, <1>13
  <2>3. QED
    BY <2>1, <2>2, <1>9, <1>10 DEF FoldsLike
<1>16. Inductive(X, base, N, step, J)
  <2>1. J \in [0 .. N -> SUBSET X]
    BY <1>4
  <2>2. base \in J[0]
    BY <1>1, <1>5
  <2>3. \A n \in 1 .. N : n - 1 \in 0 .. N /\ n \in 0 .. N
    BY <1>1
  <2>4. \A n \in 1 .. N : \A x \in J[n - 1] : step[n][x] \in J[n]
    <3>1. TAKE n \in 1 .. N
    <3>2. J[n - 1] = {at(n - 1)} /\ J[n] = {at(n)}
      BY <2>3
    <3>3. step[n][at(n - 1)] = set(at(n - 1), n)
      BY <2>3, <1>4, <1>9
    <3>4. QED
      BY <3>2, <3>3, <1>6 DEF set
  <2> HIDE DEF J
  <2>5. QED
    BY <2>1, <2>2, <2>4 DEF Inductive
<1>17. QED
  <2>1. N \in Nat
    BY <1>1
  <2>2. J[N] = {at(N)}
    BY <2>1
  <2> HIDE DEF J
  <2>3. g[1 .. N] \in J[N]
    BY <2>1, <1>15, <1>16, FoldInduct
  <2>4. QED
    BY <2>2, <2>3, <1>1, <1>5, <1>14

-----------------------------------------------------------------------------
(* What the loops compute                                                  *)

(* An entry more                                                           *)
LEMMA AppendIs ==
  ASSUME NEW V, NEW t \in Seq(V), NEW e \in V
  PROVE  /\ Append(t, e) \in Seq(V) /\ Len(Append(t, e)) = Len(t) + 1
         /\ Range(Append(t, e)) = Range(t) \cup {e}
         /\ Distinct(t) /\ e \notin Range(t) => Distinct(Append(t, e))
         /\ \A k \in 1 .. Len(t) : Append(t, e)[k] = t[k]
<1>1. /\ Append(t, e) \in Seq(V) /\ Len(Append(t, e)) = Len(t) + 1 /\ Len(t) \in Nat
      /\ DOMAIN t = 1 .. Len(t) /\ DOMAIN Append(t, e) = 1 .. Len(t) + 1
      /\ \A k \in 1 .. Len(t) : Append(t, e)[k] = t[k]
      /\ Append(t, e)[Len(t) + 1] = e
  OBVIOUS
<1>2. Range(Append(t, e)) = Range(t) \cup {e}
  <2>1. \A k \in 1 .. Len(t) + 1 : k \in 1 .. Len(t) \/ k = Len(t) + 1
    BY <1>1
  <2>2. \A k \in 1 .. Len(t) : k \in 1 .. Len(t) + 1
    BY <1>1
  <2>3. Len(t) + 1 \in 1 .. Len(t) + 1
    BY <1>1
  <2>4. QED
    BY <1>1, <2>1, <2>2, <2>3 DEF Range
<1>3. ASSUME Distinct(t), e \notin Range(t)
      PROVE  Distinct(Append(t, e))
  <2>1. \A k \in 1 .. Len(t) + 1 : k \in 1 .. Len(t) \/ k = Len(t) + 1
    BY <1>1
  <2>2. \A k \in 1 .. Len(t) : t[k] # e
    BY <1>1, <1>3 DEF Range
  <2>3. QED
    BY <1>1, <1>3, <2>1, <2>2 DEF Distinct
<1>4. QED
  BY <1>1, <1>2, <1>3

(* The union has the entries of the first list first, and then each other  *)
(* value once                                                              *)
UnionSoFar(V, a, rest, n) ==
  {t \in Seq(V) : /\ Range(t) = Range(a) \cup {rest[j] : j \in 1 .. n}
                  /\ Distinct(a) => Distinct(t)
                  /\ Len(a) <= Len(t)
                  /\ \A k \in 1 .. Len(a) : t[k] = a[k]}
LEMMA UnionIs ==
  ASSUME NEW V, NEW a \in Seq(V), NEW rest \in Seq(V)
  PROVE  LET u == FoldLeft(AddNew, a, rest)
         IN  /\ u \in Seq(V)
             /\ Range(u) = Range(a) \cup Range(rest)
             /\ Distinct(a) => Distinct(u)
             /\ Len(a) <= Len(u)
             /\ \A k \in 1 .. Len(a) : u[k] = a[k]
<1> DEFINE J == [n \in 0 .. Len(rest) |-> UnionSoFar(V, a, rest, n)]
<1>1. Len(rest) \in Nat /\ DOMAIN rest = 1 .. Len(rest) /\ Len(a) \in Nat
  OBVIOUS
<1>2. J \in [0 .. Len(rest) -> SUBSET Seq(V)]
  BY DEF UnionSoFar
<1>3. a \in J[0]
  <2>1. a \in UnionSoFar(V, a, rest, 0)
    BY <1>1 DEF UnionSoFar
  <2>2. QED
    BY <1>1, <2>1
<1>4. ASSUME NEW n \in 1 .. Len(rest), NEW t \in J[n - 1]
      PROVE  AddNew(t, rest[n]) \in J[n]
  <2>1. n - 1 \in 0 .. Len(rest) /\ n \in 0 .. Len(rest) /\ rest[n] \in V
    BY <1>1
  <2>2. t \in UnionSoFar(V, a, rest, n - 1)
    BY <2>1
  <2>3. {rest[j] : j \in 1 .. n} = {rest[j] : j \in 1 .. n - 1} \cup {rest[n]}
    <3>1. \A j \in 1 .. n : j \in 1 .. n - 1 \/ j = n
      OBVIOUS
    <3>2. \A j \in 1 .. n - 1 : j \in 1 .. n
      OBVIOUS
    <3>3. n \in 1 .. n
      OBVIOUS
    <3>4. QED
      BY <3>1, <3>2, <3>3
  <2>4. CASE rest[n] \in Range(t)
    <3>1. AddNew(t, rest[n]) = t
      BY <2>4 DEF AddNew
    <3>2. QED
      BY <2>1, <2>2, <2>3, <2>4, <3>1 DEF UnionSoFar
  <2>5. CASE rest[n] \notin Range(t)
    <3>1. AddNew(t, rest[n]) = Append(t, rest[n])
      BY <2>5 DEF AddNew
    <3>2. t \in Seq(V) /\ Len(t) \in Nat
      BY <2>2 DEF UnionSoFar
    <3>3. /\ Append(t, rest[n]) \in Seq(V) /\ Len(Append(t, rest[n])) = Len(t) + 1
          /\ Range(Append(t, rest[n])) = Range(t) \cup {rest[n]}
          /\ Distinct(t) => Distinct(Append(t, rest[n]))
          /\ \A k \in 1 .. Len(t) : Append(t, rest[n])[k] = t[k]
      BY <2>1, <2>5, <3>2, AppendIs
    <3>4. Len(a) <= Len(t) + 1 /\ \A k \in 1 .. Len(a) : k \in 1 .. Len(t)
      BY <1>1, <2>2, <3>2 DEF UnionSoFar
    <3>5. Append(t, rest[n]) \in UnionSoFar(V, a, rest, n)
      BY <2>2, <2>3, <3>3, <3>4 DEF UnionSoFar
    <3>6. QED
      BY <2>1, <3>1, <3>5
  <2>6. QED
    BY <2>4, <2>5
<1>5. J[Len(rest)] = UnionSoFar(V, a, rest, Len(rest))
  BY <1>1
<1> HIDE DEF J
<1>6. FoldLeft(AddNew, a, rest) \in J[Len(rest)]
  BY <1>2, <1>3, <1>4, UnionFold
<1>7. {rest[j] : j \in 1 .. Len(rest)} = Range(rest)
  BY <1>1 DEF Range
<1>8. QED
  BY <1>5, <1>6, <1>7 DEF UnionSoFar

(* The entries picked                                                      *)
PickedSoFar(V, s, at, n) ==
  {t \in Seq(V) : /\ Range(t) = {s[i] : i \in at \cap (1 .. n)}
                  /\ Distinct(s) => Distinct(t)}
LEMMA PickedIs ==
  ASSUME NEW V, NEW s \in Seq(V), NEW at
  PROVE  /\ Picked(s, at) \in Seq(V)
         /\ Range(Picked(s, at)) = {s[i] : i \in at \cap DOMAIN s}
         /\ Distinct(s) => Distinct(Picked(s, at))
<1> DEFINE J == [n \in 0 .. Len(s) |-> PickedSoFar(V, s, at, n)]
<1>1. Len(s) \in Nat /\ DOMAIN s = 1 .. Len(s)
  OBVIOUS
<1>2. J \in [0 .. Len(s) -> SUBSET Seq(V)]
  BY DEF PickedSoFar
<1>3. << >> \in J[0]
  <2>1. << >> \in Seq(V) /\ DOMAIN << >> = {}
    OBVIOUS
  <2>2. << >> \in PickedSoFar(V, s, at, 0)
    BY <2>1 DEF PickedSoFar, Range, Distinct
  <2>3. QED
    BY <1>1, <2>2
<1>4. ASSUME NEW n \in 1 .. Len(s), NEW t \in J[n - 1]
      PROVE  (IF n \in at THEN Append(t, s[n]) ELSE t) \in J[n]
  <2>1. n - 1 \in 0 .. Len(s) /\ n \in 0 .. Len(s) /\ s[n] \in V
    BY <1>1
  <2>2. t \in PickedSoFar(V, s, at, n - 1)
    BY <2>1
  <2>3. /\ \A j \in 1 .. n : j \in 1 .. n - 1 \/ j = n
        /\ \A j \in 1 .. n - 1 : j \in 1 .. n /\ j # n /\ j \in DOMAIN s
        /\ n \in 1 .. n /\ n \in DOMAIN s
    BY <1>1
  <2>4. CASE n \notin at
    <3>1. at \cap (1 .. n) = at \cap (1 .. n - 1)
      BY <2>3, <2>4
    <3>2. t \in PickedSoFar(V, s, at, n)
      BY <2>2, <3>1 DEF PickedSoFar
    <3>3. QED
      BY <2>1, <2>4, <3>2
  <2>5. CASE n \in at
    <3>1. at \cap (1 .. n) = (at \cap (1 .. n - 1)) \cup {n}
      BY <2>3, <2>5
    <3>2. t \in Seq(V) /\ Range(t) = {s[i] : i \in at \cap (1 .. n - 1)}
      BY <2>2 DEF PickedSoFar
    <3>3. Distinct(s) => s[n] \notin Range(t)
      BY <2>3, <3>2 DEF Distinct
    <3>4. /\ Append(t, s[n]) \in Seq(V)
          /\ Range(Append(t, s[n])) = Range(t) \cup {s[n]}
          /\ Distinct(s) => Distinct(Append(t, s[n]))
      BY <2>1, <2>2, <3>2, <3>3, AppendIs DEF PickedSoFar
    <3>5. Range(Append(t, s[n])) = {s[i] : i \in at \cap (1 .. n)}
      BY <3>1, <3>2, <3>4
    <3>6. Append(t, s[n]) \in PickedSoFar(V, s, at, n)
      BY <3>4, <3>5 DEF PickedSoFar
    <3>7. QED
      BY <2>1, <2>5, <3>6
  <2>6. QED
    BY <2>4, <2>5
<1>5. J[Len(s)] = PickedSoFar(V, s, at, Len(s))
  BY <1>1
<1> HIDE DEF J
<1>6. Picked(s, at) \in J[Len(s)]
  BY <1>2, <1>3, <1>4, PickFold
<1>7. QED
  BY <1>1, <1>5, <1>6 DEF PickedSoFar

(* in their order                                                          *)
Increasing(s) == \A i, j \in DOMAIN s : i < j => s[i] < s[j]
RisenSoFar(s, n) == {t \in Seq(Int) : Range(t) \subseteq {s[i] : i \in 1 .. n} /\ Increasing(t)}
LEMMA PickedIncreasing ==
  ASSUME NEW s \in Seq(Int), Increasing(s), NEW at
  PROVE  Increasing(Picked(s, at))
<1> DEFINE J == [n \in 0 .. Len(s) |-> RisenSoFar(s, n)]
<1>1. Len(s) \in Nat /\ DOMAIN s = 1 .. Len(s)
  OBVIOUS
<1>2. J \in [0 .. Len(s) -> SUBSET Seq(Int)]
  BY DEF RisenSoFar
<1>3. << >> \in J[0]
  <2>1. << >> \in Seq(Int) /\ DOMAIN << >> = {}
    OBVIOUS
  <2>2. << >> \in RisenSoFar(s, 0)
    BY <2>1 DEF RisenSoFar, Range, Increasing
  <2>3. QED
    BY <1>1, <2>2
<1>4. ASSUME NEW n \in 1 .. Len(s), NEW t \in J[n - 1]
      PROVE  (IF n \in at THEN Append(t, s[n]) ELSE t) \in J[n]
  <2>1. n - 1 \in 0 .. Len(s) /\ n \in 0 .. Len(s) /\ s[n] \in Int
    BY <1>1
  <2>2. /\ t \in Seq(Int) /\ Range(t) \subseteq {s[i] : i \in 1 .. n - 1}
        /\ Increasing(t) /\ Len(t) \in Nat /\ DOMAIN t = 1 .. Len(t)
    <3>1. t \in RisenSoFar(s, n - 1)
      BY <2>1
    <3>2. t \in Seq(Int) /\ Range(t) \subseteq {s[i] : i \in 1 .. n - 1} /\ Increasing(t)
      BY <3>1 DEF RisenSoFar
    <3>3. Len(t) \in Nat /\ DOMAIN t = 1 .. Len(t)
      BY <3>2
    <3>4. QED
      BY <3>2, <3>3
  <2>3. \A j \in 1 .. n - 1 : j \in 1 .. n /\ j < n /\ j \in DOMAIN s /\ n \in DOMAIN s
    BY <1>1
  <2>4. Range(t) \subseteq {s[i] : i \in 1 .. n}
    BY <2>2, <2>3
  <2>5. t \in J[n]
    BY <2>1, <2>2, <2>4 DEF RisenSoFar
  <2>6. \A k \in 1 .. Len(t) : t[k] < s[n]
    <3>1. TAKE k \in 1 .. Len(t)
    <3>2. PICK j \in 1 .. n - 1 : t[k] = s[j]
      BY <2>2 DEF Range
    <3>3. QED
      BY <2>3, <3>2 DEF Increasing
  <2>7. /\ Append(t, s[n]) \in Seq(Int)
        /\ Range(Append(t, s[n])) = Range(t) \cup {s[n]}
    BY <2>1, <2>2, AppendIs
  <2>8. Range(Append(t, s[n])) \subseteq {s[i] : i \in 1 .. n}
    <3>1. n \in 1 .. n
      OBVIOUS
    <3>2. QED
      BY <2>4, <2>7, <3>1
  <2>9. Increasing(Append(t, s[n]))
    <3> DEFINE a == Append(t, s[n])
    <3>1. /\ DOMAIN a = 1 .. Len(t) + 1 /\ a[Len(t) + 1] = s[n]
          /\ \A k \in 1 .. Len(t) : a[k] = t[k]
      BY <2>1, <2>2
    <3> HIDE DEF a
    <3>2. SUFFICES ASSUME NEW i \in 1 .. Len(t) + 1, NEW j \in 1 .. Len(t) + 1, i < j
                   PROVE  a[i] < a[j]
      BY <3>1 DEF a, Increasing
    <3>3. i \in 1 .. Len(t)
      BY <2>2, <3>2
    <3>4. CASE j \in 1 .. Len(t)
      BY <2>2, <3>1, <3>2, <3>3, <3>4 DEF Increasing
    <3>5. CASE j = Len(t) + 1
      BY <2>6, <3>1, <3>3, <3>5
    <3>6. QED
      BY <2>2, <3>4, <3>5
  <2>10. Append(t, s[n]) \in J[n]
    BY <2>1, <2>7, <2>8, <2>9 DEF RisenSoFar
  <2>11. QED
    BY <2>5, <2>10
<1>5. J[Len(s)] = RisenSoFar(s, Len(s))
  BY <1>1
<1> HIDE DEF J
<1>6. J \in [0 .. Len(s) -> SUBSET Seq(Int)]
  BY <1>2
<1>7. Picked(s, at) \in J[Len(s)]
  BY <1>6, <1>3, <1>4, PickFold
<1>8. QED
  BY <1>5, <1>7 DEF RisenSoFar

(* Ranks that follow one another                                           *)
LEMMA UptoRanks ==
  ASSUME NEW first \in Nat, NEW end \in Int, end < Size
  PROVE  /\ Upto(first, end) \in Seq(Ranks)
         /\ Range(Upto(first, end)) = first .. end
         /\ Distinct(Upto(first, end)) /\ Increasing(Upto(first, end))
<1> DEFINE u == Upto(first, end)
           n == IF end < first THEN 0 ELSE end - first + 1
<1>1. first \in Int
  OBVIOUS
<1>2. /\ u \in Seq(Int) /\ Len(u) = n /\ DOMAIN u = 1 .. n
      /\ \A i \in 1 .. n : u[i] = first + i - 1
  BY <1>1, UptoIs
<1>3. n \in Nat /\ \A i \in 1 .. n : first + i - 1 \in first .. end
  OBVIOUS
<1>4. \A r \in first .. end : r - first + 1 \in 1 .. n /\ first + (r - first + 1) - 1 = r
  OBVIOUS
<1>5. first .. end \subseteq Ranks
  BY ListsAssumption DEF Ranks
<1> HIDE DEF u, n
<1>6. Range(u) = first .. end
  BY <1>2, <1>3, <1>4 DEF Range
<1>7. u \in [1 .. n -> Ranks]
  BY <1>2, <1>3, <1>5
<1>8. u \in Seq(Ranks)
  BY <1>3, <1>7, FunctionSeq
<1>9. Distinct(u) /\ Increasing(u)
  BY <1>2, <1>3 DEF Distinct, Increasing
<1>10. QED
  BY <1>6, <1>8, <1>9 DEF u

(* The ranks of a set, in order: the optional lists and qsort              *)
LEMMA AscendingIs ==
  ASSUME NEW some \in SUBSET Ranks
  PROVE  /\ Ascending(some) \in Seq(Ranks)
         /\ Range(Ascending(some)) = some
         /\ Distinct(Ascending(some)) /\ Increasing(Ascending(some))
<1> DEFINE u == Upto(0, Size - 1)
           at == {r + 1 : r \in some}
<1>1. 0 \in Nat /\ 0 \in Int /\ Size - 1 \in Int /\ Size - 1 < Size /\ Size \in Nat
  BY ListsAssumption
<1>2. u \in Seq(Ranks) /\ Distinct(u) /\ Increasing(u)
  BY <1>1, UptoRanks
<1>3. DOMAIN u = 1 .. Size /\ \A i \in 1 .. Size : u[i] = i - 1
  <2>1. /\ Len(u) = IF Size - 1 < 0 THEN 0 ELSE Size - 1 - 0 + 1
        /\ DOMAIN u = 1 .. Len(u) /\ \A i \in DOMAIN u : u[i] = 0 + i - 1
    BY <1>1, UptoIs
  <2> HIDE DEF u
  <2>2. Len(u) = Size
    BY <2>1, ListsAssumption
  <2>3. QED
    BY <2>1, <2>2
<1>4. \A r \in some : r \in Nat /\ r < Size
  BY ListsAssumption DEF Ranks
<1>5. Ranks \subseteq Int
  BY DEF Ranks
<1> HIDE DEF u
<1>6. {u[i] : i \in at \cap DOMAIN u} = some
  <2>1. \A r \in some : r + 1 \in at \cap DOMAIN u /\ u[r + 1] = r
    <3>1. TAKE r \in some
    <3>2. r + 1 \in at
      OBVIOUS
    <3> HIDE DEF at
    <3>3. PICK k \in 1 .. Size : k = r + 1 /\ k - 1 = r
      BY <1>1, <1>4
    <3>4. k \in DOMAIN u /\ u[k] = k - 1
      BY <1>3
    <3>5. QED
      BY <3>2, <3>3, <3>4
  <2>2. \A i \in at : \E r \in some : i = r + 1
    OBVIOUS
  <2> HIDE DEF at
  <2>3. QED
    BY <2>1, <2>2
<1> HIDE DEF at
<1>7. /\ Picked(u, at) \in Seq(Ranks)
      /\ Range(Picked(u, at)) = some
      /\ Distinct(Picked(u, at))
  BY <1>2, <1>6, PickedIs
<1>8. Increasing(Picked(u, at))
  <2>1. u \in Seq(Int)
    BY <1>2, <1>5, SeqMonotonic
  <2>2. QED
    BY <2>1, <1>2, PickedIncreasing
<1>9. QED
  BY <1>7, <1>8 DEF Ascending, u, at

(* Two lists after one another                                             *)
LEMMA ConcatIs ==
  ASSUME NEW V, NEW s \in Seq(V), NEW t \in Seq(V)
  PROVE  /\ s \o t \in Seq(V) /\ Len(s \o t) = Len(s) + Len(t)
         /\ Range(s \o t) = Range(s) \cup Range(t)
         /\ Distinct(s) /\ Distinct(t) /\ Range(s) \cap Range(t) = {} => Distinct(s \o t)
<1> DEFINE c == s \o t
<1>1. /\ Len(s) \in Nat /\ Len(t) \in Nat /\ DOMAIN s = 1 .. Len(s) /\ DOMAIN t = 1 .. Len(t)
      /\ c \in Seq(V) /\ Len(c) = Len(s) + Len(t) /\ DOMAIN c = 1 .. Len(s) + Len(t)
      /\ \A i \in 1 .. Len(s) : c[i] = s[i]
      /\ \A i \in 1 .. Len(t) : c[Len(s) + i] = t[i]
  OBVIOUS
<1> HIDE DEF c
<1>2. \A i \in 1 .. Len(s) + Len(t) :
        i \in 1 .. Len(s) \/ (i - Len(s) \in 1 .. Len(t) /\ i = Len(s) + (i - Len(s)))
  BY <1>1
<1>3. /\ \A i \in 1 .. Len(s) : i \in 1 .. Len(s) + Len(t)
      /\ \A i \in 1 .. Len(t) : Len(s) + i \in 1 .. Len(s) + Len(t)
  BY <1>1
<1>4. Range(c) = Range(s) \cup Range(t)
  <2>1. ASSUME NEW i \in DOMAIN c
        PROVE  c[i] \in Range(s) \cup Range(t)
    <3>1. CASE i \in 1 .. Len(s)
      BY <1>1, <3>1 DEF Range
    <3>2. CASE i - Len(s) \in 1 .. Len(t) /\ i = Len(s) + (i - Len(s))
      <4>1. PICK j \in 1 .. Len(t) : i = Len(s) + j
        BY <3>2
      <4>2. c[i] = t[j]
        BY <1>1, <4>1
      <4>3. QED
        BY <1>1, <4>2 DEF Range
    <3>3. QED
      BY <1>1, <1>2, <3>1, <3>2
  <2>2. \A i \in DOMAIN s : s[i] \in Range(c)
    BY <1>1, <1>3 DEF Range
  <2>3. \A i \in DOMAIN t : t[i] \in Range(c)
    BY <1>1, <1>3 DEF Range
  <2>4. QED
    BY <2>1, <2>2, <2>3 DEF Range
<1>5. ASSUME Distinct(s), Distinct(t), Range(s) \cap Range(t) = {}
      PROVE  Distinct(c)
  <2>1. SUFFICES ASSUME NEW i \in DOMAIN c, NEW j \in DOMAIN c, c[i] = c[j]
                 PROVE  i = j
    BY DEF Distinct
  <2>2. CASE i \in 1 .. Len(s) /\ j \in 1 .. Len(s)
    BY <1>1, <1>5, <2>1, <2>2 DEF Distinct
  <2>3. CASE i \in 1 .. Len(s) /\ j \notin 1 .. Len(s)
    <3>1. j - Len(s) \in DOMAIN t /\ c[j] = t[j - Len(s)] /\ i \in DOMAIN s /\ c[i] = s[i]
      BY <1>1, <1>2, <2>3
    <3>2. QED
      BY <1>5, <2>1, <3>1 DEF Range
  <2>4. CASE i \notin 1 .. Len(s) /\ j \in 1 .. Len(s)
    <3>1. i - Len(s) \in DOMAIN t /\ c[i] = t[i - Len(s)] /\ j \in DOMAIN s /\ c[j] = s[j]
      BY <1>1, <1>2, <2>4
    <3>2. QED
      BY <1>5, <2>1, <3>1 DEF Range
  <2>5. CASE i \notin 1 .. Len(s) /\ j \notin 1 .. Len(s)
    <3>1. /\ i - Len(s) \in DOMAIN t /\ c[i] = t[i - Len(s)]
          /\ j - Len(s) \in DOMAIN t /\ c[j] = t[j - Len(s)]
      BY <1>1, <1>2, <2>5
    <3>2. i - Len(s) = j - Len(s)
      BY <1>5, <2>1, <3>1 DEF Distinct
    <3>3. QED
      BY <1>1, <3>2
  <2>6. QED
    BY <2>2, <2>3, <2>4, <2>5
<1>6. QED
  BY <1>1, <1>4, <1>5 DEF c

(* Lists with each of their ranks once                                     *)
RankLists == {s \in Seq(Ranks) : Distinct(s)}

(* The optional lists are such                                             *)
LEMMA OptionalIs ==
  ASSUME rank \in Ranks, NEW kind \in Optionals
  PROVE  Optional(kind) \in RankLists
<1>1. rank \in Nat /\ rank < Size /\ Size \in Nat
  BY ListsAssumption DEF Ranks
<1>2. \A some \in SUBSET Ranks : Ascending(some) \in RankLists
  BY AscendingIs DEF RankLists
<1>3. \A first \in Nat, end \in Int : end < Size => Upto(first, end) \in RankLists
  BY UptoRanks DEF RankLists
<1>4. kind \in {"xall", "odd", "even", "all", "self", "pred", "succ"}
  BY DEF Optionals
<1>5. CASE kind = "xall"
  BY <1>2, <1>5 DEF Optional
<1>6. CASE kind = "odd"
  BY <1>2, <1>6 DEF Optional
<1>7. CASE kind = "even"
  BY <1>2, <1>7 DEF Optional
<1>8. CASE kind = "all"
  <2>1. 0 \in Nat /\ Size - 1 \in Int /\ Size - 1 < Size
    BY <1>1
  <2>2. QED
    BY <1>3, <1>8, <2>1 DEF Optional
<1>9. CASE kind = "self"
  <2>1. <<rank>> \in Seq(Ranks) /\ Distinct(<<rank>>)
    BY DEF Distinct
  <2>2. QED
    BY <1>9, <2>1 DEF Optional, RankLists
<1>10. CASE kind = "pred"
  <2>1. 0 \in Nat /\ rank - 1 \in Int /\ rank - 1 < Size
    BY <1>1
  <2>2. QED
    BY <1>3, <1>10, <2>1 DEF Optional
<1>11. CASE kind = "succ"
  <2>1. rank + 1 \in Nat /\ Size - 1 \in Int /\ Size - 1 < Size
    BY <1>1
  <2>2. QED
    BY <1>3, <1>11, <2>1 DEF Optional
<1>12. QED
  BY <1>4, <1>5, <1>6, <1>7, <1>8, <1>9, <1>10, <1>11

(* Sequences put together part by part                                     *)
Flattens(w, parts, n) ==
  w = [i \in 1 .. n |-> IF i = 1 THEN parts[i] ELSE w[i - 1] \o parts[i]]
LEMMA FlattenBy ==
  ASSUME NEW n \in Nat \ {0}, NEW parts, Len(parts) = n, NEW w, Flattens(w, parts, n)
  PROVE  FlattenSeq(parts) = w[n]
<1> DEFINE flatten == CHOOSE f : f = [i \in 1 .. Len(parts) |->
                        IF i = 1 THEN parts[i] ELSE f[i - 1] \o parts[i]]
<1>1. \E f : f = [i \in 1 .. Len(parts) |-> IF i = 1 THEN parts[i] ELSE f[i - 1] \o parts[i]]
  BY DEF Flattens
<1>2. flatten = [i \in 1 .. Len(parts) |-> IF i = 1 THEN parts[i] ELSE flatten[i - 1] \o parts[i]]
  BY <1>1
<1>3. FlattenSeq(parts) = flatten[Len(parts)]
  BY DEF FlattenSeq
<1> HIDE DEF flatten
<1> DEFINE T == {k \in 0 .. n : k = 0 \/ flatten[k] = w[k]}
<1>4. 0 \in T
  OBVIOUS
<1>5. \A k \in 0 .. n : k < n /\ k \in T => k + 1 \in T
  <2>1. SUFFICES ASSUME NEW k \in 0 .. n, k < n, k \in T
                 PROVE  k + 1 \in T
    OBVIOUS
  <2>2. PICK j \in 1 .. n : j = k + 1 /\ j - 1 = k /\ (j = 1 <=> k = 0)
    BY <2>1
  <2>3. flatten[j] = IF j = 1 THEN parts[j] ELSE flatten[j - 1] \o parts[j]
    BY <1>2
  <2>4. w[j] = IF j = 1 THEN parts[j] ELSE w[j - 1] \o parts[j]
    BY DEF Flattens
  <2>5. flatten[j] = w[j]
    BY <2>1, <2>2, <2>3, <2>4
  <2>6. QED
    BY <2>2, <2>5
<1>6. \A k \in 0 .. n : k \in T
  <2> HIDE DEF T
  <2>1. QED
    BY <1>4, <1>5, Induct
<1>7. n \in T /\ n # 0
  BY <1>6
<1>8. QED
  BY <1>3, <1>7

(* one after the other                                                     *)
LEMMA FlattenSteps ==
  ASSUME NEW V, NEW ls \in Seq(Seq(V)), ls # << >>
  PROVE  \E w \in [0 .. Len(ls) -> Seq(V)] :
           /\ w[0] = << >> /\ w[Len(ls)] = FlattenSeq(ls)
           /\ \A i \in 1 .. Len(ls) : w[i] = w[i - 1] \o ls[i]
<1> DEFINE n == Len(ls)
           X == Seq(V)
           step == [i \in 1 .. n |-> [t \in X |-> t \o ls[i]]]
<1>1. n \in Nat \ {0} /\ ls \in [1 .. n -> X]
  BY EmptySeq
<1>2. \A i \in 1 .. n, t \in X : t \o ls[i] \in X
  BY <1>1
<1>3. << >> \in X
  OBVIOUS
<1> HIDE DEF n, X
<1>4. step \in [1 .. n -> [X -> X]] /\ \A i \in 1 .. n, t \in X : step[i][t] = t \o ls[i]
  BY <1>2
<1> HIDE DEF step
<1>5. PICK it \in [SUBSET (1 .. n) -> X] :
        /\ it[{}] = << >>
        /\ \A s \in SUBSET (1 .. n) : s # {} => it[s] = step[Max(s)][it[s \ {Max(s)}]]
  <2>1. n \in Nat
    BY <1>1
  <2>2. Folding(X, << >>, n, step) # {}
    BY <2>1, <1>3, <1>4, FoldExists
  <2>3. QED
    BY <2>2 DEF Folding
<1> DEFINE w == [i \in 0 .. n |-> it[1 .. i]]
<1>6. w \in [0 .. n -> X] /\ w[0] = << >>
  <2>1. \A i \in 0 .. n : 1 .. i \in SUBSET (1 .. n)
    BY <1>1
  <2>2. 1 .. 0 = {} /\ 0 \in 0 .. n
    BY <1>1
  <2>3. QED
    BY <2>1, <2>2, <1>5
<1>7. \A i \in 1 .. n : w[i] = w[i - 1] \o ls[i]
  <2>1. TAKE i \in 1 .. n
  <2>2. i \in Nat /\ i \in 0 .. n /\ i - 1 \in 0 .. n /\ 1 .. i \in SUBSET (1 .. n) /\ i \in 1 .. i
    BY <1>1
  <2>3. (1 .. i) \ {i} = 1 .. i - 1 /\ 1 .. i - 1 \in SUBSET (1 .. n)
    BY <1>1
  <2>4. Max(1 .. i) = i
    BY <2>2, Greatest
  <2>5. it[1 .. i] = step[i][it[1 .. i - 1]]
    BY <1>5, <2>2, <2>3, <2>4
  <2>6. QED
    BY <1>4, <1>5, <2>2, <2>3, <2>5
<1> HIDE DEF w
<1> DEFINE v == [i \in 1 .. n |-> w[i]]
<1>8. Flattens(v, ls, n)
  <2>1. \A i \in 1 .. n : v[i] = IF i = 1 THEN ls[i] ELSE v[i - 1] \o ls[i]
    <3>1. TAKE i \in 1 .. n
    <3>2. CASE i = 1
      <4>1. w[i - 1] = << >> /\ ls[i] \in Seq(V)
        BY <1>1, <1>6, <3>2 DEF X
      <4>2. << >> \o ls[i] = ls[i]
        BY <4>1, ConcatEmptySeq
      <4>3. QED
        BY <1>7, <3>2, <4>1, <4>2
    <3>3. CASE i # 1
      <4>1. i - 1 \in 1 .. n
        BY <1>1, <3>3
      <4>2. QED
        BY <1>7, <3>3, <4>1
    <3>4. QED
      BY <3>2, <3>3
  <2>2. v = [i \in 1 .. n |-> v[i]]
    OBVIOUS
  <2> HIDE DEF v
  <2>3. QED
    BY <2>1, <2>2 DEF Flattens
<1>9. v[n] = w[n]
  BY <1>1
<1> HIDE DEF v
<1>10. FlattenSeq(ls) = v[n]
  BY <1>1, <1>8, FlattenBy DEF n
<1>11. QED
  BY <1>6, <1>7, <1>9, <1>10 DEF n, X

-----------------------------------------------------------------------------
(* The set operations                                                      *)

(* Among lists a and rest: what the loop over rest makes of a              *)
Joined(a, rest) == FoldLeft(AddNew, a, rest)

(* the entries of all lists but the first, in order                        *)
Others(ls) == FlattenSeq(Tail(ls))
LEMMA OthersAre ==
  ASSUME NEW V, NEW ls \in Seq(Seq(V)), ls # << >>
  PROVE  /\ Others(ls) \in Seq(V)
         /\ Range(Others(ls)) = UNION {Range(ls[i]) : i \in 2 .. Len(ls)}
         /\ UnionOf(ls) = Joined(ls[1], Others(ls))
<1> DEFINE t == Tail(ls)
           n == Len(t)
<1>1. t \in Seq(Seq(V)) /\ n \in Nat /\ n = Len(ls) - 1 /\ \A i \in 1 .. n : t[i] = ls[i + 1]
  OBVIOUS
<1>2. UnionOf(ls) = Joined(ls[1], Others(ls))
  BY DEF UnionOf, Joined, Others
<1> HIDE DEF t
<1>3. CASE t = << >>
  <2>1. FlattenSeq(t) = << >> /\ Len(ls) = 1
    BY <1>1, <1>3 DEF FlattenSeq
  <2>2. 2 .. Len(ls) = {}
    BY <2>1
  <2>3. Range(<< >>) = {} /\ << >> \in Seq(V)
    BY DEF Range
  <2>4. UNION {Range(ls[i]) : i \in 2 .. Len(ls)} = {}
    BY <2>2
  <2>5. Others(ls) = << >>
    BY <2>1 DEF Others, t
  <2>6. QED
    BY <2>3, <2>4, <2>5, <1>2
<1>4. CASE t # << >>
  <2>1. PICK w \in [0 .. n -> Seq(V)] :
          /\ w[0] = << >> /\ w[n] = FlattenSeq(t)
          /\ \A i \in 1 .. n : w[i] = w[i - 1] \o t[i]
    BY <1>1, <1>4, FlattenSteps
  <2> DEFINE Before(i) == UNION {Range(t[j]) : j \in 1 .. i}
             T == {i \in 0 .. n : Range(w[i]) = Before(i)}
  <2>2. 0 \in T
    BY <1>1, <2>1 DEF Range
  <2>3. \A i \in 0 .. n : i < n /\ i \in T => i + 1 \in T
    <3>1. SUFFICES ASSUME NEW i \in 0 .. n, i < n, Range(w[i]) = Before(i)
                   PROVE  i + 1 \in T
      OBVIOUS
    <3>2. PICK k \in 1 .. n : k = i + 1 /\ k - 1 = i
      <4>1. n \in Nat /\ i \in 0 .. n /\ i < n
        BY <1>1, <3>1
      <4> HIDE DEF n
      <4>2. QED
        BY <4>1
    <3>3. w[k] = w[i] \o t[k] /\ w[i] \in Seq(V) /\ t[k] \in Seq(V)
      <4>1. w[i] \in Seq(V)
        BY <2>1
      <4>2. t[k] \in Seq(V)
        BY <1>1
      <4>3. w[k] = w[i] \o t[k]
        BY <2>1, <3>2
      <4>4. QED
        BY <4>1, <4>2, <4>3
    <3>4. Range(w[k]) = Range(w[i]) \cup Range(t[k])
      BY <3>3, ConcatIs
    <3>5. Before(k) = Before(i) \cup Range(t[k])
      <4>1. \A j \in 1 .. k : j \in 1 .. i \/ j = k
        BY <3>2
      <4>2. (\A j \in 1 .. i : j \in 1 .. k) /\ k \in 1 .. k
        BY <3>2
      <4>3. \A v : (\E j \in 1 .. k : v \in Range(t[j]))
                     <=> (\E j \in 1 .. i : v \in Range(t[j])) \/ v \in Range(t[k])
        BY <4>1, <4>2
      <4>4. QED
        BY <4>3
    <3>6. Range(w[k]) = Before(k)
      BY <3>1, <3>4, <3>5
    <3>7. k \in 0 .. n
      BY <1>1
    <3> HIDE DEF Before
    <3>8. QED
      BY <3>2, <3>6, <3>7
  <2>4. n \in T
    <3> HIDE DEF T, n
    <3>1. \A i \in 0 .. n : i \in T
      BY <1>1, <2>2, <2>3, Induct
    <3>2. QED
      BY <1>1, <3>1
  <2>5. \A v : (\E i \in 1 .. n : v \in Range(t[i])) <=> (\E i \in 2 .. Len(ls) : v \in Range(ls[i]))
    <3>1. \A i \in 1 .. n : i + 1 \in 2 .. Len(ls) /\ t[i] = ls[i + 1]
      BY <1>1
    <3>2. \A i \in 2 .. Len(ls) : i - 1 \in 1 .. n /\ t[i - 1] = ls[i]
      <4>1. TAKE i \in 2 .. Len(ls)
      <4>2. i - 1 \in 1 .. n /\ i - 1 + 1 = i
        BY <1>1
      <4>3. QED
        BY <1>1, <4>2
    <3>3. QED
      BY <3>1, <3>2
  <2>6. UNION {Range(t[i]) : i \in 1 .. n} = UNION {Range(ls[i]) : i \in 2 .. Len(ls)}
    BY <2>5
  <2>7. Range(FlattenSeq(t)) = UNION {Range(t[i]) : i \in 1 .. n} /\ FlattenSeq(t) \in Seq(V)
    BY <1>1, <2>1, <2>4
  <2>8. QED
    BY <1>2, <2>6, <2>7 DEF Others, t
<1>5. QED
  BY <1>3, <1>4

LEMMA JoinedIs ==
  ASSUME NEW a \in RankLists, NEW rest \in Seq(Ranks)
  PROVE  /\ Joined(a, rest) \in RankLists
         /\ Range(Joined(a, rest)) = Range(a) \cup Range(rest)
         /\ Len(a) <= Len(Joined(a, rest))
         /\ \A k \in 1 .. Len(a) : Joined(a, rest)[k] = a[k]
<1>1. a \in Seq(Ranks) /\ Distinct(a)
  BY DEF RankLists
<1>2. QED
  BY <1>1, UnionIs DEF Joined, RankLists

(* The entries of the first list are those of the union that come first    *)
LEMMA JoinedFirst ==
  ASSUME NEW a \in RankLists, NEW rest \in Seq(Ranks), NEW k \in 1 .. Len(Joined(a, rest))
  PROVE  Joined(a, rest)[k] \in Range(a) <=> k <= Len(a)
<1> DEFINE u == Joined(a, rest)
<1>1. /\ u \in Seq(Ranks) /\ Distinct(u) /\ Len(a) <= Len(u) /\ a \in Seq(Ranks)
      /\ \A i \in 1 .. Len(a) : u[i] = a[i]
  BY JoinedIs DEF RankLists
<1>2. Len(u) \in Nat /\ Len(a) \in Nat /\ DOMAIN u = 1 .. Len(u) /\ DOMAIN a = 1 .. Len(a)
  BY <1>1
<1> HIDE DEF u
<1>3. k \in 1 .. Len(u)
  BY DEF u
<1>4. ASSUME u[k] \in Range(a)
      PROVE  k <= Len(a)
  <2>1. PICK i \in 1 .. Len(a) : u[k] = a[i]
    BY <1>2, <1>4 DEF Range
  <2>2. i \in 1 .. Len(u) /\ u[i] = u[k]
    BY <1>1, <1>2, <2>1
  <2>3. i = k
    BY <1>1, <1>2, <1>3, <2>2 DEF Distinct
  <2>4. QED
    BY <1>2, <2>3
<1>5. ASSUME k <= Len(a)
      PROVE  u[k] \in Range(a)
  <2>1. k \in 1 .. Len(a)
    BY <1>2, <1>3, <1>5
  <2>2. QED
    BY <1>1, <1>2, <2>1 DEF Range
<1>6. QED
  BY <1>4, <1>5 DEF u

(* How many entries of a list are v                                        *)
Matches(s, v) == Cardinality({j \in DOMAIN s : s[j] = v})
Is(b) == IF b THEN 1 ELSE 0
LEMMA MatchesAdd ==
  ASSUME NEW c \in Seq(Ranks), NEW b \in RankLists, NEW v
  PROVE  /\ Matches(c, v) \in Nat
         /\ Matches(c \o b, v) = Matches(c, v) + Is(v \in Range(b))
<1> DEFINE d == c \o b
           old == {j \in DOMAIN c : c[j] = v}
           at == {j \in DOMAIN d : d[j] = v}
<1>1. Matches(c \o b, v) = Cardinality(at) /\ Matches(c, v) = Cardinality(old)
  BY DEF Matches
<1>2. /\ b \in Seq(Ranks) /\ Distinct(b) /\ Len(c) \in Nat /\ Len(b) \in Nat
      /\ DOMAIN c = 1 .. Len(c) /\ DOMAIN b = 1 .. Len(b)
  BY DEF RankLists
<1>3. /\ DOMAIN d = 1 .. Len(c) + Len(b)
      /\ \A i \in 1 .. Len(c) : d[i] = c[i]
      /\ \A i \in 1 .. Len(b) : d[Len(c) + i] = b[i]
  BY <1>2
<1> HIDE DEF d
<1>4. \A j \in at : j \in old \/ \E i \in DOMAIN b : j = Len(c) + i /\ b[i] = v
  <2>1. TAKE j \in at
  <2>2. CASE j \in 1 .. Len(c)
    BY <1>2, <1>3, <2>2
  <2>3. CASE j \notin 1 .. Len(c)
    <3>1. PICK i \in 1 .. Len(b) : j = Len(c) + i
      <4>1. j - Len(c) \in 1 .. Len(b) /\ j = Len(c) + (j - Len(c))
        BY <1>2, <1>3, <2>3
      <4>2. QED
        BY <4>1
    <3>2. QED
      BY <1>2, <1>3, <3>1
  <2>4. QED
    BY <2>2, <2>3
<1>5. old \subseteq at
  BY <1>2, <1>3
<1>6. \A i \in DOMAIN b : b[i] = v => Len(c) + i \in at
  <2>1. \A i \in 1 .. Len(b) : Len(c) + i \in 1 .. Len(c) + Len(b)
    BY <1>2
  <2>2. QED
    BY <1>2, <1>3, <2>1
<1>7. \A j \in old : j \in 1 .. Len(c)
  BY <1>2
<1>8. IsFiniteSet(old) /\ Cardinality(old) \in Nat
  <2>1. IsFiniteSet(1 .. Len(c)) /\ old \in SUBSET (1 .. Len(c))
    BY <1>2, FS_Interval
  <2> HIDE DEF old
  <2>2. QED
    BY <2>1, FS_Subset, FS_CardinalityType
<1> HIDE DEF at, old
<1>9. CASE v \notin Range(b)
  <2>1. at = old
    BY <1>4, <1>5, <1>9 DEF Range
  <2>2. QED
    BY <1>1, <1>8, <1>9, <2>1 DEF Is
<1>10. CASE v \in Range(b)
  <2>1. PICK i \in DOMAIN b : b[i] = v
    BY <1>10 DEF Range
  <2>2. at = old \cup {Len(c) + i}
    BY <1>2, <1>4, <1>5, <1>6, <2>1 DEF Distinct
  <2>3. Len(c) + i \notin old
    BY <1>2, <1>7
  <2>4. Cardinality(at) = Cardinality(old) + 1
    BY <2>2, <2>3, <1>8, FS_AddElement
  <2>5. QED
    BY <1>1, <1>8, <1>10, <2>4 DEF Is
<1>11. QED
  BY <1>9, <1>10

(* in all lists but the first: as many as there are lists when all have it *)
LEMMA MatchesAll ==
  ASSUME NEW ls \in Seq(RankLists), ls # << >>, NEW v
  PROVE  /\ Matches(Others(ls), v) \in 0 .. Len(ls) - 1
         /\ Matches(Others(ls), v) = Len(ls) - 1 <=> \A i \in 2 .. Len(ls) : v \in Range(ls[i])
<1> DEFINE t == Tail(ls)
           n == Len(t)
<1>1. t \in Seq(RankLists) /\ n \in Nat /\ n = Len(ls) - 1 /\ \A i \in 1 .. n : t[i] = ls[i + 1]
  OBVIOUS
<1> HIDE DEF t
<1>2. (\A i \in 1 .. n : v \in Range(t[i])) <=> (\A i \in 2 .. Len(ls) : v \in Range(ls[i]))
  <2>1. \A i \in 1 .. n : i + 1 \in 2 .. Len(ls) /\ t[i] = ls[i + 1]
    BY <1>1
  <2>2. \A i \in 2 .. Len(ls) : i - 1 \in 1 .. n /\ t[i - 1] = ls[i]
    <3>1. TAKE i \in 2 .. Len(ls)
    <3>2. i - 1 \in 1 .. n /\ i - 1 + 1 = i
      BY <1>1
    <3>3. QED
      BY <1>1, <3>2
  <2>3. QED
    BY <2>1, <2>2
<1>3. Matches(<< >>, v) = 0
  <2>1. {j \in DOMAIN << >> : << >>[j] = v} = {}
    OBVIOUS
  <2>2. QED
    BY <2>1, FS_EmptySet DEF Matches
<1>4. CASE t = << >>
  <2>1. FlattenSeq(t) = << >> /\ n = 0
    BY <1>4 DEF FlattenSeq
  <2>2. Matches(Others(ls), v) = 0
    BY <2>1, <1>3 DEF Others, t
  <2> HIDE DEF n
  <2>3. QED
    BY <2>1, <2>2, <1>1, <1>2
<1>5. CASE t # << >>
  <2>1. t \in Seq(Seq(Ranks))
    <3>1. RankLists \subseteq Seq(Ranks)
      BY DEF RankLists
    <3>2. QED
      BY <3>1, <1>1, SeqMonotonic
  <2>2. PICK w \in [0 .. n -> Seq(Ranks)] :
          /\ w[0] = << >> /\ w[n] = FlattenSeq(t)
          /\ \A i \in 1 .. n : w[i] = w[i - 1] \o t[i]
    BY <2>1, <1>5, FlattenSteps
  <2> DEFINE All(i) == \A j \in 1 .. i : v \in Range(t[j])
             T == {i \in 0 .. n : Matches(w[i], v) \in 0 .. i /\ (Matches(w[i], v) = i <=> All(i))}
  <2>3. 0 \in T
    BY <1>1, <1>3, <2>2
  <2>4. \A i \in 0 .. n : i < n /\ i \in T => i + 1 \in T
    <3>1. SUFFICES ASSUME NEW i \in 0 .. n, i < n, i \in T
                   PROVE  i + 1 \in T
      OBVIOUS
    <3>2. PICK k \in 1 .. n : k = i + 1 /\ k - 1 = i
      BY <1>1, <3>1
    <3>3. w[k] = w[i] \o t[k] /\ w[i] \in Seq(Ranks) /\ t[k] \in RankLists
      <4>1. w[i] \in Seq(Ranks)
        BY <2>2
      <4>2. t[k] \in RankLists
        BY <1>1
      <4>3. w[k] = w[i] \o t[k]
        BY <2>2, <3>2
      <4>4. QED
        BY <4>1, <4>2, <4>3
    <3>4. Matches(w[k], v) = Matches(w[i], v) + Is(v \in Range(t[k]))
      BY <3>3, MatchesAdd
    <3>5. All(k) <=> All(i) /\ v \in Range(t[k])
      <4>1. \A j \in 1 .. k : j \in 1 .. i \/ j = k
        BY <3>2
      <4>2. (\A j \in 1 .. i : j \in 1 .. k) /\ k \in 1 .. k
        BY <3>2
      <4>3. QED
        BY <4>1, <4>2
    <3>6. Matches(w[i], v) \in 0 .. i /\ (Matches(w[i], v) = i <=> All(i))
      BY <3>1
    <3> HIDE DEF All
    <3>7. Matches(w[k], v) \in 0 .. k /\ (Matches(w[k], v) = k <=> All(k))
      BY <3>2, <3>4, <3>5, <3>6 DEF Is
    <3>8. k \in 0 .. n
      BY <1>1
    <3>9. QED
      BY <3>2, <3>7, <3>8
  <2>5. n \in T
    <3> HIDE DEF T, n
    <3>1. \A i \in 0 .. n : i \in T
      BY <1>1, <2>3, <2>4, Induct
    <3>2. QED
      BY <1>1, <3>1
  <2>6. Matches(FlattenSeq(t), v) \in 0 .. n /\ (Matches(FlattenSeq(t), v) = n <=> All(n))
    BY <2>2, <2>5
  <2>7. QED
    BY <2>6, <1>1, <1>2 DEF Others, t
<1>6. QED
  BY <1>4, <1>5

(* what the loops of bc_plist_isect count                                  *)
LEMMA InclusionIs ==
  ASSUME NEW ls, NEW a \in RankLists, NEW rest \in Seq(Ranks), ls[1] = a,
         UnionOf(ls) = Joined(a, rest), FlattenSeq(Tail(ls)) = rest,
         NEW k \in 1 .. Len(Joined(a, rest))
  PROVE  Inclusion(ls, k) = Is(Joined(a, rest)[k] \in Range(a)) + Matches(rest, Joined(a, rest)[k])
<1> DEFINE u == Joined(a, rest)
<1>1. u \in Seq(Ranks) /\ Distinct(u)
  BY JoinedIs DEF RankLists
<1>2. u[k] \in Range(a) <=> k <= Len(a)
  BY JoinedFirst
<1>3. Len(u) \in Nat /\ DOMAIN u = 1 .. Len(u)
  BY <1>1
<1> HIDE DEF u
<1>4. k \in 1 .. Len(u)
  BY DEF u
<1>5. ~ \E j \in 1 .. (k - 1) : u[j] = u[k]
  <2>1. \A j \in 1 .. (k - 1) : j \in DOMAIN u /\ k \in DOMAIN u /\ j # k
    BY <1>3, <1>4
  <2>2. QED
    BY <1>1, <2>1 DEF Distinct
<1>6. Inclusion(ls, k) = (IF k <= Len(a) THEN 1 ELSE 0) + Matches(rest, u[k])
  BY <1>5 DEF Inclusion, Matches, u
<1>7. QED
  BY <1>2, <1>6 DEF Is, u

(* what several lists are, as two of them and as three                     *)
Several(ls) == ls \in Seq(RankLists) /\ ls # << >>
LEMMA FewLists ==
  ASSUME NEW a \in RankLists, NEW b \in RankLists, NEW c \in RankLists
  PROVE  /\ Several(<<a, b>>) /\ Several(<<a, c, b>>)
         /\ UNION {Range(<<a, b>>[i]) : i \in 1 .. Len(<<a, b>>)} = Range(a) \cup Range(b)
         /\ UNION {Range(<<a, c, b>>[i]) : i \in 1 .. Len(<<a, c, b>>)}
              = Range(a) \cup Range(b) \cup Range(c)
         /\ {v \in Range(<<a, b>>[1]) : \A i \in 1 .. Len(<<a, b>>) : v \in Range(<<a, b>>[i])}
              = Range(a) \cap Range(b)
         /\ {v \in Range(<<a, c, b>>[1]) :
                \A i \in 1 .. Len(<<a, c, b>>) : v \in Range(<<a, c, b>>[i])}
              = Range(a) \cap Range(b) \cap Range(c)
<1> DEFINE d == <<a, b>>
           t == <<a, c, b>>
<1>1. /\ d \in Seq(RankLists) /\ d # << >> /\ Len(d) = 2 /\ d[1] = a /\ d[2] = b
      /\ t \in Seq(RankLists) /\ t # << >> /\ Len(t) = 3 /\ t[1] = a /\ t[2] = c /\ t[3] = b
  OBVIOUS
<1> HIDE DEF d, t
<1>2. (\A i \in 1 .. 2 : i = 1 \/ i = 2) /\ 1 \in 1 .. 2 /\ 2 \in 1 .. 2
  OBVIOUS
<1>3. (\A i \in 1 .. 3 : i = 1 \/ i = 2 \/ i = 3) /\ 1 \in 1 .. 3 /\ 2 \in 1 .. 3 /\ 3 \in 1 .. 3
  OBVIOUS
<1>4. /\ UNION {Range(d[i]) : i \in 1 .. 2} = Range(a) \cup Range(b)
      /\ {v \in Range(d[1]) : \A i \in 1 .. 2 : v \in Range(d[i])} = Range(a) \cap Range(b)
  BY <1>1, <1>2
<1>5. UNION {Range(t[i]) : i \in 1 .. 3} = Range(a) \cup Range(b) \cup Range(c)
  BY <1>1, <1>3
<1>6. {v \in Range(t[1]) : \A i \in 1 .. 3 : v \in Range(t[i])}
        = Range(a) \cap Range(b) \cap Range(c)
  BY <1>1, <1>3
<1>7. QED
  BY <1>1, <1>4, <1>5, <1>6 DEF d, t, Several

(* bc_plist_union of any number of lists: whatever their order and what    *)
(* they share, each rank of any of them is in the result, once.            *)
THEOREM UnionOfAny ==
  ASSUME NEW ls, Several(ls)
  PROVE  /\ UnionOf(ls) \in RankLists
         /\ IsSet(UnionOf(ls), UNION {Range(ls[i]) : i \in 1 .. Len(ls)})
<1>1. ls \in Seq(Seq(Ranks)) /\ ls # << >>
  <2>1. RankLists \subseteq Seq(Ranks)
    BY DEF RankLists
  <2>2. QED
    BY <2>1, SeqMonotonic DEF Several
<1>2. ls[1] \in RankLists /\ Len(ls) \in Nat \ {0}
  BY EmptySeq DEF Several
<1>3. /\ Others(ls) \in Seq(Ranks)
      /\ Range(Others(ls)) = UNION {Range(ls[i]) : i \in 2 .. Len(ls)}
      /\ UnionOf(ls) = Joined(ls[1], Others(ls))
  BY <1>1, OthersAre
<1>4. UnionOf(ls) \in RankLists /\ Range(UnionOf(ls)) = Range(ls[1]) \cup Range(Others(ls))
  BY <1>2, <1>3, JoinedIs
<1>5. UNION {Range(ls[i]) : i \in 1 .. Len(ls)}
        = Range(ls[1]) \cup UNION {Range(ls[i]) : i \in 2 .. Len(ls)}
  <2>1. (\A i \in 1 .. Len(ls) : i = 1 \/ i \in 2 .. Len(ls)) /\ 1 \in 1 .. Len(ls)
    BY <1>2
  <2>2. \A i \in 2 .. Len(ls) : i \in 1 .. Len(ls)
    BY <1>2
  <2>3. QED
    BY <2>1, <2>2
<1>6. QED
  BY <1>3, <1>4, <1>5 DEF IsSet, RankLists

LEMMA UnionCorrect ==
  ASSUME NEW a \in RankLists, NEW b \in RankLists, NEW c \in RankLists
  PROVE  /\ UnionOf(<<a, b>>) \in RankLists
         /\ IsSet(UnionOf(<<a, b>>), Range(a) \cup Range(b))
         /\ IsSet(UnionOf(<<a, c, b>>), Range(a) \cup Range(b) \cup Range(c))
<1> DEFINE d == <<a, b>>
           t == <<a, c, b>>
<1>1. /\ Several(d) /\ UNION {Range(d[i]) : i \in 1 .. Len(d)} = Range(a) \cup Range(b)
      /\ Several(t)
      /\ UNION {Range(t[i]) : i \in 1 .. Len(t)} = Range(a) \cup Range(b) \cup Range(c)
  BY FewLists
<1> HIDE DEF d, t
<1>2. /\ UnionOf(d) \in RankLists /\ IsSet(UnionOf(d), Range(a) \cup Range(b))
      /\ IsSet(UnionOf(t), Range(a) \cup Range(b) \cup Range(c))
  <2>1. UnionOf(d) \in RankLists /\ IsSet(UnionOf(d), UNION {Range(d[i]) : i \in 1 .. Len(d)})
    BY <1>1, UnionOfAny
  <2>2. IsSet(UnionOf(t), UNION {Range(t[i]) : i \in 1 .. Len(t)})
    BY <1>1, UnionOfAny
  <2>3. QED
    BY <1>1, <2>1, <2>2
<1>3. QED
  BY <1>2 DEF d, t

(* bc_plist_isect: the entries of the union which every list has           *)
LEMMA IsectPicks ==
  ASSUME NEW ls, NEW a \in RankLists, NEW rest \in Seq(Ranks),
         UnionOf(ls) = Joined(a, rest),
         NEW all \in SUBSET Range(a),
         \A k \in 1 .. Len(Joined(a, rest)) :
           Inclusion(ls, k) = Len(ls) <=> Joined(a, rest)[k] \in all
  PROVE  IsectOf(ls) \in RankLists /\ IsSet(IsectOf(ls), all)
<1> DEFINE u == Joined(a, rest)
           at == {k \in 1 .. Len(UnionOf(ls)) : Inclusion(ls, k) = Len(ls)}
<1>1. u \in Seq(Ranks) /\ Distinct(u) /\ Range(a) \subseteq Range(u) /\ DOMAIN u = 1 .. Len(u)
  BY JoinedIs DEF RankLists
<1>2. IsectOf(ls) = Picked(u, at)
  BY DEF IsectOf
<1>3. at = {k \in 1 .. Len(u) : u[k] \in all}
  OBVIOUS
<1> HIDE DEF u, at
<1>4. {u[i] : i \in at \cap DOMAIN u} = all
  <2>1. \A v \in all : \E i \in DOMAIN u : u[i] = v
    BY <1>1 DEF Range
  <2>2. QED
    BY <1>1, <1>3, <2>1
<1>5. Picked(u, at) \in Seq(Ranks) /\ Range(Picked(u, at)) = all /\ Distinct(Picked(u, at))
  BY <1>1, <1>4, PickedIs
<1>6. QED
  BY <1>2, <1>5 DEF RankLists, IsSet

(* bc_plist_isect of any number of lists: inclusion is the number of lists *)
(* at the first entry of each rank that all of them have, and nowhere else *)
(* - not where some lists have a rank and the first does not.              *)
THEOREM IsectOfAny ==
  ASSUME NEW ls, Several(ls)
  PROVE  /\ IsectOf(ls) \in RankLists
         /\ IsSet(IsectOf(ls), {v \in Range(ls[1]) : \A i \in 1 .. Len(ls) : v \in Range(ls[i])})
<1> DEFINE a == ls[1]
           rest == Others(ls)
           all == {v \in Range(ls[1]) : \A i \in 1 .. Len(ls) : v \in Range(ls[i])}
<1>1. ls \in Seq(RankLists) /\ ls \in Seq(Seq(Ranks)) /\ ls # << >>
  <2>1. RankLists \subseteq Seq(Ranks)
    BY DEF RankLists
  <2>2. QED
    BY <2>1, SeqMonotonic DEF Several
<1>2. a \in RankLists /\ Len(ls) \in Nat \ {0} /\ ls[1] = a
  BY EmptySeq DEF Several
<1>3. rest \in Seq(Ranks) /\ UnionOf(ls) = Joined(a, rest) /\ FlattenSeq(Tail(ls)) = rest
  BY <1>1, OthersAre DEF Others
<1>4. \A v : v \in all <=> v \in Range(a) /\ \A i \in 2 .. Len(ls) : v \in Range(ls[i])
  <2>1. \A i \in 1 .. Len(ls) : i = 1 \/ i \in 2 .. Len(ls)
    BY <1>2
  <2>2. \A i \in 2 .. Len(ls) : i \in 1 .. Len(ls)
    BY <1>2
  <2>3. QED
    BY <2>1, <2>2
<1>5. \A v : /\ Matches(rest, v) \in 0 .. Len(ls) - 1
             /\ Matches(rest, v) = Len(ls) - 1 <=> \A i \in 2 .. Len(ls) : v \in Range(ls[i])
  BY <1>1, MatchesAll
<1>6. all \in SUBSET Range(a)
  OBVIOUS
<1> HIDE DEF a, rest, all
<1>7. \A k \in 1 .. Len(Joined(a, rest)) : Inclusion(ls, k) = Len(ls) <=> Joined(a, rest)[k] \in all
  <2>1. TAKE k \in 1 .. Len(Joined(a, rest))
  <2> DEFINE v == Joined(a, rest)[k]
             m == Matches(rest, v)
  <2>2. Inclusion(ls, k) = Is(v \in Range(a)) + m
    BY <1>2, <1>3, InclusionIs
  <2>3. /\ m \in 0 .. Len(ls) - 1
        /\ m = Len(ls) - 1 <=> \A i \in 2 .. Len(ls) : v \in Range(ls[i])
    BY <1>5
  <2>4. v \in all <=> v \in Range(a) /\ \A i \in 2 .. Len(ls) : v \in Range(ls[i])
    BY <1>4
  <2> HIDE DEF m, v
  <2>5. Is(v \in Range(a)) + m = Len(ls) <=> v \in Range(a) /\ m = Len(ls) - 1
    <3>1. m \in 0 .. Len(ls) - 1 /\ Len(ls) \in Nat
      BY <1>2, <2>3
    <3>2. QED
      BY <3>1 DEF Is
  <2>6. Inclusion(ls, k) = Len(ls) <=> v \in all
    BY <2>2, <2>3, <2>4, <2>5
  <2>7. QED
    BY <2>6 DEF v
<1>8. IsectOf(ls) \in RankLists /\ IsSet(IsectOf(ls), all)
  BY <1>2, <1>3, <1>6, <1>7, IsectPicks
<1>9. QED
  BY <1>8 DEF all

LEMMA IsectCorrect ==
  ASSUME NEW a \in RankLists, NEW b \in RankLists, NEW c \in RankLists
  PROVE  /\ IsectOf(<<a, b>>) \in RankLists
         /\ IsSet(IsectOf(<<a, b>>), Range(a) \cap Range(b))
         /\ IsSet(IsectOf(<<a, c, b>>), Range(a) \cap Range(b) \cap Range(c))
<1> DEFINE d == <<a, b>>
           t == <<a, c, b>>
<1>1. /\ Several(d) /\ Several(t)
      /\ {v \in Range(d[1]) : \A i \in 1 .. Len(d) : v \in Range(d[i])} = Range(a) \cap Range(b)
      /\ {v \in Range(t[1]) : \A i \in 1 .. Len(t) : v \in Range(t[i])}
           = Range(a) \cap Range(b) \cap Range(c)
  BY FewLists
<1> HIDE DEF d, t
<1>2. /\ IsectOf(d) \in RankLists /\ IsSet(IsectOf(d), Range(a) \cap Range(b))
  BY <1>1, IsectOfAny
<1>3. IsSet(IsectOf(t), Range(a) \cap Range(b) \cap Range(c))
  BY <1>1, IsectOfAny
<1>4. QED
  BY <1>2, <1>3 DEF d, t

(* bc_plist_diff                                                           *)
LEMMA DiffCorrect ==
  ASSUME NEW a \in RankLists, NEW b \in RankLists
  PROVE  DiffOf(a, b) \in RankLists /\ IsSet(DiffOf(a, b), Range(a) \ Range(b))
<1> DEFINE at == DOMAIN a \ Flagged(a, b)
<1>1. a \in Seq(Ranks) /\ Distinct(a)
  BY DEF RankLists
<1>2. at = {j \in DOMAIN a : a[j] \notin Range(b)}
  <2>1. \A j \in DOMAIN a : \A i \in 1 .. (j - 1) : i \in DOMAIN a /\ i # j
    BY <1>1
  <2>2. \A j \in DOMAIN a : \A i \in 1 .. (j - 1) : a[i] # a[j]
    BY <1>1, <2>1 DEF Distinct
  <2>3. QED
    BY <2>2 DEF Flagged
<1>3. DiffOf(a, b) = Picked(a, at)
  BY DEF DiffOf
<1> HIDE DEF at
<1>4. {a[i] : i \in at \cap DOMAIN a} = Range(a) \ Range(b)
  BY <1>2 DEF Range
<1>5. /\ Picked(a, at) \in Seq(Ranks) /\ Distinct(Picked(a, at))
      /\ Range(Picked(a, at)) = Range(a) \ Range(b)
  BY <1>1, <1>4, PickedIs
<1>6. QED
  BY <1>3, <1>5 DEF RankLists, IsSet

(* bc_plist_create with a negative count: the ranks up to the last one     *)
(* left out                                                                *)
GapsSoFar(e, n) ==
  {acc \in GapState : /\ acc.s = IF n = 0 THEN 0 ELSE e[n] + 1
                      /\ Range(acc.plist) = (0 .. acc.s - 1) \ {e[i] : i \in 1 .. n}
                      /\ Distinct(acc.plist)}
LEMMA GapsFilled ==
  ASSUME NEW e \in Seq(Ranks), Increasing(e), NEW n \in 1 .. Len(e), NEW acc \in GapsSoFar(e, n - 1)
  PROVE  FillGap(acc, e[n]) \in GapsSoFar(e, n)
<1>1. /\ Len(e) \in Nat /\ DOMAIN e = 1 .. Len(e) /\ n \in DOMAIN e
      /\ e[n] \in Ranks /\ e[n] \in Nat /\ e[n] < Size
  BY ListsAssumption DEF Ranks
<1>2. /\ acc \in GapState /\ acc.s \in Nat /\ acc.plist \in Seq(Ranks) /\ Distinct(acc.plist)
      /\ acc.s = IF n - 1 = 0 THEN 0 ELSE e[n - 1] + 1
      /\ Range(acc.plist) = (0 .. acc.s - 1) \ {e[i] : i \in 1 .. n - 1}
  BY DEF GapsSoFar, GapState
<1>3. \A i \in 1 .. n - 1 : i \in DOMAIN e /\ i < n /\ e[i] \in Nat /\ e[i] < e[n]
  <2>1. TAKE i \in 1 .. n - 1
  <2>2. i \in DOMAIN e /\ i < n
    BY <1>1
  <2>3. e[i] \in Ranks
    BY <1>1, <2>2
  <2>4. QED
    BY <1>1, <2>2, <2>3, ListsAssumption DEF Increasing, Ranks
<1>4. acc.s <= e[n]
  <2>1. CASE n - 1 = 0
    BY <1>1, <1>2, <2>1
  <2>2. CASE n - 1 # 0
    <3>1. n - 1 \in 1 .. n - 1
      BY <1>1, <2>2
    <3>2. e[n - 1] \in Nat /\ e[n - 1] < e[n] /\ acc.s = e[n - 1] + 1
      BY <1>2, <1>3, <2>2, <3>1
    <3>3. QED
      BY <1>1, <3>2
  <2>3. QED
    BY <2>1, <2>2
<1> DEFINE gap == Upto(acc.s, e[n] - 1)
           next == FillGap(acc, e[n])
<1>5. gap \in Seq(Ranks) /\ Range(gap) = acc.s .. e[n] - 1 /\ Distinct(gap)
  <2>1. e[n] - 1 \in Int /\ e[n] - 1 < Size
    BY <1>1, ListsAssumption
  <2>2. QED
    BY <1>2, <2>1, UptoRanks
<1>6. next.plist = acc.plist \o gap /\ next.s = e[n] + 1
  <2>1. (IF acc.s < e[n] THEN e[n] ELSE acc.s) = e[n]
    BY <1>1, <1>2, <1>4
  <2>2. QED
    BY <2>1 DEF FillGap
<1>7. next \in GapState
  BY <1>1, <1>2, FillGapType
<1> HIDE DEF gap, next
<1>8. Range(acc.plist) \cap Range(gap) = {}
  BY <1>2, <1>5
<1>9. Range(next.plist) = Range(acc.plist) \cup Range(gap) /\ Distinct(next.plist)
  <2> DEFINE old == acc.plist
  <2>1. old \in Seq(Ranks) /\ Distinct(old) /\ Range(old) \cap Range(gap) = {}
    BY <1>2, <1>8
  <2> HIDE DEF old
  <2>2. gap \in Seq(Ranks) /\ Distinct(gap)
    BY <1>5
  <2>3. /\ Range(old \o gap) = Range(old) \cup Range(gap)
        /\ Distinct(old) /\ Distinct(gap) /\ Range(old) \cap Range(gap) = {} => Distinct(old \o gap)
    BY <2>1, <2>2, ConcatIs
  <2>4. QED
    BY <1>6, <2>1, <2>2, <2>3 DEF old
<1>10. Range(next.plist) = (0 .. next.s - 1) \ {e[i] : i \in 1 .. n}
  <2>1. \A i \in 1 .. n : i \in 1 .. n - 1 \/ i = n
    BY <1>1
  <2>2. \A i \in 1 .. n - 1 : i \in 1 .. n /\ e[i] < acc.s
    <3>1. TAKE i \in 1 .. n - 1
    <3>2. acc.s = e[n - 1] + 1 /\ n - 1 \in DOMAIN e /\ i \in DOMAIN e /\ e[n - 1] \in Nat
      BY <1>1, <1>2, <1>3
    <3>3. i = n - 1 \/ e[i] < e[n - 1]
      BY <3>2 DEF Increasing
    <3>4. QED
      BY <1>3, <3>2, <3>3
  <2>3. n \in 1 .. n
    BY <1>1
  <2>4. ASSUME NEW v \in Range(next.plist)
        PROVE  v \in 0 .. next.s - 1 /\ \A i \in 1 .. n : v # e[i]
    <3>1. CASE v \in Range(acc.plist)
      BY <1>1, <1>2, <1>4, <1>6, <2>1, <3>1
    <3>2. CASE v \in Range(gap)
      <4>1. v \in Int /\ acc.s <= v /\ v < e[n]
        BY <1>1, <1>2, <1>5, <3>2
      <4>2. \A i \in 1 .. n - 1 : v # e[i]
        BY <1>2, <1>3, <2>2, <4>1
      <4>3. QED
        BY <1>1, <1>2, <1>6, <2>1, <4>1, <4>2
    <3>3. QED
      BY <1>9, <3>1, <3>2
  <2>5. ASSUME NEW v \in 0 .. next.s - 1, \A i \in 1 .. n : v # e[i]
        PROVE  v \in Range(next.plist)
    <3>1. v \in Int /\ 0 <= v /\ v < e[n]
      BY <1>1, <1>6, <2>3, <2>5
    <3>2. CASE v < acc.s
      <4>1. v \in 0 .. acc.s - 1
        BY <1>2, <3>1, <3>2
      <4>2. v \in Range(acc.plist)
        BY <1>2, <2>2, <2>5, <4>1
      <4>3. QED
        BY <1>9, <4>2
    <3>3. CASE acc.s <= v
      <4>1. v \in acc.s .. e[n] - 1
        BY <1>1, <1>2, <3>1, <3>3
      <4>2. QED
        BY <1>5, <1>9, <4>1
    <3>4. QED
      BY <1>2, <3>1, <3>2, <3>3
  <2>6. QED
    BY <2>4, <2>5
<1>11. next.s = IF n = 0 THEN 0 ELSE e[n] + 1
  BY <1>1, <1>6
<1>12. QED
  BY <1>7, <1>9, <1>10, <1>11 DEF GapsSoFar, next

LEMMA ComplementCorrect ==
  ASSUME NEW args \in Seq(Ranks)
  PROVE  Complement(args) \in RankLists /\ IsSet(Complement(args), Ranks \ Range(args))
<1> DEFINE out == Range(args)
           e == Ascending(out)
           base == [plist |-> << >>, s |-> 0]
           acc == FoldLeft(FillGap, base, e)
           J == [n \in 0 .. Len(e) |-> GapsSoFar(e, n)]
<1>1. out \in SUBSET Ranks
  BY DEF Range
<1> HIDE DEF out
<1>2. e \in Seq(Ranks) /\ Range(e) = out /\ Increasing(e)
  BY <1>1, AscendingIs
<1>3. Complement(args) = acc.plist \o Upto(acc.s, Size - 1)
  BY DEF Complement, out
<1> HIDE DEF e
<1>4. Len(e) \in Nat /\ DOMAIN e = 1 .. Len(e)
  BY <1>2
<1>5. base \in GapState /\ base \in J[0]
  <2>1. base \in GapState
    BY DEF GapState
  <2>2. Range(<< >>) = {} /\ Distinct(<< >>)
    BY DEF Range, Distinct
  <2>3. base \in GapsSoFar(e, 0)
    BY <2>1, <2>2 DEF GapsSoFar
  <2>4. QED
    BY <2>1, <2>3, <1>4
<1>6. J \in [0 .. Len(e) -> SUBSET GapState]
  BY DEF GapsSoFar
<1>7. \A n \in 1 .. Len(e) : \A x \in J[n - 1] : FillGap(x, e[n]) \in J[n]
  <2>1. \A n \in 1 .. Len(e) : n - 1 \in 0 .. Len(e) /\ n \in 0 .. Len(e)
    BY <1>4
  <2>2. QED
    BY <2>1, <1>2, GapsFilled
<1>8. J[Len(e)] = GapsSoFar(e, Len(e))
  BY <1>4
<1> HIDE DEF J, base
<1>9. acc \in GapsSoFar(e, Len(e))
  BY <1>2, <1>5, <1>6, <1>7, <1>8, GapFold
<1> HIDE DEF acc
<1>10. {e[i] : i \in 1 .. Len(e)} = out
  BY <1>2, <1>4 DEF Range
<1>11. /\ acc.plist \in Seq(Ranks) /\ Distinct(acc.plist) /\ acc.s \in Nat
       /\ Range(acc.plist) = (0 .. acc.s - 1) \ out
       /\ acc.s = IF Len(e) = 0 THEN 0 ELSE e[Len(e)] + 1
  BY <1>9, <1>10 DEF GapsSoFar, GapState
<1>12. \A v \in out : v \in Nat /\ v < acc.s
  <2>1. TAKE v \in out
  <2>2. PICK i \in 1 .. Len(e) : v = e[i]
    BY <1>10
  <2>3. e[i] \in Ranks /\ e[Len(e)] \in Ranks /\ Len(e) \in DOMAIN e /\ i \in DOMAIN e
    BY <1>2, <1>4, <2>2
  <2>4. i = Len(e) \/ e[i] < e[Len(e)]
    BY <1>2, <1>4, <2>3 DEF Increasing
  <2>5. QED
    BY <1>4, <1>11, <2>2, <2>3, <2>4, ListsAssumption DEF Ranks
<1>13. acc.s <= Size
  <2>1. CASE Len(e) = 0
    BY <1>11, <2>1, ListsAssumption
  <2>2. CASE Len(e) # 0
    <3>1. e[Len(e)] \in Ranks
      BY <1>2, <1>4, <2>2
    <3>2. QED
      BY <1>11, <2>2, <3>1, ListsAssumption DEF Ranks
  <2>3. QED
    BY <2>1, <2>2
<1> DEFINE old == acc.plist
           last == Upto(acc.s, Size - 1)
<1>14. last \in Seq(Ranks) /\ Range(last) = acc.s .. Size - 1 /\ Distinct(last)
  <2>1. Size - 1 \in Int /\ Size - 1 < Size
    BY ListsAssumption
  <2>2. QED
    BY <1>11, <2>1, UptoRanks
<1>15. old \in Seq(Ranks) /\ Distinct(old) /\ Range(old) = (0 .. acc.s - 1) \ out
  BY <1>11
<1>16. Range(old) \cap Range(last) = {} /\ Range(old) \cup Range(last) = Ranks \ out
  BY <1>11, <1>12, <1>13, <1>14, <1>15, ListsAssumption DEF Ranks
<1> HIDE DEF old, last
<1>17. /\ old \o last \in Seq(Ranks) /\ Range(old \o last) = Range(old) \cup Range(last)
       /\ Distinct(old) /\ Distinct(last) /\ Range(old) \cap Range(last) = {} => Distinct(old \o last)
  <2>1. old \in Seq(Ranks) /\ last \in Seq(Ranks)
    BY <1>14, <1>15
  <2>2. QED
    BY <2>1, ConcatIs
<1>18. old \o last \in RankLists /\ IsSet(old \o last, Ranks \ out)
  BY <1>14, <1>15, <1>16, <1>17 DEF RankLists, IsSet
<1>19. QED
  BY <1>3, <1>18 DEF old, last, out

(* bc_plist_divide: where the parts end                                    *)
LEMMA PartBounds ==
  ASSUME NEW count \in Nat, NEW num \in 1 .. count
  PROVE  LET q == count \div num
         IN  /\ q \in Nat /\ 1 <= q
             /\ PartEnd(count, num, 0) = 0 /\ PartEnd(count, num, num) = count
             /\ \A i \in 1 .. num - 1 : PartEnd(count, num, i) = (i - 1) * q + q
             /\ \A i \in 1 .. num : PartEnd(count, num, i - 1) = (i - 1) * q
             /\ (num - 1) * q + q <= count
             /\ \A i \in 0 .. num - 1 : i * q \in Nat /\ i * q <= (num - 1) * q
<1> DEFINE q == count \div num
<1>1. q \in Nat /\ 1 <= q /\ num * q <= count
  OBVIOUS
<1> HIDE DEF q
<1>2. \A i \in Nat : (i - 1) * q + q = i * q
  BY <1>1
<1>3. \A i \in 0 .. num - 1 : i * q \in Nat /\ i * q <= (num - 1) * q
  BY <1>1
<1>4. PartEnd(count, num, 0) = 0
  BY <1>1 DEF PartEnd, q
<1>5. PartEnd(count, num, num) = count
  BY DEF PartEnd
<1>6. \A i \in 1 .. num - 1 : PartEnd(count, num, i) = (i - 1) * q + q
  BY <1>2 DEF PartEnd, q
<1>7. \A i \in 1 .. num : PartEnd(count, num, i - 1) = (i - 1) * q
  BY DEF PartEnd, q
<1>8. (num - 1) * q + q <= count
  BY <1>1, <1>2
<1>9. QED
  BY <1>1, <1>3, <1>4, <1>5, <1>6, <1>7, <1>8 DEF q

LEMMA PartSteps ==
  ASSUME NEW count \in Nat, NEW num \in 1 .. count, NEW i \in 1 .. num
  PROVE  LET before == PartEnd(count, num, i - 1)
             upto == PartEnd(count, num, i)
         IN  /\ before \in Nat /\ upto \in Nat /\ upto <= count
             /\ before = (i - 1) * (count \div num)
             /\ before + count \div num <= upto
             /\ i < num => before + count \div num = upto
             /\ count \div num \in Nat /\ 1 <= count \div num
<1> DEFINE q == count \div num
           before == PartEnd(count, num, i - 1)
           upto == PartEnd(count, num, i)
<1>1. /\ q \in Nat /\ 1 <= q
      /\ PartEnd(count, num, num) = count
      /\ \A k \in 1 .. num - 1 : PartEnd(count, num, k) = (k - 1) * q + q
      /\ \A k \in 1 .. num : PartEnd(count, num, k - 1) = (k - 1) * q
      /\ (num - 1) * q + q <= count
      /\ \A k \in 0 .. num - 1 : k * q \in Nat /\ k * q <= (num - 1) * q
  BY PartBounds
<1>2. before = (i - 1) * q /\ i - 1 \in 0 .. num - 1
  BY <1>1
<1>3. before \in Nat /\ before <= (num - 1) * q
  BY <1>1, <1>2
<1>4. CASE i = num
  <2>1. before = (num - 1) * q /\ upto = count
    BY <1>1, <1>2, <1>4
  <2> HIDE DEF before, upto, q
  <2>2. QED
    BY <1>1, <1>2, <1>3, <1>4, <2>1 DEF q, before, upto
<1>5. CASE i # num
  <2>1. upto = before + q
    <3>1. i \in 1 .. num - 1
      BY <1>5
    <3>2. QED
      BY <1>1, <1>2, <3>1
  <2>2. (num - 1) * q \in Nat
    BY <1>1
  <2> HIDE DEF before, upto, q
  <2>3. upto \in Nat /\ upto <= count
    BY <1>1, <1>3, <2>1, <2>2
  <2>4. QED
    BY <1>1, <1>2, <1>3, <2>1, <2>3 DEF q, before, upto
<1>6. QED
  BY <1>4, <1>5

LEMMA PartIs ==
  ASSUME NEW V, NEW a \in Seq(V), NEW num \in 1 .. Len(a), NEW i \in 1 .. num
  PROVE  LET from == PartEnd(Len(a), num, i - 1)
         IN  /\ Part(a, num, i) = SubSeq(a, from + 1, PartEnd(Len(a), num, i))
             /\ Part(a, num, i) \in Seq(V)
             /\ Len(Part(a, num, i)) = PartEnd(Len(a), num, i) - from
             /\ Distinct(a) => Distinct(Part(a, num, i))
<1> DEFINE from == PartEnd(Len(a), num, i - 1)
           upto == PartEnd(Len(a), num, i)
           p == SubSeq(a, from + 1, upto)
<1>1. Len(a) \in Nat /\ DOMAIN a = 1 .. Len(a)
  OBVIOUS
<1>2. /\ from \in Nat /\ upto \in Nat /\ from < upto /\ upto <= Len(a)
      /\ from = (i - 1) * (Len(a) \div num)
  <2> DEFINE q == Len(a) \div num
  <2>1. /\ from \in Nat /\ upto \in Nat /\ upto <= Len(a) /\ from = (i - 1) * q
        /\ from + q <= upto /\ q \in Nat /\ 1 <= q
    BY <1>1, PartSteps
  <2> HIDE DEF q, from, upto
  <2>2. from < upto
    BY <2>1
  <2>3. QED
    BY <2>1, <2>2 DEF q
<1>3. Part(a, num, i) = p
  <2> HIDE DEF from
  <2>1. QED
    BY <1>2 DEF Part
<1> HIDE DEF from, upto
<1>4. /\ p \in Seq(V) /\ Len(p) = upto - from
      /\ \A k \in 1 .. upto - from : p[k] = a[from + k]
  <2>1. from + 1 \in Int /\ upto \in Int /\ from + 1 <= upto
    BY <1>2
  <2>2. \A k \in from + 1 .. upto : a[k] \in V
    BY <1>1, <1>2
  <2>3. upto - (from + 1) + 1 = upto - from /\ \A k \in Nat : from + 1 + k - 1 = from + k
    BY <1>2
  <2>4. /\ p \in Seq(V) /\ Len(p) = upto - (from + 1) + 1
        /\ \A k \in 1 .. upto - (from + 1) + 1 : p[k] = a[from + 1 + k - 1]
    BY <2>1, <2>2, SubSeqProperties
  <2>5. \A k \in 1 .. upto - from : p[k] = a[from + k]
    <3>1. TAKE k \in 1 .. upto - from
    <3>2. k \in 1 .. upto - (from + 1) + 1 /\ from + 1 + k - 1 = from + k
      BY <1>2
    <3>3. QED
      BY <2>4, <3>2
  <2>6. QED
    BY <2>3, <2>4, <2>5
<1> HIDE DEF p
<1>5. ASSUME Distinct(a)
      PROVE  Distinct(p)
  <2>1. SUFFICES ASSUME NEW j \in DOMAIN p, NEW k \in DOMAIN p, p[j] = p[k]
                 PROVE  j = k
    BY DEF Distinct
  <2>2. DOMAIN p = 1 .. upto - from
    BY <1>4
  <2>3. \A m \in 1 .. upto - from : from + m \in 1 .. Len(a)
    BY <1>1, <1>2
  <2>4. /\ from + j \in DOMAIN a /\ p[j] = a[from + j]
        /\ from + k \in DOMAIN a /\ p[k] = a[from + k]
    BY <1>1, <1>4, <2>2, <2>3
  <2>5. from + j = from + k
    BY <1>5, <2>1, <2>4 DEF Distinct
  <2>6. QED
    BY <1>2, <2>2, <2>5
<1>6. QED
  BY <1>3, <1>4, <1>5 DEF from, upto, p

(* The parts make the whole, and no part is longer than the last           *)
LEMMA DivideCorrect ==
  ASSUME NEW V, NEW a \in Seq(V), NEW num \in 1 .. Len(a)
  PROVE  LET parts == [i \in 1 .. num |-> Part(a, num, i)]
         IN  /\ FlattenSeq(parts) = a
             /\ \A i, j \in 1 .. num : i < j => Len(parts[i]) \in 1 .. Len(parts[j])
<1> DEFINE parts == [i \in 1 .. num |-> Part(a, num, i)]
           upto(i) == PartEnd(Len(a), num, i)
           w == [i \in 1 .. num |-> SubSeq(a, 1, upto(i))]
           q == Len(a) \div num
<1>1. Len(a) \in Nat /\ num \in Nat \ {0}
  OBVIOUS
<1>2. \A i \in 1 .. num : /\ Part(a, num, i) = SubSeq(a, upto(i - 1) + 1, upto(i))
                          /\ Part(a, num, i) \in Seq(V)
                          /\ Len(Part(a, num, i)) = upto(i) - upto(i - 1)
  BY PartIs
<1>3. \A i \in 1 .. num : /\ upto(i - 1) \in Nat /\ upto(i) \in Nat /\ upto(i) <= Len(a)
                          /\ upto(i - 1) + q <= upto(i)
                          /\ i < num => upto(i - 1) + q = upto(i)
  BY <1>1, PartSteps
<1>4. q \in Nat /\ 1 <= q /\ upto(0) = 0 /\ upto(num) = Len(a)
  BY <1>1, PartBounds
<1> HIDE DEF upto, q
<1>5. parts \in Seq(Seq(V)) /\ Len(parts) = num
  <2>1. parts \in [1 .. num -> Seq(V)]
    BY <1>2
  <2> HIDE DEF parts
  <2>2. QED
    BY <1>1, <2>1, FunctionSeq
<1>6. Flattens(w, parts, num)
  <2>1. w[1] = parts[1]
    <3>1. 1 \in 1 .. num /\ 1 - 1 = 0 /\ 0 + 1 = 1
      BY <1>1
    <3>2. Part(a, num, 1) = SubSeq(a, 1, upto(1))
      BY <1>2, <1>4, <3>1
    <3>3. QED
      BY <3>1, <3>2
  <2>2. \A i \in 1 .. num : i # 1 => w[i] = w[i - 1] \o parts[i]
    <3>1. TAKE i \in 1 .. num
    <3>2. HAVE i # 1
    <3>3. i - 1 \in 1 .. num /\ i \in 1 .. num
      BY <3>2
    <3>4. w[i] = SubSeq(a, 1, upto(i)) /\ w[i - 1] = SubSeq(a, 1, upto(i - 1))
      BY <3>3
    <3>5. parts[i] = SubSeq(a, upto(i - 1) + 1, upto(i))
      BY <1>2, <3>3
    <3>6. /\ 1 \in 1 .. Len(a) + 1 /\ upto(i - 1) \in 1 - 1 .. Len(a)
          /\ upto(i) \in upto(i - 1) .. Len(a)
      <4> DEFINE x == upto(i - 1)
                 y == upto(i)
      <4>1. x \in Nat /\ y \in Nat /\ y <= Len(a) /\ x + q <= y
        BY <1>3, <3>3
      <4> HIDE DEF x, y
      <4>2. x \in 1 - 1 .. Len(a) /\ y \in x .. Len(a)
        BY <1>1, <1>4, <4>1
      <4>3. QED
        BY <1>1, <4>2 DEF x, y
    <3>7. SubSeq(a, 1, upto(i - 1)) \o SubSeq(a, upto(i - 1) + 1, upto(i)) = SubSeq(a, 1, upto(i))
      BY <3>6, ConcatAdjacentSubSeq
    <3>8. QED
      BY <3>4, <3>5, <3>7
  <2>3. w = [i \in 1 .. num |-> IF i = 1 THEN parts[i] ELSE w[i - 1] \o parts[i]]
    <3>1. \A i \in 1 .. num : w[i] = IF i = 1 THEN parts[i] ELSE w[i - 1] \o parts[i]
      BY <2>1, <2>2
    <3>2. w = [i \in 1 .. num |-> w[i]]
      OBVIOUS
    <3> HIDE DEF w, parts
    <3>3. QED
      BY <3>1, <3>2
  <2> HIDE DEF w, parts
  <2>4. QED
    BY <2>3 DEF Flattens
<1>7. w[num] = a
  <2>1. w[num] = SubSeq(a, 1, Len(a))
    BY <1>1, <1>4
  <2>2. QED
    BY <2>1, SubSeqFull
<1>8. FlattenSeq(parts) = a
  <2> HIDE DEF w, parts
  <2>1. QED
    BY <1>1, <1>5, <1>6, <1>7, FlattenBy
<1>9. \A i, j \in 1 .. num : i < j => Len(parts[i]) \in 1 .. Len(parts[j])
  <2>1. TAKE i, j \in 1 .. num
  <2>2. HAVE i < j
  <2>3. parts[i] = Part(a, num, i) /\ parts[j] = Part(a, num, j)
    OBVIOUS
  <2>4. Len(parts[i]) = q
    <3> DEFINE x == upto(i - 1)
               y == upto(i)
    <3>1. Len(parts[i]) = y - x
      BY <1>2, <2>3
    <3>2. i < num
      BY <2>2
    <3>3. x \in Nat /\ y \in Nat /\ x + q = y
      BY <1>3, <3>2
    <3> HIDE DEF x, y, parts
    <3>4. QED
      BY <1>4, <3>1, <3>3
  <2>5. Len(parts[j]) \in Nat /\ q <= Len(parts[j])
    <3> DEFINE x == upto(j - 1)
               y == upto(j)
    <3>1. Len(parts[j]) = y - x
      BY <1>2, <2>3
    <3>2. x \in Nat /\ y \in Nat /\ x + q <= y
      BY <1>3
    <3> HIDE DEF x, y, parts
    <3>3. QED
      BY <1>4, <3>1, <3>2
  <2>6. QED
    BY <1>4, <2>4, <2>5
<1>10. QED
  BY <1>8, <1>9

-----------------------------------------------------------------------------
(* The inductive invariant. What the counters count holds however the      *)
(* application sets, divides and uses its lists; that an entry which is    *)
(* set is there once, that valid counts those which are not, and that the  *)
(* tags of a channel match, only when it is careful. A list some of whose entries are not set was made empty by the *)
(* application, which bounds its length; any other has each rank once.     *)
ListType == [plist : Seq(Ranks \cup {Unset}), valid : Int, rc : Int,
             held : BOOLEAN, used : BOOLEAN, tags : Seq(Ranks \cup {Unset})]
Unsets(plist) == {i \in DOMAIN plist : plist[i] = Unset}
Owned(list) == /\ list.rc = Is(list.held) + Is(list.used)
               /\ list.held \/ list.used
               /\ ~ list.used => list.tags = << >>
SetOnce(plist) == \A i, j \in DOMAIN plist : plist[i] = plist[j] /\ plist[i] # Unset => i = j
Exact(list) == /\ SetOnce(list.plist)
               /\ \/ list.valid = Cardinality(Unsets(list.plist))
                  \/ list.valid = Garbage /\ Unsets(list.plist) = {}
               /\ Unsets(list.plist) # {} => Len(list.plist) <= MaxCount
Tagged(list) == list.used => list.tags = list.plist /\ Unsets(list.plist) = {}
ListOK(list) == list \in ListType /\ Owned(list) /\ (Careful => Exact(list) /\ Tagged(list))
IInv == /\ rank \in Ranks
        /\ lists \in [Names -> ListType \cup {Null}]
        /\ \A l \in Names : Made(l) => ListOK(lists[l])

(* The entries of lists and the values of valid                            *)
LEMMA EntriesAreInts ==
  Ranks \subseteq Int /\ Unset \notin Ranks /\ Unset \in Int /\ Garbage # 0 /\ Garbage \in Int
BY ListsAssumption DEF Ranks, Unset, Garbage

(* A list without unset entries                                            *)
LEMMA NoneUnset ==
  ASSUME NEW s \in Seq(Ranks)
  PROVE  Unsets(s) = {} /\ s \in Seq(Ranks \cup {Unset}) /\ (Distinct(s) => SetOnce(s))
<1>1. s \in Seq(Ranks \cup {Unset})
  BY SeqMonotonic
<1>2. \A i \in DOMAIN s : s[i] \in Ranks
  OBVIOUS
<1>3. QED
  BY <1>1, <1>2, EntriesAreInts DEF Unsets, Distinct, SetOnce

(* A list without unset entries has ranks only                             *)
LEMMA AllSet ==
  ASSUME NEW s \in Seq(Ranks \cup {Unset}), Unset \notin Range(s)
  PROVE  s \in Seq(Ranks)
<1>1. Len(s) \in Nat /\ DOMAIN s = 1 .. Len(s) /\ s \in [1 .. Len(s) -> Ranks \cup {Unset}]
  OBVIOUS
<1>2. s \in [1 .. Len(s) -> Ranks]
  BY <1>1 DEF Range
<1>3. QED
  BY <1>1, <1>2, FunctionSeq

(* The list a call makes                                                   *)
LEMMA NewOwned ==
  ASSUME NEW s \in Seq(Ranks \cup {Unset}), NEW valid \in Int
  PROVE  NewList(s, valid) \in ListType /\ Owned(NewList(s, valid)) /\ Tagged(NewList(s, valid))
BY DEF NewList, ListType, Owned, Tagged, Is

LEMMA NewOK ==
  ASSUME NEW s \in Seq(Ranks), Careful => Distinct(s), NEW valid \in {0, Garbage}
  PROVE  ListOK(NewList(s, valid))
<1> DEFINE list == NewList(s, valid)
<1>1. Unsets(s) = {} /\ s \in Seq(Ranks \cup {Unset}) /\ (Careful => SetOnce(s)) /\ valid \in Int
  BY NoneUnset, EntriesAreInts
<1>2. list \in ListType /\ Owned(list) /\ Tagged(list) /\ list.plist = s /\ list.valid = valid
  <2>1. list.plist = s /\ list.valid = valid
    BY DEF NewList
  <2> HIDE DEF list
  <2>2. QED
    BY <1>1, <2>1, NewOwned DEF list
<1> HIDE DEF list
<1>3. Careful => Exact(list)
  BY <1>1, <1>2, FS_EmptySet DEF Exact
<1>4. QED
  BY <1>2, <1>3 DEF ListOK, list

(* and without Careful, any                                                *)
LEMMA NewCareless ==
  ASSUME NEW s \in Seq(Ranks \cup {Unset}), ~ Careful, NEW valid \in Int
  PROVE  ListOK(NewList(s, valid))
BY NewOwned DEF ListOK

(* The lists the application can give to a call                            *)
LEMMA Operands ==
  ASSUME IInv, NEW x \in Handles
  PROVE  /\ Entries(x) \in Seq(Ranks \cup {Unset})
         /\ Careful /\ Complete(Entries(x)) => Entries(x) \in RankLists
         /\ Careful /\ ValidOf(x) = 0 => Entries(x) \in RankLists
<1>1. CASE x \in Optionals
  <2>1. Entries(x) \in RankLists
    BY <1>1, OptionalIs DEF IInv, Entries
  <2>2. QED
    BY <2>1, SeqMonotonic DEF RankLists
<1>2. CASE x \notin Optionals
  <2>1. x \in Names /\ Made(x) /\ Entries(x) = lists[x].plist /\ ValidOf(x) = lists[x].valid
    BY <1>2 DEF Handles, Mine, Entries, ValidOf
  <2>2. ListOK(lists[x])
    BY <2>1 DEF IInv
  <2> DEFINE s == lists[x].plist
  <2>3. s \in Seq(Ranks \cup {Unset}) /\ (Careful => SetOnce(s))
    BY <2>2 DEF ListOK, ListType, Exact
  <2>4. Careful /\ ValidOf(x) = 0 => Unset \notin Range(s)
    <3>1. SUFFICES ASSUME Careful, lists[x].valid = 0
                   PROVE  Unsets(s) = {}
      BY <2>1 DEF Unsets, Range
    <3>2. Unsets(s) = {} \/ Cardinality(Unsets(s)) = 0
      BY <2>2, <3>1, EntriesAreInts DEF ListOK, Exact
    <3>3. IsFiniteSet(Unsets(s))
      <4>1. Len(s) \in Nat /\ DOMAIN s = 1 .. Len(s)
        BY <2>3
      <4>2. IsFiniteSet(1 .. Len(s))
        BY <4>1, FS_Interval
      <4>3. QED
        BY <4>1, <4>2, FS_Subset DEF Unsets
    <3>4. QED
      BY <3>2, <3>3, FS_EmptySet
  <2> HIDE DEF s
  <2>5. ASSUME Unset \notin Range(s), SetOnce(s)
        PROVE  s \in RankLists
    <3>1. s \in Seq(Ranks)
      BY <2>3, <2>5, AllSet
    <3>2. \A i \in DOMAIN s : s[i] # Unset
      BY <2>5 DEF Range
    <3>3. QED
      BY <2>5, <3>1, <3>2 DEF RankLists, Distinct, SetOnce
  <2>6. QED
    BY <2>1, <2>3, <2>4, <2>5 DEF Complete, s
<1>3. QED
  BY <1>1, <1>2

(* Keeping a list that is as it should be                                  *)
LEMMA KeepOK ==
  ASSUME IInv, NEW l \in Names, NEW list, ListOK(list) \/ list = Null,
         Keep(l, list), UNCHANGED rank
  PROVE  IInv'
<1>1. lists' = [lists EXCEPT ![l] = list] /\ rank' = rank
  BY DEF Keep
<1>2. list \in ListType \cup {Null}
  BY DEF ListOK
<1>3. lists' \in [Names -> ListType \cup {Null}]
  BY <1>1, <1>2 DEF IInv
<1>4. \A k \in Names : lists'[k] # Null => ListOK(lists'[k])
  <2>1. TAKE k \in Names
  <2>2. CASE k = l
    BY <1>1, <2>2 DEF IInv
  <2>3. CASE k # l
    BY <1>1, <2>3 DEF IInv, Made
  <2>4. QED
    BY <2>2, <2>3
<1>5. QED
  BY <1>1, <1>3, <1>4 DEF IInv, Made

(* bc_plist_create                                                         *)
LEMMA CreateStep ==
  ASSUME IInv, NEW l \in Names, Create(l) \/ CreateComplement(l)
  PROVE  IInv'
<1>1. CASE Create(l)
  <2>1. PICK args \in UNION {[1 .. n -> Ranks] : n \in 1 .. MaxCount}, valid \in {0, Garbage} :
          (Careful => Distinct(args)) /\ Keep(l, NewList(args, valid))
    BY <1>1 DEF Create
  <2>2. PICK n \in 1 .. MaxCount : args \in [1 .. n -> Ranks]
    OBVIOUS
  <2>3. n \in Nat
    BY ListsAssumption
  <2>4. args \in Seq(Ranks)
    BY <2>2, <2>3, FunctionSeq
  <2>5. ListOK(NewList(args, valid))
    BY <2>1, <2>4, NewOK
  <2>6. QED
    BY <1>1, <2>1, <2>5, KeepOK DEF Create
<1>2. CASE CreateComplement(l)
  <2>1. PICK args \in UNION {[1 .. n -> Ranks] : n \in 1 .. 2}, valid \in {0, Garbage} :
          Keep(l, NewList(Complement(args), valid))
    BY <1>2 DEF CreateComplement
  <2>2. PICK n \in 1 .. 2 : args \in [1 .. n -> Ranks]
    OBVIOUS
  <2>3. args \in Seq(Ranks)
    <3>1. n \in Nat
      OBVIOUS
    <3>2. QED
      BY <2>2, <3>1, FunctionSeq
  <2>4. Complement(args) \in Seq(Ranks) /\ Distinct(Complement(args))
    BY <2>3, ComplementCorrect DEF RankLists
  <2>5. ListOK(NewList(Complement(args), valid))
    BY <2>4, NewOK
  <2>6. QED
    BY <1>2, <2>1, <2>5, KeepOK DEF CreateComplement
<1>3. QED
  BY <1>1, <1>2

(* bc_plist_create_empty                                                   *)
LEMMA CreateEmptyStep ==
  ASSUME IInv, NEW l \in Names, CreateEmpty(l)
  PROVE  IInv'
<1>1. PICK n \in 1 .. MaxCount : Keep(l, NewList([i \in 1 .. n |-> Unset], n))
  BY DEF CreateEmpty
<1>2. n \in Nat /\ n \in Int /\ n <= MaxCount
  BY ListsAssumption
<1> DEFINE s == [i \in 1 .. n |-> Unset]
           list == NewList(s, n)
<1>3. s \in Seq(Ranks \cup {Unset}) /\ Len(s) = n
  <2>1. s \in [1 .. n -> Ranks \cup {Unset}]
    OBVIOUS
  <2> HIDE DEF s
  <2>2. QED
    BY <1>2, <2>1, FunctionSeq
<1>4. Unsets(s) = 1 .. n /\ SetOnce(s)
  BY DEF Unsets, SetOnce
<1>5. Cardinality(1 .. n) = n
  BY <1>2, FS_Interval
<1>6. list.plist = s /\ list.valid = n
  BY DEF NewList
<1> HIDE DEF s
<1>7. list \in ListType /\ Owned(list) /\ Tagged(list)
  BY <1>2, <1>3, NewOwned
<1> HIDE DEF list
<1>8. Exact(list)
  BY <1>2, <1>3, <1>4, <1>5, <1>6 DEF Exact
<1>9. ListOK(list)
  BY <1>7, <1>8 DEF ListOK
<1>10. Keep(l, list)
  BY <1>1 DEF list, s
<1>11. QED
  BY <1>9, <1>10, KeepOK DEF CreateEmpty

(* bc_plist_set: the entry replaced, and with it valid unless it was set   *)
LEMMA EntrySetOK ==
  ASSUME NEW list, ListOK(list), list.held, NEW i \in DOMAIN list.plist, NEW value \in Ranks,
         Careful => value \notin Range(list.plist)
  PROVE  ListOK(EntrySet(list, i, value))
<1> DEFINE s == list.plist
           t == With(s, i, value)
<1>1. /\ list \in ListType /\ Owned(list) /\ s \in Seq(Ranks \cup {Unset})
      /\ Len(s) \in Nat /\ DOMAIN s = 1 .. Len(s)
  BY DEF ListOK, ListType
<1>2. /\ t \in Seq(Ranks \cup {Unset}) /\ Len(t) = Len(s) /\ DOMAIN t = DOMAIN s
      /\ \A j \in DOMAIN s : t[j] = IF j = i THEN value ELSE s[j]
  BY <1>1, WithIs
<1>3. value # Unset
  BY EntriesAreInts
<1> HIDE DEF t
<1>4. Careful => SetOnce(t)
  <2>1. SUFFICES ASSUME Careful, NEW j \in DOMAIN t, NEW k \in DOMAIN t, t[j] = t[k], t[j] # Unset
                 PROVE  j = k
    BY DEF SetOnce
  <2>2. SetOnce(s) /\ \A m \in DOMAIN s : s[m] # value
    BY <2>1 DEF ListOK, Exact, Range
  <2>3. QED
    BY <1>2, <2>1, <2>2 DEF SetOnce
<1>5. Unsets(t) = Unsets(s) \ {i}
  BY <1>2, <1>3 DEF Unsets
<1>6. CASE s[i] = Unset
  <2>1. Careful => ~ list.used
    BY <1>6 DEF ListOK, Tagged, Unsets
  <2> DEFINE next == [list EXCEPT !.plist = t, !.valid = @ - 1]
  <2>2. EntrySet(list, i, value) = next
    BY <1>6 DEF EntrySet, t
  <2>3. next \in ListType /\ Owned(next)
    <3>1. list.valid - 1 \in Int
      BY <1>1 DEF ListType
    <3>2. next \in ListType
      BY <1>1, <1>2, <3>1 DEF ListType
    <3>3. /\ next.rc = list.rc /\ next.held = list.held /\ next.used = list.used
          /\ next.tags = list.tags
      BY <1>1 DEF ListType
    <3> HIDE DEF next
    <3>4. QED
      BY <1>1, <3>2, <3>3 DEF Owned
  <2>4. next.plist = t /\ next.valid = list.valid - 1 /\ next.used = list.used
    BY <1>1 DEF ListType
  <2> HIDE DEF next
  <2>5. Careful => Exact(next)
    <3>1. HAVE Careful
    <3>2. i \in Unsets(s)
      BY <1>6 DEF Unsets
    <3>3. list.valid = Cardinality(Unsets(s)) /\ Len(s) <= MaxCount
      BY <3>1, <3>2 DEF ListOK, Exact
    <3>4. IsFiniteSet(Unsets(s))
      <4>1. IsFiniteSet(1 .. Len(s))
        BY <1>1, FS_Interval
      <4>2. QED
        BY <1>1, <4>1, FS_Subset DEF Unsets
    <3>5. Cardinality(Unsets(t)) = Cardinality(Unsets(s)) - 1
      BY <1>5, <3>2, <3>4, FS_RemoveElement
    <3>6. QED
      BY <1>2, <1>4, <2>4, <3>1, <3>3, <3>5 DEF Exact
  <2>6. Careful => Tagged(next)
    BY <2>1, <2>4 DEF Tagged
  <2>7. QED
    BY <2>2, <2>3, <2>5, <2>6 DEF ListOK
<1>7. CASE s[i] # Unset /\ list.rc > 1
  BY <1>7 DEF EntrySet
<1>8. CASE s[i] # Unset /\ ~ (list.rc > 1)
  <2>1. ~ list.used
    BY <1>1, <1>8 DEF Owned, Is, ListType
  <2> DEFINE next == [list EXCEPT !.plist = t]
  <2>2. EntrySet(list, i, value) = next
    BY <1>8 DEF EntrySet, t
  <2>3. next \in ListType /\ Owned(next)
    BY <1>1, <1>2, <2>1 DEF ListType, Owned
  <2>4. next.plist = t /\ next.valid = list.valid /\ next.used = list.used
    BY <1>1 DEF ListType
  <2>5. Unsets(t) = Unsets(s)
    BY <1>5, <1>8 DEF Unsets
  <2> HIDE DEF next
  <2>6. Careful => Exact(next) /\ Tagged(next)
    BY <1>2, <1>4, <2>1, <2>4, <2>5 DEF Exact, ListOK, Tagged
  <2>7. QED
    BY <2>2, <2>3, <2>6 DEF ListOK
<1>9. QED
  BY <1>6, <1>7, <1>8

LEMMA SetEntryStep ==
  ASSUME IInv, NEW l \in Names, SetEntry(l)
  PROVE  IInv'
<1>1. PICK i \in DOMAIN lists[l].plist, value \in Ranks :
        /\ Careful => value \notin Range(lists[l].plist)
        /\ Keep(l, EntrySet(lists[l], i, value))
  BY DEF SetEntry
<1>2. ListOK(lists[l]) /\ lists[l].held
  BY DEF SetEntry, Mine, IInv
<1>3. ListOK(EntrySet(lists[l], i, value))
  BY <1>1, <1>2, EntrySetOK
<1>4. QED
  BY <1>1, <1>3, KeepOK DEF SetEntry

(* bc_plist_union, bc_plist_isect and bc_plist_diff                        *)
LEMMA SetOperationStep ==
  ASSUME IInv, NEW l \in Names, Union(l) \/ Isect(l) \/ Diff(l)
  PROVE  IInv'
<1> DEFINE Results(a, b) == {UnionOf(<<Entries(a), Entries(b)>>),
                             IsectOf(<<Entries(a), Entries(b)>>), DiffOf(Entries(a), Entries(b))}
<1>1. PICK a \in Handles, b \in Handles : \E x \in Results(a, b) : SetOperation(l, <<a, b>>, x)
  BY DEF Union, Isect, Diff
<1>2. PICK made \in Results(a, b) : SetOperation(l, <<a, b>>, made)
  BY <1>1
<1>3. /\ Entries(a) \in Seq(Ranks \cup {Unset}) /\ Entries(b) \in Seq(Ranks \cup {Unset})
      /\ Keep(l, NewList(made, 0)) /\ UNCHANGED rank
  BY <1>2, Operands DEF SetOperation
<1>4. CASE Careful
  <2>1. ValidOf(a) = 0 /\ ValidOf(b) = 0
    BY <1>2 DEF SetOperation, Range
  <2>2. Entries(a) \in RankLists /\ Entries(b) \in RankLists
    BY <1>4, <2>1, Operands
  <2>3. made \in RankLists
    BY <2>2, UnionCorrect, IsectCorrect, DiffCorrect
  <2>4. ListOK(NewList(made, 0))
    BY <2>3, NewOK DEF RankLists
  <2>5. QED
    BY <1>3, <2>4, KeepOK
<1>5. CASE ~ Careful
  <2> DEFINE V == Ranks \cup {Unset}
             u == UnionOf(<<Entries(a), Entries(b)>>)
  <2>1. Entries(a) \in Seq(V) /\ Entries(b) \in Seq(V)
    BY <1>3
  <2> HIDE DEF V
  <2>2. u \in Seq(V)
    <3> DEFINE A == Entries(a)
               B == Entries(b)
    <3>1. A \in Seq(V) /\ B \in Seq(V)
      BY <2>1
    <3> HIDE DEF A, B
    <3>2. <<A, B>> \in Seq(Seq(V)) /\ <<A, B>> # << >> /\ <<A, B>>[1] = A
      BY <3>1
    <3> DEFINE rest == Others(<<A, B>>)
    <3>3. UnionOf(<<A, B>>) = Joined(A, rest) /\ rest \in Seq(V)
      BY <3>2, OthersAre
    <3> HIDE DEF rest
    <3>4. Joined(A, rest) \in Seq(V)
      BY <3>1, <3>3, UnionIs DEF Joined
    <3>5. QED
      BY <3>3, <3>4 DEF A, B
  <2> HIDE DEF u
  <2>3. IsectOf(<<Entries(a), Entries(b)>>) \in Seq(V)
    BY <2>2, PickedIs DEF IsectOf, u
  <2>4. DiffOf(Entries(a), Entries(b)) \in Seq(V)
    BY <2>1, PickedIs DEF DiffOf
  <2>5. made \in Seq(Ranks \cup {Unset}) /\ 0 \in Int
    BY <2>2, <2>3, <2>4 DEF V, u
  <2>6. ListOK(NewList(made, 0))
    BY <1>5, <2>5, NewCareless
  <2>7. QED
    BY <1>3, <2>6, KeepOK
<1>6. QED
  BY <1>4, <1>5

(* bc_plist_divide                                                         *)
LEMMA PartOK ==
  ASSUME NEW a \in Seq(Ranks \cup {Unset}), Careful => a \in RankLists,
         NEW num \in 1 .. Len(a), NEW i \in 1 .. num
  PROVE  ListOK(Filled(Part(a, num, i)))
<1> DEFINE part == Part(a, num, i)
<1>1. part \in Seq(Ranks \cup {Unset})
  BY PartIs
<1>2. Careful => part \in Seq(Ranks) /\ Distinct(part)
  BY PartIs DEF RankLists
<1> HIDE DEF part
<1>3. Filled(part) = NewList(part, 0)
  <2>1. Ranks \cup {Unset} \subseteq Int
    BY EntriesAreInts
  <2>2. part \in Seq(Int)
    BY <1>1, <2>1, SeqMonotonic
  <2>3. QED
    BY <2>2, FilledIs
<1>4. ListOK(NewList(part, 0))
  <2>1. 0 \in {0, Garbage} /\ 0 \in Int
    OBVIOUS
  <2>2. CASE Careful
    BY <1>2, <2>1, <2>2, NewOK
  <2>3. CASE ~ Careful
    BY <1>1, <2>1, <2>3, NewCareless
  <2>4. QED
    BY <2>2, <2>3
<1>5. QED
  BY <1>3, <1>4 DEF part

LEMMA DivideStep ==
  ASSUME IInv, NEW whole \in Handles, NEW num \in 1 .. Cardinality(Names),
         NEW into \in [1 .. num -> Names], Divide(whole, into)
  PROVE  IInv'
<1> DEFINE a == Entries(whole)
           at(l) == CHOOSE i \in DOMAIN into : into[i] = l
           filled(l) == Filled(Part(a, num, at(l)))
<1>1. num \in Nat /\ Len(into) = num /\ DOMAIN into = 1 .. num
  <2>1. num \in Nat
    BY FS_CardinalityType, ListsAssumption
  <2>2. QED
    BY <2>1, FunctionSeq
<1>2. a \in Seq(Ranks \cup {Unset}) /\ (Careful => a \in RankLists) /\ num <= Len(a)
  BY <1>1, Operands DEF Divide
<1>3. /\ rank' = rank
      /\ lists' = [l \in Names |-> IF l \in Range(into) THEN filled(l) ELSE lists[l]]
  BY <1>1 DEF Divide
<1> HIDE DEF a
<1>4. \A l \in Range(into) : ListOK(filled(l))
  <2>1. TAKE l \in Range(into)
  <2>2. at(l) \in 1 .. num
    BY <1>1 DEF Range
  <2>3. num \in 1 .. Len(a)
    BY <1>1, <1>2
  <2> HIDE DEF at
  <2>4. QED
    BY <1>2, <2>2, <2>3, PartOK
<1> HIDE DEF filled
<1>5. \A l \in Names : \/ lists'[l] = filled(l) /\ ListOK(filled(l))
                       \/ lists'[l] = lists[l]
  BY <1>3, <1>4
<1>6. \A l \in Names : lists'[l] \in ListType \cup {Null} /\ (lists'[l] # Null => ListOK(lists'[l]))
  BY <1>5 DEF IInv, Made, ListOK
<1>7. lists' \in [Names -> ListType \cup {Null}]
  BY <1>3, <1>6
<1>8. QED
  BY <1>3, <1>6, <1>7 DEF IInv, Made

(* A channel takes the list                                                *)
LEMMA UseStep ==
  ASSUME IInv, NEW l \in Names, Use(l), Careful => Complete(lists[l].plist)
  PROVE  IInv'
<1> DEFINE list == lists[l]
           next == [list EXCEPT !.used = TRUE, !.tags = list.plist, !.rc = @ + 1]
<1>1. /\ list \in ListType /\ Owned(list) /\ ~ list.used /\ list.held
      /\ Careful => Exact(list)
  BY DEF Use, Mine, IInv, ListOK
<1>2. list.plist \in Seq(Ranks \cup {Unset}) /\ list.rc + 1 \in Int
  BY <1>1 DEF ListType
<1>3. next \in ListType
  BY <1>1, <1>2 DEF ListType
<1>4. /\ next.rc = list.rc + 1 /\ next.held = list.held /\ next.used = TRUE
      /\ next.tags = list.plist /\ next.plist = list.plist /\ next.valid = list.valid
  BY <1>1 DEF ListType
<1>5. Keep(l, next)
  BY DEF Use
<1> HIDE DEF next
<1>6. Owned(next)
  BY <1>1, <1>4 DEF Owned, Is
<1>7. Careful => Exact(next) /\ Tagged(next)
  <2>1. SUFFICES ASSUME Careful
                 PROVE  Exact(next) /\ Tagged(next)
    OBVIOUS
  <2>2. Unset \notin Range(list.plist)
    BY <2>1 DEF Complete
  <2>3. QED
    BY <1>1, <1>4, <2>1, <2>2 DEF Exact, Tagged, Unsets, Range
<1>8. ListOK(next)
  BY <1>3, <1>6, <1>7 DEF ListOK
<1>9. QED
  BY <1>5, <1>8, KeepOK DEF Use

(* One of its owners gives the list up: it is freed, or the other still    *)
(* has it                                                                  *)
LEMMA DropOK ==
  ASSUME NEW list, ListOK(list), NEW left,
         \/ list.held /\ left = [list EXCEPT !.held = FALSE]
         \/ list.used /\ left = [list EXCEPT !.used = FALSE, !.tags = << >>]
  PROVE  ListOK(Drop(left)) \/ Drop(left) = Null
<1> DEFINE next == [left EXCEPT !.rc = @ - 1]
<1>1. list \in ListType /\ Owned(list) /\ (Careful => Exact(list) /\ Tagged(list))
  BY DEF ListOK
<1>2. left \in ListType /\ left.rc = list.rc /\ left.plist = list.plist /\ left.valid = list.valid
  <2>1. << >> \in Seq(Ranks \cup {Unset})
    OBVIOUS
  <2>2. CASE left = [list EXCEPT !.held = FALSE]
    BY <1>1, <2>2 DEF ListType
  <2>3. CASE left = [list EXCEPT !.used = FALSE, !.tags = << >>]
    BY <1>1, <2>1, <2>3 DEF ListType
  <2>4. QED
    BY <2>2, <2>3
<1>3. \/ list.held /\ left.held = FALSE /\ left.used = list.used /\ left.tags = list.tags
      \/ list.used /\ left.used = FALSE /\ left.held = list.held /\ left.tags = << >>
  BY <1>1 DEF ListType
<1>4. CASE left.rc = 1
  BY <1>4 DEF Drop
<1>5. CASE left.rc # 1
  <2>1. left.rc - 1 \in Int
    BY <1>2 DEF ListType
  <2>2. Drop(left) = next /\ next \in ListType
    BY <1>2, <1>5, <2>1 DEF Drop, ListType
  <2>3. /\ next.rc = left.rc - 1 /\ next.held = left.held /\ next.used = left.used
        /\ next.tags = left.tags /\ next.plist = left.plist /\ next.valid = left.valid
    BY <1>2 DEF ListType
  <2> HIDE DEF next
  <2>4. list.held /\ list.used /\ list.rc = 2
    BY <1>1, <1>2, <1>3, <1>5 DEF Owned, Is
  <2>5. Owned(next)
    <3>1. next.rc = 1
      BY <1>2, <2>3, <2>4
    <3>2. CASE left.held = FALSE /\ left.used = list.used /\ left.tags = list.tags
      BY <1>2, <2>3, <2>4, <3>1, <3>2 DEF Owned, Is
    <3>3. CASE left.used = FALSE /\ left.held = list.held /\ left.tags = << >>
      BY <1>2, <2>3, <2>4, <3>1, <3>3 DEF Owned, Is
    <3>4. QED
      BY <1>3, <3>2, <3>3
  <2>6. Careful => Exact(next) /\ Tagged(next)
    BY <1>1, <1>2, <1>3, <2>3 DEF Exact, Tagged
  <2>7. QED
    BY <2>2, <2>5, <2>6 DEF ListOK
<1>6. QED
  BY <1>4, <1>5

LEMMA DropStep ==
  ASSUME IInv, NEW l \in Names, Destroy(l) \/ ChanDestroy(l)
  PROVE  IInv'
<1>1. CASE Destroy(l)
  <2> DEFINE left == [lists[l] EXCEPT !.held = FALSE]
  <2>1. ListOK(lists[l]) /\ lists[l].held
    BY <1>1 DEF Destroy, Mine, IInv
  <2>2. ListOK(Drop(left)) \/ Drop(left) = Null
    BY <2>1, DropOK
  <2>3. Keep(l, Drop(left)) /\ UNCHANGED rank
    BY <1>1 DEF Destroy
  <2> HIDE DEF left
  <2>4. QED
    BY <2>2, <2>3, KeepOK
<1>2. CASE ChanDestroy(l)
  <2> DEFINE left == [lists[l] EXCEPT !.used = FALSE, !.tags = << >>]
  <2>1. ListOK(lists[l]) /\ lists[l].used
    BY <1>2 DEF ChanDestroy, IInv
  <2>2. ListOK(Drop(left)) \/ Drop(left) = Null
    BY <2>1, DropOK
  <2>3. Keep(l, Drop(left)) /\ UNCHANGED rank
    BY <1>2 DEF ChanDestroy
  <2> HIDE DEF left
  <2>4. QED
    BY <2>2, <2>3, KeepOK
<1>3. QED
  BY <1>1, <1>2

-----------------------------------------------------------------------------
(* The invariant holds in every state                                      *)
THEOREM Invariance == Spec => []IInv
<1>1. Init => IInv
  BY DEF Init, IInv, Made
<1>2. IInv /\ [Next]_vars => IInv'
  <2>1. SUFFICES ASSUME IInv, [Next]_vars
                 PROVE  IInv'
    OBVIOUS
  <2>2. ASSUME NEW l \in Names, Create(l) \/ CreateComplement(l)
        PROVE  IInv'
    BY <2>1, <2>2, CreateStep
  <2>3. ASSUME NEW l \in Names, CreateEmpty(l)
        PROVE  IInv'
    BY <2>1, <2>3, CreateEmptyStep
  <2>4. ASSUME NEW l \in Names, SetEntry(l)
        PROVE  IInv'
    BY <2>1, <2>4, SetEntryStep
  <2>5. ASSUME NEW l \in Names, Union(l) \/ Isect(l) \/ Diff(l)
        PROVE  IInv'
    BY <2>1, <2>5, SetOperationStep
  <2>6. ASSUME NEW l \in Names, Use(l), Careful => Complete(lists[l].plist)
        PROVE  IInv'
    BY <2>1, <2>6, UseStep
  <2>7. ASSUME NEW l \in Names, Destroy(l) \/ ChanDestroy(l)
        PROVE  IInv'
    BY <2>1, <2>7, DropStep
  <2>8. ASSUME NEW whole \in Handles, NEW num \in 1 .. Cardinality(Names),
               NEW into \in [1 .. num -> Names], Divide(whole, into)
        PROVE  IInv'
    BY <2>1, <2>8, DivideStep
  <2>9. CASE UNCHANGED vars
    BY <2>1, <2>9 DEF IInv, Made, vars
  <2>10. QED
    BY <2>1, <2>2, <2>3, <2>4, <2>5, <2>6, <2>7, <2>8, <2>9 DEF Next
<1>3. QED
  BY <1>1, <1>2, PTL DEF Spec

(* There is room for Size different ranks                                  *)
LEMMA AtMostSize ==
  ASSUME NEW s \in RankLists
  PROVE  Len(s) <= Size
<1>1. s \in Seq(Ranks) /\ Distinct(s) /\ Len(s) \in Nat /\ DOMAIN s = 1 .. Len(s)
  BY DEF RankLists
<1>2. s \in Injection(1 .. Len(s), Ranks)
  <2>1. s \in [1 .. Len(s) -> Ranks]
    BY <1>1
  <2>2. QED
    BY <1>1, <2>1 DEF Injection, IsInjective, Distinct
<1>3. IsFiniteSet(Ranks) /\ Cardinality(Ranks) = Size
  <2>1. 0 \in Int /\ Size - 1 \in Int /\ ~ (0 > Size - 1) /\ Size - 1 - 0 + 1 = Size
    BY ListsAssumption
  <2>2. QED
    BY <2>1, FS_Interval DEF Ranks
<1>4. Cardinality(1 .. Len(s)) = Len(s)
  BY <1>1, FS_Interval
<1>5. QED
  BY <1>2, <1>3, <1>4, FS_Injection

(* What rc counts, whatever the application does to its lists              *)
LEMMA OwnersCount ==
  ASSUME NEW list, ListOK(list)
  PROVE  RcCountsOwners(list)
<1> DEFINE owners == {x \in {"held", "used"} : list[x]}
<1>1. Owned(list) /\ list.held \in BOOLEAN /\ list.used \in BOOLEAN
  BY DEF ListOK, ListType
<1>2. CASE list.held /\ list.used
  <2>1. owners = {"held"} \cup {"used"}
    BY <1>2
  <2>2. IsFiniteSet({"held"}) /\ Cardinality({"held"}) = 1
    BY FS_Singleton
  <2>3. "used" \notin {"held"}
    OBVIOUS
  <2>4. Cardinality({"held"} \cup {"used"}) = Cardinality({"held"}) + 1
    BY <2>2, <2>3, FS_AddElement
  <2>5. Cardinality(owners) = 2
    BY <2>1, <2>2, <2>4
  <2>6. list.rc = 2
    BY <1>1, <1>2 DEF Owned, Is
  <2>7. QED
    BY <1>1, <2>5, <2>6 DEF RcCountsOwners
<1>3. CASE list.held /\ ~ list.used
  <2>1. owners = {"held"}
    BY <1>3
  <2>2. Cardinality(owners) = 1
    BY <2>1, FS_Singleton
  <2>3. list.rc = 1
    BY <1>1, <1>3 DEF Owned, Is
  <2>4. QED
    BY <1>3, <2>2, <2>3 DEF RcCountsOwners
<1>4. CASE ~ list.held /\ list.used
  <2>1. owners = {"used"}
    BY <1>4
  <2>2. Cardinality(owners) = 1
    BY <2>1, FS_Singleton
  <2>3. list.rc = 1
    BY <1>1, <1>4 DEF Owned, Is
  <2>4. QED
    BY <1>1, <1>4, <2>2, <2>3 DEF RcCountsOwners
<1>5. QED
  BY <1>1, <1>2, <1>3, <1>4 DEF Owned

(* However the application fills, divides and uses its lists, rc counts    *)
(* the owners of a list, so that none is freed which is still in use and   *)
(* none is left when nobody needs it.                                      *)
THEOREM OwnersCorrect ==
  Spec => [](\A l \in Names : Made(l) => RcCountsOwners(lists[l]))
<1>1. IInv => \A l \in Names : Made(l) => RcCountsOwners(lists[l])
  BY OwnersCount DEF IInv
<1>2. QED
  BY <1>1, Invariance, PTL

(* The state of a list of a careful application: its length, counters and  *)
(* the values of its entries                                               *)
LEMMA ListTyped ==
  ASSUME NEW list, ListOK(list), Careful
  PROVE  /\ Range(list.plist) \subseteq Ranks \cup {Unset}
         /\ Len(list.plist) <= Size \/ Len(list.plist) <= MaxCount
         /\ Range(list.tags) \subseteq Ranks
         /\ list.valid \in 0 .. MaxCount \cup {Garbage}
         /\ list.rc \in 1 .. 2
         /\ {list.held, list.used} \subseteq BOOLEAN
<1> DEFINE s == list.plist
<1>1. /\ list \in ListType /\ Owned(list) /\ Exact(list) /\ Tagged(list)
      /\ s \in Seq(Ranks \cup {Unset}) /\ Len(s) \in Nat /\ DOMAIN s = 1 .. Len(s)
  BY DEF ListOK, ListType
<1>2. Range(list.plist) \subseteq Ranks \cup {Unset} /\ Range(list.tags) \subseteq Ranks
  <2>1. list.tags \in Seq(Ranks)
    <3>1. CASE list.used
      <4>1. list.tags = s /\ Unset \notin Range(s)
        BY <1>1, <3>1 DEF Tagged, Unsets, Range
      <4>2. QED
        BY <1>1, <4>1, AllSet
    <3>2. CASE ~ list.used
      <4>1. list.tags = << >>
        BY <1>1, <3>2 DEF Owned
      <4>2. QED
        BY <4>1
    <3>3. QED
      BY <3>1, <3>2
  <2>2. QED
    BY <1>1, <2>1 DEF Range
<1>3. list.rc \in 1 .. 2 /\ {list.held, list.used} \subseteq BOOLEAN
  BY <1>1 DEF Owned, Is, ListType
<1>4. CASE Unsets(s) = {}
  <2>1. s \in RankLists
    <3>1. Unset \notin Range(s)
      BY <1>4 DEF Unsets, Range
    <3>2. s \in Seq(Ranks)
      BY <1>1, <3>1, AllSet
    <3>3. Distinct(s)
      BY <1>1, <3>1 DEF Exact, SetOnce, Distinct, Range
    <3>4. QED
      BY <3>2, <3>3 DEF RankLists
  <2>2. Len(s) <= Size
    BY <2>1, AtMostSize
  <2>3. list.valid \in {0, Garbage}
    BY <1>1, <1>4, FS_EmptySet DEF Exact
  <2>4. QED
    BY <1>2, <1>3, <2>2, <2>3, ListsAssumption
<1>5. CASE Unsets(s) # {}
  <2>1. Len(s) <= MaxCount /\ list.valid = Cardinality(Unsets(s))
    BY <1>1, <1>5 DEF Exact
  <2>2. IsFiniteSet(1 .. Len(s)) /\ Cardinality(1 .. Len(s)) = Len(s)
    <3>1. Len(s) \in Nat
      BY <1>1
    <3> HIDE DEF s
    <3>2. QED
      BY <3>1, FS_Interval
  <2>3. Unsets(s) \in SUBSET (1 .. Len(s))
    BY <1>1 DEF Unsets
  <2>4. IsFiniteSet(Unsets(s)) /\ Cardinality(Unsets(s)) <= Len(s)
    BY <2>2, <2>3, FS_Subset
  <2>5. Cardinality(Unsets(s)) \in Nat
    BY <2>4, FS_CardinalityType
  <2>6. list.valid \in 0 .. MaxCount
    BY <1>1, <2>1, <2>4, <2>5, ListsAssumption
  <2>7. QED
    BY <1>2, <1>3, <2>1, <2>6
<1>6. QED
  BY <1>4, <1>5

(* Type correctness: in particular no list of a careful application is     *)
(* longer than there are processes, unless it is one made empty that has   *)
(* unset entries left, and valid never falls below zero.                   *)
THEOREM TypeCorrect ==
  ASSUME Careful
  PROVE  Spec => []TypeOK
<1>1. IInv => TypeOK
  <2>1. SUFFICES ASSUME IInv
                 PROVE  TypeOK
    OBVIOUS
  <2>2. rank \in Ranks
    BY <2>1 DEF IInv
  <2>3. \A l \in Names : Made(l) => ListOK(lists[l])
    BY <2>1 DEF IInv
  <2>4. QED
    BY <2>2, <2>3, ListTyped DEF TypeOK
<1>2. QED
  BY <1>1, Invariance, PTL

(* The three counters plist.c keeps by hand agree with what they count,    *)
(* in any order of calls: rc with the owners, valid with the entries not   *)
(* yet set, and the tags of a channel with its list.                       *)
THEOREM ListsCorrect ==
  ASSUME Careful
  PROVE  Spec => []ListsConsistent
<1>1. ASSUME NEW list, ListOK(list)
      PROVE  ValidCountsUnset(list) /\ TagsMatchList(list)
  BY <1>1 DEF ListOK, Exact, Unsets, ValidCountsUnset, Tagged, TagsMatchList
<1>2. IInv => ListsConsistent
  BY <1>1, OwnersCount DEF IInv, ListsConsistent
<1>3. QED
  BY <1>2, Invariance, PTL

(* The loops of plist.c compute the set operations plist.h names, for any  *)
(* number of processes and on any lists a careful application can have.    *)
THEOREM SetsCorrect ==
  ASSUME Careful
  PROVE  Spec => []SetsAgree
<1>1. IInv => SetsAgree
  <2>1. SUFFICES ASSUME IInv
                 PROVE  SetsAgree
    OBVIOUS
  <2> DEFINE valid == {x \in Handles : ValidOf(x) = 0}
             own == valid \cap Names
  <2>2. \A x \in valid : Entries(x) \in RankLists
    BY <2>1, Operands
  <2>3. \A a, b \in own, c \in valid :
          LET three == <<Entries(a), Entries(c), Entries(b)>>
              in(x) == Range(Entries(x))
          IN  /\ IsSet(UnionOf(three), in(a) \cup in(b) \cup in(c))
              /\ IsSet(IsectOf(three), in(a) \cap in(b) \cap in(c))
    BY <2>2, UnionCorrect, IsectCorrect
  <2>4. \A a, b \in valid :
          /\ IsSet(UnionOf(<<Entries(a), Entries(b)>>), Range(Entries(a)) \cup Range(Entries(b)))
          /\ IsSet(IsectOf(<<Entries(a), Entries(b)>>), Range(Entries(a)) \cap Range(Entries(b)))
          /\ IsSet(DiffOf(Entries(a), Entries(b)), Range(Entries(a)) \ Range(Entries(b)))
    BY <2>2, UnionCorrect, IsectCorrect, DiffCorrect
  <2>5. \A a \in valid : IsSet(Complement(Entries(a)), Ranks \ Range(Entries(a)))
    BY <2>2, ComplementCorrect DEF RankLists
  <2>6. \A a \in valid : \A num \in 1 .. Len(Entries(a)) :
          LET parts == [i \in 1 .. num |-> Part(Entries(a), num, i)]
          IN  /\ FlattenSeq(parts) = Entries(a)
              /\ \A i, j \in 1 .. num : i < j => Len(parts[i]) \in 1 .. Len(parts[j])
    BY <2>2, DivideCorrect DEF RankLists
  <2> HIDE DEF valid
  <2>7. QED
    BY <2>3, <2>4, <2>5, <2>6 DEF SetsAgree, valid
<1>2. QED
  BY <1>1, Invariance, PTL
=============================================================================
