-------------------------- MODULE SocketSetupProofs --------------------------
(***************************************************************************)
(* Proofs about the wiring of the processes (libdsys/sockets.c), for any   *)
(* number of them.                                                         *)
(*                                                                         *)
(* A process knows how many connections it has accepted and made, but not  *)
(* whose: it takes from the backlog whoever is first.  The invariant says  *)
(* which calls have been made, that each connection is made once, and that *)
(* as many processes are wired as connections were accepted; when every    *)
(* process is done these are all.                                          *)
(***************************************************************************)
EXTENDS SocketSetup, SequenceTheorems, FiniteSetTheorems, TLAPS

USE SizeAssumption

Connecting(p) == pc[p] \in {"connect", "send_id", "done"}

(* The calls of accept, and of connect, that p has behind it               *)
Accepts(p) == IF pc[p] = "start" THEN 0
              ELSE IF pc[p] = "accept" THEN 2 * p - Len(todo[p]) ELSE 2 * p
Connects(p) == IF Connecting(p) THEN 2 * (Size - 1 - p) - Len(todo[p]) ELSE 0

(* What is left of Calls(from, n) after k of them                          *)
CallAt(from, k) == [rank |-> from + k \div 2, type |-> IF k % 2 = 0 THEN "req" ELSE "data"]
CallsLeft(from, n, k) == [i \in 1 .. 2 * n - k |-> CallAt(from, k + i - 1)]

TodoOf(p) ==
  /\ pc[p] = "accept" => /\ Accepts(p) \in 0 .. 2 * p
                         /\ todo[p] = CallsLeft(0, p, Accepts(p))
  /\ Connecting(p) => /\ Connects(p) \in 0 .. 2 * (Size - 1 - p)
                      /\ todo[p] = CallsLeft(p + 1, Size - 1 - p, Connects(p))
  /\ pc[p] = "send_id" => todo[p] # << >>
  /\ pc[p] = "done" => todo[p] = << >>

(* The place of a connection to q > p among the calls of p; it has been    *)
(* made, or entered the backlog                                            *)
CallNo(p, q, y) == 2 * (q - p - 1) + IF y = "req" THEN 0 ELSE 1
Made(p, q, y)   == Connecting(p) /\ CallNo(p, q, y) < Connects(p)
Begun(p, q, y)  == Made(p, q, y) \/ (pc[p] = "send_id" /\ CallNo(p, q, y) = Connects(p))

(* The id a process is about to send is its rank and the type of the call  *)
IdOf(p) == /\ Connecting(p) => id[p].rank = p
           /\ pc[p] = "send_id" => id[p].type = Head(todo[p]).type

SentRight == \A conn \in DOMAIN sent : sent[conn] = [rank |-> conn[1], type |-> conn[3]]

(* A connection in a backlog is from a process of lower rank, there once   *)
(* and not accepted yet                                                    *)
Waiting(q, y) == {<<p, q, y>> : p \in {r \in Ranks : /\ r < q /\ Begun(r, q, y)
                                                     /\ Fd(q, r, y) = NoFd}}
BacklogRight ==
  \A q \in Ranks, y \in Types :
    /\ \A i \in 1 .. Len(backlog[q][y]) : backlog[q][y][i] \in Waiting(q, y)
    /\ \A i, j \in 1 .. Len(backlog[q][y]) :
         backlog[q][y][i] = backlog[q][y][j] => i = j

(* The two ends of the connection between p and q > p                      *)
EndsRight ==
  \A p, q \in Ranks, y \in Types : p < q =>
    /\ Fd(p, q, y) = IF Made(p, q, y) THEN <<p, q, y>> ELSE NoFd
    /\ Fd(q, p, y) # NoFd => Fd(q, p, y) = <<p, q, y>> /\ Begun(p, q, y)

(* Every accept wires a process that was not wired before                  *)
Accepted(q, y) == {p \in 0 .. q - 1 : Fd(q, p, y) # NoFd}
OfType(y, k)   == IF y = "req" THEN (k + 1) \div 2 ELSE k \div 2
AcceptsCounted ==
  \A q \in Ranks, y \in Types : Cardinality(Accepted(q, y)) = OfType(y, Accepts(q))

Types1 == /\ listening \in [Ranks -> {"no", "open", "closed"}]
          /\ backlog \in [Ranks -> [Types -> Seq(Connections)]]
          /\ DOMAIN sent \subseteq Connections
          /\ id \in [Ranks -> Ids]
          /\ slist \in [Ranks -> [Indices -> [Types -> Connections \cup {NoFd}]]]
          /\ todo \in [Ranks -> Seq(Ids)]
          /\ pc \in [Ranks -> {"start", "accept", "connect", "send_id", "done"}]

Inv == /\ Types1 /\ SentRight /\ BacklogRight /\ EndsRight /\ AcceptsCounted
       /\ \A p \in Ranks : TodoOf(p) /\ IdOf(p)

-----------------------------------------------------------------------------
(* A call is to a process, about one type of connection                    *)
LEMMA CallTypes ==
  ASSUME NEW from \in Nat, NEW n \in Nat, from + n <= Size, NEW k \in 0 .. 2 * n
  PROVE  /\ \A i \in 1 .. 2 * n - k : CallAt(from, k + i - 1) \in Ids
         /\ CallsLeft(from, n, k) \in Seq(Ids)
         /\ Len(CallsLeft(from, n, k)) = 2 * n - k
<1>1. \A i \in 1 .. 2 * n - k : CallAt(from, k + i - 1) \in Ids
  <2>1. TAKE i \in 1 .. 2 * n - k
  <2>2. PICK j \in 0 .. 2 * n - 1 : j = k + i - 1
    OBVIOUS
  <2>3. from + j \div 2 \in Ranks
    BY <2>2 DEF Ranks
  <2>4. QED
    BY <2>2, <2>3 DEF CallAt, Ids, Types
<1>2. CallsLeft(from, n, k) \in [1 .. 2 * n - k -> Ids]
  BY <1>1 DEF CallsLeft
<1>3. 2 * n - k \in Nat
  OBVIOUS
<1>4. QED
  BY <1>1, <1>2, <1>3

(* They are made one after the other                                       *)
LEMMA NextCall ==
  ASSUME NEW from \in Nat, NEW n \in Nat, from + n <= Size, NEW k \in 0 .. 2 * n,
         CallsLeft(from, n, k) # << >>
  PROVE  /\ k + 1 \in 0 .. 2 * n
         /\ Head(CallsLeft(from, n, k)) = CallAt(from, k)
         /\ Tail(CallsLeft(from, n, k)) = CallsLeft(from, n, k + 1)
<1> DEFINE s == CallsLeft(from, n, k)
           t == CallsLeft(from, n, k + 1)
<1>1. s \in Seq(Ids) /\ Len(s) = 2 * n - k
  BY CallTypes
<1>2. k + 1 \in 0 .. 2 * n
  <2>1. Len(s) # 0
    BY <1>1, EmptySeq
  <2>2. QED
    BY <1>1, <2>1
<1>3. t \in Seq(Ids) /\ Len(t) = 2 * n - (k + 1)
  BY <1>2, CallTypes
<1>4. \A i \in 1 .. 2 * n - k : s[i] = CallAt(from, k + i - 1)
  BY DEF CallsLeft
<1>5. \A i \in 1 .. 2 * n - (k + 1) : t[i] = CallAt(from, k + i)
  <2>1. TAKE i \in 1 .. 2 * n - (k + 1)
  <2>2. (k + 1) + i - 1 = k + i
    OBVIOUS
  <2>3. QED
    BY <2>2 DEF CallsLeft
<1> HIDE DEF s, t
<1>6. /\ Tail(s) \in Seq(Ids) /\ Len(Tail(s)) = Len(s) - 1
      /\ \A i \in 1 .. Len(s) - 1 : Tail(s)[i] = s[i + 1]
      /\ Head(s) = s[1]
  BY <1>1, <1>2, HeadTailProperties
<1>7. Head(s) = CallAt(from, k)
  <2>1. 1 \in 1 .. 2 * n - k /\ k + 1 - 1 = k
    BY <1>2
  <2>2. QED
    BY <1>4, <1>6, <2>1
<1>8. \A i \in 1 .. 2 * n - (k + 1) : Tail(s)[i] = t[i]
  <2>1. TAKE i \in 1 .. 2 * n - (k + 1)
  <2>2. i + 1 \in 1 .. 2 * n - k /\ k + (i + 1) - 1 = k + i
    OBVIOUS
  <2>3. QED
    BY <1>1, <1>4, <1>5, <1>6, <2>2
<1>9. Tail(s) = t
  BY <1>1, <1>3, <1>6, <1>8, SeqEqual
<1>10. QED
  BY <1>2, <1>7, <1>9 DEF s, t

LEMMA AllCalls ==
  ASSUME NEW from \in Nat, NEW n \in Nat, from + n <= Size
  PROVE  /\ Calls(from, n) = CallsLeft(from, n, 0)
         /\ Len(Calls(from, n)) = 2 * n
         /\ Calls(from, n) \in Seq(Ids)
<1>1. \A i \in 1 .. 2 * n :
        [rank |-> from + (i - 1) \div 2, type |-> IF i % 2 = 1 THEN "req" ELSE "data"]
          = CallAt(from, 0 + i - 1)
  <2>1. TAKE i \in 1 .. 2 * n
  <2>2. 0 + i - 1 = i - 1 /\ ((i - 1) % 2 = 0 <=> i % 2 = 1)
    OBVIOUS
  <2>3. QED
    BY <2>2 DEF CallAt
<1>2. Calls(from, n) = CallsLeft(from, n, 0)
  BY <1>1 DEF Calls, CallsLeft
<1>3. QED
  BY <1>2, CallTypes

(* The call a process makes next is the one its place says                 *)
LEMMA CallPlace ==
  ASSUME NEW p \in Ranks, NEW k \in 0 .. 2 * (Size - 1 - p) - 1
  PROVE  /\ CallAt(p + 1, k).rank \in Ranks /\ p < CallAt(p + 1, k).rank
         /\ CallAt(p + 1, k).type \in Types
         /\ \A q \in Ranks, y \in Types :
              p < q => (CallNo(p, q, y) = k <=>
                          q = CallAt(p + 1, k).rank /\ y = CallAt(p + 1, k).type)
BY DEF CallAt, CallNo, Ranks, Types

LEMMA CallNoType ==
  ASSUME NEW p \in Ranks, NEW q \in Ranks, p < q, NEW y \in Types
  PROVE  CallNo(p, q, y) \in 0 .. 2 * (Size - 1 - p) - 1
BY DEF CallNo, Ranks, Types

-----------------------------------------------------------------------------
(* A process has its own place for each other                              *)
LEMMA IdxType ==
  ASSUME NEW p \in Ranks, NEW q \in Ranks \ {p}
  PROVE  /\ Idx(p, q) \in Indices
         /\ \A r \in Ranks \ {p} : Idx(p, q) = Idx(p, r) => q = r
BY DEF Idx, Indices, Ranks

(* What one descriptor is set to shows nowhere else                        *)
SetsFd(p, r, y, conn) == slist' = [slist EXCEPT ![p][Idx(p, r)][y] = conn]
OnlyFd(p, r, y, conn) ==
  \A a, b \in Ranks, z \in Types :
    a # b => slist'[a][Idx(a, b)][z] = IF a = p /\ b = r /\ z = y THEN conn
                                       ELSE slist[a][Idx(a, b)][z]

LEMMA FdSet ==
  ASSUME Types1, NEW p \in Ranks, NEW r \in Ranks \ {p}, NEW y \in Types,
         NEW conn \in Connections, SetsFd(p, r, y, conn)
  PROVE  /\ slist' \in [Ranks -> [Indices -> [Types -> Connections \cup {NoFd}]]]
         /\ OnlyFd(p, r, y, conn)
<1>1. slist \in [Ranks -> [Indices -> [Types -> Connections \cup {NoFd}]]]
  BY DEF Types1
<1>2. PICK i \in Indices : i = Idx(p, r)
  BY IdxType
<1>3. slist' = [slist EXCEPT ![p][i][y] = conn]
  BY <1>2 DEF SetsFd
<1>4. slist' \in [Ranks -> [Indices -> [Types -> Connections \cup {NoFd}]]]
  <2>1. [slist[p][i] EXCEPT ![y] = conn] \in [Types -> Connections \cup {NoFd}]
    BY <1>1
  <2>2. [slist[p] EXCEPT ![i] = [@ EXCEPT ![y] = conn]]
          \in [Indices -> [Types -> Connections \cup {NoFd}]]
    BY <1>1, <2>1
  <2>3. slist' = [slist EXCEPT ![p] = [slist[p] EXCEPT ![i] = [@ EXCEPT ![y] = conn]]]
    BY <1>3
  <2>4. QED
    BY <1>1, <2>2, <2>3
<1>5. \A a \in Ranks, j \in Indices, z \in Types :
        slist'[a][j][z] = IF a = p /\ j = i /\ z = y THEN conn ELSE slist[a][j][z]
  BY <1>1, <1>3
<1>6. ASSUME NEW a \in Ranks, NEW b \in Ranks, NEW z \in Types, a # b
      PROVE  slist'[a][Idx(a, b)][z] = IF a = p /\ b = r /\ z = y THEN conn
                                       ELSE slist[a][Idx(a, b)][z]
  <2>1. PICK j \in Indices : j = Idx(a, b)
    BY <1>6, IdxType
  <2>2. a = p => (j = i <=> b = r)
    BY <1>2, <1>6, <2>1, IdxType
  <2>3. QED
    BY <1>5, <2>1, <2>2
<1>7. QED
  BY <1>4, <1>6 DEF OnlyFd

(* A connection is none of the places left empty                           *)
LEMMA ConnectionIs ==
  ASSUME NEW p \in Ranks, NEW q \in Ranks, NEW y \in Types
  PROVE  /\ <<p, q, y>> \in Connections
         /\ <<p, q, y>> # NoFd
         /\ <<p, q, y>>[1] = p /\ <<p, q, y>>[2] = q /\ <<p, q, y>>[3] = y
         /\ \A a, b, z : <<p, q, y>> = <<a, b, z>> <=> p = a /\ q = b /\ y = z
BY DEF Connections, NoFd

-----------------------------------------------------------------------------
(* No call is made before the processes start                              *)
LEMMA InitInv == Init => Inv
<1> SUFFICES ASSUME Init
             PROVE  Inv
  OBVIOUS
<1>1. /\ pc = [p \in Ranks |-> "start"] /\ todo = [p \in Ranks |-> << >>]
      /\ slist = [p \in Ranks |-> [i \in Indices |-> [y \in Types |-> NoFd]]]
      /\ backlog = [p \in Ranks |-> [y \in Types |-> << >>]]
      /\ sent = << >> /\ id = [p \in Ranks |-> NoId]
      /\ listening = [p \in Ranks |-> "no"]
  BY DEF Init
<1>2. \A p \in Ranks : ~ Connecting(p) /\ Accepts(p) = 0 /\ pc[p] = "start"
  BY <1>1 DEF Connecting, Accepts
<1>3. \A p, q \in Ranks, y \in Types : p # q => Fd(p, q, y) = NoFd
  BY <1>1, IdxType DEF Fd
<1>4. Types1
  <2>1. NoId \in Ids
    BY DEF NoId, Ids, Ranks, Types
  <2>2. DOMAIN sent = {}
    BY <1>1
  <2>3. \A S : << >> \in Seq(S)
    OBVIOUS
  <2>4. backlog \in [Ranks -> [Types -> Seq(Connections)]]
    BY <1>1, <2>3
  <2>5. QED
    BY <1>1, <2>1, <2>2, <2>3, <2>4 DEF Types1
<1>5. SentRight
  BY <1>1 DEF SentRight
<1>6. BacklogRight
  BY <1>1 DEF BacklogRight
<1>7. EndsRight
  BY <1>2, <1>3 DEF EndsRight, Made, Ranks
<1>8. AcceptsCounted
  <2>1. SUFFICES ASSUME NEW q \in Ranks, NEW y \in Types
                 PROVE  Cardinality(Accepted(q, y)) = OfType(y, Accepts(q))
    BY DEF AcceptsCounted
  <2>2. Accepted(q, y) = {}
    BY <1>3 DEF Accepted, Ranks
  <2>3. OfType(y, 0) = 0
    BY DEF OfType
  <2>4. QED
    BY <1>2, <2>2, <2>3, FS_EmptySet
<1>9. \A p \in Ranks : TodoOf(p) /\ IdOf(p)
  BY <1>2 DEF TodoOf, IdOf, Connecting
<1>10. QED
  BY <1>4, <1>5, <1>6, <1>7, <1>8, <1>9 DEF Inv

(* What one process does, the others have neither begun nor made           *)
LEMMA Others ==
  ASSUME NEW p \in Ranks,
         \A q \in Ranks \ {p} : pc'[q] = pc[q] /\ todo'[q] = todo[q] /\ id'[q] = id[q]
  PROVE  \A q \in Ranks \ {p} :
           /\ Accepts(q)' = Accepts(q)
           /\ TodoOf(q)' <=> TodoOf(q)
           /\ IdOf(q)' <=> IdOf(q)
           /\ \A r, y : /\ Made(q, r, y)' <=> Made(q, r, y)
                        /\ Begun(q, r, y)' <=> Begun(q, r, y)
<1>1. TAKE q \in Ranks \ {p}
<1>2. pc'[q] = pc[q] /\ todo'[q] = todo[q] /\ id'[q] = id[q]
  OBVIOUS
<1>3. /\ Accepts(q)' = Accepts(q) /\ Connects(q)' = Connects(q)
      /\ Connecting(q)' <=> Connecting(q)
  BY <1>2 DEF Accepts, Connects, Connecting
<1>4. TodoOf(q)' <=> TodoOf(q)
  BY <1>2, <1>3 DEF TodoOf
<1>5. IdOf(q)' <=> IdOf(q)
  BY <1>2, <1>3 DEF IdOf
<1>6. \A r, y : Made(q, r, y)' <=> Made(q, r, y)
  BY <1>3 DEF Made
<1>7. \A r, y : Begun(q, r, y)' <=> Begun(q, r, y)
  BY <1>2, <1>3, <1>6 DEF Begun
<1>8. QED
  BY <1>3, <1>4, <1>5, <1>6, <1>7

(* A step between two calls                                                *)
LEMMA BetweenCalls ==
  ASSUME Inv, NEW p \in Ranks, Types1', UNCHANGED <<backlog, sent, slist>>,
         \A q \in Ranks \ {p} : pc'[q] = pc[q] /\ todo'[q] = todo[q] /\ id'[q] = id[q],
         TodoOf(p)', IdOf(p)', Accepts(p)' = Accepts(p),
         \A r \in Ranks, y \in Types :
           p < r => /\ Made(p, r, y)' <=> Made(p, r, y)
                    /\ Begun(p, r, y)' <=> Begun(p, r, y)
  PROVE  Inv'
<1>1. \A q \in Ranks : /\ Accepts(q)' = Accepts(q) /\ TodoOf(q)' /\ IdOf(q)'
                       /\ \A r \in Ranks, y \in Types :
                            q < r => /\ Made(q, r, y)' <=> Made(q, r, y)
                                     /\ Begun(q, r, y)' <=> Begun(q, r, y)
  BY Others DEF Inv
<1>2. \A q, r, y : Fd(q, r, y)' = Fd(q, r, y)
  BY DEF Fd
<1>3. EndsRight'
  BY <1>1, <1>2 DEF Inv, EndsRight
<1>4. BacklogRight'
  <2>1. \A q \in Ranks, y \in Types : Waiting(q, y) \subseteq Waiting(q, y)'
    BY <1>1, <1>2 DEF Waiting
  <2>2. QED
    BY <2>1 DEF Inv, BacklogRight
<1>5. AcceptsCounted'
  BY <1>1, <1>2 DEF Inv, AcceptsCounted, Accepted
<1>6. SentRight'
  BY DEF Inv, SentRight
<1>7. QED
  BY <1>1, <1>3, <1>4, <1>5, <1>6 DEF Inv

(* The listeners are opened: all connections from lower ranks are to come  *)
LEMMA CreateListenersInv ==
  ASSUME Inv, NEW p \in Ranks, CreateListeners(p)
  PROVE  Inv'
<1>0. Types1 /\ TodoOf(p) /\ IdOf(p)
  BY DEF Inv
<1>1. /\ pc[p] = "start" /\ pc' = [pc EXCEPT ![p] = "accept"]
      /\ todo' = [todo EXCEPT ![p] = Calls(0, p)]
      /\ listening' = [listening EXCEPT ![p] = "open"]
      /\ UNCHANGED <<backlog, sent, id, slist>>
  BY DEF CreateListeners
<1>2. /\ Calls(0, p) = CallsLeft(0, p, 0) /\ Len(Calls(0, p)) = 2 * p
      /\ Calls(0, p) \in Seq(Ids)
  <2>1. p \in Nat /\ 0 + p <= Size
    BY DEF Ranks
  <2>2. QED
    BY <2>1, AllCalls
<1>3. Types1'
  BY <1>0, <1>1, <1>2 DEF Types1
<1>4. pc'[p] = "accept" /\ todo'[p] = Calls(0, p)
  BY <1>0, <1>1 DEF Types1
<1>5. Accepts(p) = 0 /\ Accepts(p)' = 0 /\ ~ Connecting(p) /\ ~ Connecting(p)'
  BY <1>1, <1>2, <1>4 DEF Accepts, Connecting, Ranks
<1>6. TodoOf(p)' /\ IdOf(p)'
  BY <1>2, <1>4, <1>5 DEF TodoOf, IdOf, Ranks
<1>7. \A r \in Ranks, y \in Types :
        p < r => /\ Made(p, r, y)' <=> Made(p, r, y)
                 /\ Begun(p, r, y)' <=> Begun(p, r, y)
  BY <1>1, <1>4, <1>5 DEF Made, Begun
<1>8. \A q \in Ranks \ {p} : pc'[q] = pc[q] /\ todo'[q] = todo[q] /\ id'[q] = id[q]
  BY <1>0, <1>1 DEF Types1
<1>9. QED
  BY <1>1, <1>3, <1>5, <1>6, <1>7, <1>8, BetweenCalls

(* The listeners are closed: none of the connections to higher ranks is    *)
(* made                                                                    *)
LEMMA StartConnectingInv ==
  ASSUME Inv, NEW p \in Ranks, StartConnecting(p)
  PROVE  Inv'
<1>0. Types1 /\ TodoOf(p) /\ IdOf(p)
  BY DEF Inv
<1>1. /\ pc[p] = "accept" /\ pc' = [pc EXCEPT ![p] = "connect"]
      /\ todo[p] = << >>
      /\ todo' = [todo EXCEPT ![p] = Calls(p + 1, Size - 1 - p)]
      /\ listening' = [listening EXCEPT ![p] = "closed"]
      /\ id' = [id EXCEPT ![p].rank = p]
      /\ UNCHANGED <<backlog, sent, slist>>
  BY DEF StartConnecting
<1>2. PICK n \in Nat : n = Size - 1 - p /\ (p + 1) + n <= Size
  BY DEF Ranks
<1>3. /\ Calls(p + 1, n) = CallsLeft(p + 1, n, 0) /\ Len(Calls(p + 1, n)) = 2 * n
      /\ Calls(p + 1, n) \in Seq(Ids)
  <2>1. p + 1 \in Nat
    BY DEF Ranks
  <2>2. QED
    BY <1>2, <2>1, AllCalls
<1>4. /\ pc'[p] = "connect" /\ todo'[p] = Calls(p + 1, n) /\ id'[p].rank = p
      /\ id' \in [Ranks -> Ids]
  <2>1. [id[p] EXCEPT !.rank = p] \in Ids /\ [id[p] EXCEPT !.rank = p].rank = p
    <3>1. id[p] \in [rank : Ranks, type : Types]
      BY <1>0 DEF Types1, Ids
    <3>2. QED
      BY <3>1 DEF Ids
  <2>2. QED
    BY <1>0, <1>1, <1>2, <2>1 DEF Types1
<1>5. Types1'
  BY <1>0, <1>1, <1>2, <1>3, <1>4 DEF Types1
<1>6. Accepts(p)' = Accepts(p)
  <2>1. Len(todo[p]) = 0
    BY <1>1
  <2>2. QED
    BY <1>1, <1>4, <2>1 DEF Accepts, Ranks
<1>7. Connecting(p)' /\ Connects(p)' = 0 /\ ~ Connecting(p)
  BY <1>1, <1>2, <1>3, <1>4 DEF Connects, Connecting
<1>8. TodoOf(p)' /\ IdOf(p)'
  BY <1>2, <1>3, <1>4, <1>7 DEF TodoOf, IdOf
<1>9. \A r \in Ranks, y \in Types :
        p < r => /\ Made(p, r, y)' <=> Made(p, r, y)
                 /\ Begun(p, r, y)' <=> Begun(p, r, y)
  <2>1. TAKE r \in Ranks, y \in Types
  <2>2. HAVE p < r
  <2>3. CallNo(p, r, y) \in Nat
    BY <2>2, CallNoType
  <2>4. QED
    BY <1>1, <1>4, <1>7, <2>3 DEF Made, Begun
<1>10. \A q \in Ranks \ {p} : pc'[q] = pc[q] /\ todo'[q] = todo[q] /\ id'[q] = id[q]
  BY <1>0, <1>1 DEF Types1
<1>11. QED
  BY <1>1, <1>5, <1>6, <1>8, <1>9, <1>10, BetweenCalls

(* All connections are made                                                *)
LEMMA ConnectedInv ==
  ASSUME Inv, NEW p \in Ranks, Connected(p)
  PROVE  Inv'
<1>0. Types1 /\ TodoOf(p) /\ IdOf(p)
  BY DEF Inv
<1>1. /\ pc[p] = "connect" /\ pc' = [pc EXCEPT ![p] = "done"] /\ todo[p] = << >>
      /\ UNCHANGED <<listening, backlog, sent, id, slist, todo>>
  BY DEF Connected
<1>2. pc'[p] = "done" /\ Types1'
  BY <1>0, <1>1 DEF Types1
<1>3. /\ Accepts(p)' = Accepts(p) /\ Connects(p)' = Connects(p)
      /\ Connecting(p)' /\ Connecting(p)
  BY <1>1, <1>2 DEF Accepts, Connects, Connecting
<1>4. TodoOf(p)' /\ IdOf(p)'
  BY <1>0, <1>1, <1>2, <1>3 DEF TodoOf, IdOf
<1>5. \A r \in Ranks, y \in Types :
        p < r => /\ Made(p, r, y)' <=> Made(p, r, y)
                 /\ Begun(p, r, y)' <=> Begun(p, r, y)
  BY <1>1, <1>2, <1>3 DEF Made, Begun
<1>6. \A q \in Ranks \ {p} : pc'[q] = pc[q] /\ todo'[q] = todo[q] /\ id'[q] = id[q]
  BY <1>0, <1>1 DEF Types1
<1>7. QED
  BY <1>1, <1>2, <1>3, <1>4, <1>5, <1>6, BetweenCalls

-----------------------------------------------------------------------------
(* The next call of connect: its place is the number of those made         *)
LEMMA NextConnect ==
  ASSUME Inv, NEW p \in Ranks, Connecting(p), todo[p] # << >>
  PROVE  /\ Connects(p) \in Nat /\ Connects(p) + 1 <= 2 * (Size - 1 - p)
         /\ Head(todo[p]).rank \in Ranks /\ p < Head(todo[p]).rank
         /\ Head(todo[p]).type \in Types
         /\ \A q \in Ranks, y \in Types :
              p < q => (CallNo(p, q, y) = Connects(p) <=>
                          q = Head(todo[p]).rank /\ y = Head(todo[p]).type)
         /\ Tail(todo[p]) = CallsLeft(p + 1, Size - 1 - p, Connects(p) + 1)
         /\ Tail(todo[p]) \in Seq(Ids)
         /\ Len(Tail(todo[p])) = Len(todo[p]) - 1
<1>1. PICK n \in Nat : n = Size - 1 - p /\ (p + 1) + n <= Size
  BY DEF Ranks
<1>2. PICK k \in 0 .. 2 * n : k = Connects(p) /\ todo[p] = CallsLeft(p + 1, n, k)
  BY <1>1 DEF Inv, TodoOf
<1>3. p + 1 \in Nat
  BY DEF Ranks
<1>4. /\ k + 1 \in 0 .. 2 * n
      /\ Head(todo[p]) = CallAt(p + 1, k)
      /\ Tail(todo[p]) = CallsLeft(p + 1, n, k + 1)
  BY <1>1, <1>2, <1>3, NextCall
<1>5. k \in 0 .. 2 * (Size - 1 - p) - 1
  BY <1>1, <1>4
<1>6. /\ CallAt(p + 1, k).rank \in Ranks /\ p < CallAt(p + 1, k).rank
      /\ CallAt(p + 1, k).type \in Types
      /\ \A q \in Ranks, y \in Types :
           p < q => (CallNo(p, q, y) = k <=>
                       q = CallAt(p + 1, k).rank /\ y = CallAt(p + 1, k).type)
  BY <1>5, CallPlace
<1>7. Tail(todo[p]) \in Seq(Ids) /\ Len(Tail(todo[p])) = 2 * n - (k + 1)
  <2>1. /\ CallsLeft(p + 1, n, k + 1) \in Seq(Ids)
        /\ Len(CallsLeft(p + 1, n, k + 1)) = 2 * n - (k + 1)
    BY <1>1, <1>3, <1>4, CallTypes
  <2>2. QED
    BY <1>4, <2>1
<1>8. Len(todo[p]) = 2 * n - k
  BY <1>1, <1>2, <1>3, CallTypes
<1>9. Len(Tail(todo[p])) = Len(todo[p]) - 1
  BY <1>7, <1>8
<1>10. Connects(p) \in Nat /\ Connects(p) + 1 <= 2 * (Size - 1 - p)
  BY <1>1, <1>2, <1>4
<1>11. Tail(todo[p]) = CallsLeft(p + 1, Size - 1 - p, Connects(p) + 1)
  BY <1>1, <1>2, <1>4
<1>12. QED
  BY <1>2, <1>4, <1>6, <1>7, <1>9, <1>10, <1>11

(* connect returns: a connection that was not there waits in a backlog     *)
LEMMA ConnectInv ==
  ASSUME Inv, NEW p \in Ranks, Connect(p)
  PROVE  Inv'
<1>0. /\ Types1 /\ SentRight /\ BacklogRight /\ EndsRight /\ AcceptsCounted
      /\ TodoOf(p) /\ IdOf(p)
  BY DEF Inv
<1>1. pc[p] = "connect" /\ todo[p] # << >> /\ Connecting(p)
  BY DEF Connect, Connecting
<1>2. PICK r \in Ranks, y \in Types :
        /\ r = Head(todo[p]).rank /\ y = Head(todo[p]).type /\ p < r
        /\ \A q \in Ranks, z \in Types :
             p < q => (CallNo(p, q, z) = Connects(p) <=> q = r /\ z = y)
  BY <1>1, NextConnect
<1>3. PICK conn \in Connections : conn = <<p, r, y>>
  BY ConnectionIs
<1>4. /\ id' = [id EXCEPT ![p].type = y]
      /\ backlog' = [backlog EXCEPT ![r][y] = Append(@, conn)]
      /\ pc' = [pc EXCEPT ![p] = "send_id"]
      /\ UNCHANGED <<listening, sent, slist, todo>>
  BY <1>2, <1>3 DEF Connect
<1>5. id' \in [Ranks -> Ids] /\ id'[p].rank = id[p].rank /\ id'[p].type = y
  <2>1. id[p] \in [rank : Ranks, type : Types]
    BY <1>0 DEF Types1, Ids
  <2>2. /\ [id[p] EXCEPT !.type = y] \in Ids
        /\ [id[p] EXCEPT !.type = y].rank = id[p].rank
        /\ [id[p] EXCEPT !.type = y].type = y
    BY <2>1 DEF Ids
  <2>3. QED
    BY <1>0, <1>4, <2>2 DEF Types1
<1>6. /\ backlog[r][y] \in Seq(Connections)
      /\ Append(backlog[r][y], conn) \in Seq(Connections)
      /\ Len(Append(backlog[r][y], conn)) = Len(backlog[r][y]) + 1
      /\ \A i \in 1 .. Len(backlog[r][y]) : Append(backlog[r][y], conn)[i] = backlog[r][y][i]
      /\ Append(backlog[r][y], conn)[Len(backlog[r][y]) + 1] = conn
  <2>1. backlog[r][y] \in Seq(Connections)
    BY <1>0 DEF Types1
  <2>2. QED
    BY <2>1, AppendProperties
<1>7. /\ backlog' \in [Ranks -> [Types -> Seq(Connections)]]
      /\ backlog'[r][y] = Append(backlog[r][y], conn)
      /\ \A q \in Ranks, z \in Types : q # r \/ z # y => backlog'[q][z] = backlog[q][z]
  BY <1>0, <1>4, <1>6 DEF Types1
<1>8. Types1' /\ pc'[p] = "send_id"
  BY <1>0, <1>4, <1>5, <1>7 DEF Types1
<1>9. /\ Accepts(p)' = Accepts(p) /\ Connects(p)' = Connects(p) /\ Connecting(p)'
  BY <1>1, <1>4, <1>8 DEF Accepts, Connects, Connecting
<1>10. TodoOf(p)' /\ IdOf(p)'
  <2>1. TodoOf(p)'
    BY <1>0, <1>1, <1>4, <1>8, <1>9 DEF TodoOf
  <2>2. IdOf(p)'
    BY <1>0, <1>1, <1>2, <1>4, <1>5 DEF IdOf
  <2>3. QED
    BY <2>1, <2>2
<1>11. \A q \in Ranks, z \in Types :
         p < q => /\ Made(p, q, z)' <=> Made(p, q, z)
                  /\ Begun(p, q, z) => Begun(p, q, z)'
                  /\ Begun(p, q, z) => ~ (q = r /\ z = y)
                  /\ q = r /\ z = y => Begun(p, q, z)'
  <2>1. TAKE q \in Ranks, z \in Types
  <2>2. HAVE p < q
  <2>3. CallNo(p, q, z) \in Nat /\ Connects(p) \in Nat
    BY <1>1, <2>2, CallNoType, NextConnect
  <2>4. Made(p, q, z)' <=> Made(p, q, z)
    BY <1>1, <1>9 DEF Made
  <2>5. Begun(p, q, z) <=> Made(p, q, z)
    BY <1>1 DEF Begun
  <2>6. Made(p, q, z) => CallNo(p, q, z) # Connects(p)
    BY <2>3 DEF Made
  <2>7. q = r /\ z = y => Begun(p, q, z)'
    BY <1>2, <1>8, <1>9, <2>2 DEF Begun
  <2>8. QED
    BY <1>2, <2>2, <2>4, <2>5, <2>6, <2>7 DEF Begun
<1>12. \A q \in Ranks \ {p} : pc'[q] = pc[q] /\ todo'[q] = todo[q] /\ id'[q] = id[q]
  BY <1>0, <1>4 DEF Types1
<1>13. \A q \in Ranks : Accepts(q)' = Accepts(q) /\ TodoOf(q)' /\ IdOf(q)'
  BY <1>9, <1>10, <1>12, Others DEF Inv
<1>14. \A q \in Ranks, s \in Ranks, z \in Types :
         q < s => /\ Made(q, s, z)' <=> Made(q, s, z)
                  /\ Begun(q, s, z) => Begun(q, s, z)'
  BY <1>11, <1>12, Others
<1>15. \A a, b, z : Fd(a, b, z)' = Fd(a, b, z)
  BY <1>4 DEF Fd
<1>16. EndsRight'
  BY <1>0, <1>14, <1>15 DEF EndsRight
<1>17. BacklogRight'
  <2>1. \A q \in Ranks, z \in Types : Waiting(q, z) \subseteq Waiting(q, z)'
    BY <1>14, <1>15 DEF Waiting
  <2>2. conn \in Waiting(r, y)'
    <3>1. Begun(p, r, y)' /\ ~ Begun(p, r, y)
      BY <1>2, <1>11
    <3>2. Fd(r, p, y)' = NoFd
      BY <1>0, <1>2, <1>15, <3>1 DEF EndsRight
    <3>3. QED
      BY <1>2, <1>3, <3>1, <3>2 DEF Waiting
  <2>3. conn \notin Waiting(r, y)
    BY <1>2, <1>3, <1>11, ConnectionIs DEF Waiting
  <2>4. SUFFICES ASSUME NEW q \in Ranks, NEW z \in Types
                 PROVE  /\ \A i \in 1 .. Len(backlog'[q][z]) : backlog'[q][z][i] \in Waiting(q, z)'
                        /\ \A i, j \in 1 .. Len(backlog'[q][z]) :
                             backlog'[q][z][i] = backlog'[q][z][j] => i = j
    BY DEF BacklogRight
  <2>5. /\ \A i \in 1 .. Len(backlog[q][z]) : backlog[q][z][i] \in Waiting(q, z)
        /\ \A i, j \in 1 .. Len(backlog[q][z]) : backlog[q][z][i] = backlog[q][z][j] => i = j
    BY <1>0 DEF BacklogRight
  <2>6. CASE q = r /\ z = y
    <3>1. PICK n \in Nat : n = Len(backlog[r][y])
      BY <1>6
    <3>2. /\ Len(backlog'[r][y]) = n + 1
          /\ \A i \in 1 .. n : backlog'[r][y][i] = backlog[r][y][i]
          /\ backlog'[r][y][n + 1] = conn
      BY <1>6, <1>7, <3>1
    <3>3. \A i \in 1 .. n + 1 : i \in 1 .. n \/ i = n + 1
      BY <3>1
    <3>4. \A i \in 1 .. n : /\ backlog[r][y][i] \in Waiting(r, y)
                            /\ backlog'[r][y][i] # conn
      BY <2>3, <2>5, <2>6, <3>1, <3>2
    <3>5. \A i \in 1 .. n + 1 : backlog'[r][y][i] \in Waiting(r, y)'
      BY <2>1, <2>2, <3>2, <3>3, <3>4
    <3>6. \A i, j \in 1 .. n + 1 : backlog'[r][y][i] = backlog'[r][y][j] => i = j
      BY <2>5, <2>6, <3>1, <3>2, <3>3, <3>4
    <3>7. QED
      BY <2>6, <3>2, <3>5, <3>6
  <2>7. CASE ~ (q = r /\ z = y)
    <3>1. backlog'[q][z] = backlog[q][z]
      BY <1>7, <2>7
    <3>2. QED
      BY <2>1, <2>5, <3>1
  <2>8. QED
    BY <2>6, <2>7
<1>18. AcceptsCounted'
  BY <1>0, <1>13, <1>15 DEF AcceptsCounted, Accepted
<1>19. SentRight'
  BY <1>0, <1>4 DEF SentRight
<1>20. QED
  BY <1>8, <1>13, <1>16, <1>17, <1>18, <1>19 DEF Inv

(* The id is sent, and the connection is made                              *)
LEMMA SendIdInv ==
  ASSUME Inv, NEW p \in Ranks, SendId(p)
  PROVE  Inv'
<1>0. /\ Types1 /\ SentRight /\ BacklogRight /\ EndsRight /\ AcceptsCounted
      /\ TodoOf(p) /\ IdOf(p)
  BY DEF Inv
<1>1. pc[p] = "send_id" /\ Connecting(p) /\ todo[p] # << >>
  BY <1>0 DEF SendId, Connecting, TodoOf
<1>2. PICK r \in Ranks, y \in Types :
        /\ r = Head(todo[p]).rank /\ y = Head(todo[p]).type /\ p < r
        /\ \A q \in Ranks, z \in Types :
             p < q => (CallNo(p, q, z) = Connects(p) <=> q = r /\ z = y)
  BY <1>1, NextConnect
<1>3. PICK conn \in Connections :
        conn = <<p, r, y>> /\ conn # NoFd /\ conn[1] = p /\ conn[3] = y
  <2>1. <<p, r, y>> \in Connections /\ <<p, r, y>> # NoFd
    BY ConnectionIs
  <2>2. <<p, r, y>>[1] = p /\ <<p, r, y>>[3] = y
    OBVIOUS
  <2>3. QED
    BY <2>1, <2>2
<1>4. /\ sent' = [c \in DOMAIN sent \cup {conn} |-> IF c = conn THEN id[p] ELSE sent[c]]
      /\ slist' = [slist EXCEPT ![p][Idx(p, r)][y] = conn]
      /\ todo' = [todo EXCEPT ![p] = Tail(@)]
      /\ pc' = [pc EXCEPT ![p] = "connect"]
      /\ UNCHANGED <<listening, backlog, id>>
  BY <1>2, <1>3 DEF SendId
<1>5. id[p] = [rank |-> p, type |-> y]
  <2>1. id[p] \in [rank : Ranks, type : Types]
    BY <1>0 DEF Types1, Ids
  <2>2. id[p].rank = p /\ id[p].type = y
    BY <1>0, <1>1, <1>2 DEF IdOf
  <2>3. QED
    BY <2>1, <2>2
<1>6. /\ slist' \in [Ranks -> [Indices -> [Types -> Connections \cup {NoFd}]]]
      /\ \A a, b \in Ranks, z \in Types :
           a # b => Fd(a, b, z)' = IF a = p /\ b = r /\ z = y THEN conn ELSE Fd(a, b, z)
  <2>1. r \in Ranks \ {p}
    BY <1>2 DEF Ranks
  <2>2. SetsFd(p, r, y, conn)
    BY <1>4 DEF SetsFd
  <2>3. /\ slist' \in [Ranks -> [Indices -> [Types -> Connections \cup {NoFd}]]]
        /\ OnlyFd(p, r, y, conn)
    BY <1>0, <2>1, <2>2, FdSet
  <2>4. QED
    BY <2>3 DEF OnlyFd, Fd
<1>7. /\ todo'[p] = Tail(todo[p]) /\ pc'[p] = "connect"
      /\ todo'[p] = CallsLeft(p + 1, Size - 1 - p, Connects(p) + 1)
      /\ todo'[p] \in Seq(Ids) /\ Len(todo'[p]) = Len(todo[p]) - 1
      /\ Connects(p) \in Nat /\ Connects(p) + 1 <= 2 * (Size - 1 - p)
  <2>1. todo'[p] = Tail(todo[p]) /\ pc'[p] = "connect"
    BY <1>0, <1>4 DEF Types1
  <2>2. QED
    BY <1>1, <2>1, NextConnect
<1>8. Types1'
  BY <1>0, <1>3, <1>4, <1>6, <1>7 DEF Types1
<1>9. Connecting(p)' /\ Accepts(p)' = Accepts(p) /\ Connects(p)' = Connects(p) + 1
  <2>1. Connecting(p)' /\ Accepts(p)' = Accepts(p)
    BY <1>1, <1>7 DEF Accepts, Connecting
  <2>2. Len(todo[p]) \in Nat
    BY <1>0 DEF Types1
  <2>3. QED
    BY <1>1, <1>7, <2>1, <2>2 DEF Connects, Ranks
<1>10. TodoOf(p)' /\ IdOf(p)'
  <2>1. Connects(p)' \in 0 .. 2 * (Size - 1 - p)
    BY <1>7, <1>9 DEF Ranks
  <2>2. QED
    BY <1>4, <1>5, <1>7, <1>9, <2>1 DEF TodoOf, IdOf
<1>11. \A q \in Ranks, z \in Types :
         p < q => /\ Made(p, q, z)' <=> (Made(p, q, z) \/ (q = r /\ z = y))
                  /\ Begun(p, q, z)' <=> Begun(p, q, z)
  <2>1. TAKE q \in Ranks, z \in Types
  <2>2. HAVE p < q
  <2>3. CallNo(p, q, z) \in Nat
    BY <2>2, CallNoType
  <2>4. CallNo(p, q, z) = Connects(p) <=> q = r /\ z = y
    BY <1>2, <2>2
  <2>5. Made(p, q, z)' <=> (Made(p, q, z) \/ CallNo(p, q, z) = Connects(p))
    BY <1>1, <1>7, <1>9, <2>3 DEF Made
  <2>6. Begun(p, q, z)' <=> Made(p, q, z)'
    BY <1>7 DEF Begun
  <2>7. Begun(p, q, z) <=> (Made(p, q, z) \/ CallNo(p, q, z) = Connects(p))
    BY <1>1 DEF Begun
  <2>8. QED
    BY <2>4, <2>5, <2>6, <2>7
<1>12. \A q \in Ranks \ {p} : pc'[q] = pc[q] /\ todo'[q] = todo[q] /\ id'[q] = id[q]
  BY <1>0, <1>4 DEF Types1
<1>13. \A q \in Ranks : Accepts(q)' = Accepts(q) /\ TodoOf(q)' /\ IdOf(q)'
  BY <1>9, <1>10, <1>12, Others DEF Inv
<1>14. \A q \in Ranks, s \in Ranks, z \in Types :
         q < s => /\ Made(q, s, z)' <=> (Made(q, s, z) \/ (q = p /\ s = r /\ z = y))
                  /\ Begun(q, s, z)' <=> Begun(q, s, z)
  BY <1>11, <1>12, Others
<1>15. \A q \in Ranks, s \in Ranks, z \in Types :
         q < s => /\ Fd(s, q, z)' = Fd(s, q, z)
                  /\ Fd(q, s, z)' = IF q = p /\ s = r /\ z = y THEN conn ELSE Fd(q, s, z)
  <2>1. TAKE q \in Ranks, s \in Ranks, z \in Types
  <2>2. HAVE q < s
  <2>3. q # s /\ ~ (s = p /\ q = r)
    BY <1>2, <2>2 DEF Ranks
  <2>4. QED
    BY <1>6, <2>3
<1>16. EndsRight'
  <2>1. SUFFICES ASSUME NEW q \in Ranks, NEW s \in Ranks, NEW z \in Types, q < s
                 PROVE  /\ Fd(q, s, z)' = IF Made(q, s, z)' THEN <<q, s, z>> ELSE NoFd
                        /\ Fd(s, q, z)' # NoFd => Fd(s, q, z)' = <<q, s, z>> /\ Begun(q, s, z)'
    BY DEF EndsRight
  <2>2. /\ Fd(q, s, z) = IF Made(q, s, z) THEN <<q, s, z>> ELSE NoFd
        /\ Fd(s, q, z) # NoFd => Fd(s, q, z) = <<q, s, z>> /\ Begun(q, s, z)
    BY <1>0, <2>1 DEF EndsRight
  <2>3. QED
    BY <1>3, <1>14, <1>15, <2>1, <2>2
<1>17. BacklogRight'
  <2>1. \A q \in Ranks, z \in Types : Waiting(q, z)' = Waiting(q, z)
    BY <1>14, <1>15 DEF Waiting
  <2>2. QED
    BY <1>0, <1>4, <2>1 DEF BacklogRight
<1>18. AcceptsCounted'
  <2>1. \A q \in Ranks, z \in Types : Accepted(q, z)' = Accepted(q, z)
    <3>1. \A q \in Ranks : \A b \in 0 .. q - 1 : b \in Ranks /\ b < q
      BY DEF Ranks
    <3>2. QED
      BY <1>15, <3>1 DEF Accepted
  <2>2. QED
    BY <1>0, <1>13, <2>1 DEF AcceptsCounted
<1>19. SentRight'
  BY <1>0, <1>3, <1>4, <1>5 DEF SentRight
<1>20. QED
  BY <1>8, <1>13, <1>16, <1>17, <1>18, <1>19 DEF Inv

-----------------------------------------------------------------------------
(* The processes a process has accepted are finitely many                  *)
LEMMA AcceptedFinite ==
  ASSUME NEW q \in Ranks, NEW y
  PROVE  /\ IsFiniteSet(Accepted(q, y)) /\ Cardinality(Accepted(q, y)) \in Nat
         /\ Cardinality(Accepted(q, y)) = q => Accepted(q, y) = 0 .. q - 1
<1>1. IsFiniteSet(0 .. q - 1) /\ Cardinality(0 .. q - 1) = q
  BY FS_Interval DEF Ranks
<1>2. Accepted(q, y) \in SUBSET (0 .. q - 1)
  BY DEF Accepted
<1>3. QED
  BY <1>1, <1>2, FS_Subset, FS_CardinalityType

(* Requests are accepted first, then as many data connections              *)
LEMMA OfTypeNext ==
  ASSUME NEW k \in Nat
  PROVE  \A y \in Types : /\ OfType(y, k) \in Nat
                          /\ OfType(y, k + 1) = IF y = CallAt(0, k).type
                                                  THEN OfType(y, k) + 1 ELSE OfType(y, k)
BY DEF OfType, CallAt, Types

(* The next call of accept                                                 *)
LEMMA NextAccept ==
  ASSUME Inv, NEW p \in Ranks, pc[p] = "accept", todo[p] # << >>
  PROVE  /\ Accepts(p) \in Nat /\ Accepts(p) + 1 <= 2 * p
         /\ Head(todo[p]).type = CallAt(0, Accepts(p)).type
         /\ Head(todo[p]).type \in Types
         /\ Tail(todo[p]) = CallsLeft(0, p, Accepts(p) + 1)
         /\ Tail(todo[p]) \in Seq(Ids)
         /\ Len(Tail(todo[p])) = Len(todo[p]) - 1
<1>1. p \in Nat /\ 0 + p <= Size
  BY DEF Ranks
<1>2. PICK k \in 0 .. 2 * p : k = Accepts(p) /\ todo[p] = CallsLeft(0, p, k)
  BY DEF Inv, TodoOf
<1>3. /\ k + 1 \in 0 .. 2 * p
      /\ Head(todo[p]) = CallAt(0, k)
      /\ Tail(todo[p]) = CallsLeft(0, p, k + 1)
  BY <1>1, <1>2, NextCall
<1>4. Tail(todo[p]) \in Seq(Ids) /\ Len(Tail(todo[p])) = 2 * p - (k + 1)
  <2>1. /\ CallsLeft(0, p, k + 1) \in Seq(Ids)
        /\ Len(CallsLeft(0, p, k + 1)) = 2 * p - (k + 1)
    BY <1>1, <1>3, CallTypes
  <2>2. QED
    BY <1>3, <2>1
<1>5. Len(todo[p]) = 2 * p - k
  <2>1. Len(CallsLeft(0, p, k)) = 2 * p - k
    BY <1>1, CallTypes
  <2>2. QED
    BY <1>2, <2>1
<1>6. Len(Tail(todo[p])) = Len(todo[p]) - 1
  BY <1>1, <1>4, <1>5
<1>7. CallAt(0, k).type \in Types
  BY DEF CallAt, Types
<1>8. QED
  BY <1>1, <1>2, <1>3, <1>4, <1>6, <1>7

(* accept and recv of the id: one more process is wired                    *)
LEMMA AcceptInv ==
  ASSUME Inv, NEW p \in Ranks, Accept(p)
  PROVE  Inv'
<1>0. /\ Types1 /\ SentRight /\ BacklogRight /\ EndsRight /\ AcceptsCounted
      /\ TodoOf(p) /\ IdOf(p)
  BY DEF Inv
<1>1. pc[p] = "accept" /\ todo[p] # << >> /\ ~ Connecting(p)
  BY DEF Accept, Connecting
<1>2. PICK y \in Types : y = Head(todo[p]).type /\ y = CallAt(0, Accepts(p)).type
  BY <1>1, NextAccept
<1>3. backlog[p][y] \in Seq(Connections) /\ backlog[p][y] # << >>
  BY <1>0, <1>2 DEF Types1, Accept
<1>4. /\ Head(backlog[p][y]) = backlog[p][y][1]
      /\ Tail(backlog[p][y]) \in Seq(Connections)
      /\ Len(backlog[p][y]) \in Nat \ {0}
      /\ Len(Tail(backlog[p][y])) = Len(backlog[p][y]) - 1
      /\ \A i \in 1 .. Len(backlog[p][y]) - 1 : Tail(backlog[p][y])[i] = backlog[p][y][i + 1]
  <2>1. Len(backlog[p][y]) \in Nat \ {0}
    BY <1>3, EmptySeq
  <2>2. QED
    BY <1>3, <2>1, HeadTailProperties
<1>5. PICK a \in Ranks : /\ a < p /\ Begun(a, p, y) /\ Fd(p, a, y) = NoFd
                         /\ Head(backlog[p][y]) = <<a, p, y>>
  <2>1. backlog[p][y][1] \in Waiting(p, y)
    <3>1. 1 \in 1 .. Len(backlog[p][y])
      BY <1>4
    <3>2. QED
      BY <1>0, <3>1 DEF BacklogRight
  <2>2. QED
    BY <1>4, <2>1 DEF Waiting
<1>6. PICK conn \in Connections : conn = <<a, p, y>> /\ conn # NoFd /\ conn[1] = a /\ conn[3] = y
  <2>1. <<a, p, y>> \in Connections /\ <<a, p, y>> # NoFd
    BY ConnectionIs
  <2>2. <<a, p, y>>[1] = a /\ <<a, p, y>>[3] = y
    OBVIOUS
  <2>3. QED
    BY <2>1, <2>2
<1>7. sent[conn] = [rank |-> a, type |-> y] /\ sent[conn] \in Ids
  <2>1. conn \in DOMAIN sent
    BY <1>2, <1>5, <1>6 DEF Accept
  <2>2. sent[conn] = [rank |-> a, type |-> y]
    BY <1>0, <1>6, <2>1 DEF SentRight
  <2>3. QED
    BY <2>2 DEF Ids
<1>8. /\ id' = [id EXCEPT ![p] = sent[conn]]
      /\ slist' = [slist EXCEPT ![p][Idx(p, a)][y] = conn]
      /\ backlog' = [backlog EXCEPT ![p][y] = Tail(@)]
      /\ todo' = [todo EXCEPT ![p] = Tail(@)]
      /\ UNCHANGED <<listening, sent, pc>>
  <2>1. sent[conn].rank = a /\ sent[conn].type = y
    BY <1>7
  <2>2. QED
    BY <1>2, <1>5, <1>6, <2>1 DEF Accept
<1>9. /\ slist' \in [Ranks -> [Indices -> [Types -> Connections \cup {NoFd}]]]
      /\ \A b, c \in Ranks, z \in Types :
           b # c => Fd(b, c, z)' = IF b = p /\ c = a /\ z = y THEN conn ELSE Fd(b, c, z)
  <2>1. a \in Ranks \ {p}
    BY <1>5 DEF Ranks
  <2>2. SetsFd(p, a, y, conn)
    BY <1>8 DEF SetsFd
  <2>3. /\ slist' \in [Ranks -> [Indices -> [Types -> Connections \cup {NoFd}]]]
        /\ OnlyFd(p, a, y, conn)
    BY <1>0, <2>1, <2>2, FdSet
  <2>4. QED
    BY <2>3 DEF OnlyFd, Fd
<1>10. /\ backlog' \in [Ranks -> [Types -> Seq(Connections)]]
       /\ backlog'[p][y] = Tail(backlog[p][y])
       /\ \A q \in Ranks, z \in Types : q # p \/ z # y => backlog'[q][z] = backlog[q][z]
  BY <1>0, <1>4, <1>8 DEF Types1
<1>11. /\ todo'[p] = Tail(todo[p])
       /\ todo'[p] = CallsLeft(0, p, Accepts(p) + 1)
       /\ todo'[p] \in Seq(Ids) /\ Len(todo'[p]) = Len(todo[p]) - 1
       /\ Accepts(p) \in Nat /\ Accepts(p) + 1 <= 2 * p
  <2>1. todo'[p] = Tail(todo[p])
    BY <1>0, <1>8 DEF Types1
  <2>2. QED
    BY <1>1, <2>1, NextAccept
<1>12. Types1'
  BY <1>0, <1>7, <1>8, <1>9, <1>10, <1>11 DEF Types1
<1>13. ~ Connecting(p)' /\ Accepts(p)' = Accepts(p) + 1 /\ pc'[p] = "accept"
  <2>1. ~ Connecting(p)' /\ pc'[p] = "accept"
    BY <1>1, <1>8 DEF Connecting
  <2>2. Len(todo[p]) \in Nat
    BY <1>0 DEF Types1
  <2>3. QED
    BY <1>1, <1>11, <2>1, <2>2 DEF Accepts, Ranks
<1>14. TodoOf(p)' /\ IdOf(p)'
  <2>1. Accepts(p)' \in 0 .. 2 * p
    BY <1>11, <1>13 DEF Ranks
  <2>2. QED
    BY <1>11, <1>13, <2>1 DEF TodoOf, IdOf
<1>15. \A q \in Ranks \ {p} : pc'[q] = pc[q] /\ todo'[q] = todo[q] /\ id'[q] = id[q]
  BY <1>0, <1>8 DEF Types1
<1>16. \A q \in Ranks : TodoOf(q)' /\ IdOf(q)'
  BY <1>14, <1>15, Others DEF Inv
<1>17. \A q \in Ranks, s \in Ranks, z \in Types :
         /\ Made(q, s, z)' <=> Made(q, s, z)
         /\ Begun(q, s, z)' <=> Begun(q, s, z)
  <2>1. \A s, z : ~ Made(p, s, z)' /\ ~ Made(p, s, z) /\ ~ Begun(p, s, z)' /\ ~ Begun(p, s, z)
    BY <1>1, <1>13 DEF Made, Begun
  <2>2. QED
    BY <1>15, <2>1, Others
<1>18. \A q \in Ranks, s \in Ranks, z \in Types :
         q < s => /\ Fd(q, s, z)' = Fd(q, s, z)
                  /\ Fd(s, q, z)' = IF s = p /\ q = a /\ z = y THEN conn ELSE Fd(s, q, z)
  <2>1. TAKE q \in Ranks, s \in Ranks, z \in Types
  <2>2. HAVE q < s
  <2>3. q # s /\ ~ (q = p /\ s = a)
    BY <1>5, <2>2 DEF Ranks
  <2>4. QED
    BY <1>9, <2>3
<1>19. EndsRight'
  <2>1. SUFFICES ASSUME NEW q \in Ranks, NEW s \in Ranks, NEW z \in Types, q < s
                 PROVE  /\ Fd(q, s, z)' = IF Made(q, s, z)' THEN <<q, s, z>> ELSE NoFd
                        /\ Fd(s, q, z)' # NoFd => Fd(s, q, z)' = <<q, s, z>> /\ Begun(q, s, z)'
    BY DEF EndsRight
  <2>2. /\ Fd(q, s, z) = IF Made(q, s, z) THEN <<q, s, z>> ELSE NoFd
        /\ Fd(s, q, z) # NoFd => Fd(s, q, z) = <<q, s, z>> /\ Begun(q, s, z)
    BY <1>0, <2>1 DEF EndsRight
  <2>3. QED
    BY <1>5, <1>6, <1>17, <1>18, <2>1, <2>2
<1>20. BacklogRight'
  <2>1. \A q \in Ranks, z \in Types : Waiting(q, z) \ {conn} \subseteq Waiting(q, z)'
    BY <1>6, <1>17, <1>18 DEF Waiting
  <2>2. \A q \in Ranks, z \in Types : q # p \/ z # y => conn \notin Waiting(q, z)
    BY <1>6, ConnectionIs DEF Waiting
  <2>3. SUFFICES ASSUME NEW q \in Ranks, NEW z \in Types
                 PROVE  /\ \A i \in 1 .. Len(backlog'[q][z]) : backlog'[q][z][i] \in Waiting(q, z)'
                        /\ \A i, j \in 1 .. Len(backlog'[q][z]) :
                             backlog'[q][z][i] = backlog'[q][z][j] => i = j
    BY DEF BacklogRight
  <2>4. /\ \A i \in 1 .. Len(backlog[q][z]) : backlog[q][z][i] \in Waiting(q, z)
        /\ \A i, j \in 1 .. Len(backlog[q][z]) : backlog[q][z][i] = backlog[q][z][j] => i = j
    BY <1>0 DEF BacklogRight
  <2>5. CASE q = p /\ z = y
    <3>1. PICK n \in Nat : Len(backlog[p][y]) = n + 1
      <4>1. PICK m \in Nat \ {0} : m = Len(backlog[p][y])
        BY <1>4
      <4>2. m - 1 \in Nat /\ m = (m - 1) + 1
        OBVIOUS
      <4>3. QED
        BY <4>1, <4>2
    <3>2. /\ Len(backlog'[p][y]) = n
          /\ \A i \in 1 .. n : backlog'[p][y][i] = backlog[p][y][i + 1]
          /\ backlog[p][y][1] = conn
      BY <1>4, <1>5, <1>6, <1>10, <3>1
    <3>3. \A i \in 1 .. n : i + 1 \in 1 .. n + 1 /\ i + 1 # 1
      BY <3>1
    <3>4. \A i \in 1 .. n : /\ backlog[p][y][i + 1] \in Waiting(p, y)
                            /\ backlog[p][y][i + 1] # conn
      <4>1. 1 \in 1 .. n + 1
        BY <3>1
      <4>2. QED
        BY <2>4, <2>5, <3>1, <3>2, <3>3, <4>1
    <3>5. \A i \in 1 .. n : backlog'[p][y][i] \in Waiting(p, y)'
      BY <2>1, <3>2, <3>4
    <3>6. \A i, j \in 1 .. n : backlog'[p][y][i] = backlog'[p][y][j] => i = j
      <4>1. TAKE i, j \in 1 .. n
      <4>2. HAVE backlog'[p][y][i] = backlog'[p][y][j]
      <4>3. backlog[p][y][i + 1] = backlog[p][y][j + 1]
        BY <3>2, <4>2
      <4>4. i + 1 = j + 1
        BY <2>4, <2>5, <3>1, <3>3, <4>3
      <4>5. QED
        BY <4>4
    <3>7. QED
      BY <2>5, <3>2, <3>5, <3>6
  <2>6. CASE ~ (q = p /\ z = y)
    <3>1. backlog'[q][z] = backlog[q][z]
      BY <1>10, <2>6
    <3>2. QED
      BY <2>1, <2>2, <2>4, <2>6, <3>1
  <2>7. QED
    BY <2>5, <2>6
<1>21. AcceptsCounted'
  <2>1. SUFFICES ASSUME NEW q \in Ranks, NEW z \in Types
                 PROVE  Cardinality(Accepted(q, z)') = OfType(z, Accepts(q)')
    BY DEF AcceptsCounted
  <2>2. Cardinality(Accepted(q, z)) = OfType(z, Accepts(q))
    BY <1>0 DEF AcceptsCounted
  <2>3. \A b \in 0 .. q - 1 : b \in Ranks /\ b < q
    BY DEF Ranks
  <2>4. CASE q = p /\ z = y
    <3>1. a \in 0 .. p - 1
      BY <1>5 DEF Ranks
    <3>2. Accepted(p, y)' = Accepted(p, y) \cup {a} /\ a \notin Accepted(p, y)
      BY <1>5, <1>6, <1>18, <2>3, <2>4, <3>1 DEF Accepted
    <3>3. Cardinality(Accepted(p, y) \cup {a}) = Cardinality(Accepted(p, y)) + 1
      BY <3>2, AcceptedFinite, FS_AddElement
    <3>4. OfType(y, Accepts(p) + 1) = OfType(y, Accepts(p)) + 1
      BY <1>2, <1>11, OfTypeNext
    <3>5. QED
      BY <1>13, <2>2, <2>4, <3>2, <3>3, <3>4
  <2>5. CASE q = p /\ z # y
    <3>1. Accepted(q, z)' = Accepted(q, z)
      BY <1>18, <2>3, <2>5 DEF Accepted
    <3>2. OfType(z, Accepts(p) + 1) = OfType(z, Accepts(p))
      BY <1>2, <1>11, <2>5, OfTypeNext
    <3>3. QED
      BY <1>13, <2>2, <2>5, <3>1, <3>2
  <2>6. CASE q # p
    <3>1. Accepted(q, z)' = Accepted(q, z)
      BY <1>18, <2>3, <2>6 DEF Accepted
    <3>2. Accepts(q)' = Accepts(q)
      BY <1>15, <2>6, Others
    <3>3. QED
      BY <2>2, <3>1, <3>2
  <2>7. QED
    BY <2>4, <2>5, <2>6
<1>22. SentRight'
  BY <1>0, <1>8 DEF SentRight
<1>23. QED
  BY <1>12, <1>16, <1>19, <1>20, <1>21, <1>22 DEF Inv

-----------------------------------------------------------------------------
LEMMA StepInv == Inv /\ [Next]_vars => Inv'
<1> SUFFICES ASSUME Inv, [Next]_vars
             PROVE  Inv'
  OBVIOUS
<1>1. CASE UNCHANGED vars
  <2>1. UNCHANGED <<listening, backlog, sent, id, slist, todo, pc>>
    BY <1>1 DEF vars
  <2>2. QED
    BY <2>1 DEF Inv, Types1, SentRight, BacklogRight, Waiting, EndsRight, AcceptsCounted,
                Accepted, TodoOf, IdOf, Made, Begun, Accepts, Connects, Connecting, Fd
<1>2. ASSUME NEW p \in Ranks, Step(p)
      PROVE  Inv'
  BY <1>2, CreateListenersInv, AcceptInv, StartConnectingInv, ConnectInv, SendIdInv,
     ConnectedInv DEF Step
<1>3. QED
  BY <1>1, <1>2 DEF Next

(* The invariant holds in every state: which connections of two processes  *)
(* have been made follows from how many calls each has behind it.          *)
THEOREM Invariance == Spec => []Inv
BY InitInv, StepInv, PTL DEF Spec

(* The variables of __bc_socket_network_create stay in range, for any      *)
(* number of processes; a process never connects to a rank that is not.    *)
THEOREM TypeCorrect == Spec => []TypeOK
<1>1. Inv => TypeOK
  <2>1. SUFFICES ASSUME Inv
                 PROVE  TypeOK
    OBVIOUS
  <2>2. Types1 /\ SentRight
    BY <2>1 DEF Inv
  <2>3. \A c \in DOMAIN sent : sent[c] \in Ids
    <3>1. \A c \in Connections : c[1] \in Ranks /\ c[3] \in Types
      BY DEF Connections
    <3>2. \A c \in DOMAIN sent : /\ c[1] \in Ranks /\ c[3] \in Types
                                 /\ sent[c] = [rank |-> c[1], type |-> c[3]]
      BY <2>2, <3>1 DEF Types1, SentRight
    <3>3. \A r \in Ranks, y \in Types : [rank |-> r, type |-> y] \in Ids
      BY DEF Ids
    <3>4. QED
      BY <3>2, <3>3
  <2>4. QED
    BY <2>2, <2>3 DEF TypeOK, Types1
<1>2. QED
  BY <1>1, Invariance, PTL

(* Every descriptor a process keeps for another is an end of a connection  *)
(* between the two, and when all are done each holds both ends of both     *)
(* connections to each other, whatever the order in which they arrived.    *)
THEOREM WiredTogether == Spec => []Wired
<1>1. Inv => Wired
  <2>1. SUFFICES ASSUME Inv
                 PROVE  Wired
    OBVIOUS
  <2>2. EndsRight /\ AcceptsCounted
    BY <2>1 DEF Inv
  <2>3. \A p, q \in Ranks : p # q => p < q \/ q < p
    BY DEF Ranks
  <2>4. WiredRight
    BY <2>2, <2>3 DEF WiredRight, EndsRight
  <2>5. ASSUME \A p \in Ranks : pc[p] = "done",
               NEW p \in Ranks, NEW q \in Ranks, NEW y \in Types, p < q
        PROVE  Fd(p, q, y) = <<p, q, y>> /\ Fd(q, p, y) = <<p, q, y>>
    <3>1. Connecting(p) /\ todo[p] = << >> /\ pc[q] = "done"
      BY <2>1, <2>5 DEF Inv, TodoOf, Connecting
    <3>2. Fd(p, q, y) = <<p, q, y>>
      <4>1. Connects(p) = 2 * (Size - 1 - p)
        BY <3>1 DEF Connects, Ranks
      <4>2. CallNo(p, q, y) \in 0 .. 2 * (Size - 1 - p) - 1
        BY <2>5, CallNoType
      <4>3. Made(p, q, y)
        BY <3>1, <4>1, <4>2 DEF Made, Ranks
      <4>4. QED
        BY <2>2, <2>5, <4>3 DEF EndsRight
    <3>3. Fd(q, p, y) = <<p, q, y>>
      <4>1. Accepts(q) = 2 * q
        BY <3>1 DEF Accepts
      <4>2. OfType(y, 2 * q) = q
        BY DEF OfType, Ranks
      <4>3. Accepted(q, y) = 0 .. q - 1
        BY <2>2, <4>1, <4>2, AcceptedFinite DEF AcceptsCounted
      <4>4. p \in 0 .. q - 1
        BY <2>5 DEF Ranks
      <4>5. QED
        BY <2>2, <2>5, <4>3, <4>4 DEF EndsRight, Accepted
    <3>4. QED
      BY <3>2, <3>3
  <2>6. WiredFully
    BY <2>3, <2>5, ConnectionIs DEF WiredFully
  <2>7. QED
    BY <2>4, <2>6 DEF Wired
<1>2. QED
  BY <1>1, Invariance, PTL
=============================================================================
