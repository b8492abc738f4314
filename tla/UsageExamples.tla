---------------------------- MODULE UsageExamples ---------------------------
(***************************************************************************)
(* The programs under src/examples/usage, one for each kind of channel.    *)
(* The numbers of processes, units and buffers are those of the constants  *)
(* below instead of 5 or 6 consumers and 10 to 1000 units.                 *)
(***************************************************************************)
EXTENDS Programs

Peers == <<1, 2>>     \* CONSUMERS, PRODUCERS, WORKERS
Data  == 2            \* NUM_DATA, MAX_DATA and other loop counts

(* exchange.c: both processes commit and get in turn, over two pipes. *)
ExchangeValue(p, i) == (p + 1) * 100 + i
Exchange(p, h) ==
    LET mine  == <<"from", p>>
        other == <<"from", 1 - p>>
    IN  <<Sink(mine, <<1 - p>>, 2, "pipen"), Source(other, <<1 - p>>, "pipen")>>
        \o Loop(1, Data, LAMBDA i : <<Commit(mine, ExchangeValue(p, i)), Get(other, 1)>>)
        \o <<Destroy(other), Destroy(mine)>>
ExchangeOk(p, h) == h = [i \in 1..Data |-> <<ExchangeValue(1 - p, i)>>]

(* replicate.c: every consumer gets every value; copied, or in the ring. *)
Replicate(role, p, h) ==
    IF p = 0 THEN <<Sink("c", Peers, IF role = "replicate" THEN 2 ELSE 3, role)>>
                  \o Loop(0, Data, LAMBDA i : <<Put("c", <<i>>)>>) \o <<Destroy("c")>>
             ELSE <<Source("c", <<0>>, "pipe")>>
                  \o Loop(0, Data, LAMBDA i : <<Get("c", 1)>>) \o <<Destroy("c")>>
ReplicateOk(p, h) == p # 0 => h = [i \in 1..(Data + 1) |-> <<i - 1>>]

(* farm.c: each worker takes a fixed share of the units. *)
Farm(p, h) ==
    IF p = 0 THEN <<Sink("c", Peers, 3, "farmn")>>
                  \o Loop(0, Data * Len(Peers) - 1, LAMBDA i : <<Commit("c", i)>>) \o <<Destroy("c")>>
             ELSE <<Source("c", <<0>>, "pipe")>>
                  \o Loop(1, Data, LAMBDA i : <<Get("c", 1)>>) \o <<Destroy("c")>>
FarmOk(h) == SameUnits(FlattenSeq(h[1]) \o FlattenSeq(h[2]), Upto(0, Data * Len(Peers) - 1))
             /\ Ascending(FlattenSeq(h[1])) /\ Ascending(FlattenSeq(h[2]))

(* spread.c: consumer i gets slice i. *)
Spread(p, h) ==
    IF p = 0 THEN <<Sink("c", Peers, 4, "spread"), Put("c", Upto(100, 99 + Data * Len(Peers))), Destroy("c")>>
             ELSE <<Source("c", <<0>>, "pipe"), Get("c", Data), Destroy("c")>>
SpreadOk(p, h) == p # 0 => h = <<Upto(100 + Data * (p - 1), 99 + Data * p)>>

(* collect.c: the same data once unit by unit and once as a block. *)
CollectValue(p, i) == 10 * p + i
CollectBlock(p)    == [i \in 1..Data |-> CollectValue(p, i)]
Collect(p, h) ==
    IF p = 0 THEN <<Source("c", Peers, "collect")>>
                  \o Loop(1, Data, LAMBDA i : <<Get("c", 1)>>) \o <<Get("c", Data), Destroy("c")>>
             ELSE <<Sink("c", <<0>>, Data, "pipe"), Put("c", CollectBlock(p)),
                    Put("c", CollectBlock(p)), Destroy("c")>>
CollectOk(p, h) ==
    p = 0 => h = Append([i \in 1..Data |-> [q \in 1..Len(Peers) |-> CollectValue(q, i)]],
                        FlattenSeq([q \in 1..Len(Peers) |-> CollectBlock(q)]))

(* collect_any.c: units in any order of arrival; before it, one get less   *)
(* than there are units                                                    *)
CollectAnyShort(p, h) ==
    IF p = 0 THEN <<Source("c", Peers, "collect_any")>>
                  \o Loop(2, Data * Len(Peers), LAMBDA i : <<Get("c", 1)>>) \o <<Destroy("c")>>
             ELSE <<Sink("c", <<0>>, Data, "pipe")>>
                  \o Loop(1, Data, LAMBDA i : <<Put("c", <<CollectValue(p, i)>>)>>) \o <<Destroy("c")>>
CollectAny(p, h) ==
    IF p = 0 THEN <<Source("c", Peers, "collect_any")>>
                  \o Loop(1, Data * Len(Peers), LAMBDA i : <<Get("c", 1)>>) \o <<Destroy("c")>>
             ELSE <<Sink("c", <<0>>, Data, "pipe")>>
                  \o Loop(1, Data, LAMBDA i : <<Put("c", <<CollectValue(p, i)>>)>>) \o <<Destroy("c")>>
CollectAnyOk(p, h) ==
    p = 0 => \A q \in Range(Peers) :
                 SelectSeq(FlattenSeq(h), LAMBDA u : u \div 10 = q) = CollectBlock(q)

(* dtype.c: one structure through a ring of two units. *)
Dtype(p, h) ==
    IF p = 0 THEN <<Sink("c", <<1>>, 2, "pipen"), Commit("c", 7), Destroy("c")>>
             ELSE <<Source("c", <<0>>, "pipe"), Get("c", 1), Destroy("c")>>
DtypeOk(p, h) == p = 1 => h = << <<7>> >>

(* reduce.c: a channel for each reduction, one after the other. *)
Reductions  == <<"reduce_sum", "reduce_mul", "reduce_min", "reduce_max", "reduce_minmax", "reduce_opt">>
ReduceValue == << <<3, 5>>, <<4, 2>> >>      \* random()%50, NUM_DATA = NUM_PRODS
Reduce(p, h) ==
    LET C(i) == <<"reduce", i>>
    IN  IF p = 0
        THEN Loop(1, Len(Reductions),
                  LAMBDA i : <<Source(C(i), Peers, Reductions[i]), Get(C(i), Data), Destroy(C(i))>>)
        ELSE Loop(1, Len(Reductions),
                  LAMBDA i : <<Sink(C(i), <<0>>, Data, "pipe"), Put(C(i), ReduceValue[p]), Destroy(C(i))>>)
ReduceOk(p, h) == p = 0 => h = << <<7, 7>>, <<12, 10>>, <<3, 2>>, <<4, 5>>, <<3, 2, 4, 5>>, <<-1, 3>> >>
=============================================================================
