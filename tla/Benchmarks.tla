----------------------------- MODULE Benchmarks ------------------------------
(***************************************************************************)
(* The library's side of the benchmarks under src/perf. Turns measurements *)
(* are taken instead of 11 to 1001. A message is one unit of a data type   *)
(* of its size, except in benchmark.c, where it is Size characters.        *)
(***************************************************************************)
EXTENDS Programs

Turns    == 2
Size     == 2
XAll(p)  == Without(<<0, 1, 2>>, p)                  \* bc_plist_xall
Note(p, i) == 10 * i + p

(* Two processes, each with a channel to the other. *)
To(p)       == <<"to", p>>
SourceSink(p, du, role) ==
    <<Source(To(p), <<1 - p>>, "pipe"), Sink(To(1 - p), <<1 - p>>, du, role)>>
SinkSource(p, du, role) ==
    <<Sink(To(1 - p), <<1 - p>>, du, role), Source(To(p), <<1 - p>>, "pipe")>>
DestroyBoth(p) == <<Destroy(To(p)), Destroy(To(1 - p))>>
Message(p, i)  == [j \in 1..Size |-> 10 * Note(p, i) + j]

(* exchange.c and perf.c: both put and then get, in a ring of one message  *)
(* that is copied or in one of two that is not.                            *)
LockStep(copy, p, h) ==
    SourceSink(p, IF copy THEN 1 ELSE 2, IF copy THEN "pipe" ELSE "pipen")
    \o Loop(1, Turns, LAMBDA i : <<Put(To(1 - p), <<Note(p, i)>>), Get(To(p), 1)>>)
    \o DestroyBoth(p)
LockStepCopied(p, h)  == LockStep(TRUE, p, h)
LockStepInPlace(p, h) == LockStep(FALSE, p, h)
PerfExchange(p, h)    == LockStep(TRUE, p, h)
(* put_latency.c makes the same calls and measures the put alone. *)
PutLatencyCopied(p, h)  == LockStep(TRUE, p, h)
PutLatencyInPlace(p, h) == LockStep(FALSE, p, h)
LockStepOk(p, h) == h = [i \in 1..Turns |-> <<Note(1 - p, i)>>]

(* get_latency.c: two messages a turn; the second get is measured. *)
GetLatency(p, h) ==
    IF p = 0
    THEN <<Sink(To(1), <<1>>, 3, "pipe")>>
         \o Loop(1, Turns, LAMBDA i : <<Put(To(1), <<Note(0, i)>>), Put(To(1), <<Note(0, i)>>)>>)
         \o <<Destroy(To(1))>>
    ELSE <<Source(To(1), <<0>>, "pipe")>>
         \o Loop(1, Turns, LAMBDA i : <<Get(To(1), 1), Get(To(1), 1)>>) \o <<Destroy(To(1))>>
GetLatencyOk(p, h) == p = 1 => h = FlattenSeq([i \in 1..Turns |-> << <<Note(0, i)>>, <<Note(0, i)>> >>])

(* benchmark.c: testing_putget, testing_bc_rtt and testing_bc_lse. *)
PutGet(p, h) ==
    IF p = 0 THEN <<Sink(To(1), <<1>>, Size, "pipe")>>
                  \o Loop(1, Turns, LAMBDA i : <<Put(To(1), Message(0, i))>>) \o <<Destroy(To(1))>>
             ELSE <<Source(To(1), <<0>>, "pipe")>>
                  \o Loop(1, Turns, LAMBDA i : <<Get(To(1), Size)>>) \o <<Destroy(To(1))>>
RoundTrip(p, h) ==
    SinkSource(p, Size, "pipe")
    \o Loop(1, Turns, LAMBDA i : IF p = 0 THEN <<Put(To(1), Message(0, i)), Get(To(0), Size)>>
                                          ELSE <<Get(To(1), Size), Put(To(0), Got(h, i))>>)
    \o DestroyBoth(p)
LockStepExchange(p, h) ==
    SinkSource(p, Size, "pipe")
    \o Loop(1, Turns, LAMBDA i : <<Put(To(1 - p), Message(p, i)), Get(To(p), Size)>>)
    \o DestroyBoth(p)
PutGetOk(p, h)           == p = 1 => h = [i \in 1..Turns |-> Message(0, i)]
RoundTripOk(p, h)        == h = [i \in 1..Turns |-> Message(0, i)]
LockStepExchangeOk(p, h) == h = [i \in 1..Turns |-> Message(1 - p, i)]

---------------------------------------------------------------------------
(* The collective operations, between 0 and all others. *)

(* coll_bcast.c: a message, a signal that it is there, acknowledgements. *)
Bcast(p, h) ==
    IF p = 0
    THEN <<Sink("message", XAll(0), 3, "replicate"), Sink("ready", XAll(0), 3, "replicate"),
           Source("ack", XAll(0), "reduce_sum")>>
         \o Loop(1, Turns, LAMBDA i : <<Put("message", <<Note(0, i)>>), Put("ready", <<0>>), Get("ack", 1)>>)
         \o <<Destroy("message"), Destroy("ready"), Destroy("ack")>>
    ELSE <<Source("message", <<0>>, "pipe"), Source("ready", <<0>>, "pipe"), Sink("ack", <<0>>, 3, "pipe")>>
         \o Loop(1, Turns, LAMBDA i : <<Get("ready", 1), Get("message", 1), Put("ack", <<1>>)>>)
         \o <<Destroy("message"), Destroy("ack"), Destroy("ready")>>
BcastOk(p, h) == h = FlattenSeq([i \in 1..Turns |->
                        IF p = 0 THEN << <<2>> >> ELSE << <<0>>, <<Note(0, i)>> >>])

(* coll_gather.c: one warm-up here; 10 there. *)
Warmups == 1
Gather(p, h) ==
    IF p = 0
    THEN <<Sink("ack", XAll(0), 2, "replicate"), Source("pieces", XAll(0), "collect")>>
         \o Loop(1, Warmups, LAMBDA i : <<Get("pieces", 1), Put("ack", <<0>>)>>)
         \o Loop(1, Turns, LAMBDA i : <<Get("pieces", 1), Get("pieces", 1), Put("ack", <<i>>)>>)
         \o <<Destroy("pieces"), Destroy("ack")>>
    ELSE <<Source("ack", <<0>>, "pipe"), Sink("pieces", <<0>>, 3, "pipe")>>
         \o Loop(1, Warmups, LAMBDA i : <<Put("pieces", <<p>>), Get("ack", 1)>>)
         \o Loop(1, Turns, LAMBDA i : <<Put("pieces", <<Note(p, i)>>), Put("pieces", <<Note(p, i)>>),
                                        Get("ack", 1)>>)
         \o <<Destroy("ack"), Destroy("pieces")>>
GatherOk(p, h) ==
    IF p = 0 THEN h = << <<1, 2>> >> \o FlattenSeq([i \in 1..Turns |->
                         << <<Note(1, i), Note(2, i)>>, <<Note(1, i), Note(2, i)>> >>])
             ELSE h = [i \in 1..(Turns + 1) |-> <<i - 1>>]

(* coll_scatter.c: only 0 warms up, with one message for each get; the     *)
(* others wait for a second one before they acknowledge.                   *)
Scatter(p, h) ==
    IF p = 0
    THEN <<Sink("pieces", XAll(0), 3, "spread"), Source("ack", XAll(0), "reduce_sum")>>
         \o Loop(1, Warmups, LAMBDA i : <<Put("pieces", XAll(0)), Get("ack", 1)>>)
         \o Loop(1, Turns, LAMBDA i : <<Put("pieces", XAll(0)), Put("pieces", XAll(0)), Get("ack", 1)>>)
         \o <<Destroy("ack"), Destroy("pieces")>>
    ELSE <<Source("pieces", <<0>>, "pipe"), Sink("ack", <<0>>, 2, "pipe")>>
         \o Loop(1, Turns, LAMBDA i : <<Get("pieces", 1), Get("pieces", 1), Put("ack", <<1>>)>>)
         \o <<Destroy("pieces"), Destroy("ack")>>
=============================================================================
