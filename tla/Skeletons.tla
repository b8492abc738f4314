------------------------------ MODULE Skeletons ------------------------------
(***************************************************************************)
(* The interaction skeletons (iskel.c, iskel.h) as sequences of calls, and *)
(* the programs under src/examples/skeletons that run on them. pl is the   *)
(* process list of a skeleton; mc, whether units are copied.               *)
(***************************************************************************)
EXTENDS Programs

Place(pl, p) == CHOOSE i \in DOMAIN pl : pl[i] = p
Least(pl)    == CHOOSE q \in Range(pl) : \A o \in Range(pl) : q <= o

(* Pipelines: stage i is linked to stage i + 1. The rings have 7 or 10     *)
(* units there. 7 is the row of gauss_pipeline for 5 processes, as 5 is    *)
(* the row for the 3 processes here.                                       *)
PipeRole(mc) == IF mc THEN "pipe" ELSE "pipen"
PipeRing(mc) == IF mc THEN 5 ELSE 3
Link(i) == <<"link", i>>
PipeCreate(pl, p, mc) ==
    LET i == Place(pl, p)
    IN  If(i > 1, <<Source(Link(i - 1), <<pl[i - 1]>>, PipeRole(mc))>>) \o
        If(i < Len(pl), <<Sink(Link(i), <<pl[i + 1]>>, PipeRing(mc), PipeRole(mc))>>)
PipeDestroy(pl, p) ==
    LET i == Place(pl, p)
    IN  If(i > 1, <<Destroy(Link(i - 1))>>) \o If(i < Len(pl), <<Destroy(Link(i))>>)

(* All to all: the least process collects and sends what it has to all. *)
All2AllCreate(pl, p) ==
    LET root == Least(pl)
        rest == Without(pl, p)
    IN  IF p = root
        THEN <<Source("ones", rest, "collect"), Sink("all", rest, Len(pl), "replicate")>>
        ELSE <<Source("all", <<root>>, "pipe"), Sink("ones", <<root>>, 1, "pipe")>>
All2AllExec(pl, p, h, turn, in) ==
    IF p = Least(pl) THEN <<Get("ones", 1), Put("all", <<in>> \o Got(h, turn))>>
                     ELSE <<Put("ones", <<in>>), Get("all", Len(pl))>>
All2AllOut(pl, p, h, turn, in) ==
    IF p = Least(pl) THEN <<in>> \o Got(h, turn) ELSE Got(h, turn)
All2AllDestroy(pl, p) ==
    IF p = Least(pl) THEN <<Destroy("ones"), Destroy("all")>> ELSE <<Destroy("all"), Destroy("ones")>>

(* Farms: the first process spreads the work and collects the results. *)
FarmCreate(pl, p, mc) ==
    LET rest == Without(pl, p)
    IN  IF p = pl[1]
        THEN <<Source("done", rest, "collect"), Sink("work", rest, Len(pl) - 1, "spread")>>
        ELSE <<Source("work", <<pl[1]>>, "pipe"),
               Sink("done", <<pl[1]>>, IF mc THEN 1 ELSE 2, PipeRole(mc))>>
FarmDestroy(pl, p) ==
    IF p = pl[1] THEN <<Destroy("done"), Destroy("work")>> ELSE <<Destroy("work"), Destroy("done")>>

---------------------------------------------------------------------------
(* all2all.c: two exchanges over one topology. *)

All      == <<0, 1, 2>>
Share(p, turn) == 10 * turn + p
All2All(p, h) ==
    All2AllCreate(All, p)
    \o All2AllExec(All, p, h, 1, Share(p, 1)) \o All2AllExec(All, p, h, 2, Share(p, 2))
    \o All2AllDestroy(All, p)
All2AllOk(p, h) == \A turn \in 1..2 :
    All2AllOut(All, p, h, turn, Share(p, turn)) = [i \in 1..3 |-> Share(All[i], turn)]

(* farm.c: each worker tells whether its values lie between two bounds. *)
FarmInput == << <<1, 3>>, <<5, 9>> >>
Between(u) == IF u > 1 /\ u < 6 THEN 1 ELSE 0
SkeletonFarm(mc, p, h) ==
    FarmCreate(All, p, mc)
    \o Loop(1, Len(FarmInput), LAMBDA i :
          IF p = All[1] THEN <<Put("work", FarmInput[i]), Get("done", 1)>>
                        ELSE <<Get("work", 1), Put("done", <<Between(Unit(h, i, 1))>>)>>)
    \o FarmDestroy(All, p)
SkeletonFarmOk(p, h) == p = All[1] => h = << <<0, 1>>, <<1, 0>> >>

(* pipeline.c: each stage adds its rank to all but the 0 that ends a set.  *)
(* stage_inter and stage_last get until they have met the end of each set. *)
DataSets    == << <<2, 1, 0>>, <<3, 0>> >>
AddRank(p, u)   == IF u = 0 THEN 0 ELSE u + p
EndsMet(h)  == Cardinality({i \in DOMAIN h : h[i] = <<0>>})
GetToEnd(h, Body(_), finally) ==
    Loop(1, Len(h), Body) \o (IF EndsMet(h) < Len(DataSets) THEN Body(Len(h) + 1) ELSE finally)
Pipeline(mc, p, h) ==
    LET i == Place(All, p)
        Pass(g) == <<Get(Link(i - 1), 1), Put(Link(i), <<AddRank(p, Unit(h, g, 1))>>)>>
        Take(g) == <<Get(Link(i - 1), 1)>>
        destroy  == PipeDestroy(All, p)
        input    == FlattenSeq(DataSets)
    IN  PipeCreate(All, p, mc) \o
        (IF i = 1 THEN Loop(1, Len(input), LAMBDA j : <<Put(Link(1), <<AddRank(p, input[j])>>)>>) \o destroy
         ELSE IF i < Len(All) THEN GetToEnd(h, Pass, destroy)
         ELSE GetToEnd(h, Take, destroy))
PipelineOk(p, h) ==
    p = All[Len(All)] => FlattenSeq(h) = [j \in 1..5 |-> AddRank(0, AddRank(1, FlattenSeq(DataSets)[j]))]

---------------------------------------------------------------------------
(* pipeline_farm.c: 0 feeds 1, which farms out to the processes from 4 on; *)
(* 2 sums up what they pass on and 3 adds up the sums. Each worker takes   *)
(* its share and no more. 100 units and 5 workers there.                   *)

Farmed       == <<4, 5>>
WorkShare    == 1
Input        == Upto(1, WorkShare * Len(Farmed))
(* One stage that passes on what it gets: the value is received into the   *)
(* ring of the output and committed.                                       *)
PassOn(in, from, role, out, sink, times, h) ==
    <<Source(in, from, role), sink>>
    \o Loop(1, times, LAMBDA i : <<Get(in, 1), Commit(out, Unit(h, i, 1))>>)
    \o <<Destroy(in), Destroy(out)>>
PipelineFarm(p, h) ==
    CASE p = 0 -> <<Sink("a", <<1>>, 2, "pipen")>>
                  \o Loop(1, Len(Input), LAMBDA i : <<Commit("a", Input[i])>>) \o <<Destroy("a")>>
      [] p = 1 -> PassOn("a", <<0>>, "pipe", "b", Sink("b", Farmed, 3, "farmn"), Len(Input), h)
      [] p = 2 -> PassOn("c", Farmed, "reduce_sum", "d", Sink("d", <<3>>, 2, "pipen"), WorkShare, h)
      [] p = 3 -> <<Source("d", <<2>>, "pipe")>>
                  \o Loop(1, WorkShare, LAMBDA i : <<Get("d", 1)>>) \o <<Destroy("d")>>
      [] OTHER -> PassOn("b", <<1>>, "pipe", "c", Sink("c", <<2>>, 2, "pipen"), WorkShare, h)
PipelineFarmOk(p, h) == p = 3 => Total(FlattenSeq(h)) = Total(Input)
=============================================================================
