---------------------------- MODULE Applications ----------------------------
(***************************************************************************)
(* The applications by name: how many processes each has, what each        *)
(* process calls, and what the results of its gets have to be.             *)
(***************************************************************************)
EXTENDS UsageExamples, Gauss, Mandelbrot, Numeric, Transforms, Benchmarks

NumProcs(app) == CASE app \in {"exchange", "dtype", "mva", "fft_iperm", "lock_step", "lock_stepn", "perf",
                                 "put_latency", "put_latencyn", "get_latency", "putget", "rtt", "lse"} -> 2
                   [] app \in {"odd_even", "fft"} -> 4
                   [] app = "pipeline_farm" -> 6
                   [] OTHER -> 3

Program(app, p, h) ==
    CASE app = "exchange"        -> Exchange(p, h)
      [] app = "replicate"       -> Replicate("replicate", p, h)
      [] app = "replicaten"      -> Replicate("replicaten", p, h)
      [] app = "farm"            -> Farm(p, h)
      [] app = "spread"          -> Spread(p, h)
      [] app = "collect"         -> Collect(p, h)
      [] app = "collect_any"     -> CollectAny(p, h)
      [] app = "dtype"           -> Dtype(p, h)
      [] app = "reduce"          -> Reduce(p, h)
      [] app = "all2all"         -> All2All(p, h)
      [] app = "skeleton_farm"   -> SkeletonFarm(FALSE, p, h)
      [] app = "skeleton_farm_copy" -> SkeletonFarm(TRUE, p, h)
      [] app = "pipeline"        -> Pipeline(FALSE, p, h)
      [] app = "pipeline_copy"   -> Pipeline(TRUE, p, h)
      [] app = "pipeline_farm"   -> PipelineFarm(p, h)
      [] app = "gauss_skeleton"  -> GaussSkeleton(p, h)
      [] app = "gauss_pipe"      -> GaussPipe(FALSE, p, h)
      [] app = "gauss_pipen"     -> GaussPipe(TRUE, p, h)
      [] app = "gauss_replicate" -> GaussReplicate(FALSE, p, h)
      [] app = "gauss_replicaten" -> GaussReplicate(TRUE, p, h)
      [] app = "mandelbrot"      -> Mandel(EvenRows, p, h)
      [] app = "mandel_farm"     -> MandelFarm(EvenRows, p, h)
      [] app = "mandelbrot_odd"  -> Mandel(OddRows, p, h)
      [] app = "mandel_refined"  -> MandelRefined(p, h)
      [] app = "odd_even"        -> OddEven(4, p, h)
      [] app = "odd_even3"       -> OddEven(3, p, h)
      [] app = "pi"              -> Pi(p, h)
      [] app = "mva"             -> Mva(2, p, h)
      [] app = "mva3"            -> Mva(3, p, h)
      [] app = "matrix_mul"      -> MatrixMul(p, h)
      [] app = "fft"             -> Fft(p, h)
      [] app = "fft_iperm"       -> FftIperm(p, h)
      [] app = "lock_step"       -> LockStepCopied(p, h)
      [] app = "lock_stepn"      -> LockStepInPlace(p, h)
      [] app = "perf"            -> PerfExchange(p, h)
      [] app = "put_latency"     -> PutLatencyCopied(p, h)
      [] app = "put_latencyn"    -> PutLatencyInPlace(p, h)
      [] app = "get_latency"     -> GetLatency(p, h)
      [] app = "putget"          -> PutGet(p, h)
      [] app = "rtt"             -> RoundTrip(p, h)
      [] app = "lse"             -> LockStepExchange(p, h)
      [] app = "bcast"           -> Bcast(p, h)
      [] app = "gather"          -> Gather(p, h)
      [] app = "scatter"         -> Scatter(p, h)

ResultOk(app, p, hh) ==
    LET h == hh[p] IN
    CASE app = "exchange"        -> ExchangeOk(p, h)
      [] app \in {"replicate", "replicaten"} -> ReplicateOk(p, h)
      [] app = "farm"            -> FarmOk(hh)
      [] app = "spread"          -> SpreadOk(p, h)
      [] app = "collect"         -> CollectOk(p, h)
      [] app = "collect_any"     -> CollectAnyOk(p, h)
      [] app = "dtype"           -> DtypeOk(p, h)
      [] app = "reduce"          -> ReduceOk(p, h)
      [] app = "all2all"         -> All2AllOk(p, h)
      [] app \in {"skeleton_farm", "skeleton_farm_copy"} -> SkeletonFarmOk(p, h)
      [] app \in {"pipeline", "pipeline_copy"} -> PipelineOk(p, h)
      [] app = "pipeline_farm"   -> PipelineFarmOk(p, h)
      [] app \in {"gauss_skeleton", "gauss_pipe", "gauss_replicate"} -> GaussOk(FALSE, p, h)
      [] app \in {"gauss_pipen", "gauss_replicaten"} -> GaussOk(TRUE, p, h)
      [] app \in {"mandelbrot", "mandel_farm"} -> MandelOk(EvenRows, p, h)
      [] app = "mandelbrot_odd"  -> MandelOk(OddRows, p, h)
      [] app = "mandel_refined"  -> MandelRefinedOk(p, h)
      [] app = "odd_even"        -> OddEvenOk(4, hh)
      [] app = "odd_even3"       -> OddEvenOk(3, hh)
      [] app = "pi"              -> PiOk(p, h)
      [] app = "mva"             -> MvaOk(p, h)
      [] app = "matrix_mul"      -> MatrixMulOk(p, h)
      [] app = "fft"             -> FftOk(p, h)
      [] app = "fft_iperm"       -> FftIpermOk(p, h)
      [] app \in {"lock_step", "lock_stepn", "perf", "put_latency", "put_latencyn"} -> LockStepOk(p, h)
      [] app = "get_latency"     -> GetLatencyOk(p, h)
      [] app = "putget"          -> PutGetOk(p, h)
      [] app = "rtt"             -> RoundTripOk(p, h)
      [] app = "lse"             -> LockStepExchangeOk(p, h)
      [] app = "bcast"           -> BcastOk(p, h)
      [] app = "gather"          -> GatherOk(p, h)
=============================================================================
