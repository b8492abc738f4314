SPECIFICATION Spec
CONSTANTS
  Apps = {"exchange", "replicate", "replicaten", "farm", "spread", "collect", "collect_any", "dtype", "reduce",
          "all2all", "skeleton_farm", "skeleton_farm_copy", "pipeline", "pipeline_copy", "pipeline_farm",
          "gauss_skeleton", "gauss_pipe", "gauss_pipen", "gauss_replicate", "gauss_replicaten",
          "mandelbrot", "mandel_farm", "odd_even", "pi", "mva", "matrix_mul", "fft", "fft_iperm",
          "lock_step", "lock_stepn", "perf", "put_latency", "put_latencyn", "get_latency", "putget", "rtt", "lse",
          "bcast", "gather"}
  MaxProcs = 6
  Killed = Killed
INVARIANTS TypeOK EndsMeet OrderlyEnds AnswersRight
PROPERTIES ProgramsEnd
CHECK_DEADLOCK FALSE
