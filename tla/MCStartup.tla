----------------------------- MODULE MCStartup -----------------------------
(* Instances of Startup for TLC: numbers of threads, on machines with CPUs  *)
(* for all of them and for none, with a TCS for each thread or fewer.       *)
EXTENDS Startup

Config(w, l, cpus, tcs) == [WORKER_NUM |-> w, LOGGER_NUM |-> l, num_cpus |-> cpus, TCSNum |-> tcs]

Sizes == {<<1, 1>>, <<2, 1>>, <<1, 2>>, <<2, 2>>, <<3, 1>>, <<3, 2>>}

SomeConfigs ==
    {Config(s[1], s[2], cpus, s[1] + s[2] + 1) : s \in Sizes, cpus \in {1, 8}}
      \cup {Config(2, 1, 8, tcs) : tcs \in 1 .. 3}
=============================================================================
