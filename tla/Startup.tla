------------------------------ MODULE Startup ------------------------------
(***************************************************************************)
(* How enclaveSilo comes up and goes down: main (App.cpp), the grouping of *)
(* workers around loggers (LoggerAffinity), the threads' way through the   *)
(* enclave (Enclave.cpp) and the registration of workers with their logger *)
(* (silo_logger.cpp).  It leads to the states LogPipeline and SiloCC start *)
(* from: every logger knows its workers before the first transaction.      *)
(*                                                                         *)
(* A thread inside the enclave holds one of its TCSNum thread control      *)
(* structures; an ecall that finds none returns an error, which nobody     *)
(* looks at.  What workers log while they run is LogPipeline's matter.     *)
(***************************************************************************)
EXTENDS Integers, FiniteSets, Sequences, Functions

CONSTANT Configs   \* the builds and machines considered

ASSUME StartupAssumption ==
    \A c \in Configs : /\ c.WORKER_NUM \in Nat \ {0} /\ c.LOGGER_NUM \in Nat \ {0}
                       /\ c.num_cpus \in Nat /\ c.TCSNum \in Nat \ {0}

VARIABLES
    config,
    main,               \* where main is
    launched,           \* how many threads of each kind it has created
    wpc, lpc,           \* where each worker and each logger is
    logs,               \* the loggers that have stored their pointer
    readys, start, quit,
    mutex,              \* the worker that holds a logger's mutex_, or -1
    thid_vec, thid_set, queue_quit, joined

flags   == <<readys, start, quit>>
loggers == <<logs, mutex, thid_vec, thid_set, queue_quit, joined>>
vars    == <<config, main, launched, wpc, lpc, flags, loggers>>

Workers == 0 .. config.WORKER_NUM - 1
Loggers == 0 .. config.LOGGER_NUM - 1
-----------------------------------------------------------------------------
(* LoggerAffinity::init.                                                    *)

\* The threads 0 .. n - 1 that go to node j.
Share(c, n, j) == {i \in 0 .. n - 1 : (i * c.LOGGER_NUM) \div n = j}

Crowded(c) == c.LOGGER_NUM + c.WORKER_NUM > c.num_cpus

pop_back(S) == {i \in S : \E k \in S : i < k}

\* Mutant: the threads of the loggers are not counted.
worker_cpu_NoLoggers(c, j) ==
    LET mine == Share(c, c.WORKER_NUM, j) IN IF Crowded(c) THEN mine ELSE pop_back(mine)

\* The workers' CPUs of node j.  If there are CPUs enough, the last of the node
\* is left to the logger.
worker_cpu_(c, j) ==
    IF Crowded(c) THEN Share(c, c.WORKER_NUM, j)
                  ELSE pop_back(Share(c, c.LOGGER_NUM + c.WORKER_NUM, j))

\* worker_cpu_.back() of a vector that has never held anything reads below a null
\* pointer, which ends the process.
NoBack(c) == Crowded(c) /\ \E j \in 0 .. c.LOGGER_NUM - 1 : worker_cpu_(c, j) = {}

\* main numbers the workers through, node by node.
FirstOf(c, j) == Cardinality(UNION {worker_cpu_(c, m) : m \in 0 .. j - 1})

gid(i) == CHOOSE j \in Loggers : FirstOf(config, j) <= i /\ i < FirstOf(config, j + 1)
-----------------------------------------------------------------------------
Out == {"none", "created", "returned"}

Inside == Cardinality({i \in Workers : wpc[i] \notin Out})
            + Cardinality({j \in Loggers : lpc[j] \notin Out})
            + (IF main = "waitForReady" THEN 1 ELSE 0)

FreeTCS == Inside < config.TCSNum

Goto(i, l)  == wpc' = [wpc EXCEPT ![i] = l]
LGoto(j, l) == lpc' = [lpc EXCEPT ![j] = l]

Init ==
    /\ config \in Configs
    /\ main = "init" /\ launched = [loggers |-> 0, workers |-> 0]
    /\ wpc = [i \in Workers |-> "none"]
    /\ lpc = [j \in Loggers |-> "none"]
    /\ logs = {}
    /\ readys = {} /\ start = FALSE /\ quit = FALSE
    /\ mutex = [j \in Loggers |-> -1]
    /\ thid_vec = [j \in Loggers |-> <<>>]
    /\ thid_set = [j \in Loggers |-> {}]
    /\ queue_quit = [j \in Loggers |-> FALSE]
    /\ joined = [j \in Loggers |-> FALSE]
-----------------------------------------------------------------------------
(* main.                                                                    *)

MainGoto(from, to) == main = from /\ main' = to

\* ecall_initDB has run; the affinities are computed.
InitAffinity ==
    /\ MainGoto("init", IF NoBack(config) THEN "crashed" ELSE "launch")
    /\ UNCHANGED <<config, launched, wpc, lpc, flags, loggers>>

\* All workers of the loggers created so far have been created.
GroupComplete == launched.workers = FirstOf(config, launched.loggers)

LaunchLogger ==
    /\ main = "launch" /\ GroupComplete /\ launched.loggers \in Loggers
    /\ LGoto(launched.loggers, "created")
    /\ launched' = [launched EXCEPT !.loggers = @ + 1]
    /\ UNCHANGED <<config, main, wpc, flags, loggers>>

LaunchWorker ==
    /\ main = "launch" /\ ~GroupComplete
    /\ Goto(launched.workers, "created")
    /\ launched' = [launched EXCEPT !.workers = @ + 1]
    /\ UNCHANGED <<config, main, lpc, flags, loggers>>

\* ecall_waitForReady, which has not waited when there is no TCS for it.
BeginWait ==
    /\ GroupComplete /\ launched.loggers = config.LOGGER_NUM
    /\ MainGoto("launch", IF FreeTCS THEN "waitForReady" ELSE "sendStart")
    /\ UNCHANGED <<config, launched, wpc, lpc, flags, loggers>>

\* Mutant: the first worker that is ready is enough.
AllReady_One == readys # {}

\* Nothing in readys is ever reset, so the scan takes effect at its last load.
AllReady == readys = Workers

EndWait ==
    /\ AllReady
    /\ MainGoto("waitForReady", "sendStart")
    /\ UNCHANGED <<config, launched, wpc, lpc, flags, loggers>>

SendStart ==
    /\ MainGoto("sendStart", "sleep")
    /\ start' = FreeTCS
    /\ UNCHANGED <<config, launched, wpc, lpc, readys, quit, loggers>>

SendQuit ==
    /\ MainGoto("sleep", "join")
    /\ quit' = FreeTCS
    /\ UNCHANGED <<config, launched, wpc, lpc, readys, start, loggers>>

\* Loggers are joined first, then workers; the results are read after that.
Join ==
    /\ MainGoto("join", "done")
    /\ \A j \in Loggers : lpc[j] = "returned"
    /\ \A i \in Workers : wpc[i] = "returned"
    /\ UNCHANGED <<config, launched, wpc, lpc, flags, loggers>>

Main == \/ InitAffinity \/ LaunchLogger \/ LaunchWorker \/ BeginWait \/ EndWait
        \/ SendStart \/ SendQuit \/ Join
-----------------------------------------------------------------------------
(* A worker: ecall_worker_th.                                               *)

EnterWorker(i) ==
    /\ wpc[i] = "created"
    /\ Goto(i, IF FreeTCS THEN "findLogger" ELSE "returned")
    /\ UNCHANGED <<config, main, launched, lpc, flags, loggers>>

FindLogger(i) ==
    /\ wpc[i] = "findLogger" /\ gid(i) \in logs
    /\ Goto(i, "add")
    /\ UNCHANGED <<config, main, launched, lpc, flags, loggers>>

\* add_tx_executor: between its two steps thid_vec_ is being changed.
AddBegin(i) ==
    /\ wpc[i] = "add" /\ mutex[gid(i)] = -1
    /\ mutex' = [mutex EXCEPT ![gid(i)] = i]
    /\ Goto(i, "adding")
    /\ UNCHANGED <<config, main, launched, lpc, flags, logs, thid_vec, thid_set, queue_quit, joined>>

AddEnd(i) ==
    /\ wpc[i] = "adding"
    /\ thid_vec' = [thid_vec EXCEPT ![gid(i)] = Append(@, i)]
    /\ thid_set' = [thid_set EXCEPT ![gid(i)] = @ \cup {i}]
    /\ mutex' = [mutex EXCEPT ![gid(i)] = -1]
    /\ Goto(i, "ready")
    /\ UNCHANGED <<config, main, launched, lpc, flags, logs, queue_quit, joined>>

Ready(i) ==
    /\ wpc[i] = "ready"
    /\ readys' = readys \cup {i}
    /\ Goto(i, "waitStart")
    /\ UNCHANGED <<config, main, launched, lpc, start, quit, loggers>>

Run(i) ==
    /\ wpc[i] = "waitStart" /\ start
    /\ Goto(i, "run")
    /\ UNCHANGED <<config, main, launched, lpc, flags, loggers>>

\* It runs transactions until it sees quit, and publishes its last buffer.
LeaveLoop(i) ==
    /\ wpc[i] = "run" /\ quit
    /\ Goto(i, "end")
    /\ UNCHANGED <<config, main, launched, lpc, flags, loggers>>

\* Mutant: the set is not looked at.
LastOf_Any(i) == TRUE

LastOf(i) == thid_set[gid(i)] \subseteq {i}

\* worker_end, up to cv_finish_.wait, which releases the mutex.
WorkerEnd(i) ==
    /\ wpc[i] = "end" /\ mutex[gid(i)] = -1
    /\ thid_set' = [thid_set EXCEPT ![gid(i)] = @ \ {i}]
    /\ queue_quit' = [queue_quit EXCEPT ![gid(i)] = @ \/ LastOf(i)]
    /\ Goto(i, "joining")
    /\ UNCHANGED <<config, main, launched, lpc, flags, logs, mutex, thid_vec, joined>>

WorkerReturn(i) ==
    /\ wpc[i] = "joining" /\ joined[gid(i)]
    /\ Goto(i, "returned")
    /\ UNCHANGED <<config, main, launched, lpc, flags, loggers>>

Worker(i) == \/ EnterWorker(i) \/ FindLogger(i) \/ AddBegin(i) \/ AddEnd(i) \/ Ready(i)
             \/ Run(i) \/ LeaveLoop(i) \/ WorkerEnd(i) \/ WorkerReturn(i)
-----------------------------------------------------------------------------
(* A logger: ecall_logger_th.                                               *)

EnterLogger(j) ==
    /\ lpc[j] = "created"
    /\ LGoto(j, IF FreeTCS THEN "publish" ELSE "returned")
    /\ UNCHANGED <<config, main, launched, wpc, flags, loggers>>

\* Notifier::add_logger, whose set nobody reads, and the store into logs[].
PublishLogger(j) ==
    /\ lpc[j] = "publish"
    /\ logs' = logs \cup {j}
    /\ LGoto(j, "wait")
    /\ UNCHANGED <<config, main, launched, wpc, flags, mutex, thid_vec, thid_set, queue_quit, joined>>

\* find_min_epoch goes through thid_vec_ without the mutex: after a timeout,
\* or for what its workers have published.
ScanBegin(j) ==
    /\ lpc[j] = "wait" /\ ~queue_quit[j]
    /\ LGoto(j, "scan")
    /\ UNCHANGED <<config, main, launched, wpc, flags, loggers>>

ScanEnd(j) ==
    /\ lpc[j] = "scan"
    /\ LGoto(j, "wait")
    /\ UNCHANGED <<config, main, launched, wpc, flags, loggers>>

\* The queue has been terminated; what is still in it is LogPipeline's matter.
LeaveWait(j) ==
    /\ lpc[j] = "wait" /\ queue_quit[j]
    /\ LGoto(j, "end")
    /\ UNCHANGED <<config, main, launched, wpc, flags, loggers>>

\* logger_end, and the return that ends the Logger's life.
LoggerEnd(j) ==
    /\ lpc[j] = "end" /\ mutex[j] = -1
    /\ joined' = [joined EXCEPT ![j] = TRUE]
    /\ LGoto(j, "returned")
    /\ UNCHANGED <<config, main, launched, wpc, flags, logs, mutex, thid_vec, thid_set, queue_quit>>

Logger(j) == \/ EnterLogger(j) \/ PublishLogger(j) \/ ScanBegin(j) \/ ScanEnd(j)
             \/ LeaveWait(j) \/ LoggerEnd(j)
-----------------------------------------------------------------------------
\* The busy waits, and the end.
Spin ==
    /\ \/ main \in {"done", "crashed"}
       \/ main = "waitForReady" /\ ~AllReady
       \/ \E i \in Workers : wpc[i] = "waitStart" /\ ~start
       \/ \E i \in Workers : wpc[i] = "findLogger" /\ gid(i) \notin logs
       \/ \E i \in Workers : wpc[i] = "run" /\ ~quit
    /\ UNCHANGED vars

Next == \/ Main \/ Spin
        \/ \E i \in Workers : Worker(i)
        \/ \E j \in Loggers : Logger(j)

Spec == Init /\ [][Next]_vars

\* The operating system runs every thread again and again.
Fairness == /\ WF_vars(Main)
            /\ \A c \in Configs :
                 /\ \A i \in 0 .. c.WORKER_NUM - 1 : WF_vars(config = c /\ Worker(i))
                 /\ \A j \in 0 .. c.LOGGER_NUM - 1 : WF_vars(config = c /\ Logger(j))

FairSpec == Spec /\ Fairness
-----------------------------------------------------------------------------
(* Properties.                                                              *)

\* A TCS for every thread, the one of main included.
EnoughTCS == config.TCSNum >= config.WORKER_NUM + config.LOGGER_NUM + 1

\* A worker that runs transactions runs them with all workers registered, each
\* once and with its own logger: no logger's minimum leaves one out, and no
\* thid_vec_ changes any more while a logger goes through it.
RegisteredBeforeRun ==
    EnoughTCS /\ (\E i \in Workers : wpc[i] \in {"run", "end", "joining"}) =>
      \A j \in Loggers :
        /\ Range(thid_vec[j]) = {i \in Workers : gid(i) = j} /\ IsInjective(thid_vec[j])
        /\ mutex[j] = -1

\* A worker that may still publish finds its logger at work and the logger's
\* queue open: the queue is terminated by the last of its workers only, and
\* none of them comes late.
QueueOpen ==
    EnoughTCS =>
      \A i \in Workers : wpc[i] \in {"add", "adding", "ready", "waitStart", "run", "end"} =>
        lpc[gid(i)] \in {"wait", "scan"} /\ ~queue_quit[gid(i)]

\* Given a TCS for each thread and a worker for each logger, the program ends.
ProgramEnds == EnoughTCS /\ config.LOGGER_NUM <= config.WORKER_NUM => <>(main = "done")
=============================================================================
