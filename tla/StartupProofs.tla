--------------------------- MODULE StartupProofs ---------------------------
(***************************************************************************)
(* Proofs about Startup, for every build and machine.                      *)
(***************************************************************************)
EXTENDS Startup, FiniteSetTheorems, TLAPS

Mains == {"init", "crashed", "launch", "waitForReady", "sendStart", "sleep", "join", "done"}
WPCs  == {"none", "created", "findLogger", "add", "adding", "ready", "waitStart", "run",
          "end", "joining", "returned"}
LPCs  == {"none", "created", "publish", "wait", "scan", "end", "returned"}

\* The types of the variables.
TypeInv ==
    /\ config \in Configs
    /\ main \in Mains
    /\ launched \in [loggers : Nat, workers : Nat]
    /\ wpc \in [Workers -> WPCs] /\ lpc \in [Loggers -> LPCs]
    /\ logs \subseteq Loggers /\ readys \subseteq Workers
    /\ start \in BOOLEAN /\ quit \in BOOLEAN
    /\ mutex \in [Loggers -> Workers \cup {-1}]
    /\ thid_vec \in [Loggers -> Seq(Workers)]
    /\ thid_set \in [Loggers -> SUBSET Workers]
    /\ queue_quit \in [Loggers -> BOOLEAN] /\ joined \in [Loggers -> BOOLEAN]

\* A worker that is in its logger's thid_vec_.
Registered(i) == wpc[i] = "ready" \/ i \in readys

\* Threads that main has still to create do nothing.
LaunchInv ==
    /\ \A i \in Workers : i >= launched.workers => wpc[i] = "none"
    /\ \A j \in Loggers : j >= launched.loggers => lpc[j] = "none"

\* What a worker's place in its code says about readys and logs.
WorkerInv ==
    \A i \in Workers :
        /\ i \in readys => wpc[i] \in {"waitStart", "run", "end", "joining", "returned"}
        /\ wpc[i] \in {"waitStart", "run", "end", "joining"} => i \in readys
        /\ wpc[i] \in {"add", "adding"} \/ Registered(i) => gid(i) \in logs

\* A logger that has stored its pointer is at work until its queue has been terminated.
LoggerInv ==
    \A j \in logs :
        /\ lpc[j] \in {"wait", "scan", "end", "returned"}
        /\ lpc[j] \in {"end", "returned"} => queue_quit[j]

\* What add_tx_executor and worker_end make of the loggers' containers.
GroupInv ==
    \A j \in Loggers :
        /\ \A i \in Workers : mutex[j] = i <=> wpc[i] = "adding" /\ gid(i) = j
        /\ \A i \in Workers : i \in Range(thid_vec[j]) <=> Registered(i) /\ gid(i) = j
        /\ IsInjective(thid_vec[j])
        /\ \A i \in Workers : i \in thid_set[j] <=>
             wpc[i] \in {"ready", "waitStart", "run", "end"} /\ gid(i) = j

\* Main goes on only when all workers are ready, and they only after it.
MainInv ==
    /\ EnoughTCS /\ main \in {"sendStart", "sleep", "join", "done"} => readys = Workers
    /\ start => main \in {"sleep", "join", "done"}
    /\ \A i \in Workers : wpc[i] \in {"run", "end", "joining"} => start

\* The queue is terminated when nobody can publish any more.
QueueInv ==
    EnoughTCS =>
      \A j \in Loggers : queue_quit[j] =>
        \A i \in Workers : gid(i) = j => wpc[i] \in {"joining", "returned"}

IInv == /\ TypeInv /\ LaunchInv /\ WorkerInv /\ LoggerInv /\ GroupInv /\ MainInv /\ QueueInv
-----------------------------------------------------------------------------
LEMMA ConfigStays ==
    ASSUME [Next]_vars
    PROVE  config' = config
BY DEF Next, vars, flags, loggers, Main, InitAffinity, LaunchLogger, LaunchWorker, BeginWait,
       EndWait, SendStart, SendQuit, Join, Spin, Worker, EnterWorker, FindLogger, AddBegin,
       AddEnd, Ready, Run, LeaveLoop, WorkerEnd, WorkerReturn, Logger, EnterLogger,
       PublishLogger, ScanBegin, ScanEnd, LeaveWait, LoggerEnd

LEMMA GroupsStay ==
    ASSUME config' = config
    PROVE  /\ Workers' = Workers
           /\ Loggers' = Loggers
           /\ \A i : gid(i)' = gid(i)
           /\ EnoughTCS' = EnoughTCS
BY DEF Workers, Loggers, gid, EnoughTCS, FirstOf, worker_cpu_, Crowded, Share, pop_back

LEMMA RangeOfAppend ==
    ASSUME NEW S, NEW s \in Seq(S), NEW x \in S
    PROVE  /\ Append(s, x) \in Seq(S)
           /\ Range(Append(s, x)) = Range(s) \cup {x}
           /\ IsInjective(s) /\ x \notin Range(s) => IsInjective(Append(s, x))
<1>1. /\ Append(s, x) \in Seq(S) /\ Len(Append(s, x)) = Len(s) + 1
      /\ \A n \in 1 .. Len(s) : Append(s, x)[n] = s[n]
      /\ Append(s, x)[Len(s) + 1] = x
      /\ DOMAIN Append(s, x) = 1 .. Len(s) + 1 /\ DOMAIN s = 1 .. Len(s) /\ Len(s) \in Nat
  OBVIOUS
<1>2. Range(Append(s, x)) = Range(s) \cup {x}
  BY <1>1 DEF Range
<1>3. ASSUME IsInjective(s), x \notin Range(s) PROVE IsInjective(Append(s, x))
  BY <1>1, <1>3 DEF IsInjective, Range
<1> QED BY <1>1, <1>2, <1>3

LEMMA LaunchedCounts ==
    ASSUME launched \in [loggers : Nat, workers : Nat]
    PROVE  /\ [launched EXCEPT !.loggers = @ + 1] \in [loggers : Nat, workers : Nat]
           /\ [launched EXCEPT !.loggers = @ + 1].loggers = launched.loggers + 1
           /\ [launched EXCEPT !.loggers = @ + 1].workers = launched.workers
           /\ [launched EXCEPT !.workers = @ + 1] \in [loggers : Nat, workers : Nat]
           /\ [launched EXCEPT !.workers = @ + 1].workers = launched.workers + 1
           /\ [launched EXCEPT !.workers = @ + 1].loggers = launched.loggers
OBVIOUS

LEMMA FreeOrNot == FreeTCS \in BOOLEAN
BY DEF FreeTCS

LEMMA ThreadsAreNumbers == Workers \subseteq Int /\ Loggers \subseteq Int /\ -1 \notin Workers
BY DEF Workers, Loggers

\* When main enters the enclave, every other thread can be inside.
LEMMA RoomForMain ==
    ASSUME config \in Configs, EnoughTCS, main # "waitForReady"
    PROVE  FreeTCS
<1> DEFINE A == {i \in Workers : wpc[i] \notin Out}
           B == {j \in Loggers : lpc[j] \notin Out}
<1>1. config.WORKER_NUM \in Nat /\ config.LOGGER_NUM \in Nat /\ config.TCSNum \in Nat
  BY StartupAssumption
<1>2. /\ IsFiniteSet(Workers) /\ Cardinality(Workers) = config.WORKER_NUM
      /\ IsFiniteSet(Loggers) /\ Cardinality(Loggers) = config.LOGGER_NUM
  <2>1. \A n \in Nat : IsFiniteSet(0 .. n - 1) /\ Cardinality(0 .. n - 1) = n
    <3>1. \A n \in Nat : 0 <= n - 1 \/ n = 0
      OBVIOUS
    <3> QED BY <3>1, FS_Interval
  <2> QED BY <1>1, <2>1 DEF Workers, Loggers
<1>3. A \subseteq Workers /\ B \subseteq Loggers
  OBVIOUS
<1>4. /\ Cardinality(A) \in Nat /\ Cardinality(A) <= config.WORKER_NUM
      /\ Cardinality(B) \in Nat /\ Cardinality(B) <= config.LOGGER_NUM
  BY <1>2, <1>3, FS_Subset, FS_CardinalityType
<1>5. Inside = Cardinality(A) + Cardinality(B) + 0
  BY DEF Inside
<1> HIDE DEF A, B
<1> QED BY <1>1, <1>4, <1>5 DEF FreeTCS, EnoughTCS
-----------------------------------------------------------------------------
\* The types.
LEMMA TypeStep ==
    ASSUME TypeInv, [Next]_vars
    PROVE  TypeInv'
<1>0. /\ config' = config /\ Workers' = Workers /\ Loggers' = Loggers
      /\ (\A i : gid(i)' = gid(i)) /\ EnoughTCS' = EnoughTCS
  BY ConfigStays, GroupsStay
<1>1. CASE InitAffinity
  BY <1>0, <1>1 DEF TypeInv, Mains, WPCs, LPCs, InitAffinity, MainGoto, flags, loggers
<1>2. CASE LaunchLogger
  BY <1>0, <1>2, LaunchedCounts DEF TypeInv, Mains, WPCs, LPCs, LaunchLogger, MainGoto, LGoto, flags, loggers
<1>3. CASE LaunchWorker
  BY <1>0, <1>3, LaunchedCounts DEF TypeInv, Mains, WPCs, LPCs, LaunchWorker, MainGoto, Goto, flags, loggers
<1>4. CASE BeginWait
  BY <1>0, <1>4 DEF TypeInv, Mains, WPCs, LPCs, BeginWait, MainGoto, flags, loggers
<1>5. CASE EndWait
  BY <1>0, <1>5 DEF TypeInv, Mains, WPCs, LPCs, EndWait, MainGoto, flags, loggers
<1>6. CASE SendStart
  BY <1>0, <1>6, FreeOrNot DEF TypeInv, Mains, WPCs, LPCs, SendStart, MainGoto, flags, loggers
<1>7. CASE SendQuit
  BY <1>0, <1>7, FreeOrNot DEF TypeInv, Mains, WPCs, LPCs, SendQuit, MainGoto, flags, loggers
<1>8. CASE Join
  BY <1>0, <1>8 DEF TypeInv, Mains, WPCs, LPCs, Join, MainGoto, flags, loggers
<1>9. ASSUME NEW i \in Workers, EnterWorker(i) PROVE TypeInv'
  BY <1>0, <1>9 DEF TypeInv, Mains, WPCs, LPCs, EnterWorker, Goto, flags, loggers
<1>10. ASSUME NEW i \in Workers, FindLogger(i) PROVE TypeInv'
  BY <1>0, <1>10 DEF TypeInv, Mains, WPCs, LPCs, FindLogger, Goto, flags, loggers
<1>11. ASSUME NEW i \in Workers, AddBegin(i) PROVE TypeInv'
  BY <1>0, <1>11 DEF TypeInv, Mains, WPCs, LPCs, AddBegin, Goto, flags, loggers
<1>12. ASSUME NEW i \in Workers, AddEnd(i) PROVE TypeInv'
  <2>1. thid_vec[gid(i)] \in Seq(Workers) => Append(thid_vec[gid(i)], i) \in Seq(Workers)
    BY RangeOfAppend
  <2> QED BY <1>0, <1>12, <2>1 DEF TypeInv, Mains, WPCs, LPCs, AddEnd, Goto, flags, loggers
<1>13. ASSUME NEW i \in Workers, Ready(i) PROVE TypeInv'
  BY <1>0, <1>13 DEF TypeInv, Mains, WPCs, LPCs, Ready, Goto, flags, loggers
<1>14. ASSUME NEW i \in Workers, Run(i) PROVE TypeInv'
  BY <1>0, <1>14 DEF TypeInv, Mains, WPCs, LPCs, Run, Goto, flags, loggers
<1>15. ASSUME NEW i \in Workers, LeaveLoop(i) PROVE TypeInv'
  BY <1>0, <1>15 DEF TypeInv, Mains, WPCs, LPCs, LeaveLoop, Goto, flags, loggers
<1>16. ASSUME NEW i \in Workers, WorkerEnd(i) PROVE TypeInv'
  BY <1>0, <1>16 DEF TypeInv, Mains, WPCs, LPCs, WorkerEnd, Goto, flags, loggers
<1>17. ASSUME NEW i \in Workers, WorkerReturn(i) PROVE TypeInv'
  BY <1>0, <1>17 DEF TypeInv, Mains, WPCs, LPCs, WorkerReturn, Goto, flags, loggers
<1>18. ASSUME NEW j \in Loggers, EnterLogger(j) PROVE TypeInv'
  BY <1>0, <1>18 DEF TypeInv, Mains, WPCs, LPCs, EnterLogger, LGoto, flags, loggers
<1>19. ASSUME NEW j \in Loggers, PublishLogger(j) PROVE TypeInv'
  BY <1>0, <1>19 DEF TypeInv, Mains, WPCs, LPCs, PublishLogger, LGoto, flags, loggers
<1>20. ASSUME NEW j \in Loggers, ScanBegin(j) PROVE TypeInv'
  BY <1>0, <1>20 DEF TypeInv, Mains, WPCs, LPCs, ScanBegin, LGoto, flags, loggers
<1>21. ASSUME NEW j \in Loggers, ScanEnd(j) PROVE TypeInv'
  BY <1>0, <1>21 DEF TypeInv, Mains, WPCs, LPCs, ScanEnd, LGoto, flags, loggers
<1>22. ASSUME NEW j \in Loggers, LeaveWait(j) PROVE TypeInv'
  BY <1>0, <1>22 DEF TypeInv, Mains, WPCs, LPCs, LeaveWait, LGoto, flags, loggers
<1>23. ASSUME NEW j \in Loggers, LoggerEnd(j) PROVE TypeInv'
  BY <1>0, <1>23 DEF TypeInv, Mains, WPCs, LPCs, LoggerEnd, LGoto, flags, loggers
<1>24. CASE Spin \/ UNCHANGED vars
  BY <1>0, <1>24 DEF TypeInv, Mains, WPCs, LPCs, Spin, vars, flags, loggers
<1> QED
  BY <1>1, <1>2, <1>3, <1>4, <1>5, <1>6, <1>7, <1>8, <1>9, <1>10, <1>11, <1>12, <1>13, <1>14, <1>15, <1>16, <1>17, <1>18, <1>19, <1>20, <1>21, <1>22, <1>23, <1>24 DEF Next, Main, Worker, Logger

\* A thread is created once.
LEMMA LaunchStep ==
    ASSUME TypeInv, LaunchInv, [Next]_vars
    PROVE  LaunchInv'
<1>0. /\ config' = config /\ Workers' = Workers /\ Loggers' = Loggers
      /\ (\A i : gid(i)' = gid(i)) /\ EnoughTCS' = EnoughTCS
  BY ConfigStays, GroupsStay
<1>1. CASE InitAffinity
  BY <1>0, <1>1 DEF TypeInv, LaunchInv, InitAffinity, MainGoto, flags, loggers
<1>2. CASE LaunchLogger
  <2>1. /\ launched'.loggers = launched.loggers + 1 /\ launched'.workers = launched.workers
        /\ launched.loggers \in Nat
    BY <1>2, LaunchedCounts DEF TypeInv, LaunchLogger
  <2>2. \A k \in Loggers : lpc'[k] = IF k = launched.loggers THEN "created" ELSE lpc[k]
    BY <1>2 DEF TypeInv, LaunchLogger, LGoto
  <2> QED BY <1>0, <1>2, <2>1, <2>2, ThreadsAreNumbers DEF LaunchInv, LaunchLogger
<1>3. CASE LaunchWorker
  <2>1. /\ launched'.workers = launched.workers + 1 /\ launched'.loggers = launched.loggers
        /\ launched.workers \in Nat
    BY <1>3, LaunchedCounts DEF TypeInv, LaunchWorker
  <2>2. \A k \in Workers : wpc'[k] = IF k = launched.workers THEN "created" ELSE wpc[k]
    BY <1>3 DEF TypeInv, LaunchWorker, Goto
  <2> QED BY <1>0, <1>3, <2>1, <2>2, ThreadsAreNumbers DEF LaunchInv, LaunchWorker
<1>4. CASE BeginWait
  BY <1>0, <1>4 DEF TypeInv, LaunchInv, BeginWait, MainGoto, flags, loggers
<1>5. CASE EndWait
  BY <1>0, <1>5 DEF TypeInv, LaunchInv, EndWait, MainGoto, flags, loggers
<1>6. CASE SendStart
  BY <1>0, <1>6 DEF TypeInv, LaunchInv, SendStart, MainGoto, flags, loggers
<1>7. CASE SendQuit
  BY <1>0, <1>7 DEF TypeInv, LaunchInv, SendQuit, MainGoto, flags, loggers
<1>8. CASE Join
  BY <1>0, <1>8 DEF TypeInv, LaunchInv, Join, MainGoto, flags, loggers
<1>9. ASSUME NEW i \in Workers, EnterWorker(i) PROVE LaunchInv'
  BY <1>0, <1>9 DEF TypeInv, LaunchInv, EnterWorker, Goto, flags, loggers
<1>10. ASSUME NEW i \in Workers, FindLogger(i) PROVE LaunchInv'
  BY <1>0, <1>10 DEF TypeInv, LaunchInv, FindLogger, Goto, flags, loggers
<1>11. ASSUME NEW i \in Workers, AddBegin(i) PROVE LaunchInv'
  BY <1>0, <1>11 DEF TypeInv, LaunchInv, AddBegin, Goto, flags, loggers
<1>12. ASSUME NEW i \in Workers, AddEnd(i) PROVE LaunchInv'
  BY <1>0, <1>12 DEF TypeInv, LaunchInv, AddEnd, Goto, flags, loggers
<1>13. ASSUME NEW i \in Workers, Ready(i) PROVE LaunchInv'
  BY <1>0, <1>13 DEF TypeInv, LaunchInv, Ready, Goto, flags, loggers
<1>14. ASSUME NEW i \in Workers, Run(i) PROVE LaunchInv'
  BY <1>0, <1>14 DEF TypeInv, LaunchInv, Run, Goto, flags, loggers
<1>15. ASSUME NEW i \in Workers, LeaveLoop(i) PROVE LaunchInv'
  BY <1>0, <1>15 DEF TypeInv, LaunchInv, LeaveLoop, Goto, flags, loggers
<1>16. ASSUME NEW i \in Workers, WorkerEnd(i) PROVE LaunchInv'
  BY <1>0, <1>16 DEF TypeInv, LaunchInv, WorkerEnd, Goto, flags, loggers
<1>17. ASSUME NEW i \in Workers, WorkerReturn(i) PROVE LaunchInv'
  BY <1>0, <1>17 DEF TypeInv, LaunchInv, WorkerReturn, Goto, flags, loggers
<1>18. ASSUME NEW j \in Loggers, EnterLogger(j) PROVE LaunchInv'
  BY <1>0, <1>18 DEF TypeInv, LaunchInv, EnterLogger, LGoto, flags, loggers
<1>19. ASSUME NEW j \in Loggers, PublishLogger(j) PROVE LaunchInv'
  BY <1>0, <1>19 DEF TypeInv, LaunchInv, PublishLogger, LGoto, flags, loggers
<1>20. ASSUME NEW j \in Loggers, ScanBegin(j) PROVE LaunchInv'
  BY <1>0, <1>20 DEF TypeInv, LaunchInv, ScanBegin, LGoto, flags, loggers
<1>21. ASSUME NEW j \in Loggers, ScanEnd(j) PROVE LaunchInv'
  BY <1>0, <1>21 DEF TypeInv, LaunchInv, ScanEnd, LGoto, flags, loggers
<1>22. ASSUME NEW j \in Loggers, LeaveWait(j) PROVE LaunchInv'
  BY <1>0, <1>22 DEF TypeInv, LaunchInv, LeaveWait, LGoto, flags, loggers
<1>23. ASSUME NEW j \in Loggers, LoggerEnd(j) PROVE LaunchInv'
  BY <1>0, <1>23 DEF TypeInv, LaunchInv, LoggerEnd, LGoto, flags, loggers
<1>24. CASE Spin \/ UNCHANGED vars
  BY <1>0, <1>24 DEF TypeInv, LaunchInv, Spin, vars, flags, loggers
<1> QED
  BY <1>1, <1>2, <1>3, <1>4, <1>5, <1>6, <1>7, <1>8, <1>9, <1>10, <1>11, <1>12, <1>13, <1>14, <1>15, <1>16, <1>17, <1>18, <1>19, <1>20, <1>21, <1>22, <1>23, <1>24 DEF Next, Main, Worker, Logger

\* A worker's place in its code.
LEMMA WorkerStep ==
    ASSUME TypeInv, LaunchInv, WorkerInv, [Next]_vars
    PROVE  WorkerInv'
<1>0. /\ config' = config /\ Workers' = Workers /\ Loggers' = Loggers
      /\ (\A i : gid(i)' = gid(i)) /\ EnoughTCS' = EnoughTCS
  BY ConfigStays, GroupsStay
<1>1. CASE InitAffinity
  BY <1>0, <1>1 DEF TypeInv, LaunchInv, WorkerInv, Registered, InitAffinity, MainGoto, flags, loggers
<1>2. CASE LaunchLogger
  BY <1>0, <1>2 DEF TypeInv, LaunchInv, WorkerInv, Registered, LaunchLogger, MainGoto, LGoto, flags, loggers
<1>3. CASE LaunchWorker
  <2>1. launched.workers \in Workers => wpc[launched.workers] = "none"
    BY DEF TypeInv, LaunchInv
  <2>2. \A k \in Workers : wpc'[k] = IF k = launched.workers THEN "created" ELSE wpc[k]
    BY <1>3 DEF TypeInv, LaunchWorker, Goto
  <2> QED BY <1>0, <1>3, <2>1, <2>2 DEF TypeInv, LaunchInv, WorkerInv, Registered, LaunchWorker, flags, loggers
<1>4. CASE BeginWait
  BY <1>0, <1>4 DEF TypeInv, LaunchInv, WorkerInv, Registered, BeginWait, MainGoto, flags, loggers
<1>5. CASE EndWait
  BY <1>0, <1>5 DEF TypeInv, LaunchInv, WorkerInv, Registered, EndWait, MainGoto, flags, loggers
<1>6. CASE SendStart
  BY <1>0, <1>6 DEF TypeInv, LaunchInv, WorkerInv, Registered, SendStart, MainGoto, flags, loggers
<1>7. CASE SendQuit
  BY <1>0, <1>7 DEF TypeInv, LaunchInv, WorkerInv, Registered, SendQuit, MainGoto, flags, loggers
<1>8. CASE Join
  BY <1>0, <1>8 DEF TypeInv, LaunchInv, WorkerInv, Registered, Join, MainGoto, flags, loggers
<1>9. ASSUME NEW i \in Workers, EnterWorker(i) PROVE WorkerInv'
  BY <1>0, <1>9 DEF TypeInv, LaunchInv, WorkerInv, Registered, EnterWorker, Goto, flags, loggers
<1>10. ASSUME NEW i \in Workers, FindLogger(i) PROVE WorkerInv'
  BY <1>0, <1>10 DEF TypeInv, LaunchInv, WorkerInv, Registered, FindLogger, Goto, flags, loggers
<1>11. ASSUME NEW i \in Workers, AddBegin(i) PROVE WorkerInv'
  BY <1>0, <1>11 DEF TypeInv, LaunchInv, WorkerInv, Registered, AddBegin, Goto, flags, loggers
<1>12. ASSUME NEW i \in Workers, AddEnd(i) PROVE WorkerInv'
  BY <1>0, <1>12 DEF TypeInv, LaunchInv, WorkerInv, Registered, AddEnd, Goto, flags, loggers
<1>13. ASSUME NEW i \in Workers, Ready(i) PROVE WorkerInv'
  BY <1>0, <1>13 DEF TypeInv, LaunchInv, WorkerInv, Registered, Ready, Goto, flags, loggers
<1>14. ASSUME NEW i \in Workers, Run(i) PROVE WorkerInv'
  BY <1>0, <1>14 DEF TypeInv, LaunchInv, WorkerInv, Registered, Run, Goto, flags, loggers
<1>15. ASSUME NEW i \in Workers, LeaveLoop(i) PROVE WorkerInv'
  BY <1>0, <1>15 DEF TypeInv, LaunchInv, WorkerInv, Registered, LeaveLoop, Goto, flags, loggers
<1>16. ASSUME NEW i \in Workers, WorkerEnd(i) PROVE WorkerInv'
  BY <1>0, <1>16 DEF TypeInv, LaunchInv, WorkerInv, Registered, WorkerEnd, Goto, flags, loggers
<1>17. ASSUME NEW i \in Workers, WorkerReturn(i) PROVE WorkerInv'
  BY <1>0, <1>17 DEF TypeInv, LaunchInv, WorkerInv, Registered, WorkerReturn, Goto, flags, loggers
<1>18. ASSUME NEW j \in Loggers, EnterLogger(j) PROVE WorkerInv'
  BY <1>0, <1>18 DEF TypeInv, LaunchInv, WorkerInv, Registered, EnterLogger, LGoto, flags, loggers
<1>19. ASSUME NEW j \in Loggers, PublishLogger(j) PROVE WorkerInv'
  BY <1>0, <1>19 DEF TypeInv, LaunchInv, WorkerInv, Registered, PublishLogger, LGoto, flags, loggers
<1>20. ASSUME NEW j \in Loggers, ScanBegin(j) PROVE WorkerInv'
  BY <1>0, <1>20 DEF TypeInv, LaunchInv, WorkerInv, Registered, ScanBegin, LGoto, flags, loggers
<1>21. ASSUME NEW j \in Loggers, ScanEnd(j) PROVE WorkerInv'
  BY <1>0, <1>21 DEF TypeInv, LaunchInv, WorkerInv, Registered, ScanEnd, LGoto, flags, loggers
<1>22. ASSUME NEW j \in Loggers, LeaveWait(j) PROVE WorkerInv'
  BY <1>0, <1>22 DEF TypeInv, LaunchInv, WorkerInv, Registered, LeaveWait, LGoto, flags, loggers
<1>23. ASSUME NEW j \in Loggers, LoggerEnd(j) PROVE WorkerInv'
  BY <1>0, <1>23 DEF TypeInv, LaunchInv, WorkerInv, Registered, LoggerEnd, LGoto, flags, loggers
<1>24. CASE Spin \/ UNCHANGED vars
  BY <1>0, <1>24 DEF TypeInv, LaunchInv, WorkerInv, Registered, Spin, vars, flags, loggers
<1> QED
  BY <1>1, <1>2, <1>3, <1>4, <1>5, <1>6, <1>7, <1>8, <1>9, <1>10, <1>11, <1>12, <1>13, <1>14, <1>15, <1>16, <1>17, <1>18, <1>19, <1>20, <1>21, <1>22, <1>23, <1>24 DEF Next, Main, Worker, Logger

\* A logger's.
LEMMA LoggerStep ==
    ASSUME TypeInv, LaunchInv, WorkerInv, LoggerInv, [Next]_vars
    PROVE  LoggerInv'
<1>0. /\ config' = config /\ Workers' = Workers /\ Loggers' = Loggers
      /\ (\A i : gid(i)' = gid(i)) /\ EnoughTCS' = EnoughTCS
  BY ConfigStays, GroupsStay
<1>1. CASE InitAffinity
  BY <1>0, <1>1 DEF TypeInv, LaunchInv, WorkerInv, LoggerInv, Registered, InitAffinity, MainGoto, flags, loggers
<1>2. CASE LaunchLogger
  BY <1>0, <1>2 DEF TypeInv, LaunchInv, WorkerInv, LoggerInv, Registered, LaunchLogger, MainGoto, LGoto, flags, loggers
<1>3. CASE LaunchWorker
  BY <1>0, <1>3 DEF TypeInv, LaunchInv, WorkerInv, LoggerInv, Registered, LaunchWorker, MainGoto, Goto, flags, loggers
<1>4. CASE BeginWait
  BY <1>0, <1>4 DEF TypeInv, LaunchInv, WorkerInv, LoggerInv, Registered, BeginWait, MainGoto, flags, loggers
<1>5. CASE EndWait
  BY <1>0, <1>5 DEF TypeInv, LaunchInv, WorkerInv, LoggerInv, Registered, EndWait, MainGoto, flags, loggers
<1>6. CASE SendStart
  BY <1>0, <1>6 DEF TypeInv, LaunchInv, WorkerInv, LoggerInv, Registered, SendStart, MainGoto, flags, loggers
<1>7. CASE SendQuit
  BY <1>0, <1>7 DEF TypeInv, LaunchInv, WorkerInv, LoggerInv, Registered, SendQuit, MainGoto, flags, loggers
<1>8. CASE Join
  BY <1>0, <1>8 DEF TypeInv, LaunchInv, WorkerInv, LoggerInv, Registered, Join, MainGoto, flags, loggers
<1>9. ASSUME NEW i \in Workers, EnterWorker(i) PROVE LoggerInv'
  BY <1>0, <1>9 DEF TypeInv, LaunchInv, WorkerInv, LoggerInv, Registered, EnterWorker, Goto, flags, loggers
<1>10. ASSUME NEW i \in Workers, FindLogger(i) PROVE LoggerInv'
  BY <1>0, <1>10 DEF TypeInv, LaunchInv, WorkerInv, LoggerInv, Registered, FindLogger, Goto, flags, loggers
<1>11. ASSUME NEW i \in Workers, AddBegin(i) PROVE LoggerInv'
  BY <1>0, <1>11 DEF TypeInv, LaunchInv, WorkerInv, LoggerInv, Registered, AddBegin, Goto, flags, loggers
<1>12. ASSUME NEW i \in Workers, AddEnd(i) PROVE LoggerInv'
  BY <1>0, <1>12 DEF TypeInv, LaunchInv, WorkerInv, LoggerInv, Registered, AddEnd, Goto, flags, loggers
<1>13. ASSUME NEW i \in Workers, Ready(i) PROVE LoggerInv'
  BY <1>0, <1>13 DEF TypeInv, LaunchInv, WorkerInv, LoggerInv, Registered, Ready, Goto, flags, loggers
<1>14. ASSUME NEW i \in Workers, Run(i) PROVE LoggerInv'
  BY <1>0, <1>14 DEF TypeInv, LaunchInv, WorkerInv, LoggerInv, Registered, Run, Goto, flags, loggers
<1>15. ASSUME NEW i \in Workers, LeaveLoop(i) PROVE LoggerInv'
  BY <1>0, <1>15 DEF TypeInv, LaunchInv, WorkerInv, LoggerInv, Registered, LeaveLoop, Goto, flags, loggers
<1>16. ASSUME NEW i \in Workers, WorkerEnd(i) PROVE LoggerInv'
  BY <1>0, <1>16 DEF TypeInv, LaunchInv, WorkerInv, LoggerInv, Registered, WorkerEnd, Goto, flags, loggers
<1>17. ASSUME NEW i \in Workers, WorkerReturn(i) PROVE LoggerInv'
  BY <1>0, <1>17 DEF TypeInv, LaunchInv, WorkerInv, LoggerInv, Registered, WorkerReturn, Goto, flags, loggers
<1>18. ASSUME NEW j \in Loggers, EnterLogger(j) PROVE LoggerInv'
  BY <1>0, <1>18 DEF TypeInv, LaunchInv, WorkerInv, LoggerInv, Registered, EnterLogger, LGoto, flags, loggers
<1>19. ASSUME NEW j \in Loggers, PublishLogger(j) PROVE LoggerInv'
  BY <1>0, <1>19 DEF TypeInv, LaunchInv, WorkerInv, LoggerInv, Registered, PublishLogger, LGoto, flags, loggers
<1>20. ASSUME NEW j \in Loggers, ScanBegin(j) PROVE LoggerInv'
  BY <1>0, <1>20 DEF TypeInv, LaunchInv, WorkerInv, LoggerInv, Registered, ScanBegin, LGoto, flags, loggers
<1>21. ASSUME NEW j \in Loggers, ScanEnd(j) PROVE LoggerInv'
  BY <1>0, <1>21 DEF TypeInv, LaunchInv, WorkerInv, LoggerInv, Registered, ScanEnd, LGoto, flags, loggers
<1>22. ASSUME NEW j \in Loggers, LeaveWait(j) PROVE LoggerInv'
  BY <1>0, <1>22 DEF TypeInv, LaunchInv, WorkerInv, LoggerInv, Registered, LeaveWait, LGoto, flags, loggers
<1>23. ASSUME NEW j \in Loggers, LoggerEnd(j) PROVE LoggerInv'
  BY <1>0, <1>23 DEF TypeInv, LaunchInv, WorkerInv, LoggerInv, Registered, LoggerEnd, LGoto, flags, loggers
<1>24. CASE Spin \/ UNCHANGED vars
  BY <1>0, <1>24 DEF TypeInv, LaunchInv, WorkerInv, LoggerInv, Registered, Spin, vars, flags, loggers
<1> QED
  BY <1>1, <1>2, <1>3, <1>4, <1>5, <1>6, <1>7, <1>8, <1>9, <1>10, <1>11, <1>12, <1>13, <1>14, <1>15, <1>16, <1>17, <1>18, <1>19, <1>20, <1>21, <1>22, <1>23, <1>24 DEF Next, Main, Worker, Logger

\* The loggers' containers.
LEMMA GroupStep ==
    ASSUME TypeInv, LaunchInv, WorkerInv, GroupInv, [Next]_vars
    PROVE  GroupInv'
<1>0. /\ config' = config /\ Workers' = Workers /\ Loggers' = Loggers
      /\ (\A i : gid(i)' = gid(i)) /\ EnoughTCS' = EnoughTCS
  BY ConfigStays, GroupsStay
<1>1. CASE InitAffinity
  BY <1>0, <1>1 DEF TypeInv, LaunchInv, WorkerInv, GroupInv, Registered, InitAffinity, MainGoto, flags, loggers
<1>2. CASE LaunchLogger
  BY <1>0, <1>2 DEF TypeInv, LaunchInv, WorkerInv, GroupInv, Registered, LaunchLogger, MainGoto, LGoto, flags, loggers
<1>3. CASE LaunchWorker
  <2>1. launched.workers \in Workers => wpc[launched.workers] = "none"
    BY DEF TypeInv, LaunchInv
  <2>2. \A k \in Workers : wpc'[k] = IF k = launched.workers THEN "created" ELSE wpc[k]
    BY <1>3 DEF TypeInv, LaunchWorker, Goto
  <2> QED BY <1>0, <1>3, <2>1, <2>2 DEF TypeInv, LaunchInv, WorkerInv, GroupInv, Registered, LaunchWorker, flags, loggers
<1>4. CASE BeginWait
  BY <1>0, <1>4 DEF TypeInv, LaunchInv, WorkerInv, GroupInv, Registered, BeginWait, MainGoto, flags, loggers
<1>5. CASE EndWait
  BY <1>0, <1>5 DEF TypeInv, LaunchInv, WorkerInv, GroupInv, Registered, EndWait, MainGoto, flags, loggers
<1>6. CASE SendStart
  BY <1>0, <1>6 DEF TypeInv, LaunchInv, WorkerInv, GroupInv, Registered, SendStart, MainGoto, flags, loggers
<1>7. CASE SendQuit
  BY <1>0, <1>7 DEF TypeInv, LaunchInv, WorkerInv, GroupInv, Registered, SendQuit, MainGoto, flags, loggers
<1>8. CASE Join
  BY <1>0, <1>8 DEF TypeInv, LaunchInv, WorkerInv, GroupInv, Registered, Join, MainGoto, flags, loggers
<1>9. ASSUME NEW i \in Workers, EnterWorker(i) PROVE GroupInv'
  BY <1>0, <1>9 DEF TypeInv, LaunchInv, WorkerInv, GroupInv, Registered, EnterWorker, Goto, flags, loggers
<1>10. ASSUME NEW i \in Workers, FindLogger(i) PROVE GroupInv'
  BY <1>0, <1>10 DEF TypeInv, LaunchInv, WorkerInv, GroupInv, Registered, FindLogger, Goto, flags, loggers
<1>11. ASSUME NEW i \in Workers, AddBegin(i) PROVE GroupInv'
  <2>1. gid(i) \in Loggers /\ mutex'[gid(i)] = i /\ wpc'[i] = "adding"
    BY <1>11 DEF TypeInv, WorkerInv, AddBegin, Goto
  <2>2. \A k \in Workers : k # i => wpc'[k] = wpc[k] /\ (gid(k) = gid(i) => wpc[k] # "adding")
    BY <1>11, <2>1, ThreadsAreNumbers DEF TypeInv, GroupInv, AddBegin, Goto
  <2>3. \A j \in Loggers : j # gid(i) => mutex'[j] = mutex[j]
    BY <1>11 DEF TypeInv, AddBegin
  <2> QED BY <1>0, <1>11, <2>1, <2>2, <2>3 DEF GroupInv, Registered, AddBegin, flags
<1>12. ASSUME NEW i \in Workers, AddEnd(i) PROVE GroupInv'
  <2> DEFINE g == gid(i)
  <2>1. g \in Loggers /\ mutex[g] = i /\ i \notin readys
    BY <1>12 DEF TypeInv, WorkerInv, GroupInv, AddEnd
  <2>2. i \notin Range(thid_vec[g]) /\ thid_vec[g] \in Seq(Workers)
    BY <1>12, <2>1 DEF TypeInv, GroupInv, Registered, AddEnd
  <2>3. /\ thid_vec' = [thid_vec EXCEPT ![g] = Append(thid_vec[g], i)]
        /\ thid_set' = [thid_set EXCEPT ![g] = thid_set[g] \cup {i}]
        /\ mutex' = [mutex EXCEPT ![g] = -1] /\ wpc' = [wpc EXCEPT ![i] = "ready"]
        /\ wpc[i] = "adding" /\ readys' = readys
    BY <1>12 DEF AddEnd, Goto, flags
  <2>4. Range(thid_vec'[g]) = Range(thid_vec[g]) \cup {i} /\ IsInjective(thid_vec'[g])
    <3>1. thid_vec'[g] = Append(thid_vec[g], i)
      BY <2>1, <2>3 DEF TypeInv
    <3> QED BY <2>1, <2>2, <3>1, RangeOfAppend DEF GroupInv
  <2>5. \A k \in Workers : wpc'[k] = IF k = i THEN "ready" ELSE wpc[k]
    BY <2>3 DEF TypeInv
  <2>6. \A k \in Workers : Registered(k)' <=> Registered(k) \/ k = i
    BY <2>3, <2>5 DEF Registered
  <2>7. \A j \in Loggers \ {g} : /\ mutex'[j] = mutex[j] /\ thid_vec'[j] = thid_vec[j]
                                /\ thid_set'[j] = thid_set[j]
    BY <2>3 DEF TypeInv
  <2>8. mutex'[g] = -1 /\ thid_set'[g] = thid_set[g] \cup {i}
    BY <2>1, <2>3 DEF TypeInv
  <2>9. ASSUME NEW j \in Loggers, NEW k \in Workers
        PROVE  /\ mutex'[j] = k <=> wpc'[k] = "adding" /\ gid(k) = j
               /\ k \in Range(thid_vec'[j]) <=> Registered(k)' /\ gid(k) = j
               /\ k \in thid_set'[j] <=>
                    wpc'[k] \in {"ready", "waitStart", "run", "end"} /\ gid(k) = j
    <3>1. CASE j = g
      BY <2>1, <2>3, <2>4, <2>5, <2>6, <2>8, <3>1, ThreadsAreNumbers DEF GroupInv
    <3>2. CASE j # g
      BY <2>3, <2>5, <2>6, <2>7, <3>2 DEF GroupInv
    <3> QED BY <3>1, <3>2
  <2>10. \A j \in Loggers : IsInjective(thid_vec'[j])
    BY <2>4, <2>7 DEF GroupInv
  <2> QED BY <1>0, <2>9, <2>10 DEF GroupInv
<1>13. ASSUME NEW i \in Workers, Ready(i) PROVE GroupInv'
  BY <1>0, <1>13 DEF TypeInv, LaunchInv, WorkerInv, GroupInv, Registered, Ready, Goto, flags, loggers
<1>14. ASSUME NEW i \in Workers, Run(i) PROVE GroupInv'
  BY <1>0, <1>14 DEF TypeInv, LaunchInv, WorkerInv, GroupInv, Registered, Run, Goto, flags, loggers
<1>15. ASSUME NEW i \in Workers, LeaveLoop(i) PROVE GroupInv'
  BY <1>0, <1>15 DEF TypeInv, LaunchInv, WorkerInv, GroupInv, Registered, LeaveLoop, Goto, flags, loggers
<1>16. ASSUME NEW i \in Workers, WorkerEnd(i) PROVE GroupInv'
  BY <1>0, <1>16 DEF TypeInv, LaunchInv, WorkerInv, GroupInv, Registered, WorkerEnd, Goto, flags, loggers
<1>17. ASSUME NEW i \in Workers, WorkerReturn(i) PROVE GroupInv'
  BY <1>0, <1>17 DEF TypeInv, LaunchInv, WorkerInv, GroupInv, Registered, WorkerReturn, Goto, flags, loggers
<1>18. ASSUME NEW j \in Loggers, EnterLogger(j) PROVE GroupInv'
  BY <1>0, <1>18 DEF TypeInv, LaunchInv, WorkerInv, GroupInv, Registered, EnterLogger, LGoto, flags, loggers
<1>19. ASSUME NEW j \in Loggers, PublishLogger(j) PROVE GroupInv'
  BY <1>0, <1>19 DEF TypeInv, LaunchInv, WorkerInv, GroupInv, Registered, PublishLogger, LGoto, flags, loggers
<1>20. ASSUME NEW j \in Loggers, ScanBegin(j) PROVE GroupInv'
  BY <1>0, <1>20 DEF TypeInv, LaunchInv, WorkerInv, GroupInv, Registered, ScanBegin, LGoto, flags, loggers
<1>21. ASSUME NEW j \in Loggers, ScanEnd(j) PROVE GroupInv'
  BY <1>0, <1>21 DEF TypeInv, LaunchInv, WorkerInv, GroupInv, Registered, ScanEnd, LGoto, flags, loggers
<1>22. ASSUME NEW j \in Loggers, LeaveWait(j) PROVE GroupInv'
  BY <1>0, <1>22 DEF TypeInv, LaunchInv, WorkerInv, GroupInv, Registered, LeaveWait, LGoto, flags, loggers
<1>23. ASSUME NEW j \in Loggers, LoggerEnd(j) PROVE GroupInv'
  BY <1>0, <1>23 DEF TypeInv, LaunchInv, WorkerInv, GroupInv, Registered, LoggerEnd, LGoto, flags, loggers
<1>24. CASE Spin \/ UNCHANGED vars
  BY <1>0, <1>24 DEF TypeInv, LaunchInv, WorkerInv, GroupInv, Registered, Spin, vars, flags, loggers
<1> QED
  BY <1>1, <1>2, <1>3, <1>4, <1>5, <1>6, <1>7, <1>8, <1>9, <1>10, <1>11, <1>12, <1>13, <1>14, <1>15, <1>16, <1>17, <1>18, <1>19, <1>20, <1>21, <1>22, <1>23, <1>24 DEF Next, Main, Worker, Logger

\* Main and the flags.
LEMMA MainStep ==
    ASSUME TypeInv, LaunchInv, WorkerInv, MainInv, [Next]_vars
    PROVE  MainInv'
<1>0. /\ config' = config /\ Workers' = Workers /\ Loggers' = Loggers
      /\ (\A i : gid(i)' = gid(i)) /\ EnoughTCS' = EnoughTCS
  BY ConfigStays, GroupsStay
<1>1. CASE InitAffinity
  BY <1>0, <1>1 DEF TypeInv, LaunchInv, WorkerInv, MainInv, Registered, InitAffinity, MainGoto, flags, loggers
<1>2. CASE LaunchLogger
  BY <1>0, <1>2 DEF TypeInv, LaunchInv, WorkerInv, MainInv, Registered, LaunchLogger, MainGoto, LGoto, flags, loggers
<1>3. CASE LaunchWorker
  <2>1. launched.workers \in Workers => wpc[launched.workers] = "none"
    BY DEF TypeInv, LaunchInv
  <2>2. \A k \in Workers : wpc'[k] = IF k = launched.workers THEN "created" ELSE wpc[k]
    BY <1>3 DEF TypeInv, LaunchWorker, Goto
  <2> QED BY <1>0, <1>3, <2>1, <2>2 DEF TypeInv, LaunchInv, WorkerInv, MainInv, Registered, LaunchWorker, flags, loggers
<1>4. CASE BeginWait
  BY <1>0, <1>4, RoomForMain DEF TypeInv, LaunchInv, WorkerInv, MainInv, Registered, BeginWait, MainGoto, flags, loggers
<1>5. CASE EndWait
  BY <1>0, <1>5 DEF TypeInv, LaunchInv, WorkerInv, MainInv, Registered, EndWait, MainGoto, flags, loggers, AllReady
<1>6. CASE SendStart
  BY <1>0, <1>6 DEF TypeInv, LaunchInv, WorkerInv, MainInv, Registered, SendStart, MainGoto, flags, loggers
<1>7. CASE SendQuit
  BY <1>0, <1>7 DEF TypeInv, LaunchInv, WorkerInv, MainInv, Registered, SendQuit, MainGoto, flags, loggers
<1>8. CASE Join
  BY <1>0, <1>8 DEF TypeInv, LaunchInv, WorkerInv, MainInv, Registered, Join, MainGoto, flags, loggers
<1>9. ASSUME NEW i \in Workers, EnterWorker(i) PROVE MainInv'
  BY <1>0, <1>9 DEF TypeInv, LaunchInv, WorkerInv, MainInv, Registered, EnterWorker, Goto, flags, loggers
<1>10. ASSUME NEW i \in Workers, FindLogger(i) PROVE MainInv'
  BY <1>0, <1>10 DEF TypeInv, LaunchInv, WorkerInv, MainInv, Registered, FindLogger, Goto, flags, loggers
<1>11. ASSUME NEW i \in Workers, AddBegin(i) PROVE MainInv'
  BY <1>0, <1>11 DEF TypeInv, LaunchInv, WorkerInv, MainInv, Registered, AddBegin, Goto, flags, loggers
<1>12. ASSUME NEW i \in Workers, AddEnd(i) PROVE MainInv'
  BY <1>0, <1>12 DEF TypeInv, LaunchInv, WorkerInv, MainInv, Registered, AddEnd, Goto, flags, loggers
<1>13. ASSUME NEW i \in Workers, Ready(i) PROVE MainInv'
  BY <1>0, <1>13 DEF TypeInv, LaunchInv, WorkerInv, MainInv, Registered, Ready, Goto, flags, loggers
<1>14. ASSUME NEW i \in Workers, Run(i) PROVE MainInv'
  BY <1>0, <1>14 DEF TypeInv, LaunchInv, WorkerInv, MainInv, Registered, Run, Goto, flags, loggers
<1>15. ASSUME NEW i \in Workers, LeaveLoop(i) PROVE MainInv'
  BY <1>0, <1>15 DEF TypeInv, LaunchInv, WorkerInv, MainInv, Registered, LeaveLoop, Goto, flags, loggers
<1>16. ASSUME NEW i \in Workers, WorkerEnd(i) PROVE MainInv'
  BY <1>0, <1>16 DEF TypeInv, LaunchInv, WorkerInv, MainInv, Registered, WorkerEnd, Goto, flags, loggers
<1>17. ASSUME NEW i \in Workers, WorkerReturn(i) PROVE MainInv'
  BY <1>0, <1>17 DEF TypeInv, LaunchInv, WorkerInv, MainInv, Registered, WorkerReturn, Goto, flags, loggers
<1>18. ASSUME NEW j \in Loggers, EnterLogger(j) PROVE MainInv'
  BY <1>0, <1>18 DEF TypeInv, LaunchInv, WorkerInv, MainInv, Registered, EnterLogger, LGoto, flags, loggers
<1>19. ASSUME NEW j \in Loggers, PublishLogger(j) PROVE MainInv'
  BY <1>0, <1>19 DEF TypeInv, LaunchInv, WorkerInv, MainInv, Registered, PublishLogger, LGoto, flags, loggers
<1>20. ASSUME NEW j \in Loggers, ScanBegin(j) PROVE MainInv'
  BY <1>0, <1>20 DEF TypeInv, LaunchInv, WorkerInv, MainInv, Registered, ScanBegin, LGoto, flags, loggers
<1>21. ASSUME NEW j \in Loggers, ScanEnd(j) PROVE MainInv'
  BY <1>0, <1>21 DEF TypeInv, LaunchInv, WorkerInv, MainInv, Registered, ScanEnd, LGoto, flags, loggers
<1>22. ASSUME NEW j \in Loggers, LeaveWait(j) PROVE MainInv'
  BY <1>0, <1>22 DEF TypeInv, LaunchInv, WorkerInv, MainInv, Registered, LeaveWait, LGoto, flags, loggers
<1>23. ASSUME NEW j \in Loggers, LoggerEnd(j) PROVE MainInv'
  BY <1>0, <1>23 DEF TypeInv, LaunchInv, WorkerInv, MainInv, Registered, LoggerEnd, LGoto, flags, loggers
<1>24. CASE Spin \/ UNCHANGED vars
  BY <1>0, <1>24 DEF TypeInv, LaunchInv, WorkerInv, MainInv, Registered, Spin, vars, flags, loggers
<1> QED
  BY <1>1, <1>2, <1>3, <1>4, <1>5, <1>6, <1>7, <1>8, <1>9, <1>10, <1>11, <1>12, <1>13, <1>14, <1>15, <1>16, <1>17, <1>18, <1>19, <1>20, <1>21, <1>22, <1>23, <1>24 DEF Next, Main, Worker, Logger

\* The queues.
LEMMA QueueStep ==
    ASSUME TypeInv, LaunchInv, WorkerInv, LoggerInv, GroupInv, MainInv, QueueInv, [Next]_vars
    PROVE  QueueInv'
<1>0. /\ config' = config /\ Workers' = Workers /\ Loggers' = Loggers
      /\ (\A i : gid(i)' = gid(i)) /\ EnoughTCS' = EnoughTCS
  BY ConfigStays, GroupsStay
<1>1. CASE InitAffinity
  BY <1>0, <1>1 DEF TypeInv, LaunchInv, WorkerInv, GroupInv, MainInv, QueueInv, Registered, InitAffinity, MainGoto, flags, loggers
<1>2. CASE LaunchLogger
  BY <1>0, <1>2 DEF TypeInv, LaunchInv, WorkerInv, GroupInv, MainInv, QueueInv, Registered, LaunchLogger, MainGoto, LGoto, flags, loggers
<1>3. CASE LaunchWorker
  <2>1. launched.workers \in Workers => wpc[launched.workers] = "none"
    BY DEF TypeInv, LaunchInv
  <2>2. \A k \in Workers : wpc'[k] = IF k = launched.workers THEN "created" ELSE wpc[k]
    BY <1>3 DEF TypeInv, LaunchWorker, Goto
  <2> QED BY <1>0, <1>3, <2>1, <2>2 DEF TypeInv, LaunchInv, WorkerInv, GroupInv, MainInv, QueueInv, Registered, LaunchWorker, flags, loggers
<1>4. CASE BeginWait
  BY <1>0, <1>4 DEF TypeInv, LaunchInv, WorkerInv, GroupInv, MainInv, QueueInv, Registered, BeginWait, MainGoto, flags, loggers
<1>5. CASE EndWait
  BY <1>0, <1>5 DEF TypeInv, LaunchInv, WorkerInv, GroupInv, MainInv, QueueInv, Registered, EndWait, MainGoto, flags, loggers
<1>6. CASE SendStart
  BY <1>0, <1>6 DEF TypeInv, LaunchInv, WorkerInv, GroupInv, MainInv, QueueInv, Registered, SendStart, MainGoto, flags, loggers
<1>7. CASE SendQuit
  BY <1>0, <1>7 DEF TypeInv, LaunchInv, WorkerInv, GroupInv, MainInv, QueueInv, Registered, SendQuit, MainGoto, flags, loggers
<1>8. CASE Join
  BY <1>0, <1>8 DEF TypeInv, LaunchInv, WorkerInv, GroupInv, MainInv, QueueInv, Registered, Join, MainGoto, flags, loggers
<1>9. ASSUME NEW i \in Workers, EnterWorker(i) PROVE QueueInv'
  BY <1>0, <1>9 DEF TypeInv, LaunchInv, WorkerInv, GroupInv, MainInv, QueueInv, Registered, EnterWorker, Goto, flags, loggers
<1>10. ASSUME NEW i \in Workers, FindLogger(i) PROVE QueueInv'
  BY <1>0, <1>10 DEF TypeInv, LaunchInv, WorkerInv, GroupInv, MainInv, QueueInv, Registered, FindLogger, Goto, flags, loggers
<1>11. ASSUME NEW i \in Workers, AddBegin(i) PROVE QueueInv'
  BY <1>0, <1>11 DEF TypeInv, LaunchInv, WorkerInv, GroupInv, MainInv, QueueInv, Registered, AddBegin, Goto, flags, loggers
<1>12. ASSUME NEW i \in Workers, AddEnd(i) PROVE QueueInv'
  BY <1>0, <1>12 DEF TypeInv, LaunchInv, WorkerInv, GroupInv, MainInv, QueueInv, Registered, AddEnd, Goto, flags, loggers
<1>13. ASSUME NEW i \in Workers, Ready(i) PROVE QueueInv'
  BY <1>0, <1>13 DEF TypeInv, LaunchInv, WorkerInv, GroupInv, MainInv, QueueInv, Registered, Ready, Goto, flags, loggers
<1>14. ASSUME NEW i \in Workers, Run(i) PROVE QueueInv'
  BY <1>0, <1>14 DEF TypeInv, LaunchInv, WorkerInv, GroupInv, MainInv, QueueInv, Registered, Run, Goto, flags, loggers
<1>15. ASSUME NEW i \in Workers, LeaveLoop(i) PROVE QueueInv'
  BY <1>0, <1>15 DEF TypeInv, LaunchInv, WorkerInv, GroupInv, MainInv, QueueInv, Registered, LeaveLoop, Goto, flags, loggers
<1>16. ASSUME NEW i \in Workers, WorkerEnd(i) PROVE QueueInv'
  <2>1. SUFFICES ASSUME EnoughTCS, NEW j \in Loggers, queue_quit'[j],
                        NEW k \in Workers, gid(k) = j
                 PROVE  wpc'[k] \in {"joining", "returned"}
    BY <1>0 DEF QueueInv
  <2>2. CASE queue_quit[j]
    BY <1>16, <2>1, <2>2 DEF TypeInv, QueueInv, WorkerEnd, Goto
  <2>3. CASE ~queue_quit[j]
    <3>1. j = gid(i) /\ thid_set[j] \subseteq {i}
      BY <1>16, <2>1, <2>3 DEF TypeInv, WorkerEnd, LastOf
    <3>2. k \in readys
      BY <1>16, <2>1 DEF TypeInv, MainInv, WorkerEnd
    <3>3. k # i => wpc[k] \in {"joining", "returned"}
      BY <2>1, <3>1, <3>2 DEF WorkerInv, GroupInv
    <3> QED BY <1>16, <3>3 DEF TypeInv, WorkerEnd, Goto
  <2> QED BY <2>2, <2>3
<1>17. ASSUME NEW i \in Workers, WorkerReturn(i) PROVE QueueInv'
  BY <1>0, <1>17 DEF TypeInv, LaunchInv, WorkerInv, GroupInv, MainInv, QueueInv, Registered, WorkerReturn, Goto, flags, loggers
<1>18. ASSUME NEW j \in Loggers, EnterLogger(j) PROVE QueueInv'
  BY <1>0, <1>18 DEF TypeInv, LaunchInv, WorkerInv, GroupInv, MainInv, QueueInv, Registered, EnterLogger, LGoto, flags, loggers
<1>19. ASSUME NEW j \in Loggers, PublishLogger(j) PROVE QueueInv'
  BY <1>0, <1>19 DEF TypeInv, LaunchInv, WorkerInv, GroupInv, MainInv, QueueInv, Registered, PublishLogger, LGoto, flags, loggers
<1>20. ASSUME NEW j \in Loggers, ScanBegin(j) PROVE QueueInv'
  BY <1>0, <1>20 DEF TypeInv, LaunchInv, WorkerInv, GroupInv, MainInv, QueueInv, Registered, ScanBegin, LGoto, flags, loggers
<1>21. ASSUME NEW j \in Loggers, ScanEnd(j) PROVE QueueInv'
  BY <1>0, <1>21 DEF TypeInv, LaunchInv, WorkerInv, GroupInv, MainInv, QueueInv, Registered, ScanEnd, LGoto, flags, loggers
<1>22. ASSUME NEW j \in Loggers, LeaveWait(j) PROVE QueueInv'
  BY <1>0, <1>22 DEF TypeInv, LaunchInv, WorkerInv, GroupInv, MainInv, QueueInv, Registered, LeaveWait, LGoto, flags, loggers
<1>23. ASSUME NEW j \in Loggers, LoggerEnd(j) PROVE QueueInv'
  BY <1>0, <1>23 DEF TypeInv, LaunchInv, WorkerInv, GroupInv, MainInv, QueueInv, Registered, LoggerEnd, LGoto, flags, loggers
<1>24. CASE Spin \/ UNCHANGED vars
  BY <1>0, <1>24 DEF TypeInv, LaunchInv, WorkerInv, GroupInv, MainInv, QueueInv, Registered, Spin, vars, flags, loggers
<1> QED
  BY <1>1, <1>2, <1>3, <1>4, <1>5, <1>6, <1>7, <1>8, <1>9, <1>10, <1>11, <1>12, <1>13, <1>14, <1>15, <1>16, <1>17, <1>18, <1>19, <1>20, <1>21, <1>22, <1>23, <1>24 DEF Next, Main, Worker, Logger
-----------------------------------------------------------------------------
LEMMA InvHolds == Spec => []IInv
<1>1. Init => IInv
  <2> SUFFICES ASSUME Init PROVE IInv
    OBVIOUS
  <2> USE DEF Init
  <2>1. TypeInv
    <3>1. launched \in [loggers : Nat, workers : Nat]
      OBVIOUS
    <3>2. thid_vec \in [Loggers -> Seq(Workers)] /\ mutex \in [Loggers -> Workers \cup {-1}]
      OBVIOUS
    <3> QED BY <3>1, <3>2 DEF TypeInv, Mains, WPCs, LPCs
  <2>2. LaunchInv /\ WorkerInv /\ LoggerInv /\ MainInv /\ QueueInv
    BY DEF LaunchInv, WorkerInv, LoggerInv, MainInv, QueueInv, Registered
  <2>3. GroupInv
    BY ThreadsAreNumbers DEF GroupInv, Registered, Range, IsInjective
  <2> QED BY <2>1, <2>2, <2>3 DEF IInv
<1>2. IInv /\ [Next]_vars => IInv'
  BY TypeStep, LaunchStep, WorkerStep, LoggerStep, GroupStep, MainStep, QueueStep DEF IInv
<1> QED BY <1>1, <1>2, PTL DEF Spec

\* No transaction runs before every worker is in its logger's thid_vec_ and
\* thid_set_, whatever the numbers of threads: the handshake of readys[] and
\* start does its work.
THEOREM RegistersFirst == Spec => []RegisteredBeforeRun
<1>1. IInv => RegisteredBeforeRun
  <2> SUFFICES ASSUME IInv, EnoughTCS,
                      NEW r \in Workers, wpc[r] \in {"run", "end", "joining"},
                      NEW j \in Loggers
               PROVE  /\ Range(thid_vec[j]) = {i \in Workers : gid(i) = j}
                      /\ IsInjective(thid_vec[j]) /\ mutex[j] = -1
    BY DEF RegisteredBeforeRun
  <2>1. readys = Workers
    BY DEF IInv, MainInv
  <2>2. Range(thid_vec[j]) \subseteq Workers
    BY DEF IInv, TypeInv, Range
  <2>3. Range(thid_vec[j]) = {i \in Workers : gid(i) = j} /\ IsInjective(thid_vec[j])
    BY <2>1, <2>2 DEF IInv, GroupInv, Registered
  <2>4. mutex[j] = -1
    <3>1. mutex[j] \in Workers \cup {-1}
      BY DEF IInv, TypeInv
    <3>2. mutex[j] \notin Workers
      BY <2>1 DEF IInv, GroupInv, WorkerInv
    <3> QED BY <3>1, <3>2
  <2> QED BY <2>3, <2>4
<1> QED BY <1>1, InvHolds, PTL

\* No worker registers with, or publishes to, a logger whose queue has been
\* terminated: the last worker that worker_end counts is the last there is.
THEOREM QueueStaysOpen == Spec => []QueueOpen
<1>1. IInv => QueueOpen
  <2> SUFFICES ASSUME IInv, EnoughTCS, NEW i \in Workers,
                      wpc[i] \in {"add", "adding", "ready", "waitStart", "run", "end"}
               PROVE  lpc[gid(i)] \in {"wait", "scan"} /\ ~queue_quit[gid(i)]
    BY DEF QueueOpen
  <2>1. gid(i) \in logs /\ gid(i) \in Loggers
    BY DEF IInv, TypeInv, WorkerInv, Registered
  <2>2. ~queue_quit[gid(i)]
    BY <2>1 DEF IInv, QueueInv
  <2> QED BY <2>1, <2>2 DEF IInv, LoggerInv
<1> QED BY <1>1, InvHolds, PTL
=============================================================================
