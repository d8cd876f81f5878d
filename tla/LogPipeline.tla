---------------------------- MODULE LogPipeline ----------------------------
(***************************************************************************)
(* The write-ahead log of enclaveSilo: every worker's LogBufferPool        *)
(* (silo_log_buffer.cpp), every logger's LogQueue (silo_log_queue.cpp) and *)
(* thread (silo_logger.cpp), the durable epoch (silo_notifier.cpp), and    *)
(* the shutdown that joins workers and loggers (Enclave.cpp).              *)
(*                                                                         *)
(* A transaction is its write set's size and its epoch, which is its       *)
(* worker's ThLocalEpoch (SiloCCProofs, CommitsInEpoch).  Words are        *)
(* reduced to their epochs.  One action is one access to what another      *)
(* thread sees; the two spinlock sections of a pool and the mutex sections *)
(* of a queue are one step each.  LogQueue's data_added_ decides nothing:  *)
(* wait_deq tests quit_ and the queue before it.                           *)
(***************************************************************************)
EXTENDS Naturals, FiniteSets, SequencesExt

CONSTANTS
    WORKER_NUM,   \* worker 0 is the epoch leader
    LOGGER_NUM,
    LoggerOf,     \* the gid of each worker (LoggerAffinity)
    BUFFER_NUM,   \* buffers of a pool
    MAX_BUFFERED_LOG_ENTRIES,
    Sizes,        \* write set sizes
    MaxTx,        \* bound: transactions that write, per worker
    MaxEpoch,     \* bound: GlobalEpoch
    NULL

Workers == 0 .. WORKER_NUM - 1
Loggers == 0 .. LOGGER_NUM - 1
Buffers == Workers \X (1 .. BUFFER_NUM)

ASSUME LogPipelineAssumption ==
    /\ WORKER_NUM \in Nat \ {0} /\ LOGGER_NUM \in Nat \ {0}
    /\ LoggerOf \in [Workers -> Loggers]
    /\ BUFFER_NUM \in Nat \ {0}
    /\ MAX_BUFFERED_LOG_ENTRIES \in Nat
    /\ Sizes \subseteq Nat
    /\ MaxTx \in Nat /\ MaxEpoch \in Nat \ {0}
    /\ NULL \notin Buffers

VARIABLES
    GlobalEpoch, ThLocalEpoch, CTIDW, quit,
    pc,              \* where each worker is
    size,            \* size of the write set it commits
    current_buffer, pool,
    buf,             \* what each LogBuffer holds
    txs,             \* history: the transactions that wrote, in commit order
    queue, queue_quit,
    lpc,             \* where each logger is
    batch,           \* log_buffer_vec of logging()
    min_epoch,       \* result of find_min_epoch
    min_dl, old_d,   \* what check_durable has loaded
    logfile,
    ThLocalDurableEpoch, DurableEpoch,
    pepoch,          \* values appended to pepoch.seal
    thid_set, joined,
    skipped          \* history: a worker that has not committed was skipped

work  == <<pc, size, current_buffer, txs>>
glob  == <<GlobalEpoch, ThLocalEpoch, CTIDW>>
dur   == <<ThLocalDurableEpoch, DurableEpoch, pepoch>>
local == <<batch, min_epoch, min_dl, old_d, skipped>>
fin   == <<thid_set, joined>>
vars  == <<glob, quit, work, pool, buf, queue, queue_quit, lpc, local, logfile, dur, fin>>

\* ~(uint64_t)0.
Unset == MaxEpoch + 1

Entry == [worker : Workers, tx : Nat, elem : Nat, epoch : Nat]

EmptyBuffer == [log_set |-> <<>>, nids |-> FALSE, min |-> Unset, max |-> 0]

\* The log records of the n-th transaction of w.
Entries(w, n, e, k) == [i \in 1 .. k |-> [worker |-> w, tx |-> n, elem |-> i, epoch |-> e]]

Goto(w, l) == pc' = [pc EXCEPT ![w] = l]
LGoto(l, at) == lpc' = [lpc EXCEPT ![l] = at]

Init ==
    /\ GlobalEpoch = 1
    /\ ThLocalEpoch = [w \in Workers |-> 0]
    /\ CTIDW = [w \in Workers |-> 0]
    /\ quit = FALSE
    /\ pc = [w \in Workers |-> "retry"]
    /\ size = [w \in Workers |-> 0]
    /\ current_buffer = [w \in Workers |-> <<w, 1>>]
    /\ pool = [w \in Workers |-> [i \in 1 .. BUFFER_NUM - 1 |-> <<w, i + 1>>]]
    /\ buf = [b \in Buffers |-> EmptyBuffer]
    /\ txs = [w \in Workers |-> <<>>]
    /\ queue = [l \in Loggers |-> <<>>]
    /\ queue_quit = [l \in Loggers |-> FALSE]
    /\ lpc = [l \in Loggers |-> "wait"]
    /\ batch = [l \in Loggers |-> <<>>]
    /\ min_epoch = [l \in Loggers |-> 0]
    /\ min_dl = [l \in Loggers |-> 0]
    /\ old_d = [l \in Loggers |-> 0]
    /\ logfile = [l \in Loggers |-> <<>>]
    /\ ThLocalDurableEpoch = [l \in Loggers |-> 0]
    /\ DurableEpoch = 0
    /\ pepoch = <<>>
    /\ thid_set = [l \in Loggers |-> {w \in Workers : LoggerOf[w] = l}]
    /\ joined = [l \in Loggers |-> FALSE]
    /\ skipped = FALSE
-----------------------------------------------------------------------------
(* Epochs.  Tick is the environment: the leader's siloLeaderWork between    *)
(* two of its transactions, as SiloCC has it.  EpochWork is how the code    *)
(* reaches it: only while the pool is not ready.                            *)

chkEpochLoaded == \A i \in Workers \ {0} : ThLocalEpoch[i] = GlobalEpoch

Tick ==
    /\ pc[0] = "retry"
    /\ chkEpochLoaded
    /\ GlobalEpoch < MaxEpoch
    /\ GlobalEpoch' = GlobalEpoch + 1
    /\ UNCHANGED <<ThLocalEpoch, CTIDW, quit, work, pool, buf, queue, queue_quit,
                   lpc, local, logfile, dur, fin>>

EpochWork(w) ==
    /\ pc[w] = "retry"
    /\ current_buffer[w] = NULL /\ pool[w] = <<>>
    /\ GlobalEpoch' = IF w = 0 /\ chkEpochLoaded /\ GlobalEpoch < MaxEpoch
                      THEN GlobalEpoch + 1 ELSE GlobalEpoch
    /\ ThLocalEpoch' = [ThLocalEpoch EXCEPT ![w] = GlobalEpoch']
    /\ CTIDW' = [CTIDW EXCEPT ![w] = GlobalEpoch']
    /\ UNCHANGED <<quit, work, pool, buf, queue, queue_quit, lpc, local, logfile, dur, fin>>

SendQuit ==
    /\ ~quit
    /\ quit' = TRUE
    /\ UNCHANGED <<glob, work, pool, buf, queue, queue_quit, lpc, local, logfile, dur, fin>>
-----------------------------------------------------------------------------
(* A worker: wal() of a transaction that has passed validation, then        *)
(* LogBufferPool::push.                                                     *)

\* validationPhase stored GlobalEpoch in ThLocalEpoch; the leader has not
\* moved on in between, because it waits for this store.
Validate(w) ==
    /\ pc[w] = "retry"
    /\ ~quit
    /\ current_buffer[w] # NULL
    /\ \E n \in Sizes :
         /\ n > 0 => Len(txs[w]) < MaxTx
         /\ size' = [size EXCEPT ![w] = n]
    /\ ThLocalEpoch' = [ThLocalEpoch EXCEPT ![w] = GlobalEpoch]
    /\ Goto(w, "wal")
    /\ UNCHANGED <<GlobalEpoch, CTIDW, quit, current_buffer, txs, pool, buf, queue,
                   queue_quit, lpc, local, logfile, dur, fin>>

\* Mutant: the queue is a stack.
enq_Front(q, b) == <<b>> \o q

\* LogQueue::enq: buffers are kept by epoch, in order of arrival within one.
enq(q, b) ==
    LET before == {i \in DOMAIN q : buf[q[i]].min <= buf[b].min}
    IN  InsertAt(q, Cardinality(before) + 1, b)

\* publish(): an empty buffer stays the current one.
publish(w) ==
    IF buf[current_buffer[w]].nids
    THEN /\ queue' = [queue EXCEPT ![LoggerOf[w]] = enq(@, current_buffer[w])]
         /\ current_buffer' = [current_buffer EXCEPT ![w] = NULL]
    ELSE UNCHANGED <<queue, current_buffer>>

\* Mutant: the epoch is not looked at.
new_epoch_begins_Never(w) == FALSE

new_epoch_begins(w) == CTIDW[w] # ThLocalEpoch[w]

\* Mutant: the size is not looked at.
Publish_EpochOnly(w) ==
    /\ pc[w] = "wal"
    /\ IF new_epoch_begins(w) THEN publish(w) ELSE UNCHANGED <<queue, current_buffer>>
    /\ Goto(w, "push")
    /\ UNCHANGED <<glob, quit, size, txs, pool, buf, queue_quit, lpc, local, logfile, dur, fin>>

Publish(w) ==
    /\ pc[w] = "wal"
    /\ IF \/ Len(buf[current_buffer[w]].log_set) > MAX_BUFFERED_LOG_ENTRIES
          \/ new_epoch_begins(w)
       THEN publish(w)
       ELSE UNCHANGED <<queue, current_buffer>>
    /\ Goto(w, "push")
    /\ UNCHANGED <<glob, quit, size, txs, pool, buf, queue_quit, lpc, local, logfile, dur, fin>>

\* Mutant: push asks once, and drops the records when there is no buffer.
TakeBuffer_Once(w) ==
    /\ pc[w] = "push"
    /\ current_buffer[w] = NULL
    /\ IF pool[w] = <<>>
       THEN Goto(w, "retry") /\ UNCHANGED <<current_buffer, pool>>
       ELSE /\ current_buffer' = [current_buffer EXCEPT ![w] = Last(pool[w])]
            /\ pool' = [pool EXCEPT ![w] = Front(@)]
            /\ UNCHANGED pc
    /\ UNCHANGED <<glob, quit, size, txs, buf, queue, queue_quit, lpc, local, logfile, dur, fin>>

\* is_ready() takes a buffer of the pool; it is polled until it finds one.
TakeBuffer(w) ==
    /\ pc[w] \in {"retry", "push"}
    /\ current_buffer[w] = NULL
    /\ pool[w] # <<>>
    /\ current_buffer' = [current_buffer EXCEPT ![w] = Last(pool[w])]
    /\ pool' = [pool EXCEPT ![w] = Front(@)]
    /\ UNCHANGED <<glob, quit, pc, size, txs, buf, queue, queue_quit, lpc, local, logfile, dur, fin>>

\* LogBuffer::push, then CTIDW.
Push(w) ==
    /\ pc[w] = "push"
    /\ current_buffer[w] # NULL
    /\ LET e == ThLocalEpoch[w] IN
         /\ buf' = [buf EXCEPT ![current_buffer[w]] =
               [log_set |-> @.log_set \o Entries(w, Len(txs[w]) + 1, e, size[w]),
                nids    |-> TRUE,
                min     |-> Min({@.min, e}),
                max     |-> Max({@.max, e})]]
         /\ CTIDW' = [CTIDW EXCEPT ![w] = e]
         /\ txs' = IF size[w] = 0 THEN txs
                   ELSE [txs EXCEPT ![w] = Append(@, [epoch |-> e, size |-> size[w]])]
    /\ Goto(w, "retry")
    /\ UNCHANGED <<GlobalEpoch, ThLocalEpoch, quit, size, current_buffer, pool, queue,
                   queue_quit, lpc, local, logfile, dur, fin>>

\* The worker leaves its loop: LogBufferPool::terminate.
Terminate(w) ==
    /\ pc[w] = "retry"
    /\ quit
    /\ IF current_buffer[w] # NULL THEN publish(w) ELSE UNCHANGED <<queue, current_buffer>>
    /\ Goto(w, "ending")
    /\ UNCHANGED <<glob, quit, size, txs, pool, buf, queue_quit, lpc, local, logfile, dur, fin>>

\* Mutant: the first worker to end stops the logger.
WorkerEnd_First(w) ==
    /\ pc[w] = "ending"
    /\ LET l == LoggerOf[w] IN
         /\ thid_set' = [thid_set EXCEPT ![l] = @ \ {w}]
         /\ queue_quit' = [queue_quit EXCEPT ![l] = TRUE]
    /\ Goto(w, "joining")
    /\ UNCHANGED <<glob, quit, size, current_buffer, txs, pool, buf, queue, lpc, local,
                   logfile, dur, joined>>

\* Logger::worker_end, up to cv_finish_.wait: the last worker ends the queue.
WorkerEnd(w) ==
    /\ pc[w] = "ending"
    /\ LET l == LoggerOf[w] IN
         /\ thid_set' = [thid_set EXCEPT ![l] = @ \ {w}]
         /\ queue_quit' = [queue_quit EXCEPT ![l] = @ \/ thid_set'[l] = {}]
    /\ Goto(w, "joining")
    /\ UNCHANGED <<glob, quit, size, current_buffer, txs, pool, buf, queue, lpc, local,
                   logfile, dur, joined>>

\* It wakes up, locks the logger's mutex again and finds joined_ set.
WorkerJoined(w) ==
    /\ pc[w] = "joining"
    /\ joined[LoggerOf[w]]
    /\ Goto(w, "done")
    /\ UNCHANGED <<glob, quit, size, current_buffer, txs, pool, buf, queue, queue_quit, lpc,
                   local, logfile, dur, fin>>
-----------------------------------------------------------------------------
(* A logger: Logger::worker.                                                *)

\* wait_deq returned true, and queue_.quit() tells what for.
WaitDeq(l) ==
    /\ lpc[l] = "wait"
    /\ queue[l] # <<>> \/ queue_quit[l]
    /\ LGoto(l, IF queue[l] = <<>> THEN "final" ELSE "ctidDeq")
    /\ UNCHANGED <<glob, quit, work, pool, buf, queue, queue_quit, local, logfile, dur, fin>>

Timeout(l) ==
    /\ lpc[l] = "wait"
    /\ queue[l] = <<>> /\ ~queue_quit[l]
    /\ LGoto(l, "ctidWait")
    /\ UNCHANGED <<glob, quit, work, pool, buf, queue, queue_quit, local, logfile, dur, fin>>

MyWorkers(l) == {w \in Workers : LoggerOf[w] = l}

QueueEpoch(l) == IF queue[l] = <<>> THEN Unset ELSE buf[Head(queue[l])].min

\* Mutant: the workers are not looked at.
FindMinCtid_QueueOnly(l, at, to) ==
    /\ lpc[l] = at
    /\ min_epoch' = [min_epoch EXCEPT ![l] = QueueEpoch(l)]
    /\ LGoto(l, to)
    /\ UNCHANGED <<glob, quit, work, pool, buf, queue, queue_quit, batch, min_dl, old_d,
                   skipped, logfile, dur, fin>>

\* find_min_epoch: first the workers' CTIDW, without those that have none.
\* CTIDW only grows, so the loads take effect together at the last one.
FindMinCtid(l, at, to) ==
    /\ lpc[l] = at
    /\ LET known == {w \in MyWorkers(l) : CTIDW[w] > 0}
           m     == IF known = {} THEN 0 ELSE Min({CTIDW[w] : w \in known})
       IN  /\ min_epoch' = [min_epoch EXCEPT ![l] = m]
           /\ skipped' = (skipped \/ (m > 1 /\ known # MyWorkers(l)))
           /\ LGoto(l, IF m = 0 THEN "wait" ELSE to)
    /\ UNCHANGED <<glob, quit, work, pool, buf, queue, queue_quit, batch, min_dl, old_d,
                   logfile, dur, fin>>

\* Then the queue.
FindMinQueue(l, at, to) ==
    /\ lpc[l] = at
    /\ min_epoch' = [min_epoch EXCEPT ![l] = Min({@, QueueEpoch(l)})]
    /\ LGoto(l, to)
    /\ UNCHANGED <<glob, quit, work, pool, buf, queue, queue_quit, batch, min_dl, old_d,
                   skipped, logfile, dur, fin>>

\* Mutant: the queue is not cleared.
Deq_Keep(l) ==
    /\ lpc[l] = "deq"
    /\ batch' = [batch EXCEPT ![l] = queue[l]]
    /\ LGoto(l, "write")
    /\ UNCHANGED <<glob, quit, work, pool, buf, queue, queue_quit, min_epoch, min_dl, old_d,
                   skipped, logfile, dur, fin>>

Deq(l) ==
    /\ lpc[l] = "deq"
    /\ batch' = [batch EXCEPT ![l] = queue[l]]
    /\ queue' = [queue EXCEPT ![l] = <<>>]
    /\ LGoto(l, "write")
    /\ UNCHANGED <<glob, quit, work, pool, buf, queue_quit, min_epoch, min_dl, old_d,
                   skipped, logfile, dur, fin>>

\* LogBuffer::write: a buffer without log records keeps its nid_set_.
Written(b) == IF buf[b].log_set = <<>> THEN [EmptyBuffer EXCEPT !.nids = buf[b].nids]
              ELSE EmptyBuffer

\* Mutant: the buffer is not given back.
WriteBuffer_Keep(l) ==
    /\ lpc[l] = "write"
    /\ batch[l] # <<>>
    /\ LET b == Head(batch[l]) IN
         /\ logfile' = [logfile EXCEPT ![l] = @ \o buf[b].log_set]
         /\ buf' = [buf EXCEPT ![b] = Written(b)]
    /\ batch' = [batch EXCEPT ![l] = Tail(@)]
    /\ UNCHANGED <<glob, quit, work, pool, queue, queue_quit, lpc, min_epoch, min_dl, old_d,
                   skipped, dur, fin>>

\* One buffer of the batch: written, reset, and back to its pool.
WriteBuffer(l) ==
    /\ lpc[l] = "write"
    /\ batch[l] # <<>>
    /\ LET b == Head(batch[l]) IN
         /\ logfile' = [logfile EXCEPT ![l] = @ \o buf[b].log_set]
         /\ buf' = [buf EXCEPT ![b] = Written(b)]
         /\ pool' = [pool EXCEPT ![b[1]] = Append(@, b)]
    /\ batch' = [batch EXCEPT ![l] = Tail(@)]
    /\ UNCHANGED <<glob, quit, work, queue, queue_quit, lpc, min_epoch, min_dl, old_d,
                   skipped, dur, fin>>

LoggingDone(l) ==
    /\ lpc[l] = "write"
    /\ batch[l] = <<>>
    /\ LGoto(l, "send")
    /\ UNCHANGED <<glob, quit, work, pool, buf, queue, queue_quit, local, logfile, dur, fin>>
-----------------------------------------------------------------------------
(* send_nid_to_notifier and check_durable.  The logger publishes its own    *)
(* epoch after check_durable.                                               *)

LoadDurable(l, to) ==
    /\ min_dl' = [min_dl EXCEPT ![l] = Min({ThLocalDurableEpoch[i] : i \in Loggers})]
    /\ old_d' = [old_d EXCEPT ![l] = DurableEpoch]
    /\ LGoto(l, to)

Send(l) ==
    /\ lpc[l] = "send"
    /\ IF ThLocalDurableEpoch[l] < min_epoch[l] - 1
       THEN LoadDurable(l, "cas")
       ELSE LGoto(l, "wait") /\ UNCHANGED <<min_dl, old_d>>
    /\ UNCHANGED <<glob, quit, work, pool, buf, queue, queue_quit, batch, min_epoch,
                   skipped, logfile, dur, fin>>

\* logging(true): the queue is empty, only make_durable is left to do.
Final(l) ==
    /\ lpc[l] = "final"
    /\ LoadDurable(l, "casFinal")
    /\ UNCHANGED <<glob, quit, work, pool, buf, queue, queue_quit, batch, min_epoch,
                   skipped, logfile, dur, fin>>

\* Mutant: a plain store instead of the compare-and-swap.
SwapDurable_Store(l, at, won, next) ==
    /\ lpc[l] = at
    /\ IF old_d[l] < min_dl[l]
       THEN DurableEpoch' = min_dl[l] /\ LGoto(l, won)
       ELSE UNCHANGED DurableEpoch /\ LGoto(l, next)
    /\ UNCHANGED <<glob, quit, work, pool, buf, queue, queue_quit, local, logfile,
                   ThLocalDurableEpoch, pepoch, fin>>

\* A compare-and-swap that fails is not tried again.
SwapDurable(l, at, won, next) ==
    /\ lpc[l] = at
    /\ IF old_d[l] < min_dl[l] /\ DurableEpoch = old_d[l]
       THEN DurableEpoch' = min_dl[l] /\ LGoto(l, won)
       ELSE UNCHANGED DurableEpoch /\ LGoto(l, next)
    /\ UNCHANGED <<glob, quit, work, pool, buf, queue, queue_quit, local, logfile,
                   ThLocalDurableEpoch, pepoch, fin>>

WritePepoch(l, at, next) ==
    /\ lpc[l] = at
    /\ pepoch' = Append(pepoch, min_dl[l])
    /\ LGoto(l, next)
    /\ UNCHANGED <<glob, quit, work, pool, buf, queue, queue_quit, local, logfile,
                   ThLocalDurableEpoch, DurableEpoch, fin>>

StoreThLocalDurable(l) ==
    /\ lpc[l] = "store"
    /\ ThLocalDurableEpoch' = [ThLocalDurableEpoch EXCEPT ![l] = min_epoch[l] - 1]
    /\ LGoto(l, "wait")
    /\ UNCHANGED <<glob, quit, work, pool, buf, queue, queue_quit, local, logfile,
                   DurableEpoch, pepoch, fin>>

logger_end(l) ==
    /\ lpc[l] = "end"
    /\ joined' = [joined EXCEPT ![l] = TRUE]
    /\ LGoto(l, "ended")
    /\ UNCHANGED <<glob, quit, work, pool, buf, queue, queue_quit, local, logfile, dur,
                   thid_set>>

\* ecall_logger_th returns; the Logger was a local variable of it.
LoggerReturn(l) ==
    /\ lpc[l] = "ended"
    /\ LGoto(l, "gone")
    /\ UNCHANGED <<glob, quit, work, pool, buf, queue, queue_quit, local, logfile, dur, fin>>
-----------------------------------------------------------------------------
Worker(w) == \/ Validate(w) \/ Publish(w) \/ TakeBuffer(w) \/ Push(w)
             \/ Terminate(w) \/ WorkerEnd(w) \/ WorkerJoined(w)

Logger(l) ==
    \/ WaitDeq(l) \/ Timeout(l)
    \/ FindMinCtid(l, "ctidDeq", "queueDeq") \/ FindMinQueue(l, "queueDeq", "deq")
    \/ FindMinCtid(l, "ctidWait", "queueWait") \/ FindMinQueue(l, "queueWait", "send")
    \/ Deq(l) \/ WriteBuffer(l) \/ LoggingDone(l)
    \/ Send(l) \/ StoreThLocalDurable(l) \/ Final(l)
    \/ SwapDurable(l, "cas", "pepoch", "store") \/ WritePepoch(l, "pepoch", "store")
    \/ SwapDurable(l, "casFinal", "pepochFinal", "end") \/ WritePepoch(l, "pepochFinal", "end")
    \/ logger_end(l) \/ LoggerReturn(l)

Threads == (\E w \in Workers : Worker(w)) \/ (\E l \in Loggers : Logger(l))

Finished ==
    /\ \A w \in Workers : pc[w] = "done"
    /\ \A l \in Loggers : lpc[l] = "gone"
    /\ UNCHANGED vars

\* The pipeline under every movement of GlobalEpoch that SiloCC allows.
Next == SendQuit \/ Tick \/ Threads \/ Finished

Spec == Init /\ [][Next]_vars

\* The operating system runs every thread again and again.
Fairness == /\ \A w \in Workers : WF_vars(Worker(w))
            /\ \A l \in Loggers : WF_vars(Logger(l))

FairSpec == Spec /\ Fairness

\* The program as it is: GlobalEpoch moves in EpochWork only.
ProgramNext == SendQuit \/ Threads \/ (\E w \in Workers : EpochWork(w)) \/ Finished

ProgramSpec ==
    /\ Init /\ [][ProgramNext]_vars
    /\ \A w \in Workers : WF_vars(Worker(w) \/ EpochWork(w))
    /\ \A l \in Loggers : WF_vars(Logger(l))
-----------------------------------------------------------------------------
(* Properties.                                                              *)

WPC == {"retry", "wal", "push", "ending", "joining", "done"}

LPC == {"wait", "ctidDeq", "queueDeq", "deq", "write", "ctidWait", "queueWait", "send",
        "cas", "pepoch", "store", "final", "casFinal", "pepochFinal", "end", "ended", "gone"}

\* Type invariant.
TypeOK ==
    /\ GlobalEpoch \in 1 .. MaxEpoch /\ quit \in BOOLEAN /\ skipped \in BOOLEAN
    /\ ThLocalEpoch \in [Workers -> 0 .. MaxEpoch]
    /\ CTIDW \in [Workers -> 0 .. MaxEpoch]
    /\ pc \in [Workers -> WPC] /\ size \in [Workers -> Sizes \cup {0}]
    /\ current_buffer \in [Workers -> Buffers \cup {NULL}]
    /\ pool \in [Workers -> Seq(Buffers)]
    /\ buf \in [Buffers -> [log_set : Seq(Entry), nids : BOOLEAN, min : 1 .. Unset, max : 0 .. MaxEpoch]]
    /\ txs \in [Workers -> Seq([epoch : 1 .. MaxEpoch, size : Sizes])]
    /\ queue \in [Loggers -> Seq(Buffers)] /\ batch \in [Loggers -> Seq(Buffers)]
    /\ queue_quit \in [Loggers -> BOOLEAN] /\ joined \in [Loggers -> BOOLEAN]
    /\ lpc \in [Loggers -> LPC]
    /\ min_epoch \in [Loggers -> 0 .. MaxEpoch]
    /\ min_dl \in [Loggers -> 0 .. MaxEpoch] /\ old_d \in [Loggers -> 0 .. MaxEpoch]
    /\ logfile \in [Loggers -> Seq(Entry)]
    /\ ThLocalDurableEpoch \in [Loggers -> 0 .. MaxEpoch]
    /\ DurableEpoch \in 0 .. MaxEpoch /\ pepoch \in Seq(1 .. MaxEpoch)
    /\ thid_set \in [Loggers -> SUBSET Workers]

\* A buffer is in one place: current, pooled, queued, or being written.  Two
\* threads never share one.
BufferInOnePlace ==
    \A b \in Buffers :
      LET w == b[1]
          l == LoggerOf[w]
          Times(s) == Cardinality({i \in DOMAIN s : s[i] = b})
      IN  (IF current_buffer[w] = b THEN 1 ELSE 0)
            + Times(pool[w]) + Times(queue[l]) + Times(batch[l]) = 1

\* LogBuffer::push asserts it: a buffer holds the records of one epoch, the
\* one it is queued under.
OneEpochPerBuffer ==
    \A b \in Buffers : \A i \in DOMAIN buf[b].log_set :
        /\ buf[b].min = buf[b].max
        /\ buf[b].log_set[i].epoch = buf[b].min

LogSets(q) == FlattenSeq([i \in DOMAIN q |-> buf[q[i]].log_set])

Of(w, s) == FlattenSeq([i \in DOMAIN s |-> IF s[i].worker = w THEN <<s[i]>> ELSE <<>>])

\* The records w has committed, in order.
Committed(w) ==
    FlattenSeq([n \in DOMAIN txs[w] |-> Entries(w, n, txs[w][n].epoch, txs[w][n].size)])

\* Nothing is lost, duplicated or reordered between wal() and the file: what
\* w has committed is what its logger has written, is writing and has queued,
\* and w's current buffer, in that order.
LogInOrder ==
    \A w \in Workers :
      LET l == LoggerOf[w] IN
      Of(w, logfile[l] \o LogSets(batch[l]) \o LogSets(queue[l]))
        \o (IF current_buffer[w] = NULL THEN <<>> ELSE buf[current_buffer[w]].log_set)
        = Committed(w)

\* The variables of RedoLog.
committed == [w \in Workers |-> Committed(w)]
file      == [w \in Workers |-> Of(w, logfile[LoggerOf[w]])]
closed    == [w \in Workers |-> joined[LoggerOf[w]]]

Redo == INSTANCE RedoLog WITH committed <- committed, file <- file, closed <- closed

\* Whenever the program stops, the files hold a prefix of every worker's
\* commits, and all of them once its logger has told it to end: the buffers
\* that terminate() publishes are written before the logger sets joined_.
ImplementsRedoLog == Redo!Spec

\* A buffer outgrows MAX_BUFFERED_LOG_ENTRIES by at most one write set.
BufferBounded ==
    \A b \in Buffers : \E n \in Sizes \cup {0} :
        Len(buf[b].log_set) <= MAX_BUFFERED_LOG_ENTRIES + n

\* durableEpochWork finds the pool ready each time: push never ends without a
\* current buffer.  So nothing ever enters epochWork.
PoolReady == \A w \in Workers : pc[w] = "retry" => current_buffer[w] # NULL

\* A transaction of an epoch up to DurableEpoch is on disk, and none is still
\* to come, unless a worker without CTIDW has been skipped.
DurableIsPersisted ==
    ~skipped =>
      /\ \A b \in Buffers : \A i \in DOMAIN buf[b].log_set :
           buf[b].log_set[i].epoch > DurableEpoch
      /\ \A w \in Workers : pc[w] \in {"wal", "push"} => ThLocalEpoch[w] > DurableEpoch

\* The file never runs ahead of DurableEpoch, which no logger is behind of.
PepochBehind ==
    /\ \A i \in DOMAIN pepoch : pepoch[i] <= DurableEpoch
    /\ \A l \in Loggers : DurableEpoch <= ThLocalDurableEpoch[l]

\* Loggers race for DurableEpoch, and it never goes back.
DurableGrows == [][DurableEpoch' >= DurableEpoch]_DurableEpoch

\* A worker that waits for a buffer gets one: its logger gives them back.
PushReturns == \A w \in Workers : pc[w] = "push" ~> pc[w] # "push"

\* After quit, every worker and every logger thread returns.
ShutdownTerminates ==
    quit ~> (\A w \in Workers : pc[w] = "done") /\ (\A l \in Loggers : lpc[l] = "gone")
-----------------------------------------------------------------------------
(* What comments of the code say and the code does not do.                  *)

\* consts.h:28: an epoch lasts EPOCH_TIME milliseconds, so it ends.
EpochEnds == <>(quit \/ GlobalEpoch > 1)

\* Enclave.cpp:76: logs[] gives every thread safe access to its Logger: a
\* worker inside worker_end still has one.
LoggerOutlivesWorkers ==
    \A w \in Workers : pc[w] = "joining" => lpc[LoggerOf[w]] # "gone"
=============================================================================
