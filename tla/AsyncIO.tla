------------------------------- MODULE AsyncIO -------------------------------
(***************************************************************************)
(* engine/world, AsyncIOSystem: one calling thread that submits, cancels   *)
(* and, once a frame, dispatches callbacks; IO and decompression workers   *)
(* that share one queue mutex and one condition variable.                  *)
(*                                                                         *)
(* A step is one critical section, or one access outside of any.  A        *)
(* request is its number, which Submit draws and nothing draws again.  A   *)
(* call that is refused (not initialized, a limit reached) changes nothing *)
(* and is no step.                                                         *)
(***************************************************************************)
EXTENDS Naturals, FiniteSets, Sequences, SequencesExt

CONSTANTS
  IOWorker, DecompressionWorker,  \* the threads there can be
  Pools,          \* the sets of threads an Initialize may start
  Submittable,    \* the <<kind, priority>> of requests; priority 0 goes first
  MaxPending,     \* config_.maxPendingRequests
  MaxReads,       \* config_.maxConcurrentReads
  MaxRequests,    \* bound: the requests submitted
  MaxStarts       \* bound: the calls of Initialize

Worker == IOWorker \cup DecompressionWorker

Kind == {"read", "write", "decompress"}

ASSUME AsyncIOAssumption ==
  /\ IOWorker \cap DecompressionWorker = {}
  /\ Pools \subseteq SUBSET Worker
  /\ Submittable \subseteq Kind \X Nat
  /\ MaxPending \in Nat /\ MaxReads \in Nat
  /\ MaxRequests \in Nat /\ MaxStarts \in Nat

VARIABLES
  initialized,   \* initialized_
  shuttingDown,  \* shuttingDown_
  queue,         \* ioQueue_ and decompressionQueue_
  completion,    \* completionQueue_
  active,        \* the keys of activeRequests_
  outstanding,   \* by kind: outstandingReads_, ...Writes_, ...Decompressions_
  pool,          \* ioThreads_ and decompressionThreads_
  worker,        \* by worker: pc and the request it works on
  main,          \* pc of the calling thread and the argument of its call
  batch,         \* ProcessCompletions: the local completions
  serving,       \* the request whose callback runs, 0 if none
  request,       \* history: the requests submitted; Len is nextRequestId_ - 1
  called,        \* history, by request: how often its callback was called
  cancelled,     \* history: the requests cancelled before a callback
  starts         \* history: the calls of Initialize

shared == <<queue, completion, active, outstanding>>
history == <<request, called, cancelled, starts>>
vars == <<initialized, shuttingDown, shared, pool, worker, main, batch, serving, history>>

Line == {"io", "decompress"}

Id == 1 .. Len(request)

LineOf(kind) == IF kind = "decompress" THEN "decompress" ELSE "io"

LineOfWorker(w) == IF w \in IOWorker THEN "io" ELSE "decompress"

WorkersOf(line) == {w \in pool : LineOfWorker(w) = line}

Off == [pc |-> "off", id |-> 0]

Looping == [pc |-> "loop", id |-> 0]

At(w, pc) == worker[w].pc = pc

Init ==
  /\ initialized = FALSE /\ shuttingDown = FALSE
  /\ queue = [l \in Line |-> << >>]
  /\ completion = << >> /\ active = {}
  /\ outstanding = [k \in Kind |-> 0]
  /\ pool = {} /\ worker = [w \in Worker |-> Off]
  /\ main = [pc |-> "idle", id |-> 0]
  /\ batch = << >> /\ serving = 0
  /\ request = << >>
  /\ called = [r \in 1 .. MaxRequests |-> 0]
  /\ cancelled = {}
  /\ starts = 0

(* Inside a callback the thread may submit and cancel, but not update.     *)
Ready == main.pc = "idle" \/ main.pc = "callback"

Return == main' = [pc |-> IF serving = 0 THEN "idle" ELSE "callback", id |-> 0]

(* queueMutex_ is held across steps only by a thread about to block.       *)
QueueMutexFree == \A w \in Worker : ~At(w, "blocking")

-----------------------------------------------------------------------------
(* Submitting.                                                             *)
OutstandingRequestCount ==
  outstanding["read"] + outstanding["write"] + outstanding["decompress"]

(* In front of the first request that is less urgent.                      *)
EnqueueByPriority(q, requests, id) ==
  LET at == SelectInSeq(q, LAMBDA r : requests[id].priority < requests[r].priority)
  IN  IF at = 0 THEN Append(q, id) ELSE InsertAt(q, at, id)

SubmitRequest(kind, priority) ==
  /\ initialized /\ Ready /\ QueueMutexFree
  /\ Len(request) < MaxRequests
  /\ OutstandingRequestCount < MaxPending
  /\ kind = "read" => outstanding["read"] < MaxReads
  /\ LET id == Len(request) + 1 IN
       /\ request' = Append(request, [kind |-> kind, priority |-> priority])
       /\ active' = active \cup {id}
       /\ outstanding' = [outstanding EXCEPT ![kind] = @ + 1]
       /\ queue' = [queue EXCEPT ![LineOf(kind)] = EnqueueByPriority(@, request', id)]
  /\ main' = [pc |-> "notify", id |-> 0]
  /\ UNCHANGED <<initialized, shuttingDown, completion, pool, worker, batch, serving,
                 called, cancelled, starts>>

Awake(w) == IF At(w, "asleep") THEN [worker[w] EXCEPT !.pc = "wait"] ELSE worker[w]

NotifyAll == worker' = [w \in Worker |-> Awake(w)]

\* Mutant: one thread is notified, of whichever kind.
NotifyOne ==
  /\ main.pc = "notify"
  /\ LET asleep == {w \in Worker : At(w, "asleep")} IN
       \/ asleep = {} /\ UNCHANGED worker
       \/ \E w \in asleep : worker' = [worker EXCEPT ![w].pc = "wait"]
  /\ Return
  /\ UNCHANGED <<initialized, shuttingDown, shared, pool, batch, serving, history>>

Notify ==
  /\ main.pc = "notify"
  /\ NotifyAll
  /\ Return
  /\ UNCHANGED <<initialized, shuttingDown, shared, pool, batch, serving, history>>

-----------------------------------------------------------------------------
(* Cancelling.  What a worker has taken out of its queue goes on.  The     *)
(* code removes every entry of that number; there is one at most.          *)
CancelRequest(id) ==
  /\ Ready /\ QueueMutexFree
  /\ id \in Id
  /\ queue' = [l \in Line |-> RemoveFirst(queue[l], id)]
  /\ main' = [pc |-> "cancel", id |-> id]
  /\ UNCHANGED <<initialized, shuttingDown, completion, active, outstanding, pool, worker,
                 batch, serving, history>>

DecrementOutstanding(kind) ==
  [outstanding EXCEPT ![kind] = IF @ = 0 THEN 0 ELSE @ - 1]

(* The completion queue, then the map: a worker that puts the request in   *)
(* the completion queue in between does as one that does so afterwards.    *)
CancelActive ==
  /\ main.pc = "cancel"
  /\ completion' = RemoveFirst(completion, main.id)
  /\ IF main.id \in active
     THEN /\ active' = active \ {main.id}
          /\ outstanding' = DecrementOutstanding(request[main.id].kind)
          /\ cancelled' = IF called[main.id] = 0 THEN cancelled \cup {main.id} ELSE cancelled
     ELSE UNCHANGED <<active, outstanding, cancelled>>
  /\ Return
  /\ UNCHANGED <<initialized, shuttingDown, queue, pool, worker, batch, serving,
                 request, called, starts>>

CancelAllRequests ==
  /\ Ready /\ QueueMutexFree
  /\ queue' = [l \in Line |-> << >>]
  /\ main' = [pc |-> "cancelall", id |-> 0]
  /\ UNCHANGED <<initialized, shuttingDown, completion, active, outstanding, pool, worker,
                 batch, serving, history>>

ClearCompletions ==
  /\ main.pc = "cancelall"
  /\ completion' = << >>
  /\ main' = [pc |-> "clear", id |-> 0]
  /\ UNCHANGED <<initialized, shuttingDown, queue, active, outstanding, pool, worker,
                 batch, serving, history>>

(* No other thread looks at the map or the counters.                       *)
ClearActive ==
  /\ main.pc = "clear"
  /\ active' = {} /\ outstanding' = [k \in Kind |-> 0]
  /\ cancelled' = cancelled \cup {r \in active : called[r] = 0}
  /\ Return
  /\ UNCHANGED <<initialized, shuttingDown, queue, completion, pool, worker, batch, serving,
                 request, called, starts>>

-----------------------------------------------------------------------------
(* A frame: Update.                                                        *)
Update ==
  /\ initialized /\ main.pc = "idle"
  /\ main' = [pc |-> IF shuttingDown THEN "swap" ELSE "pump", id |-> 0]
  /\ UNCHANGED <<initialized, shuttingDown, shared, pool, worker, batch, serving, history>>

(* A queue without threads is served here.                                 *)
Unserved == {l \in Line : WorkersOf(l) = {} /\ queue[l] # << >>}

PumpRequest ==
  /\ main.pc = "pump" /\ QueueMutexFree
  /\ \E l \in Unserved :
       /\ l = "decompress" => "io" \notin Unserved
       /\ queue' = [queue EXCEPT ![l] = Tail(@)]
       /\ completion' = Append(completion, Head(queue[l]))
  /\ UNCHANGED <<initialized, shuttingDown, active, outstanding, pool, worker, main, batch,
                 serving, history>>

PumpEnds ==
  /\ main.pc = "pump" /\ Unserved = {}
  /\ main' = [pc |-> "swap", id |-> 0]
  /\ UNCHANGED <<initialized, shuttingDown, shared, pool, worker, batch, serving, history>>

SwapCompletions ==
  /\ main.pc = "swap"
  /\ batch' = completion /\ completion' = << >>
  /\ main' = [pc |-> "dispatch", id |-> 0]
  /\ UNCHANGED <<initialized, shuttingDown, queue, active, outstanding, pool, worker, serving,
                 history>>

(* A request that is not in the map any more has been cancelled.           *)
SkipCancelled ==
  /\ main.pc = "dispatch" /\ batch # << >>
  /\ Head(batch) \notin active
  /\ batch' = Tail(batch)
  /\ UNCHANGED <<initialized, shuttingDown, shared, pool, worker, main, serving, history>>

\* Mutant: the callback is taken from the completion, without a lookup.
CallbackUnchecked ==
  /\ main.pc = "dispatch" /\ batch # << >>
  /\ serving' = Head(batch)
  /\ called' = [called EXCEPT ![Head(batch)] = @ + 1]
  /\ main' = [pc |-> "callback", id |-> 0]
  /\ UNCHANGED <<initialized, shuttingDown, shared, pool, worker, batch, request, cancelled,
                 starts>>

Callback ==
  /\ main.pc = "dispatch" /\ batch # << >>
  /\ Head(batch) \in active
  /\ serving' = Head(batch)
  /\ called' = [called EXCEPT ![Head(batch)] = @ + 1]
  /\ main' = [pc |-> "callback", id |-> 0]
  /\ UNCHANGED <<initialized, shuttingDown, shared, pool, worker, batch, request, cancelled,
                 starts>>

\* Mutant: the counter is decremented whether or not the request is still there.
EraseUnchecked ==
  /\ main.pc = "callback"
  /\ active' = active \ {serving}
  /\ outstanding' = DecrementOutstanding(request[serving].kind)
  /\ batch' = Tail(batch) /\ serving' = 0
  /\ main' = [pc |-> "dispatch", id |-> 0]
  /\ UNCHANGED <<initialized, shuttingDown, queue, completion, pool, worker, history>>

(* Looks the request up again: the callback may have cancelled it.         *)
EraseServed ==
  /\ main.pc = "callback"
  /\ IF serving \in active
     THEN /\ active' = active \ {serving}
          /\ outstanding' = DecrementOutstanding(request[serving].kind)
     ELSE UNCHANGED <<active, outstanding>>
  /\ batch' = Tail(batch) /\ serving' = 0
  /\ main' = [pc |-> "dispatch", id |-> 0]
  /\ UNCHANGED <<initialized, shuttingDown, queue, completion, pool, worker, history>>

UpdateEnds ==
  /\ main.pc = "dispatch" /\ batch = << >>
  /\ main' = [pc |-> "idle", id |-> 0]
  /\ UNCHANGED <<initialized, shuttingDown, shared, pool, worker, batch, serving, history>>

-----------------------------------------------------------------------------
(* Starting and stopping.                                                  *)
Initialize(threads) ==
  /\ ~initialized /\ main.pc = "idle" /\ starts < MaxStarts
  /\ initialized' = TRUE /\ shuttingDown' = FALSE
  /\ queue' = [l \in Line |-> << >>] /\ completion' = << >>
  /\ active' = {} /\ outstanding' = [k \in Kind |-> 0]
  /\ pool' = threads
  /\ worker' = [w \in Worker |-> IF w \in threads THEN Looping ELSE Off]
  /\ starts' = starts + 1
  /\ UNCHANGED <<main, batch, serving, request, called, cancelled>>

(* The flag is stored without queueMutex_.                                 *)
Shutdown ==
  /\ initialized /\ main.pc = "idle"
  /\ shuttingDown' = TRUE
  /\ main' = [pc |-> "wakeall", id |-> 0]
  /\ UNCHANGED <<initialized, shared, pool, worker, batch, serving, history>>

WakeAll ==
  /\ main.pc = "wakeall"
  /\ NotifyAll
  /\ main' = [pc |-> "join", id |-> 0]
  /\ UNCHANGED <<initialized, shuttingDown, shared, pool, batch, serving, history>>

\* Mutant: only the IO threads are joined.
JoinIO ==
  /\ main.pc = "join" /\ \A w \in pool \cap IOWorker : At(w, "off")
  /\ queue' = [l \in Line |-> << >>] /\ completion' = << >>
  /\ active' = {} /\ outstanding' = [k \in Kind |-> 0]
  /\ pool' = {} /\ initialized' = FALSE
  /\ main' = [pc |-> "idle", id |-> 0]
  /\ UNCHANGED <<shuttingDown, worker, batch, serving, history>>

Join ==
  /\ main.pc = "join" /\ \A w \in pool : At(w, "off")
  /\ queue' = [l \in Line |-> << >>] /\ completion' = << >>
  /\ active' = {} /\ outstanding' = [k \in Kind |-> 0]
  /\ pool' = {} /\ initialized' = FALSE
  /\ main' = [pc |-> "idle", id |-> 0]
  /\ UNCHANGED <<shuttingDown, worker, batch, serving, history>>

-----------------------------------------------------------------------------
(* A worker: its loop, the wait for a request, the work.                   *)
Become(w, pc, id) == worker' = [worker EXCEPT ![w] = [pc |-> pc, id |-> id]]

ThreadProc(w) ==
  /\ At(w, "loop")
  /\ Become(w, IF shuttingDown THEN "off" ELSE "wait", 0)
  /\ UNCHANGED <<initialized, shuttingDown, shared, pool, main, batch, serving, history>>

(* Takes the mutex; the predicate is false: it will block, but the call    *)
(* of wait that releases the mutex is still to come.                       *)
PredicateFalse(w) ==
  /\ At(w, "wait") /\ QueueMutexFree
  /\ ~shuttingDown /\ queue[LineOfWorker(w)] = << >>
  /\ Become(w, "blocking", 0)
  /\ UNCHANGED <<initialized, shuttingDown, shared, pool, main, batch, serving, history>>

FallAsleep(w) ==
  /\ At(w, "blocking")
  /\ Become(w, "asleep", 0)
  /\ UNCHANGED <<initialized, shuttingDown, shared, pool, main, batch, serving, history>>

WaitStops(w) ==
  /\ At(w, "wait") /\ QueueMutexFree
  /\ shuttingDown
  /\ Become(w, "loop", 0)
  /\ UNCHANGED <<initialized, shuttingDown, shared, pool, main, batch, serving, history>>

PopRequest(w) ==
  /\ At(w, "wait") /\ QueueMutexFree
  /\ ~shuttingDown /\ queue[LineOfWorker(w)] # << >>
  /\ Become(w, "process", Head(queue[LineOfWorker(w)]))
  /\ queue' = [queue EXCEPT ![LineOfWorker(w)] = Tail(@)]
  /\ UNCHANGED <<initialized, shuttingDown, completion, active, outstanding, pool, main, batch,
                 serving, history>>

(* The end of ProcessIORequest or ProcessDecompressionRequest, which used  *)
(* the caller's buffers up to here; it failed or succeeded.                *)
PushCompletion(w) ==
  /\ At(w, "process")
  /\ completion' = Append(completion, worker[w].id)
  /\ Become(w, "loop", 0)
  /\ UNCHANGED <<initialized, shuttingDown, queue, active, outstanding, pool, main, batch,
                 serving, history>>

-----------------------------------------------------------------------------
WorkerStep(w) ==
  \/ ThreadProc(w) \/ PredicateFalse(w) \/ FallAsleep(w) \/ WaitStops(w)
  \/ PopRequest(w) \/ PushCompletion(w)

(* What the calling thread does without being asked: it ends its calls,    *)
(* and starts a frame.                                                     *)
MainStep ==
  \/ Notify \/ CancelActive \/ ClearCompletions \/ ClearActive
  \/ Update \/ PumpRequest \/ PumpEnds \/ SwapCompletions
  \/ SkipCancelled \/ Callback \/ EraseServed \/ UpdateEnds
  \/ WakeAll \/ Join

Call ==
  \/ \E s \in Submittable : SubmitRequest(s[1], s[2])
  \/ \E id \in Id : CancelRequest(id)
  \/ CancelAllRequests
  \/ \E threads \in Pools : Initialize(threads)
  \/ Shutdown

Next == (\E w \in Worker : WorkerStep(w)) \/ MainStep \/ Call

Spec == Init /\ [][Next]_vars

(* Threads run; however many calls the calling thread makes, a callback    *)
(* ends and a next frame comes.                                            *)
Fairness ==
  /\ WF_vars(MainStep) /\ SF_vars(EraseServed) /\ SF_vars(Update)
  /\ \A w \in Worker : WF_vars(WorkerStep(w))

FairSpec == Spec /\ Fairness

-----------------------------------------------------------------------------
TypeOK ==
  /\ initialized \in BOOLEAN /\ shuttingDown \in BOOLEAN
  /\ queue \in [Line -> Seq(Id)] /\ completion \in Seq(Id) /\ batch \in Seq(Id)
  /\ active \subseteq Id /\ cancelled \subseteq Id
  /\ outstanding \in [Kind -> 0 .. MaxPending] /\ outstanding["read"] <= MaxReads
  /\ pool \in Pools \cup {{}}
  /\ worker \in [Worker -> [pc : {"off", "loop", "wait", "blocking", "asleep", "process"},
                            id : Id \cup {0}]]
  /\ main.id \in Id \cup {0}
  /\ serving \in Id \cup {0} /\ serving # 0 => batch # << >> /\ serving = Head(batch)
  /\ called \in [1 .. MaxRequests -> Nat]

(* Nothing is called back twice, and nothing after its cancellation, even  *)
(* when a worker has it or the frame has already taken its completion.     *)
CallbackOnce ==
  \A r \in Id : called[r] <= IF r \in cancelled THEN 0 ELSE 1

(* The counters count the active requests: no sequence of callbacks that   *)
(* cancel, cancellations of what is done, shutdowns and new starts leaves  *)
(* the limits of Submit too tight or too wide.                             *)
CountersExact ==
  \A k \in Kind : outstanding[k] = Cardinality({r \in active : request[r].kind = k})

(* When a callback runs, and when Shutdown has returned, no worker uses    *)
(* the buffers of that request, or of any.                                 *)
BuffersQuiet ==
  \A w \in Worker : At(w, "process") => initialized /\ called[worker[w].id] = 0

(* Every request is called back, cancelled, or dropped by a shutdown: no   *)
(* wakeup is lost between the two kinds of worker on one condition.        *)
Answered ==
  \A r \in 1 .. MaxRequests : r \in active ~> r \notin active \/ shuttingDown

(* Shutdown returns.                                                       *)
ShutdownReturns == main.pc = "join" ~> ~initialized
=============================================================================
