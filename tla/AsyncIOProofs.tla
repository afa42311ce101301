--------------------------- MODULE AsyncIOProofs ----------------------------
(***************************************************************************)
(* A request is called back at most once and not after its cancellation,   *)
(* the counters count the active requests, and a callback finds no worker  *)
(* on the buffers of its request, for any threads, pools and priorities    *)
(* and any number of requests and of starts.                               *)
(*                                                                         *)
(* The argument: a request is in one place at most, a queue, a worker, the *)
(* completion queue or the frame's batch, and moves along them in this     *)
(* order (Places); it is in the map until it is called back, the one that  *)
(* is being called back excepted (Calls); and the threads that exist are   *)
(* those of the pool, which an end of the system has joined (Pooled).      *)
(*                                                                         *)
(* The last part is about the memory pool of the same file: what it lends  *)
(* never overlaps (PoolInv).                                               *)
(***************************************************************************)
EXTENDS AsyncIO, MemoryPool, QueueLemmas, FiniteSetTheorems

(* The requests and the calling thread's locals.                           *)
InCall == {"notify", "cancel", "cancelall", "clear"}

MainPc == {"idle", "callback", "pump", "swap", "dispatch", "wakeall", "join"} \cup InCall

Requests ==
  /\ request \in Seq([kind : Kind, priority : Nat])
  /\ Len(request) <= MaxRequests
  /\ main \in [pc : MainPc, id : Nat]
  /\ main.pc = "cancel" => main.id \in Id
  /\ active \subseteq Id /\ cancelled \subseteq Id
  /\ called \in [1 .. MaxRequests -> Nat]

(* A request in the map has not been called back, but for the one whose    *)
(* callback runs; a cancelled one is out of the map for good.              *)
Calls ==
  /\ serving \in Id \cup {0}
  /\ serving # 0 => main.pc \in InCall \cup {"callback"}
  /\ main.pc = "callback" => serving # 0
  /\ \A r \in Id : called[r] <= 1
  /\ \A r \in active : r # serving => called[r] = 0
  /\ \A r \in cancelled : called[r] = 0 /\ r \notin active
  /\ \A r \in 1 .. MaxRequests : r \notin Id => called[r] = 0

(* The request that is being called back is still in the frame's batch.    *)
Served == serving # 0 => batch # << >>

(* The counters.                                                           *)
Counts == outstanding \in [Kind -> Nat] /\ CountersExact

(* The threads that run are those of the pool of a started system.         *)
WorkerPc == {"off", "loop", "wait", "blocking", "asleep", "process"}

Pooled ==
  /\ worker \in [Worker -> [pc : WorkerPc, id : Nat]]
  /\ \A w \in Worker : w \notin pool => At(w, "off")
  /\ ~initialized => pool = {}

(* Where a request can be.                                                 *)
Queued == {r \in Id : \E l \in Line : r \in ToSet(queue[l])}

Works(w, r) == At(w, "process") /\ worker[w].id = r

Queues ==
  /\ queue = [l \in Line |-> queue[l]]
  /\ \A l \in Line : Distinct(queue[l], Id) /\ \A r \in ToSet(queue[l]) : LineOf(request[r].kind) = l

Apart ==
  \A r \in Id :
    /\ r \in Queued => r \notin ToSet(completion)
    /\ r \in Queued \cup ToSet(completion) => r \notin ToSet(batch) /\ called[r] = 0
    /\ \A w \in Worker : Works(w, r) =>
         /\ r \notin Queued \cup ToSet(completion) \cup ToSet(batch) /\ called[r] = 0
         /\ \A u \in Worker : Works(u, r) => u = w

Places ==
  /\ Queues
  /\ Distinct(completion, Id) /\ Distinct(batch, Id)
  /\ \A w \in Worker : At(w, "process") => worker[w].id \in Id
  /\ Apart

-----------------------------------------------------------------------------
(* The calling thread, and what it may call back.                          *)

\* The requests keep their numbers.
LEMMA IdIn ==
  ASSUME Requests
  PROVE  Len(request) \in Nat /\ Id \subseteq 1 .. MaxRequests /\ 0 \notin Id
         /\ \A r \in Id : request[r] \in [kind : Kind, priority : Nat] /\ request[r].kind \in Kind
<1>1. PICK n \in Nat : n = Len(request)
  BY LenProperties DEF Requests
<1>2. \A r \in 1 .. n : request[r] \in [kind : Kind, priority : Nat]
  BY <1>1, ElementOfSeq DEF Requests
<1>3. n <= MaxRequests /\ MaxRequests \in Nat
  BY <1>1, AsyncIOAssumption DEF Requests
<1>4. \A r \in 1 .. n : request[r].kind \in Kind
  BY <1>2
<1>5. QED
  BY <1>1, <1>2, <1>3, <1>4 DEF Id

\* A new request has the next number.
LEMMA NewRequest ==
  ASSUME Requests, NEW kind, NEW priority, <<kind, priority>> \in Submittable,
         Len(request) < MaxRequests,
         request' = Append(request, [kind |-> kind, priority |-> priority])
  PROVE  /\ kind \in Kind /\ priority \in Nat
         /\ Len(request) + 1 \in 1 .. MaxRequests
         /\ Len(request) + 1 \notin Id
         /\ Id' = Id \cup {Len(request) + 1}
         /\ \A r \in Id : request'[r] = request[r]
         /\ request'[Len(request) + 1] = [kind |-> kind, priority |-> priority]
         /\ request' \in Seq([kind : Kind, priority : Nat]) /\ Len(request') <= MaxRequests
<1>1. kind \in Kind /\ priority \in Nat
  BY AsyncIOAssumption
<1>2. request \in Seq([kind : Kind, priority : Nat]) /\ Len(request) \in Nat /\ MaxRequests \in Nat
  BY AsyncIOAssumption, LenProperties DEF Requests
<1>3. [kind |-> kind, priority |-> priority] \in [kind : Kind, priority : Nat]
  BY <1>1
<1>4. PICK n \in Nat : n = Len(request)
  BY <1>2
<1>5. /\ request' \in Seq([kind : Kind, priority : Nat]) /\ Len(request') = n + 1
      /\ \A i \in 1 .. n : request'[i] = request[i]
      /\ request'[n + 1] = [kind |-> kind, priority |-> priority]
  BY <1>2, <1>3, <1>4, AppendProperties
<1>6. QED
  BY <1>1, <1>2, <1>4, <1>5 DEF Id

\* The steps that neither submit, cancel nor call back.
Aside ==
  \/ CancelAllRequests \/ ClearCompletions \/ Update \/ PumpRequest \/ PumpEnds
  \/ SwapCompletions \/ SkipCancelled \/ UpdateEnds \/ WakeAll \/ Shutdown
  \/ \E w \in Worker : WorkerStep(w)

\* They leave the requests and the calls as they were.
LEMMA AsideSame ==
  ASSUME Requests, Calls, Aside
  PROVE  /\ UNCHANGED <<request, active, cancelled, called, serving>>
         /\ main' \in [pc : MainPc, id : Nat]
         /\ \/ UNCHANGED main
            \/ serving = 0 /\ main'.pc \notin {"callback", "cancel"}
            \/ main'.pc \in InCall \ {"cancel"}
<1> USE DEF MainPc, InCall
<1>1. CASE CancelAllRequests \/ ClearCompletions
  BY <1>1 DEF CancelAllRequests, ClearCompletions, history
<1>2. CASE Update \/ PumpRequest \/ PumpEnds
  BY <1>2 DEF Update, PumpRequest, PumpEnds, history, shared, Requests, Calls
<1>3. CASE SwapCompletions \/ SkipCancelled \/ UpdateEnds
  BY <1>3 DEF SwapCompletions, SkipCancelled, UpdateEnds, history, shared, Requests, Calls
<1>4. CASE WakeAll \/ Shutdown
  BY <1>4 DEF WakeAll, Shutdown, history, shared, Requests, Calls
<1>5. ASSUME NEW w \in Worker, WorkerStep(w)
      PROVE  UNCHANGED <<request, active, cancelled, called, serving, main>>
  BY <1>5 DEF WorkerStep, ThreadProc, PredicateFalse, FallAsleep, WaitStops, PopRequest, PushCompletion,
              history, shared
<1>6. QED
  BY <1>1, <1>2, <1>3, <1>4, <1>5 DEF Aside, Requests

\* A call that returns is back where it was made.
LEMMA Returns ==
  ASSUME Requests, Return
  PROVE  main' \in [pc : MainPc, id : Nat] /\ main'.pc = IF serving = 0 THEN "idle" ELSE "callback"
BY DEF Return, MainPc, InCall

LEMMA NextCalls ==
  ASSUME Requests, Calls, [Next]_vars
  PROVE  Requests' /\ Calls'
<1>1. CASE Aside
  <2>1. Id' = Id
    BY <1>1, AsideSame DEF Id
  <2>2. Requests'
    BY <1>1, <2>1, AsideSame DEF Requests
  <2>3. /\ serving' # 0 => main'.pc \in InCall \cup {"callback"}
        /\ main'.pc = "callback" => serving' # 0
    BY <1>1, AsideSame DEF Calls, InCall
  <2>4. Calls'
    BY <1>1, <2>1, <2>3, AsideSame DEF Calls
  <2>5. QED
    BY <2>2, <2>4
<1>2. CASE Notify
  <2>1. /\ UNCHANGED <<request, active, cancelled, called, serving>>
        /\ Return
    BY <1>2 DEF Notify, history, shared
  <2>2. Id' = Id /\ 0 \notin Id
    BY <2>1, IdIn DEF Id
  <2>3. QED
    BY <2>1, <2>2, Returns DEF Requests, Calls
<1>3. ASSUME NEW kind, NEW priority, <<kind, priority>> \in Submittable,
             SubmitRequest(kind, priority)
      PROVE  Requests' /\ Calls'
  <2>1. PICK id : id = Len(request) + 1
    OBVIOUS
  <2>2. /\ Len(request) < MaxRequests
        /\ request' = Append(request, [kind |-> kind, priority |-> priority])
        /\ active' = active \cup {id}
        /\ main' = [pc |-> "notify", id |-> 0]
        /\ UNCHANGED <<cancelled, called, serving>>
    BY <1>3, <2>1 DEF SubmitRequest
  <2>3. /\ id \in 1 .. MaxRequests /\ id \notin Id /\ Id' = Id \cup {id}
        /\ request' \in Seq([kind : Kind, priority : Nat]) /\ Len(request') <= MaxRequests
    BY <1>3, <2>1, <2>2, NewRequest
  <2>4. main' \in [pc : MainPc, id : Nat] /\ main'.pc = "notify"
    BY <2>2 DEF MainPc, InCall
  <2>5. Requests'
    BY <2>2, <2>3, <2>4 DEF Requests
  <2>6. Calls'
    BY <2>2, <2>3, <2>4, IdIn DEF Requests, Calls, InCall
  <2>7. QED
    BY <2>5, <2>6
<1>4. ASSUME NEW id \in Id, CancelRequest(id)
      PROVE  Requests' /\ Calls'
  <2>1. /\ UNCHANGED <<request, active, cancelled, called, serving>>
        /\ main' = [pc |-> "cancel", id |-> id]
    BY <1>4 DEF CancelRequest, history
  <2>2. Id' = Id /\ id \in Nat
    BY <2>1 DEF Id
  <2>3. main' \in [pc : MainPc, id : Nat] /\ main'.pc = "cancel" /\ main'.id \in Id
    BY <2>1, <2>2 DEF MainPc, InCall
  <2>4. QED
    BY <2>1, <2>2, <2>3 DEF Requests, Calls, InCall
<1>5. CASE CancelActive \/ ClearActive
  <2>1. /\ UNCHANGED <<request, called, serving>>
        /\ Return
        /\ active' \subseteq active
        /\ \A r \in cancelled' : r \in cancelled \/ (r \in active /\ called[r] = 0 /\ r \notin active')
    <3>1. CASE CancelActive
      BY <3>1 DEF CancelActive
    <3>2. CASE ClearActive
      BY <3>2 DEF ClearActive
    <3>3. QED
      BY <1>5, <3>1, <3>2
  <2>2. Id' = Id /\ 0 \notin Id
    BY <2>1, IdIn DEF Id
  <2>3. main' \in [pc : MainPc, id : Nat] /\ main'.pc = IF serving = 0 THEN "idle" ELSE "callback"
    BY <2>1, Returns
  <2>4. Requests'
    BY <2>1, <2>2, <2>3 DEF Requests
  <2>5. Calls'
    BY <2>1, <2>2, <2>3 DEF Calls
  <2>6. QED
    BY <2>4, <2>5
<1>6. CASE Callback
  <2>1. PICK r \in active : r = Head(batch)
    BY <1>6 DEF Callback
  <2>2. /\ UNCHANGED <<request, active, cancelled>>
        /\ main.pc = "dispatch" /\ main' = [pc |-> "callback", id |-> 0]
        /\ serving' = r /\ called' = [called EXCEPT ![r] = @ + 1]
    BY <1>6, <2>1 DEF Callback, shared
  <2>3. Id' = Id /\ r \in Id /\ r \in 1 .. MaxRequests /\ 0 \notin Id
    BY <2>1, <2>2, IdIn DEF Id, Requests
  <2>4. serving = 0
    BY <2>2 DEF Calls, InCall
  <2>5. called[r] = 0 /\ r \notin cancelled
    BY <2>1, <2>3, <2>4 DEF Calls
  <2>6. /\ called' \in [1 .. MaxRequests -> Nat] /\ called'[r] = 1
        /\ \A x \in 1 .. MaxRequests : x # r => called'[x] = called[x]
    BY <2>2, <2>3, <2>5 DEF Requests
  <2>7. main' \in [pc : MainPc, id : Nat] /\ main'.pc = "callback"
    BY <2>2 DEF MainPc
  <2>8. Requests'
    BY <2>2, <2>3, <2>6, <2>7 DEF Requests
  <2>9. \A x \in Id : x \in 1 .. MaxRequests
    BY IdIn
  <2>10. /\ serving' \in Id' /\ serving' # 0 /\ main'.pc = "callback"
         /\ \A x \in Id' : called'[x] <= 1
    BY <2>2, <2>3, <2>6, <2>7, <2>9 DEF Calls
  <2>11. /\ \A x \in active' : x # serving' => called'[x] = 0
         /\ \A x \in cancelled' : called'[x] = 0 /\ x \notin active'
    BY <2>2, <2>4, <2>3, <2>5, <2>6, <2>9 DEF Requests, Calls
  <2>12. \A x \in 1 .. MaxRequests : x \notin Id' => called'[x] = 0
    BY <2>3, <2>6 DEF Calls
  <2>13. QED
    BY <2>8, <2>10, <2>11, <2>12 DEF Calls
<1>7. CASE EraseServed
  <2>1. /\ UNCHANGED <<request, called, cancelled>>
        /\ main' = [pc |-> "dispatch", id |-> 0] /\ serving' = 0
        /\ active' = active \ {serving}
    BY <1>7 DEF EraseServed, history
  <2>2. Id' = Id
    BY <2>1 DEF Id
  <2>3. main' \in [pc : MainPc, id : Nat] /\ main'.pc = "dispatch"
    BY <2>1 DEF MainPc
  <2>4. QED
    BY <2>1, <2>2, <2>3 DEF Requests, Calls
<1>8. CASE Join \/ \E threads \in Pools : Initialize(threads)
  <2>1. /\ UNCHANGED <<request, called, cancelled, serving>>
        /\ main'.pc = "idle" /\ main' \in [pc : MainPc, id : Nat]
        /\ active' = {} /\ main.pc \in {"idle", "join"}
    BY <1>8 DEF Join, Initialize, history, Requests, MainPc
  <2>2. Id' = Id
    BY <2>1 DEF Id
  <2>3. QED
    BY <2>1, <2>2 DEF Requests, Calls, InCall
<1>9. CASE UNCHANGED vars
  <2>1. UNCHANGED <<request, called, cancelled, serving, active, main>>
    BY <1>9 DEF vars, shared, history
  <2>2. Id' = Id
    BY <2>1 DEF Id
  <2>3. QED
    BY <2>1, <2>2 DEF Requests, Calls
<1>10. ASSUME NEW s \in Submittable, SubmitRequest(s[1], s[2])
       PROVE  Requests' /\ Calls'
  <2>1. s = <<s[1], s[2]>>
    BY AsyncIOAssumption
  <2>2. QED
    BY <1>3, <1>10, <2>1
<1>11. QED
  BY <1>1, <1>2, <1>4, <1>5, <1>6, <1>7, <1>8, <1>9, <1>10 DEF Next, MainStep, Call, Aside

\* Nothing is submitted at first.
LEMMA InitCalls == Init => Requests /\ Calls
<1> SUFFICES ASSUME Init
             PROVE  Requests /\ Calls
  OBVIOUS
<1>1. request = << >> /\ Len(request) = 0 /\ Id = {}
  BY EmptySeq DEF Init, Id
<1>2. request \in Seq([kind : Kind, priority : Nat])
  BY <1>1, EmptySeq
<1>3. QED
  BY <1>1, <1>2, AsyncIOAssumption DEF Init, Requests, Calls, MainPc, InCall

LEMMA CallsInvariant == Spec => [](Requests /\ Calls)
<1>1. Requests /\ Calls /\ [Next]_vars => (Requests /\ Calls)'
  BY NextCalls
<1>2. QED
  BY <1>1, InitCalls, PTL DEF Spec

\* Nothing is called back twice, and nothing after its cancellation.
THEOREM CalledOnce == Spec => []CallbackOnce
<1>1. Requests /\ Calls => CallbackOnce
  BY IdIn DEF Requests, Calls, CallbackOnce
<1>2. QED
  BY <1>1, CallsInvariant, PTL

-----------------------------------------------------------------------------
(* The counters.                                                           *)
Of(kind) == {r \in active : request[r].kind = kind}

\* There are finitely many of each kind.
LEMMA OfFinite ==
  ASSUME Requests, NEW kind
  PROVE  IsFiniteSet(Of(kind)) /\ Cardinality(Of(kind)) \in Nat
<1>1. IsFiniteSet(1 .. Len(request))
  BY IdIn, FS_Interval
<1>2. Of(kind) \subseteq 1 .. Len(request)
  BY DEF Of, Requests, Id
<1>3. QED
  BY <1>1, <1>2, FS_Subset, FS_CardinalityType

\* A request that leaves the map is counted once less.
LEMMA Less ==
  ASSUME Requests, Counts, NEW r \in active, active' = active \ {r}, UNCHANGED request,
         outstanding' = DecrementOutstanding(request[r].kind)
  PROVE  Counts'
<1>1. PICK kind \in Kind : kind = request[r].kind
  BY IdIn DEF Requests
<1>2. r \in Of(kind) /\ outstanding[kind] = Cardinality(Of(kind))
  BY <1>1 DEF Of, Counts, CountersExact
<1>3. /\ IsFiniteSet(Of(kind)) /\ Cardinality(Of(kind) \ {r}) = Cardinality(Of(kind)) - 1
      /\ Cardinality(Of(kind) \ {r}) \in Nat
  BY <1>2, OfFinite, FS_RemoveElement, FS_CardinalityType
<1>4. Of(kind)' = Of(kind) \ {r} /\ \A k \in Kind : k # kind => Of(k)' = Of(k)
  BY <1>1 DEF Of
<1>5. \A k \in Kind : outstanding'[k] =
        IF k = kind THEN IF outstanding[k] = 0 THEN 0 ELSE outstanding[k] - 1 ELSE outstanding[k]
  BY <1>1 DEF DecrementOutstanding, Counts
<1>6. outstanding' \in [Kind -> Nat]
  BY <1>1, <1>2, <1>3 DEF DecrementOutstanding, Counts
<1>7. Cardinality(Of(kind)) # 0
  BY <1>3, OfFinite
<1>8. \A k \in Kind : outstanding'[k] = Cardinality(Of(k)')
  BY <1>2, <1>3, <1>4, <1>5, <1>7, OfFinite DEF Counts, CountersExact, Of
<1>9. QED
  BY <1>6, <1>8 DEF Counts, CountersExact, Of

\* An empty map, and counters of zero.
LEMMA NoneLeft ==
  ASSUME active' = {}, outstanding' = [k \in Kind |-> 0]
  PROVE  Counts'
<1>1. \A k \in Kind : {r \in active' : request'[r].kind = k} = {}
  OBVIOUS
<1>2. QED
  BY <1>1, FS_EmptySet DEF Counts, CountersExact

LEMMA NextCounts ==
  ASSUME Requests, Counts, [Next]_vars
  PROVE  Counts'
<1>1. ASSUME UNCHANGED <<request, active, outstanding>>
      PROVE  Counts'
  BY <1>1 DEF Counts, CountersExact
<1>2. ASSUME NEW w \in Worker, WorkerStep(w)
      PROVE  UNCHANGED <<request, active, outstanding>>
  BY <1>2 DEF WorkerStep, ThreadProc, PredicateFalse, FallAsleep, WaitStops, PopRequest, PushCompletion,
              history, shared
<1>3. CASE \/ Notify \/ ClearCompletions \/ Update \/ PumpRequest \/ PumpEnds \/ SwapCompletions
           \/ SkipCancelled \/ Callback \/ UpdateEnds \/ WakeAll \/ CancelAllRequests \/ Shutdown
           \/ \E id \in Id : CancelRequest(id)
  BY <1>1, <1>3 DEF Notify, ClearCompletions, Update, PumpRequest, PumpEnds, SwapCompletions,
       SkipCancelled, Callback, UpdateEnds, WakeAll, CancelAllRequests, Shutdown, CancelRequest,
       history, shared
<1>4. CASE CancelActive
  <2>1. CASE main.id \in active
    BY <1>4, <2>1, Less DEF CancelActive
  <2>2. CASE main.id \notin active
    BY <1>1, <1>4, <2>2 DEF CancelActive
  <2>3. QED
    BY <2>1, <2>2
<1>5. CASE EraseServed
  <2>1. CASE serving \in active
    BY <1>5, <2>1, Less DEF EraseServed, history
  <2>2. CASE serving \notin active
    BY <1>1, <1>5, <2>2 DEF EraseServed, history
  <2>3. QED
    BY <2>1, <2>2
<1>6. CASE ClearActive \/ Join \/ \E threads \in Pools : Initialize(threads)
  BY <1>6, NoneLeft DEF ClearActive, Join, Initialize
<1>7. ASSUME NEW kind, NEW priority, <<kind, priority>> \in Submittable,
             SubmitRequest(kind, priority)
      PROVE  Counts'
  <2>1. PICK id : id = Len(request) + 1
    OBVIOUS
  <2>2. /\ Len(request) < MaxRequests
        /\ request' = Append(request, [kind |-> kind, priority |-> priority])
        /\ active' = active \cup {id}
        /\ outstanding' = [outstanding EXCEPT ![kind] = @ + 1]
    BY <1>7, <2>1 DEF SubmitRequest
  <2>3. /\ kind \in Kind /\ id \notin Id
        /\ \A r \in Id : request'[r] = request[r]
        /\ request'[id] = [kind |-> kind, priority |-> priority]
    BY <1>7, <2>1, <2>2, NewRequest
  <2>4. Of(kind)' = Of(kind) \cup {id} /\ \A k \in Kind : k # kind => Of(k)' = Of(k)
    <3>1. request'[id].kind = kind /\ \A r \in active : request'[r].kind = request[r].kind
      BY <2>3 DEF Requests
    <3>2. \A k : Of(k)' = {r \in active \cup {id} : request'[r].kind = k}
      BY <2>2 DEF Of
    <3>3. QED
      BY <3>1, <3>2 DEF Of
  <2>5. id \notin Of(kind)
    BY <2>3 DEF Of, Requests
  <2>6. Cardinality(Of(kind) \cup {id}) = Cardinality(Of(kind)) + 1
    BY <2>5, OfFinite, FS_AddElement
  <2>7. /\ outstanding' \in [Kind -> Nat]
        /\ \A k \in Kind : outstanding'[k] = IF k = kind THEN outstanding[k] + 1 ELSE outstanding[k]
    BY <2>2, <2>3 DEF Counts
  <2>8. \A k \in Kind : outstanding'[k] = Cardinality(Of(k)')
    BY <2>3, <2>4, <2>6, <2>7 DEF Counts, CountersExact, Of
  <2>9. QED
    BY <2>7, <2>8 DEF Counts, CountersExact, Of
<1>8. ASSUME NEW s \in Submittable, SubmitRequest(s[1], s[2])
      PROVE  Counts'
  <2>1. s = <<s[1], s[2]>>
    BY AsyncIOAssumption
  <2>2. QED
    BY <1>7, <1>8, <2>1
<1>9. CASE UNCHANGED vars
  BY <1>1, <1>9 DEF vars, shared, history
<1>10. QED
  BY <1>1, <1>2, <1>3, <1>4, <1>5, <1>6, <1>8, <1>9 DEF Next, MainStep, Call

\* The counters count the active requests: a request is counted when it enters
\* the map and discounted when it leaves it, once each, whichever of a
\* callback, a cancellation inside it, and its end comes first.
THEOREM CountersCount == Spec => []CountersExact
<1>1. Init => Counts
  BY NoneLeft, FS_EmptySet DEF Init, Counts, CountersExact
<1>2. Requests /\ Counts /\ [Next]_vars => Counts'
  BY NextCounts
<1>3. Counts => CountersExact
  BY DEF Counts
<1>4. QED
  BY <1>1, <1>2, <1>3, CallsInvariant, PTL DEF Spec

-----------------------------------------------------------------------------
(* The threads.                                                            *)

\* A thread that is not in the pool does not run, and there is a pool only
\* between a start and the end.
LEMMA NextPooled ==
  ASSUME Requests, Pooled, Places, [Next]_vars
  PROVE  Pooled'
<1> USE DEF WorkerPc, At
<1>1. ASSUME UNCHANGED <<worker, pool, initialized>>
      PROVE  Pooled'
  BY <1>1 DEF Pooled
<1>2. CASE Notify \/ WakeAll
  <2>1. NotifyAll /\ UNCHANGED <<pool, initialized>>
    BY <1>2 DEF Notify, WakeAll
  <2>2. \A w \in Worker : Awake(w) \in [pc : WorkerPc, id : Nat] /\ (At(w, "off") => Awake(w).pc = "off")
    BY DEF Awake, Pooled
  <2>3. worker' = [w \in Worker |-> Awake(w)]
    BY <2>1 DEF NotifyAll
  <2>4. QED
    BY <2>1, <2>2, <2>3 DEF Pooled
<1>3. ASSUME NEW threads \in Pools, Initialize(threads)
      PROVE  Pooled'
  <2>1. threads \subseteq Worker
    BY AsyncIOAssumption
  <2>2. QED
    BY <1>3, <2>1 DEF Initialize, Pooled, Looping, Off
<1>4. CASE Join
  BY <1>4 DEF Join, Pooled
<1>5. ASSUME NEW w \in Worker, WorkerStep(w)
      PROVE  Pooled'
  <2>1. UNCHANGED <<pool, initialized>> /\ w \in pool
    BY <1>5 DEF WorkerStep, ThreadProc, PredicateFalse, FallAsleep, WaitStops, PopRequest, PushCompletion,
                shared, history, Pooled
  <2>2. \E pc \in WorkerPc, id \in Nat : Become(w, pc, id)
    <3>1. CASE PopRequest(w)
      <4>1. LineOfWorker(w) \in Line
        BY DEF LineOfWorker, Line
      <4>2. Head(queue[LineOfWorker(w)]) \in Id
        BY <3>1, <4>1, TailDistinct, Members DEF PopRequest, Places, Queues, Distinct
      <4>3. Head(queue[LineOfWorker(w)]) \in Nat
        BY <4>2 DEF Id
      <4>4. QED
        BY <3>1, <4>3 DEF PopRequest
    <3>2. CASE ~PopRequest(w)
      BY <1>5, <3>2 DEF WorkerStep, ThreadProc, PredicateFalse, FallAsleep, WaitStops, PushCompletion
    <3>3. QED
      BY <3>1, <3>2
  <2>3. QED
    BY <2>1, <2>2 DEF Become, Pooled
<1>6. CASE \/ CancelActive \/ ClearCompletions \/ ClearActive \/ Update \/ PumpRequest \/ PumpEnds
           \/ SwapCompletions \/ SkipCancelled \/ Callback \/ EraseServed \/ UpdateEnds
  BY <1>1, <1>6 DEF CancelActive, ClearCompletions, ClearActive, Update, PumpRequest, PumpEnds,
       SwapCompletions, SkipCancelled, Callback, EraseServed, UpdateEnds
<1>7. CASE \/ \E s \in Submittable : SubmitRequest(s[1], s[2])
           \/ \E id \in Id : CancelRequest(id)
           \/ CancelAllRequests \/ Shutdown \/ UNCHANGED vars
  BY <1>1, <1>7 DEF SubmitRequest, CancelRequest, CancelAllRequests, Shutdown, vars
<1>8. QED
  BY <1>2, <1>3, <1>4, <1>5, <1>6, <1>7 DEF Next, MainStep, Call

-----------------------------------------------------------------------------
(* Where a request is.                                                     *)

\* A queue of some is a queue of more.
LEMMA Wider ==
  ASSUME NEW S, NEW T, S \subseteq T, NEW s, Distinct(s, S)
  PROVE  Distinct(s, T)
<1>1. s \in [1 .. Len(s) -> S] /\ Len(s) \in Nat
  BY LenProperties DEF Distinct
<1>2. s \in [1 .. Len(s) -> T]
  BY <1>1
<1>3. QED
  BY <1>1, <1>2, SeqDef DEF Distinct

\* Submit puts the request somewhere in its queue.
LEMMA EnqueueDistinct ==
  ASSUME NEW S, NEW q, Distinct(q, S), NEW id \in S \ ToSet(q), NEW requests
  PROVE  /\ Distinct(EnqueueByPriority(q, requests, id), S)
         /\ ToSet(EnqueueByPriority(q, requests, id)) = ToSet(q) \cup {id}
<1> DEFINE I == {i \in 1 .. Len(q) : requests[id].priority < requests[q[i]].priority}
           at == SelectInSeq(q, LAMBDA r : requests[id].priority < requests[r].priority)
<1>1. at = IF I # {} THEN Min(I) ELSE 0
  BY DEF SelectInSeq
<1>2. EnqueueByPriority(q, requests, id) = IF at = 0 THEN Append(q, id) ELSE InsertAt(q, at, id)
  BY DEF EnqueueByPriority
<1>3. CASE I = {}
  <2>1. at = 0
    BY <1>1, <1>3
  <2> HIDE DEF at
  <2>2. EnqueueByPriority(q, requests, id) = Append(q, id)
    BY <1>2, <2>1
  <2>3. QED
    BY <2>2, AppendDistinct
<1>4. CASE I # {}
  <2>1. I \subseteq Nat /\ I \subseteq 1 .. Len(q)
    BY LenProperties DEF Distinct
  <2> HIDE DEF I
  <2>2. \E m \in I : \A i \in I : ~ (<<i, m>> \in OpToRel(<, Nat))
    BY <1>4, <2>1, WFMin, NatLessThanWellFounded
  <2>3. PICK m \in I : \A i \in I : ~ (i < m)
    BY <2>1, <2>2 DEF OpToRel
  <2>4. \A i \in I : m <= i
    BY <2>1, <2>3
  <2>5. Min(I) \in I
    BY <2>4 DEF Min
  <2>6. at \in 1 .. Len(q) /\ at # 0
    BY <1>1, <1>4, <2>1, <2>5
  <2> HIDE DEF at
  <2>7. QED
    BY <1>2, <2>6, InsertAtDistinct
<1>5. QED
  BY <1>3, <1>4

\* A step that only takes requests out of places.
LEMMA Shrink ==
  ASSUME Places, UNCHANGED <<request, called>>,
         queue' = [l \in Line |-> queue'[l]],
         \A l \in Line : Distinct(queue'[l], Id) /\ ToSet(queue'[l]) \subseteq ToSet(queue[l]),
         Distinct(completion', Id), ToSet(completion') \subseteq ToSet(completion),
         Distinct(batch', Id), ToSet(batch') \subseteq ToSet(batch),
         \A w \in Worker : At(w, "process")' => At(w, "process") /\ worker'[w].id = worker[w].id
  PROVE  Places'
<1>1. Id' = Id
  BY DEF Id
<1>2. Queues'
  BY <1>1 DEF Places, Queues
<1>3. Queued' \subseteq Queued
  BY <1>1 DEF Queued
<1>4. \A w \in Worker : \A r \in Id : Works(w, r)' => Works(w, r)
  BY DEF Works
<1>5. Apart'
  BY <1>1, <1>3, <1>4 DEF Places, Apart
<1>6. QED
  BY <1>1, <1>2, <1>5 DEF Places

\* A step that moves a request from the head of its queue leaves the queues
\* in order and the request in none.
LEMMA TakeHead ==
  ASSUME Places, NEW l \in Line, queue[l] # << >>, UNCHANGED request,
         queue' = [queue EXCEPT ![l] = Tail(@)]
  PROVE  /\ Queues' /\ Id' = Id
         /\ Head(queue[l]) \in Queued /\ Head(queue[l]) \notin Queued'
         /\ Queued' \subseteq Queued
<1>1. Id' = Id
  BY DEF Id
<1>2. PICK q : q = queue[l]
  OBVIOUS
<1>3. /\ Distinct(q, Id) /\ Distinct(Tail(q), Id)
      /\ ToSet(Tail(q)) = ToSet(q) \ {Head(q)} /\ Head(q) \in ToSet(q) /\ ToSet(q) \subseteq Id
  BY <1>2, TailDistinct, Members DEF Places, Queues, Distinct
<1>4. /\ queue' = [m \in Line |-> queue'[m]]
      /\ queue'[l] = Tail(q) /\ \A m \in Line : m # l => queue'[m] = queue[m]
  BY <1>2 DEF Places, Queues
<1>5. Queues'
  BY <1>1, <1>2, <1>3, <1>4 DEF Places, Queues
<1>6. Head(q) \in Queued
  BY <1>2, <1>3 DEF Queued
<1>7. \A m \in Line : Head(q) \notin ToSet(queue'[m])
  BY <1>2, <1>3, <1>4 DEF Places, Queues
<1>8. QED
  BY <1>1, <1>2, <1>3, <1>4, <1>5, <1>6, <1>7 DEF Queued

\* A new request is in its queue and nowhere else.
LEMMA SubmitPlaces ==
  ASSUME Requests, Calls, Places, NEW kind, NEW priority, <<kind, priority>> \in Submittable,
         SubmitRequest(kind, priority)
  PROVE  Places'
<1>1. PICK id : id = Len(request) + 1
  OBVIOUS
<1>2. /\ Len(request) < MaxRequests
      /\ request' = Append(request, [kind |-> kind, priority |-> priority])
      /\ queue' = [queue EXCEPT ![LineOf(kind)] = EnqueueByPriority(@, request', id)]
      /\ UNCHANGED <<completion, worker, batch, called>>
  BY <1>1 DEF SubmitRequest
<1>3. /\ kind \in Kind
      /\ id \in 1 .. MaxRequests /\ id \notin Id /\ Id' = Id \cup {id}
      /\ \A r \in Id : request'[r] = request[r]
      /\ request'[id] = [kind |-> kind, priority |-> priority]
  BY <1>1, <1>2, NewRequest
<1>4. called[id] = 0
  BY <1>3 DEF Calls
<1>5. PICK l \in Line : l = LineOf(kind)
  BY <1>3 DEF LineOf, Line
<1>6. PICK q : q = EnqueueByPriority(queue[l], request', id)
  OBVIOUS
<1>7. queue' = [queue EXCEPT ![l] = q]
  BY <1>2, <1>5, <1>6
<1>8. \A m \in Line : Distinct(queue[m], Id') /\ ToSet(queue[m]) \subseteq Id
  BY <1>3, Wider, Members DEF Places, Queues, Distinct
<1>9. Distinct(q, Id') /\ ToSet(q) = ToSet(queue[l]) \cup {id}
  <2>1. id \in Id' \ ToSet(queue[l])
    BY <1>3, <1>8
  <2>2. QED
    BY <1>6, <1>8, <2>1, EnqueueDistinct
<1>10. /\ queue' = [m \in Line |-> queue'[m]]
       /\ queue'[l] = q /\ \A m \in Line : m # l => queue'[m] = queue[m]
  BY <1>7 DEF Places, Queues
<1>11. \A m \in Line : Distinct(queue'[m], Id')
  BY <1>8, <1>9, <1>10
<1>12. \A m \in Line : \A r \in ToSet(queue'[m]) : LineOf(request'[r].kind) = m
  <2>1. LineOf(request'[id].kind) = l
    BY <1>3, <1>5
  <2>2. \A m \in Line : \A r \in ToSet(queue[m]) : LineOf(request'[r].kind) = m
    BY <1>3, <1>8 DEF Places, Queues
  <2>3. QED
    BY <1>9, <1>10, <2>1, <2>2
<1>13. Queues'
  BY <1>10, <1>11, <1>12 DEF Queues
<1>14. Queued' = Queued \cup {id}
  BY <1>3, <1>8, <1>9, <1>10 DEF Queued
<1>15. /\ Distinct(completion, Id') /\ Distinct(batch, Id')
       /\ id \notin ToSet(completion) /\ id \notin ToSet(batch)
  BY <1>3, Wider, Members DEF Places, Distinct
<1>16. \A w \in Worker : At(w, "process")' => worker'[w].id \in Id /\ worker'[w].id # id
  BY <1>2, <1>3 DEF Places, At
<1>17. \A w \in Worker : \A r : Works(w, r)' <=> Works(w, r)
  BY <1>2 DEF Works, At
<1>18. Apart'
  <2>1. \A w \in Worker : ~ Works(w, id)'
    BY <1>16 DEF Works
  <2>2. \A r \in Id : r # id
    BY <1>3
  <2>3. QED
    BY <1>2, <1>3, <1>4, <1>14, <1>15, <1>17, <2>1, <2>2 DEF Places, Apart
<1>19. QED
  BY <1>2, <1>3, <1>13, <1>15, <1>16, <1>18 DEF Places

\* The frame takes the head of a queue that has no threads.
LEMMA PumpPlaces ==
  ASSUME Requests, Places, PumpRequest
  PROVE  Places'
<1>1. PICK l \in Line :
        /\ queue[l] # << >>
        /\ queue' = [queue EXCEPT ![l] = Tail(@)]
        /\ completion' = Append(completion, Head(queue[l]))
        /\ UNCHANGED <<request, worker, batch, called>>
  BY DEF PumpRequest, Unserved, history
<1>2. PICK r : r = Head(queue[l])
  OBVIOUS
<1>3. /\ Queues' /\ Id' = Id /\ r \in Queued /\ r \notin Queued' /\ Queued' \subseteq Queued
  BY <1>1, <1>2, TakeHead
<1>4. r \in Id /\ r \notin ToSet(completion)
  BY <1>3 DEF Queued, Places, Apart
<1>5. Distinct(completion', Id) /\ ToSet(completion') = ToSet(completion) \cup {r}
  BY <1>1, <1>2, <1>4, AppendDistinct DEF Places
<1>6. \A w \in Worker : \A x : Works(w, x)' <=> Works(w, x)
  BY <1>1 DEF Works, At
<1>7. Apart'
  BY <1>1, <1>3, <1>4, <1>5, <1>6 DEF Places, Apart
<1>8. QED
  BY <1>1, <1>3, <1>5, <1>7 DEF Places, At

\* A worker takes the head of its queue.
LEMMA PopPlaces ==
  ASSUME Requests, Pooled, Places, NEW w \in Worker, PopRequest(w)
  PROVE  Places'
<1>1. PICK l \in Line : l = LineOfWorker(w)
  BY DEF LineOfWorker, Line
<1>2. PICK r : r = Head(queue[l])
  OBVIOUS
<1>3. /\ queue[l] # << >>
      /\ queue' = [queue EXCEPT ![l] = Tail(@)]
      /\ worker' = [worker EXCEPT ![w] = [pc |-> "process", id |-> r]]
      /\ UNCHANGED <<request, completion, batch, called>>
  BY <1>1, <1>2 DEF PopRequest, Become, history
<1>4. /\ Queues' /\ Id' = Id /\ r \in Queued /\ r \notin Queued' /\ Queued' \subseteq Queued
  BY <1>1, <1>2, <1>3, TakeHead
<1>5. r \in Id /\ \A u \in Worker : ~ Works(u, r)
  BY <1>4 DEF Queued, Places, Apart
<1>6. /\ \A x : Works(w, x)' <=> x = r
      /\ \A u \in Worker : u # w => \A x : Works(u, x)' <=> Works(u, x)
  BY <1>3 DEF Works, At, Pooled
<1>7. Apart'
  BY <1>3, <1>4, <1>5, <1>6 DEF Places, Apart
<1>8. \A u \in Worker : At(u, "process")' => worker'[u].id \in Id
  BY <1>3, <1>5 DEF Places, At, Pooled
<1>9. QED
  BY <1>3, <1>4, <1>7, <1>8 DEF Places

\* A worker is done with its request.
LEMMA PushPlaces ==
  ASSUME Requests, Pooled, Places, NEW w \in Worker, PushCompletion(w)
  PROVE  Places'
<1>1. PICK r : r = worker[w].id
  OBVIOUS
<1>2. /\ At(w, "process")
      /\ completion' = Append(completion, r)
      /\ worker' = [worker EXCEPT ![w] = [pc |-> "loop", id |-> 0]]
      /\ UNCHANGED <<request, queue, batch, called>>
  BY <1>1 DEF PushCompletion, Become, history
<1>3. r \in Id /\ Works(w, r)
  BY <1>1, <1>2 DEF Places, Works
<1>4. /\ r \notin Queued \cup ToSet(completion) \cup ToSet(batch) /\ called[r] = 0
      /\ \A u \in Worker : Works(u, r) => u = w
  BY <1>3 DEF Places, Apart
<1>5. Distinct(completion', Id) /\ ToSet(completion') = ToSet(completion) \cup {r}
  BY <1>2, <1>3, <1>4, AppendDistinct DEF Places
<1>6. Id' = Id /\ Queued' = Queued /\ Queues'
  BY <1>2 DEF Id, Queued, Places, Queues
<1>7. /\ \A x : ~ Works(w, x)'
      /\ \A u \in Worker : u # w => \A x : Works(u, x)' <=> Works(u, x)
  BY <1>2 DEF Works, At, Pooled
<1>8. Apart'
  BY <1>2, <1>3, <1>4, <1>5, <1>6, <1>7 DEF Places, Apart
<1>9. \A u \in Worker : At(u, "process")' => worker'[u].id \in Id
  BY <1>2 DEF Places, At, Pooled
<1>10. QED
  BY <1>2, <1>5, <1>6, <1>8, <1>9 DEF Places

\* The frame takes the completions.
LEMMA SwapPlaces ==
  ASSUME Requests, Places, SwapCompletions
  PROVE  Places'
<1>1. /\ batch' = completion /\ completion' = << >>
      /\ UNCHANGED <<request, queue, worker, called>>
  BY DEF SwapCompletions, history
<1>2. Id' = Id /\ Queued' = Queued /\ Queues' /\ Distinct(<< >>, Id) /\ ToSet(<< >>) = {}
  BY <1>1, EmptyDistinct DEF Id, Queued, Places, Queues
<1>3. \A w \in Worker : \A x : Works(w, x)' <=> Works(w, x)
  BY <1>1 DEF Works, At
<1>4. Apart'
  BY <1>1, <1>2, <1>3 DEF Places, Apart
<1>5. QED
  BY <1>1, <1>2, <1>4 DEF Places, At

\* A callback runs for the head of the batch, which is nowhere else.
LEMMA CallbackPlaces ==
  ASSUME Requests, Places, Callback
  PROVE  Places'
<1>1. PICK r : r = Head(batch)
  OBVIOUS
<1>2. /\ called' = [called EXCEPT ![r] = @ + 1]
      /\ batch # << >>
      /\ UNCHANGED <<request, queue, completion, batch, worker>>
  BY <1>1 DEF Callback, shared
<1>3. r \in ToSet(batch) /\ r \in Id
  BY <1>1, <1>2, TailDistinct, Members DEF Places, Distinct
<1>4. Id' = Id /\ Queued' = Queued /\ Queues'
  BY <1>2 DEF Id, Queued, Places, Queues
<1>5. \A w \in Worker : \A x : Works(w, x)' <=> Works(w, x)
  BY <1>2 DEF Works, At
<1>6. \A x \in Id : x # r => called'[x] = called[x]
  BY <1>2, IdIn DEF Requests
<1>7. Apart'
  BY <1>2, <1>3, <1>4, <1>5, <1>6 DEF Places, Apart
<1>8. QED
  BY <1>2, <1>4, <1>7 DEF Places, At

\* The other steps only take requests out of places.
LEMMA OthersPlaces ==
  ASSUME Requests, Calls, Served, Pooled, Places,
         \/ Notify \/ CancelActive \/ ClearCompletions \/ ClearActive \/ Update \/ PumpEnds
         \/ SkipCancelled \/ EraseServed \/ UpdateEnds \/ WakeAll \/ Join
         \/ \E id \in Id : CancelRequest(id)
         \/ CancelAllRequests \/ Shutdown \/ UNCHANGED vars
         \/ \E threads \in Pools : Initialize(threads)
         \/ \E w \in Worker : ThreadProc(w) \/ PredicateFalse(w) \/ FallAsleep(w) \/ WaitStops(w)
  PROVE  Places'
<1> DEFINE Same(s, t) == Distinct(t, Id) /\ ToSet(t) \subseteq ToSet(s)
<1>1. \A l \in Line : Same(queue[l], << >>) /\ Same(queue[l], queue[l])
  BY EmptyDistinct DEF Places, Queues
<1>2. \A l \in Line : \A id : Same(queue[l], RemoveFirst(queue[l], id))
  BY RemoveFirstDistinct DEF Places, Queues
<1>3. Same(completion, << >>) /\ Same(completion, completion) /\ Same(batch, batch)
  BY EmptyDistinct DEF Places
<1>4. \A id : Same(completion, RemoveFirst(completion, id))
  BY RemoveFirstDistinct DEF Places
<1>5. batch # << >> => Same(batch, Tail(batch))
  BY TailDistinct DEF Places
<1>6. queue = [l \in Line |-> queue[l]]
  BY DEF Places, Queues
<1> DEFINE Stays(w) == At(w, "process")' => At(w, "process") /\ worker'[w].id = worker[w].id
<1>7. UNCHANGED worker => \A w \in Worker : Stays(w)
  BY DEF At
<1>8. NotifyAll => \A w \in Worker : Stays(w)
  BY DEF NotifyAll, Awake, At, Pooled
<1>9. \A w \in Worker : \A pc : pc # "process" /\ Become(w, pc, 0) => \A u \in Worker : Stays(u)
  BY DEF Become, At, Pooled
<1> DEFINE Q == queue' = [l \in Line |-> queue'[l]] /\ \A l \in Line : Same(queue[l], queue'[l])
           K == UNCHANGED <<request, called>>
           W == \A w \in Worker : Stays(w)
<1> HIDE DEF Same, Stays
<1>10. UNCHANGED queue => Q
  BY <1>1, <1>6
<1>11. queue' = [l \in Line |-> << >>] => Q
  BY <1>1
<1>12. K /\ Q /\ W /\ Same(completion, completion') /\ Same(batch, batch')
  <2>1. CASE Notify \/ WakeAll
    <3>1. K /\ UNCHANGED <<queue, completion, batch>> /\ NotifyAll
      BY <2>1 DEF Notify, WakeAll, shared, history
    <3>2. QED
      BY <3>1, <1>3, <1>8, <1>10
  <2>2. CASE CancelActive
    <3>1. K /\ UNCHANGED <<queue, worker, batch>> /\ completion' = RemoveFirst(completion, main.id)
      BY <2>2 DEF CancelActive
    <3>2. QED
      BY <3>1, <1>3, <1>4, <1>7, <1>10
  <2>3. CASE ClearCompletions
    <3>1. K /\ UNCHANGED <<queue, worker, batch>> /\ completion' = << >>
      BY <2>3 DEF ClearCompletions, history
    <3>2. QED
      BY <3>1, <1>3, <1>7, <1>10
  <2>4. CASE ClearActive \/ Update \/ PumpEnds \/ UpdateEnds \/ Shutdown \/ UNCHANGED vars
    <3>1. K /\ UNCHANGED <<queue, worker, batch, completion>>
      BY <2>4 DEF ClearActive, Update, PumpEnds, UpdateEnds, Shutdown, vars, shared, history
    <3>2. QED
      BY <3>1, <1>3, <1>7, <1>10
  <2>5. CASE SkipCancelled \/ EraseServed
    <3>1. K /\ UNCHANGED <<queue, worker, completion>> /\ batch' = Tail(batch)
      BY <2>5 DEF SkipCancelled, EraseServed, shared, history
    <3>2. batch # << >>
      BY <2>5 DEF SkipCancelled, EraseServed, Calls, Served
    <3>3. QED
      BY <3>1, <3>2, <1>3, <1>5, <1>7, <1>10
  <2>6. ASSUME NEW id \in Id, CancelRequest(id)
        PROVE  K /\ Q /\ W /\ Same(completion, completion') /\ Same(batch, batch')
    <3>1. K /\ UNCHANGED <<worker, completion, batch>>
          /\ queue' = [l \in Line |-> RemoveFirst(queue[l], id)]
      BY <2>6 DEF CancelRequest, history
    <3>2. Q
      BY <3>1, <1>2
    <3>3. QED
      BY <3>1, <3>2, <1>3, <1>7
  <2>7. CASE CancelAllRequests
    <3>1. K /\ UNCHANGED <<worker, completion, batch>> /\ queue' = [l \in Line |-> << >>]
      BY <2>7 DEF CancelAllRequests, history
    <3>2. QED
      BY <3>1, <1>3, <1>7, <1>11
  <2>8. CASE Join
    <3>1. K /\ UNCHANGED <<worker, batch>> /\ completion' = << >> /\ queue' = [l \in Line |-> << >>]
      BY <2>8 DEF Join, history
    <3>2. QED
      BY <3>1, <1>3, <1>7, <1>11
  <2>9. ASSUME NEW threads \in Pools, Initialize(threads)
        PROVE  K /\ Q /\ W /\ Same(completion, completion') /\ Same(batch, batch')
    <3>1. /\ K /\ UNCHANGED batch /\ completion' = << >> /\ queue' = [l \in Line |-> << >>]
          /\ worker' = [w \in Worker |-> IF w \in threads THEN Looping ELSE Off]
      BY <2>9 DEF Initialize
    <3>2. W
      BY <3>1 DEF Stays, At, Looping, Off
    <3>3. QED
      BY <3>1, <3>2, <1>3, <1>11
  <2>10. ASSUME NEW w \in Worker, ThreadProc(w) \/ PredicateFalse(w) \/ FallAsleep(w) \/ WaitStops(w)
         PROVE  K /\ Q /\ W /\ Same(completion, completion') /\ Same(batch, batch')
    <3>1. K /\ UNCHANGED <<queue, completion, batch>>
          /\ \E pc \in {"off", "wait", "blocking", "asleep", "loop"} : Become(w, pc, 0)
      BY <2>10 DEF ThreadProc, PredicateFalse, FallAsleep, WaitStops, shared, history
    <3>2. W
      BY <3>1, <1>9
    <3>3. QED
      BY <3>1, <3>2, <1>3, <1>10
  <2>11. QED
    BY <2>1, <2>2, <2>3, <2>4, <2>5, <2>6, <2>7, <2>8, <2>9, <2>10
<1>13. QED
  BY <1>12, Shrink DEF Same, Stays

\* A batch is left behind only when no callback runs.
LEMMA NextServed ==
  ASSUME Calls, Served, [Next]_vars
  PROVE  Served'
<1>1. ASSUME NEW w \in Worker, WorkerStep(w)
      PROVE  UNCHANGED <<serving, batch>>
  BY <1>1 DEF WorkerStep, ThreadProc, PredicateFalse, FallAsleep, WaitStops, PopRequest, PushCompletion
<1>2. CASE SwapCompletions \/ SkipCancelled \/ EraseServed \/ Callback
  BY <1>2 DEF SwapCompletions, SkipCancelled, EraseServed, Callback, Calls, Served, InCall
<1>3. CASE \/ \E s \in Submittable : SubmitRequest(s[1], s[2])
           \/ \E id \in Id : CancelRequest(id)
           \/ CancelAllRequests \/ Shutdown \/ UNCHANGED vars
           \/ \E threads \in Pools : Initialize(threads)
  BY <1>3 DEF SubmitRequest, CancelRequest, CancelAllRequests, Shutdown, vars, Initialize, Served
<1>4. CASE \/ Notify \/ CancelActive \/ ClearCompletions \/ ClearActive \/ Update \/ PumpRequest
           \/ PumpEnds \/ UpdateEnds \/ WakeAll \/ Join
  BY <1>4 DEF Notify, CancelActive, ClearCompletions, ClearActive, Update, PumpRequest, PumpEnds,
       UpdateEnds, WakeAll, Join, Served
<1>5. QED
  BY <1>1, <1>2, <1>3, <1>4 DEF Next, MainStep, Call, Served

LEMMA NextPlaces ==
  ASSUME Requests, Calls, Served, Pooled, Places, [Next]_vars
  PROVE  Places'
<1>1. ASSUME NEW s \in Submittable, SubmitRequest(s[1], s[2])
      PROVE  Places'
  <2>1. s = <<s[1], s[2]>>
    BY AsyncIOAssumption
  <2>2. QED
    BY <1>1, <2>1, SubmitPlaces
<1>2. ASSUME NEW w \in Worker, WorkerStep(w)
      PROVE  Places'
  BY <1>2, PopPlaces, PushPlaces, OthersPlaces DEF WorkerStep
<1>3. CASE PumpRequest \/ SwapCompletions \/ Callback
  BY <1>3, PumpPlaces, SwapPlaces, CallbackPlaces
<1>4. CASE \/ Notify \/ CancelActive \/ ClearCompletions \/ ClearActive \/ Update \/ PumpEnds
           \/ SkipCancelled \/ EraseServed \/ UpdateEnds \/ WakeAll \/ Join
           \/ \E id \in Id : CancelRequest(id)
           \/ CancelAllRequests \/ Shutdown \/ UNCHANGED vars
           \/ \E threads \in Pools : Initialize(threads)
  BY <1>4, OthersPlaces
<1>5. QED
  BY <1>1, <1>2, <1>3, <1>4 DEF Next, MainStep, Call

-----------------------------------------------------------------------------
(* The buffers.                                                            *)

\* At first nothing is anywhere.
LEMMA InitPlaces == Init => Served /\ Pooled /\ Places
<1> SUFFICES ASSUME Init
             PROVE  Served /\ Pooled /\ Places
  OBVIOUS
<1>1. Id = {}
  BY EmptySeq DEF Init, Id
<1>2. Distinct(<< >>, Id) /\ ToSet(<< >>) = {}
  BY EmptyDistinct
<1>3. Queues
  BY <1>2 DEF Init, Queues
<1>4. Pooled
  BY DEF Init, Pooled, Off, WorkerPc, At
<1>5. QED
  BY <1>1, <1>2, <1>3, <1>4 DEF Init, Served, Places, Apart, At, Off

\* What the state keeps.
IOInv == Requests /\ Calls /\ Served /\ Pooled /\ Places

LEMMA PlacesInvariant == Spec => []IOInv
<1>1. Init => IOInv
  BY InitCalls, InitPlaces DEF IOInv
<1>2. IOInv /\ [Next]_vars => IOInv'
  BY NextCalls, NextServed, NextPooled, NextPlaces DEF IOInv
<1>3. QED
  BY <1>1, <1>2, PTL DEF Spec

\* When a callback runs, no worker is on the buffers of its request, and when
\* Shutdown has returned none is on any.
THEOREM QuietBuffers == Spec => []BuffersQuiet
<1>1. IOInv => BuffersQuiet
  BY DEF IOInv, Pooled, Places, Apart, Works, BuffersQuiet, At
<1>2. QED
  BY <1>1, PlacesInvariant, PTL
-----------------------------------------------------------------------------
(* The memory pool: a block, the pool's own list, and what is lent.        *)
PoolBlock == [at : Nat, size : Nat \ {0}, padding : Nat, freed : BOOLEAN]

Loan == [at : Nat, size : Nat]

(* The list is in the order of addresses and below the top, padding and    *)
(* all; this also holds of a part of it.                                   *)
Stacked(list, top) ==
  /\ list \in Seq(PoolBlock)
  /\ \A i \in 1 .. Len(list) :
       base + list[i].padding <= list[i].at /\ list[i].at + list[i].size <= base + top
  /\ \A i, j \in 1 .. Len(list) :
       i < j => list[i].at + list[i].size + list[j].padding <= list[j].at

(* What is lent is in a block of its own that is not freed.                *)
Backed(loans, list) ==
  /\ loans \subseteq Loan
  /\ \A b \in loans : \E i \in 1 .. Len(list) :
       ~list[i].freed /\ list[i].at = b.at /\ b.size <= list[i].size
  /\ \A b, c \in loans : b.at = c.at => b = c

PoolInv ==
  /\ base \in Nat /\ used \in 0 .. PoolSize
  /\ base = 0 => allocations = <<>> /\ lent = {} /\ used = 0
  /\ Stacked(allocations, used)
  /\ Backed(lent, allocations)

\* Rounding up to a multiple adds less than one of them.
LEMMA RoundedUp ==
  ASSUME NEW v \in Nat, NEW alignment \in Nat \ {0}
  PROVE  RoundUp(v, alignment) \in v .. v + alignment - 1 /\ RoundUp(v, alignment) \in Nat
<1>1. alignment \in Nat \ {0}
  OBVIOUS
<1>2. (v + alignment - 1) % alignment \in 0 .. alignment - 1
  BY <1>1
<1>3. v + alignment - 1 \in Nat
  BY <1>1
<1> DEFINE r == (v + alignment - 1) % alignment
<1>4. RoundUp(v, alignment) = v + alignment - 1 - r
  BY <1>1, <1>2 DEF RoundUp
<1>5. r \in 0 .. alignment - 1
  BY <1>2
<1> HIDE DEF r
<1>6. QED
  BY <1>1, <1>4, <1>5

\* A place that is looked for from the end is the last of those that pass.
LEMMA LastPlace ==
  ASSUME NEW n \in Nat, NEW I, I \subseteq 1 .. n, I # {}
  PROVE  Max(I) \in I /\ \A i \in I : i <= Max(I)
<1> DEFINE J == {n - i : i \in I}
<1>0. \A i \in I : i \in 1 .. n /\ n - i \in Nat
  OBVIOUS
<1>1. J \subseteq Nat /\ J # {}
  BY <1>0
<1>2. \E m \in J : \A i \in J : ~ (<<i, m>> \in OpToRel(<, Nat))
  BY <1>1, WFMin, NatLessThanWellFounded
<1>3. PICK m \in J : \A i \in J : ~ (i < m)
  BY <1>1, <1>2 DEF OpToRel
<1>4. PICK k \in I : m = n - k
  BY <1>3
<1>5. \A i \in I : i <= k
  <2> TAKE i \in I
  <2>1. ~ (n - i < n - k)
    BY <1>3, <1>4
  <2>2. i \in Int /\ k \in Int
    BY <1>0
  <2>3. QED
    BY <2>1, <2>2
<1>6. QED
  BY <1>5 DEF Max

\* The first place that passes, passes.
LEMMA FirstOf ==
  ASSUME NEW n \in Nat, NEW I, I \subseteq 1 .. n, I # {}
  PROVE  Min(I) \in I
<1>1. I \subseteq Nat
  OBVIOUS
<1>2. \E m \in I : \A i \in I : ~ (<<i, m>> \in OpToRel(<, Nat))
  BY <1>1, WFMin, NatLessThanWellFounded
<1>3. PICK m \in I : \A i \in I : ~ (i < m)
  BY <1>1, <1>2 DEF OpToRel
<1>4. \A i \in I : m <= i
  BY <1>1, <1>3
<1>5. QED
  BY <1>4 DEF Min

\* Some of the numbers up to n can be counted off in their order: take a least
\* n for which they cannot.
Increasing(f, K) ==
  f \in [1 .. Cardinality(K) -> K] /\ \A i, j \in 1 .. Cardinality(K) : i < j => f[i] < f[j]

LEMMA CountedOff ==
  ASSUME NEW n \in Nat, NEW K, K \subseteq 1 .. n
  PROVE  \E f : Increasing(f, K)
<1> DEFINE Fails(m) == \E L : L \subseteq 1 .. m /\ ~ \E f : Increasing(f, L)
           N == {m \in Nat : Fails(m)}
<1>1. SUFFICES N = {}
  <2>1. n \notin N
    BY <1>1
  <2>2. QED
    BY <2>1
<1>2. SUFFICES ASSUME N # {}
               PROVE  FALSE
  OBVIOUS
<1>3. N \subseteq Nat
  OBVIOUS
<1> HIDE DEF N
<1>4. \E m \in N : \A i \in N : ~ (<<i, m>> \in OpToRel(<, Nat))
  BY <1>2, <1>3, WFMin, NatLessThanWellFounded
<1>5. PICK m \in N : \A i \in N : ~ (i < m)
  BY <1>3, <1>4 DEF OpToRel
<1>6. m \in Nat /\ Fails(m)
  BY DEF N
<1>7. PICK L : L \subseteq 1 .. m /\ ~ \E f : Increasing(f, L)
  BY <1>6
<1>8. IsFiniteSet(L) /\ Cardinality(L) \in Nat
  <2>1. IsFiniteSet(1 .. m)
    BY <1>6, FS_Interval
  <2>2. QED
    BY <2>1, <1>7, FS_Subset, FS_CardinalityType
<1>9. m \in L
  <2> SUFFICES ASSUME m \notin L
               PROVE  FALSE
    OBVIOUS
  <2>1. CASE m = 0
    <3>1. L = {}
      BY <2>1, <1>7
    <3>2. Cardinality(L) = 0
      BY <3>1, FS_EmptySet
    <3>3. Increasing(<< >>, L)
      BY <3>1, <3>2 DEF Increasing
    <3>4. QED
      BY <3>3, <1>7
  <2>2. CASE m # 0
    <3>1. m - 1 \in Nat /\ m - 1 < m /\ L \subseteq 1 .. m - 1
      BY <2>2, <1>6, <1>7
    <3>2. Fails(m - 1)
      BY <3>1, <1>7
    <3>3. QED
      BY <3>1, <3>2, <1>5 DEF N
  <2>3. QED
    BY <2>1, <2>2
<1> DEFINE M == L \ {m}
           c == Cardinality(M)
<1>10. c \in Nat /\ Cardinality(L) = c + 1 /\ M \subseteq 1 .. m - 1 /\ m - 1 \in Nat /\ m - 1 < m
  <2>1. IsFiniteSet(M) /\ c = Cardinality(L) - 1
    BY <1>8, <1>9, FS_RemoveElement
  <2>2. c \in Nat
    BY <2>1, FS_CardinalityType
  <2>3. M \subseteq 1 .. m - 1 /\ m - 1 \in Nat /\ m - 1 < m
    BY <1>6, <1>7, <1>9
  <2>4. QED
    BY <2>1, <2>2, <2>3, <1>8
<1>11. PICK f : Increasing(f, M)
  <2>1. ~ Fails(m - 1)
    BY <1>10, <1>5 DEF N
  <2>2. QED
    BY <2>1, <1>10
<1> DEFINE g == [i \in 1 .. c + 1 |-> IF i = c + 1 THEN m ELSE f[i]]
<1>12. \A i \in 1 .. c : f[i] \in M /\ f[i] \in 1 .. m - 1
  BY <1>10, <1>11 DEF Increasing
<1>13. \A i, j \in 1 .. c : i < j => f[i] < f[j]
  BY <1>11 DEF Increasing
<1>14. \A i \in 1 .. c + 1 : i = c + 1 \/ i \in 1 .. c
  BY <1>10
<1> HIDE DEF c
<1>15. Increasing(g, L)
  <2>1. g \in [1 .. Cardinality(L) -> L]
    BY <1>9, <1>10, <1>12, <1>14
  <2>2. \A i, j \in 1 .. c + 1 : i < j => g[i] < g[j]
    BY <1>6, <1>10, <1>12, <1>13, <1>14
  <2>3. QED
    BY <2>1, <2>2, <1>10 DEF Increasing
<1>16. QED
  BY <1>15, <1>7

\* The blocks that are kept, in the order of addresses, are the old ones.
LEMMA KeptInOrder ==
  ASSUME NEW list \in Seq(PoolBlock),
         \A i, j \in 1 .. Len(list) : i < j => list[i].at < list[j].at,
         NEW K, K \subseteq 1 .. Len(list)
  PROVE  LET s == ByAddress({list[k] : k \in K})
         IN  \E f : /\ s = [i \in 1 .. Cardinality(K) |-> list[f[i]]]
                    /\ f \in [1 .. Cardinality(K) -> K]
                    /\ \A k \in K : \E i \in 1 .. Cardinality(K) : f[i] = k
                    /\ \A i, j \in 1 .. Cardinality(K) : i < j => f[i] < f[j]
<1> DEFINE S == {list[k] : k \in K}
           n == Cardinality(K)
<1>1. Len(list) \in Nat /\ \A k \in K : k \in 1 .. Len(list) /\ list[k] \in PoolBlock /\ list[k].at \in Nat
  <2>1. \A k \in 1 .. Len(list) : list[k] \in PoolBlock
    BY ElementOfSeq
  <2>2. \A k \in 1 .. Len(list) : list[k].at \in Nat
    BY <2>1 DEF PoolBlock
  <2>3. QED
    BY <2>1, <2>2, LenProperties
<1>2. IsFiniteSet(K) /\ n \in Nat
  <2>1. IsFiniteSet(1 .. Len(list))
    BY <1>1, FS_Interval
  <2>2. QED
    BY <2>1, FS_Subset, FS_CardinalityType
<1>3. \A j, k \in K : list[j] = list[k] => j = k
  BY <1>1
<1>4. IsFiniteSet(S) /\ Cardinality(S) = n
  <2> DEFINE b == [k \in K |-> list[k]]
  <2>1. b \in Bijection(K, S)
    BY <1>3 DEF Bijection, Injection, Surjection, IsInjective
  <2>2. ExistsBijection(K, S)
    BY <2>1 DEF ExistsBijection
  <2>3. QED
    BY <2>2, <1>2, FS_Bijection
<1> DEFINE Ordered(s) == s \in [1 .. n -> S] /\ \A i, j \in 1 .. n : i < j => s[i].at < s[j].at
<1> HIDE DEF n
<1>5. PICK f : Increasing(f, K)
  BY <1>1, CountedOff
<1>6. f \in [1 .. n -> K] /\ \A i, j \in 1 .. n : i < j => f[i] < f[j]
  BY <1>5 DEF Increasing, n
<1>7. Ordered([i \in 1 .. n |-> list[f[i]]])
  BY <1>1, <1>6
<1> DEFINE s == ByAddress(S)
<1>8. s = CHOOSE t \in [1 .. n -> S] : \A i, j \in DOMAIN t : i < j => t[i].at < t[j].at
  BY <1>4 DEF ByAddress
<1>9. \A t : Ordered(t) <=> t \in [1 .. n -> S] /\ \A i, j \in DOMAIN t : i < j => t[i].at < t[j].at
  OBVIOUS
<1>10. Ordered(s)
  BY <1>7, <1>8, <1>9
<1> HIDE DEF s
<1>11. \A i \in 1 .. n : \E k \in K : s[i] = list[k]
  BY <1>10
<1> DEFINE g == [i \in 1 .. n |-> CHOOSE k \in K : s[i] = list[k]]
<1>12. \A i \in 1 .. n : g[i] \in K /\ s[i] = list[g[i]]
  BY <1>11
<1>13. DOMAIN s = 1 .. n /\ g \in [1 .. n -> K] /\ s = [i \in 1 .. n |-> s[i]]
  BY <1>10, <1>12
<1> HIDE DEF g
<1>14. \A k \in K : k \in 1 .. Len(list) /\ k \in Int /\ list[k].at \in Int
  BY <1>1
<1>15. \A i, j \in 1 .. n : i < j => g[i] < g[j]
  <2> SUFFICES ASSUME NEW i \in 1 .. n, NEW j \in 1 .. n, i < j
               PROVE  g[i] < g[j]
    OBVIOUS
  <2>1. list[g[i]].at < list[g[j]].at /\ g[i] \in K /\ g[j] \in K
    BY <1>10, <1>12
  <2>2. g[i] \in 1 .. Len(list) /\ g[j] \in 1 .. Len(list)
    BY <2>1, <1>14
  <2>3. g[i] \in Int /\ g[j] \in Int /\ list[g[i]].at \in Int /\ list[g[j]].at \in Int
    BY <2>1, <1>14
  <2>4. ~ (g[j] < g[i]) /\ g[i] # g[j]
    BY <2>1, <2>2, <2>3
  <2>5. QED
    BY <2>3, <2>4
<1>16. \A k \in K : \E i \in 1 .. n : g[i] = k
  <2>1. g \in Injection(1 .. n, K)
    <3>1. \A i, j \in 1 .. n : g[i] = g[j] => i = j
      <4> SUFFICES ASSUME NEW i \in 1 .. n, NEW j \in 1 .. n, g[i] = g[j]
                   PROVE  i = j
        OBVIOUS
      <4>1. g[i] \in Int /\ g[j] \in Int
        BY <1>12, <1>14
      <4>2. ~ (i < j) /\ ~ (j < i)
        BY <4>1, <1>15
      <4>3. QED
        BY <4>2, <1>2
    <3>2. QED
      BY <3>1, <1>13 DEF Injection, IsInjective
  <2>2. Cardinality(1 .. n) = n
    BY <1>2, FS_Interval
  <2>3. g \in Surjection(1 .. n, K)
    BY <2>1, <2>2, <1>2, FS_Injection DEF n
  <2>4. QED
    BY <2>3 DEF Surjection
<1>17. QED
  BY <1>12, <1>13, <1>15, <1>16 DEF s, n

\* A new block lies above all others, below the end of the pool.
LEMMA AllocateKeeps ==
  ASSUME PoolInv, NEW size \in Sizes, NEW alignment \in Alignments, Allocate(size, alignment)
  PROVE  PoolInv'
<1> DEFINE whole == RoundUp(size, alignment)
           padding == RoundUp(base + used, alignment) - (base + used)
           e == [at |-> base + used + padding, size |-> whole, padding |-> padding, freed |-> FALSE]
<1>1. /\ base \in Nat /\ base # 0 /\ used \in Nat /\ used <= PoolSize /\ PoolSize \in Nat
      /\ size \in Nat \ {0} /\ AddressSize \in Nat \ {0} /\ alignment \in Nat \ {0}
      /\ Stacked(allocations, used) /\ Backed(lent, allocations)
  <2>1. base # 0 /\ size # 0 /\ alignment > 0
    BY DEF Allocate, IsPowerOfTwo
  <2>2. alignment \in Nat \ {0}
    BY <2>1, PoolAssumption
  <2>3. AddressSize \in Nat \ {0} /\ PoolSize \in Nat /\ size \in Nat
    BY PoolAssumption
  <2>4. QED
    BY <2>1, <2>2, <2>3 DEF PoolInv
<1>2. base + used \in Nat
  BY <1>1
<1>3. whole \in Nat /\ size <= whole /\ whole <= size + alignment - 1
  BY <1>1, RoundedUp
<1>4. padding \in Nat
  <2>1. /\ RoundUp(base + used, alignment) \in base + used .. base + used + alignment - 1
        /\ RoundUp(base + used, alignment) \in Nat
    BY <1>1, <1>2, RoundedUp
  <2>2. QED
    BY <2>1, <1>1, <1>2
<1>5. /\ Fits(size, alignment, padding)
      /\ allocations' = Append(allocations,
           [at |-> base + used + padding, size |-> whole % AddressSize, padding |-> padding, freed |-> FALSE])
      /\ used' = used + padding + (whole % AddressSize)
      /\ lent' = lent \cup {[at |-> base + used + padding, size |-> size]}
      /\ base' = base
  BY DEF Allocate
<1> HIDE DEF whole, padding
<1>6. whole <= AddressSize - 1 /\ used + padding + whole <= PoolSize
  <2>1. size <= AddressSize - 1 - (alignment - 1) /\ whole <= PoolSize - used - padding
    BY <1>5 DEF Fits, whole
  <2>2. QED
    BY <2>1, <1>1, <1>3, <1>4
<1>7. whole % AddressSize = whole
  BY <1>1, <1>3, <1>6
<1>8. /\ allocations' = Append(allocations, e) /\ used' = used + padding + whole
      /\ e \in PoolBlock
      /\ e.at = base + used + padding /\ e.size = whole /\ e.padding = padding /\ ~e.freed
  <2>1. /\ e.at = base + used + padding /\ e.size = whole /\ e.padding = padding /\ ~e.freed
        /\ base + used + padding \in Nat /\ whole \in Nat \ {0}
    BY <1>1, <1>3, <1>4
  <2>2. e \in PoolBlock
    BY <2>1, <1>4 DEF PoolBlock
  <2>3. allocations' = Append(allocations, e) /\ used' = used + padding + whole
    BY <1>5, <1>7
  <2>4. QED
    BY <2>1, <2>2, <2>3
<1> HIDE DEF e
<1>9. PICK n \in Nat : n = Len(allocations)
  BY <1>1, LenProperties DEF Stacked
<1>10. /\ allocations' \in Seq(PoolBlock) /\ Len(allocations') = n + 1
       /\ \A i \in 1 .. n : allocations'[i] = allocations[i]
       /\ allocations'[n + 1] = e
  BY <1>1, <1>8, <1>9, AppendProperties DEF Stacked
<1>11. \A i \in 1 .. n : /\ allocations[i].at \in Nat /\ allocations[i].size \in Nat \ {0} /\ allocations[i].padding \in Nat
                         /\ base + allocations[i].padding <= allocations[i].at
                         /\ allocations[i].at + allocations[i].size <= base + used
  <2>1. \A i \in 1 .. n : allocations[i] \in PoolBlock
    BY <1>1, <1>9, ElementOfSeq DEF Stacked
  <2>2. \A i \in 1 .. n : allocations[i].at \in Nat /\ allocations[i].size \in Nat \ {0} /\ allocations[i].padding \in Nat
    BY <2>1 DEF PoolBlock
  <2>3. \A i \in 1 .. n : /\ base + allocations[i].padding <= allocations[i].at
                         /\ allocations[i].at + allocations[i].size <= base + used
    BY <1>1, <1>9 DEF Stacked
  <2>4. QED
    BY <2>2, <2>3
<1>12. \A i \in 1 .. n + 1 : i \in 1 .. n \/ i = n + 1
  OBVIOUS
<1>13. Stacked(allocations, used)'
  <2>1. \A i \in 1 .. n + 1 :
          /\ base + allocations'[i].padding <= allocations'[i].at
          /\ allocations'[i].at + allocations'[i].size <= base + used'
    <3> TAKE i \in 1 .. n + 1
    <3>1. CASE i \in 1 .. n
      <4>1. base + used <= base + used' /\ base + used' \in Nat
        BY <1>1, <1>3, <1>4, <1>8
      <4>2. allocations'[i] = allocations[i]
        BY <3>1, <1>10
      <4>3. allocations[i].at + allocations[i].size <= base + used'
        BY <3>1, <4>1, <1>1, <1>11
      <4>4. QED
        BY <4>2, <4>3, <3>1, <1>11
    <3>2. CASE i = n + 1
      BY <3>2, <1>1, <1>3, <1>4, <1>8, <1>10
    <3>3. QED
      BY <3>1, <3>2, <1>12
  <2>2. ASSUME NEW i \in 1 .. n + 1, NEW j \in 1 .. n + 1, i < j
        PROVE  allocations'[i].at + allocations'[i].size + allocations'[j].padding <= allocations'[j].at
    <3>1. i \in 1 .. n
      BY <2>2
    <3>2. CASE j \in 1 .. n
      <4>1. allocations[i].at + allocations[i].size + allocations[j].padding <= allocations[j].at
        BY <3>1, <3>2, <2>2, <1>1, <1>9 DEF Stacked
      <4>2. QED
        BY <4>1, <3>1, <3>2, <1>10
    <3>3. CASE j = n + 1
      <4>1. allocations[i].at + allocations[i].size <= base + used
        BY <3>1, <1>11
      <4>2. base + used + e.padding <= e.at
        BY <1>1, <1>4, <1>8
      <4>3. allocations[i].at + allocations[i].size + e.padding <= e.at
        BY <4>1, <4>2, <3>1, <1>1, <1>4, <1>8, <1>11
      <4>4. QED
        BY <4>3, <3>1, <3>3, <1>10
    <3>4. QED
      BY <3>2, <3>3, <1>12
  <2>3. QED
    BY <2>1, <2>2, <1>5, <1>10 DEF Stacked
<1>14. Backed(lent, allocations)'
  <2> DEFINE loan == [at |-> base + used + padding, size |-> size]
  <2>1. loan \in Loan /\ loan.at = e.at /\ loan.size <= e.size /\ lent' = lent \cup {loan}
    BY <1>1, <1>3, <1>4, <1>5, <1>8 DEF Loan
  <2>2. \A b \in lent : b \in Loan /\ \E i \in 1 .. n :
          ~allocations[i].freed /\ allocations[i].at = b.at /\ b.size <= allocations[i].size
    BY <1>1, <1>9 DEF Backed
  <2>3. \A i \in 1 .. n : allocations[i].at < e.at
    <3> TAKE i \in 1 .. n
    <3>1. allocations[i].at \in Nat /\ allocations[i].size \in Nat \ {0}
          /\ allocations[i].at + allocations[i].size <= base + used
      BY <1>11
    <3>2. base + used <= e.at
      BY <1>1, <1>4, <1>8
    <3>3. e.at \in Nat
      BY <1>1, <1>4, <1>8
    <3>4. QED
      BY <3>1, <3>2, <3>3, <1>1
  <2> HIDE DEF loan
  <2>4. \A b \in lent : b.at # loan.at
    BY <2>1, <2>2, <2>3, <1>11
  <2>5. \A b, c \in lent' : b.at = c.at => b = c
    BY <2>1, <2>4, <1>1 DEF Backed
  <2>6. \A b \in lent' : \E i \in 1 .. n + 1 :
          ~allocations'[i].freed /\ allocations'[i].at = b.at /\ b.size <= allocations'[i].size
    <3> TAKE b \in lent'
    <3>1. CASE b = loan
      BY <3>1, <2>1, <1>8, <1>10
    <3>2. CASE b \in lent
      <4>1. PICK i \in 1 .. n : ~allocations[i].freed /\ allocations[i].at = b.at /\ b.size <= allocations[i].size
        BY <3>2, <2>2
      <4>2. i \in 1 .. n + 1 /\ allocations'[i] = allocations[i]
        BY <1>10
      <4>3. QED
        BY <4>1, <4>2
    <3>3. QED
      BY <3>1, <3>2, <2>1
  <2>7. QED
    BY <2>1, <2>2, <2>5, <2>6, <1>10 DEF Backed
<1>15. used' \in 0 .. PoolSize /\ base' \in Nat /\ base' # 0
  BY <1>1, <1>3, <1>4, <1>5, <1>6, <1>8
<1>16. QED
  BY <1>13, <1>14, <1>15 DEF PoolInv

\* A block that comes back: it is marked, and the marked ones above all that
\* are lent leave the list; the top comes down to where the lowest of them began.
LEMMA FreeKeeps ==
  ASSUME PoolInv, NEW block \in lent, Free(block)
  PROVE  PoolInv'
<1>1. PICK n \in Nat : n = Len(allocations)
  BY LenProperties DEF PoolInv, Stacked
<1> DEFINE I == {i \in 1 .. n : ~allocations[i].freed /\ allocations[i].at = block.at}
           k == SelectInSeq(allocations, LAMBDA a : ~a.freed /\ a.at = block.at)
<1>2. k = IF I # {} THEN Min(I) ELSE 0
  BY <1>1 DEF SelectInSeq
<1>3. /\ k # 0 /\ allocations' = Freed(k).list /\ used' = Freed(k).used
      /\ lent' = lent \ {block} /\ base' = base
  BY DEF Free
<1>4. k \in 1 .. n /\ ~allocations[k].freed /\ allocations[k].at = block.at
  <2>1. I # {} /\ I \subseteq 1 .. n
    BY <1>2, <1>3
  <2>2. Min(I) \in I
    BY <2>1, <1>1, FirstOf
  <2>3. QED
    BY <2>1, <2>2, <1>2
<1> HIDE DEF k, I
<1>5. /\ base \in Nat /\ used \in Nat /\ used <= PoolSize /\ PoolSize \in Nat
      /\ Stacked(allocations, used) /\ Backed(lent, allocations) /\ allocations \in Seq(PoolBlock)
  BY PoolAssumption DEF PoolInv, Stacked
<1>6. \A i \in 1 .. n : /\ allocations[i] \in PoolBlock
                        /\ allocations[i].at \in Nat /\ allocations[i].size \in Nat /\ allocations[i].padding \in Nat
                        /\ base + allocations[i].padding <= allocations[i].at
                        /\ allocations[i].at + allocations[i].size <= base + used
  <2>1. \A i \in 1 .. n : allocations[i] \in PoolBlock
    BY <1>1, <1>5, ElementOfSeq
  <2>2. \A i \in 1 .. n : /\ base + allocations[i].padding <= allocations[i].at
                          /\ allocations[i].at + allocations[i].size <= base + used
    BY <1>1, <1>5 DEF Stacked
  <2>3. \A i \in 1 .. n : /\ allocations[i].at \in Nat /\ allocations[i].size \in Nat
                          /\ allocations[i].padding \in Nat
    BY <2>1 DEF PoolBlock
  <2>4. QED
    BY <2>1, <2>2, <2>3
<1> DEFINE marked == [allocations EXCEPT ![k].freed = TRUE]
           J == {i \in 1 .. n : ~marked[i].freed}
           rest == SelectLastInSeq(marked, LAMBDA a : ~a.freed)
<1>7. /\ marked \in Seq(PoolBlock) /\ Len(marked) = n
      /\ \A i \in 1 .. n : /\ marked[i].at = allocations[i].at /\ marked[i].size = allocations[i].size
                           /\ marked[i].padding = allocations[i].padding
      /\ \A i \in 1 .. n : i # k => marked[i] = allocations[i]
      /\ marked[k].freed
  <2>1. allocations \in [1 .. n -> PoolBlock]
    BY <1>1, <1>5, LenProperties
  <2>2. [allocations[k] EXCEPT !.freed = TRUE] \in PoolBlock
    BY <1>4, <1>6 DEF PoolBlock
  <2>3. marked \in [1 .. n -> PoolBlock]
    BY <2>1, <2>2
  <2>4. marked \in Seq(PoolBlock) /\ Len(marked) = n
    <3>1. marked \in Seq(PoolBlock)
      BY <2>3, <1>1, SeqDef
    <3>2. DOMAIN marked = 1 .. n
      BY <2>3
    <3>3. QED
      BY <3>1, <3>2, <1>1, LenProperties
  <2>5. /\ \A i \in 1 .. n : i # k => marked[i] = allocations[i]
        /\ marked[k] = [allocations[k] EXCEPT !.freed = TRUE]
    BY <2>1, <1>4
  <2>6. /\ marked[k].freed /\ marked[k].at = allocations[k].at /\ marked[k].size = allocations[k].size
        /\ marked[k].padding = allocations[k].padding
    BY <2>5, <1>4, <1>6 DEF PoolBlock
  <2>7. QED
    BY <2>4, <2>5, <2>6
<1>8. rest = IF J # {} THEN Max(J) ELSE 0
  BY <1>7 DEF SelectLastInSeq
<1>9. /\ Freed(k).list = SubSeq(marked, 1, rest)
      /\ Freed(k).used = IF rest = Len(marked) THEN used
                         ELSE IF marked[rest + 1].at - base >= marked[rest + 1].padding
                              THEN marked[rest + 1].at - base - marked[rest + 1].padding ELSE 0
  BY DEF Freed
<1> HIDE DEF marked, rest
<1>10. rest \in 0 .. n /\ \A i \in 1 .. n : ~marked[i].freed => i <= rest
  <2>1. CASE J = {}
    BY <2>1, <1>8
  <2>2. CASE J # {}
    <3>1. J \subseteq 1 .. n
      OBVIOUS
    <3>2. Max(J) \in J /\ \A i \in J : i <= Max(J)
      BY <3>1, <2>2, <1>1, LastPlace
    <3>3. QED
      BY <3>2, <2>2, <1>8
  <2>3. QED
    BY <2>1, <2>2
<1> HIDE DEF J
<1>11. /\ allocations' \in Seq(PoolBlock) /\ Len(allocations') = rest
       /\ \A i \in 1 .. rest : allocations'[i] = marked[i] /\ i \in 1 .. n
  <2>1. rest \in Int /\ 1 \in Int /\ \A i \in 1 .. rest : i \in 1 .. n
    BY <1>10, <1>1
  <2>2. /\ SubSeq(marked, 1, rest) \in Seq(PoolBlock) /\ Len(SubSeq(marked, 1, rest)) = rest
        /\ \A i \in 1 .. rest : SubSeq(marked, 1, rest)[i] = marked[i]
    BY <2>1, <1>7, <1>10
  <2>3. QED
    BY <2>1, <2>2, <1>3, <1>9
<1>12. /\ used' \in 0 .. PoolSize
       /\ \A i \in 1 .. rest : allocations[i].at + allocations[i].size <= base + used'
  <2>1. CASE rest = n
    BY <2>1, <1>3, <1>5, <1>6, <1>7, <1>9
  <2>2. CASE rest # n
    <3>1. rest + 1 \in 1 .. n
      BY <2>2, <1>10, <1>1
    <3> DEFINE low == allocations[rest + 1]
    <3>2. /\ low.at \in Nat /\ low.padding \in Nat /\ low.size \in Nat
          /\ base + low.padding <= low.at /\ low.at + low.size <= base + used
      BY <3>1, <1>6
    <3>3. marked[rest + 1].at = low.at /\ marked[rest + 1].padding = low.padding
      BY <3>1, <1>7
    <3> HIDE DEF low
    <3>4. used' = low.at - base - low.padding
      <4>1. low.at - base >= low.padding
        BY <3>2, <1>5
      <4>2. QED
        BY <4>1, <3>3, <2>2, <1>3, <1>7, <1>9
    <3>5. ASSUME NEW i \in 1 .. rest
          PROVE  allocations[i].at + allocations[i].size <= base + used'
      <4>1. i \in 1 .. n /\ i < rest + 1
        BY <1>10, <1>1
      <4>2. allocations[i].at + allocations[i].size + low.padding <= low.at
        BY <4>1, <3>1, <1>1, <1>5 DEF Stacked, low
      <4>3. allocations[i].at \in Nat /\ allocations[i].size \in Nat
        BY <4>1, <1>6
      <4>4. base + used' = low.at - low.padding
        BY <3>2, <3>4, <1>5
      <4>5. QED
        BY <4>2, <4>3, <4>4, <3>2
    <3>6. used' \in 0 .. PoolSize
      BY <3>2, <3>4, <1>5
    <3>7. QED
      BY <3>5, <3>6
  <2>3. QED
    BY <2>1, <2>2
<1>13. Stacked(allocations, used)'
  <2>1. \A i \in 1 .. rest :
          /\ base + allocations'[i].padding <= allocations'[i].at
          /\ allocations'[i].at + allocations'[i].size <= base + used'
    BY <1>6, <1>7, <1>11, <1>12
  <2>2. ASSUME NEW i \in 1 .. rest, NEW j \in 1 .. rest, i < j
        PROVE  allocations'[i].at + allocations'[i].size + allocations'[j].padding <= allocations'[j].at
    <3>1. i \in 1 .. n /\ j \in 1 .. n
      BY <1>11
    <3>2. allocations[i].at + allocations[i].size + allocations[j].padding <= allocations[j].at
      BY <3>1, <2>2, <1>1, <1>5 DEF Stacked
    <3>3. QED
      BY <3>1, <3>2, <1>7, <1>11
  <2>3. QED
    BY <2>1, <2>2, <1>3, <1>11 DEF Stacked
<1>14. Backed(lent, allocations)'
  <2>1. lent' \subseteq Loan /\ \A b, c \in lent' : b.at = c.at => b = c
    BY <1>3, <1>5 DEF Backed
  <2>2. ASSUME NEW b \in lent'
        PROVE  \E i \in 1 .. rest : ~allocations'[i].freed /\ allocations'[i].at = b.at /\ b.size <= allocations'[i].size
    <3>1. b \in lent /\ b.at # block.at
      BY <1>3, <1>5 DEF Backed
    <3>2. PICK i \in 1 .. n : ~allocations[i].freed /\ allocations[i].at = b.at /\ b.size <= allocations[i].size
      BY <3>1, <1>1, <1>5 DEF Backed
    <3>3. i # k
      BY <3>1, <3>2, <1>4
    <3>4. marked[i] = allocations[i]
      BY <3>3, <1>7
    <3>5. i \in 1 .. rest
      BY <3>2, <3>4, <1>10, <1>1
    <3>6. QED
      BY <3>2, <3>4, <3>5, <1>11
  <2>3. QED
    BY <2>1, <2>2, <1>11 DEF Backed
<1>15. base' # 0
  BY <1>3, <1>5 DEF PoolInv
<1>16. QED
  BY <1>3, <1>5, <1>12, <1>13, <1>14, <1>15 DEF PoolInv

\* What is left of the list when the tombstones go: the same blocks in the
\* same order, the last of them the new top.
LEMMA DefragmentKeeps ==
  ASSUME PoolInv, Defragment
  PROVE  PoolInv'
<1>1. PICK n \in Nat : n = Len(allocations)
  BY LenProperties DEF PoolInv, Stacked
<1> DEFINE K == {i \in 1 .. n : ~allocations[i].freed}
           c == Cardinality(K)
<1>2. /\ base \in Nat /\ base # 0 /\ used \in Nat /\ used <= PoolSize /\ PoolSize \in Nat
      /\ Stacked(allocations, used) /\ Backed(lent, allocations) /\ allocations \in Seq(PoolBlock)
  BY PoolAssumption DEF PoolInv, Stacked, Defragment
<1>3. \A i \in 1 .. n : /\ allocations[i] \in PoolBlock
                        /\ allocations[i].at \in Nat /\ allocations[i].size \in Nat \ {0} /\ allocations[i].padding \in Nat
                        /\ base + allocations[i].padding <= allocations[i].at
                        /\ allocations[i].at + allocations[i].size <= base + used
  <2>1. \A i \in 1 .. n : allocations[i] \in PoolBlock
    BY <1>1, <1>2, ElementOfSeq
  <2>2. \A i \in 1 .. n : /\ base + allocations[i].padding <= allocations[i].at
                          /\ allocations[i].at + allocations[i].size <= base + used
    BY <1>1, <1>2 DEF Stacked
  <2>3. \A i \in 1 .. n : /\ allocations[i].at \in Nat /\ allocations[i].size \in Nat \ {0}
                          /\ allocations[i].padding \in Nat
    BY <2>1 DEF PoolBlock
  <2>4. QED
    BY <2>1, <2>2, <2>3
<1>4. \A i, j \in 1 .. n : i < j => allocations[i].at + allocations[i].size + allocations[j].padding <= allocations[j].at
  BY <1>1, <1>2 DEF Stacked
<1>5. \A i, j \in 1 .. n : i < j => allocations[i].at < allocations[j].at
  <2> SUFFICES ASSUME NEW i \in 1 .. n, NEW j \in 1 .. n, i < j
               PROVE  allocations[i].at < allocations[j].at
    OBVIOUS
  <2>1. allocations[i].at + allocations[i].size + allocations[j].padding <= allocations[j].at
    BY <1>4
  <2>2. /\ allocations[i].at \in Nat /\ allocations[i].size \in Nat \ {0}
        /\ allocations[j].at \in Nat /\ allocations[j].padding \in Nat
    BY <1>3
  <2>3. QED
    BY <2>1, <2>2
<1>6. DOMAIN allocations = 1 .. n
  BY <1>1, <1>2, LenProperties
<1>7. allocations' = ByAddress({allocations[k] : k \in K})
  BY <1>6 DEF Defragment
<1>8. c \in Nat /\ K \subseteq 1 .. n
  <2>1. IsFiniteSet(1 .. n)
    BY <1>1, FS_Interval
  <2>2. QED
    BY <2>1, FS_Subset, FS_CardinalityType
<1> HIDE DEF c
<1>9. PICK f : /\ allocations' = [i \in 1 .. c |-> allocations[f[i]]]
               /\ f \in [1 .. c -> K]
               /\ \A k \in K : \E i \in 1 .. c : f[i] = k
               /\ \A i, j \in 1 .. c : i < j => f[i] < f[j]
  BY <1>1, <1>2, <1>5, <1>7, <1>8, KeptInOrder DEF c
<1>10. \A i \in 1 .. c : f[i] \in 1 .. n /\ allocations'[i] = allocations[f[i]]
  BY <1>8, <1>9
<1>11. allocations' \in Seq(PoolBlock) /\ Len(allocations') = c
  <2>1. allocations' \in [1 .. c -> PoolBlock]
    BY <1>3, <1>9, <1>10
  <2>2. allocations' \in Seq(PoolBlock)
    BY <2>1, <1>8, SeqDef
  <2>3. DOMAIN allocations' = 1 .. c
    BY <2>1
  <2>4. QED
    BY <2>2, <2>3, <1>8, LenProperties
<1>12. /\ base' = base /\ lent' = lent
       /\ used' = IF allocations' = <<>> THEN 0 ELSE Last(allocations').at - base + Last(allocations').size
  BY DEF Defragment
<1>13. \A i, j \in 1 .. c : i < j =>
         allocations'[i].at + allocations'[i].size + allocations'[j].padding <= allocations'[j].at
  BY <1>4, <1>9, <1>10
<1>14. /\ used' \in 0 .. PoolSize
       /\ \A i \in 1 .. c : allocations'[i].at + allocations'[i].size <= base + used'
  <2>1. CASE c = 0
    <3>1. allocations' = <<>>
      BY <2>1, <1>11, EmptySeq
    <3>2. QED
      BY <3>1, <2>1, <1>2, <1>12
  <2>2. CASE c # 0
    <3>1. allocations' # <<>> /\ c \in 1 .. c
      BY <2>2, <1>8, <1>11
    <3> DEFINE e == allocations'[c]
    <3>2. used' = e.at - base + e.size
      BY <3>1, <1>11, <1>12 DEF Last
    <3>3. /\ e.at \in Nat /\ e.size \in Nat /\ e.padding \in Nat /\ base + e.padding <= e.at
          /\ e.at + e.size <= base + used
      BY <3>1, <1>3, <1>10
    <3> HIDE DEF e
    <3>4. used' \in 0 .. PoolSize /\ base + used' = e.at + e.size
      <4>1. PICK d \in Nat : e.at = base + d
        <5>1. e.at - base \in Nat /\ e.at = base + (e.at - base)
          BY <3>3, <1>2
        <5>2. QED
          BY <5>1
      <4>2. used' \in Nat /\ base + used' = e.at + e.size
        <5>1. e.at - base = d
          BY <4>1, <3>3, <1>2
        <5>2. used' = d + e.size
          BY <5>1, <3>2
        <5>3. e.size \in Nat
          BY <3>3
        <5>4. used' \in Nat
          BY <4>1, <5>2, <5>3
        <5>5. base + used' = e.at + e.size
          BY <4>1, <5>2, <5>3, <1>2
        <5>6. QED
          BY <5>4, <5>5
      <4>3. used' <= used
        BY <4>2, <3>3, <1>2
      <4>4. QED
        BY <4>2, <4>3, <1>2
    <3>5. ASSUME NEW i \in 1 .. c
          PROVE  allocations'[i].at + allocations'[i].size <= base + used'
      <4>1. allocations'[i].at \in Nat /\ allocations'[i].size \in Nat
        BY <1>3, <1>10
      <4>2. CASE i = c
        BY <4>2, <3>4, <3>3 DEF e
      <4>3. CASE i # c
        <5>1. i < c
          BY <4>3, <1>8
        <5>2. allocations'[i].at + allocations'[i].size + e.padding <= e.at
          BY <5>1, <3>1, <1>13 DEF e
        <5>3. QED
          BY <5>2, <4>1, <3>3, <3>4
      <4>4. QED
        BY <4>2, <4>3
    <3>6. QED
      BY <3>4, <3>5
  <2>3. QED
    BY <2>1, <2>2
<1>15. Stacked(allocations, used)'
  <2>1. \A i \in 1 .. c : base + allocations'[i].padding <= allocations'[i].at
    BY <1>3, <1>10
  <2>2. QED
    BY <2>1, <1>11, <1>12, <1>13, <1>14 DEF Stacked
<1>16. Backed(lent, allocations)'
  <2>1. ASSUME NEW b \in lent
        PROVE  \E i \in 1 .. c : ~allocations'[i].freed /\ allocations'[i].at = b.at /\ b.size <= allocations'[i].size
    <3>1. PICK k \in 1 .. n : ~allocations[k].freed /\ allocations[k].at = b.at /\ b.size <= allocations[k].size
      BY <1>1, <1>2 DEF Backed
    <3>2. PICK i \in 1 .. c : f[i] = k
      BY <3>1, <1>9
    <3>3. QED
      BY <3>1, <3>2, <1>10
  <2>2. QED
    BY <2>1, <1>2, <1>11, <1>12 DEF Backed
<1>17. QED
  BY <1>2, <1>12, <1>14, <1>15, <1>16 DEF PoolInv

\* The pool keeps its invariant from the start, whatever is called.
LEMMA PoolInvariant == PoolSpec => []PoolInv
<1>1. PoolInit => PoolInv
  <2> SUFFICES ASSUME PoolInit
               PROVE  PoolInv
    OBVIOUS
  <2>1. base = 0 /\ used = 0 /\ allocations = <<>> /\ lent = {} /\ PoolSize \in Nat
    BY PoolAssumption DEF PoolInit
  <2>2. <<>> \in Seq(PoolBlock) /\ Len(<<>>) = 0
    OBVIOUS
  <2>3. Stacked(allocations, used)
    BY <2>1, <2>2 DEF Stacked
  <2>4. Backed(lent, allocations)
    BY <2>1 DEF Backed
  <2>5. QED
    BY <2>1, <2>3, <2>4 DEF PoolInv
<1>2. PoolInv /\ [PoolNext]_poolVars => PoolInv'
  <2> SUFFICES ASSUME PoolInv, [PoolNext]_poolVars
               PROVE  PoolInv'
    OBVIOUS
  <2>1. CASE InitializePool
    <3>1. /\ base' \in Nat /\ used = 0 /\ used' = 0 /\ allocations = <<>> /\ allocations' = <<>>
          /\ lent = {} /\ lent' = {} /\ PoolSize \in Nat
      BY <2>1, PoolAssumption DEF InitializePool, PoolInv
    <3>2. Stacked(allocations, used)'
      BY <3>1 DEF Stacked, PoolInv
    <3>3. Backed(lent, allocations)'
      BY <3>1 DEF Backed
    <3>4. QED
      BY <3>1, <3>2, <3>3 DEF PoolInv
  <2>2. CASE ShutdownPool
    <3>1. base' = 0 /\ used' = 0 /\ allocations' = <<>> /\ lent' = {} /\ PoolSize \in Nat
      BY <2>2, PoolAssumption DEF ShutdownPool
    <3>2. <<>> \in Seq(PoolBlock) /\ Len(<<>>) = 0
      OBVIOUS
    <3>3. Stacked(allocations, used)'
      BY <3>1, <3>2 DEF Stacked
    <3>4. Backed(lent, allocations)'
      BY <3>1 DEF Backed
    <3>5. QED
      BY <3>1, <3>3, <3>4 DEF PoolInv
  <2>3. CASE Defragment
    BY <2>3, DefragmentKeeps
  <2>4. CASE \E size \in Sizes, alignment \in Alignments : Allocate(size, alignment)
    BY <2>4, AllocateKeeps
  <2>5. CASE \E block \in lent : Free(block)
    BY <2>5, FreeKeeps
  <2>6. CASE UNCHANGED poolVars
    BY <2>6 DEF poolVars, PoolInv, Stacked, Backed
  <2>7. QED
    BY <2>1, <2>2, <2>3, <2>4, <2>5, <2>6 DEF PoolNext
<1>3. QED
  BY <1>1, <1>2, PTL DEF PoolSpec

(* The memory pool lends no byte twice and none outside itself: of two     *)
(* blocks lent one lies wholly before the other, and each is between the   *)
(* pool's ends, for every order of allocations, frees and defragmentations, *)
(* every alignment, and however sizes are rounded up.                      *)
THEOREM BlocksStayApart == PoolSpec => []BlocksApart
<1>1. PoolInv => BlocksApart
  <2> SUFFICES ASSUME PoolInv, NEW b \in lent
               PROVE  /\ base <= b.at /\ b.at + b.size <= base + PoolSize
                      /\ \A c \in lent \ {b} : b.at + b.size <= c.at \/ c.at + c.size <= b.at
    BY DEF BlocksApart
  <2>1. PICK n \in Nat : n = Len(allocations)
    BY LenProperties DEF PoolInv, Stacked
  <2>2. /\ base \in Nat /\ used \in Nat /\ used <= PoolSize /\ PoolSize \in Nat
        /\ Stacked(allocations, used) /\ Backed(lent, allocations) /\ allocations \in Seq(PoolBlock)
    BY PoolAssumption DEF PoolInv, Stacked
  <2>3. \A i \in 1 .. n : /\ allocations[i].at \in Nat /\ allocations[i].size \in Nat /\ allocations[i].padding \in Nat
                          /\ base + allocations[i].padding <= allocations[i].at
                          /\ allocations[i].at + allocations[i].size <= base + used
    <3>1. \A i \in 1 .. n : allocations[i] \in PoolBlock
      BY <2>1, <2>2, ElementOfSeq
    <3>2. \A i \in 1 .. n : /\ allocations[i].at \in Nat /\ allocations[i].size \in Nat
                            /\ allocations[i].padding \in Nat
      BY <3>1 DEF PoolBlock
    <3>3. QED
      BY <3>2, <2>1, <2>2 DEF Stacked
  <2>4. \A c \in lent : c.at \in Nat /\ c.size \in Nat
    BY <2>2 DEF Backed, Loan
  <2>5. PICK i \in 1 .. n : ~allocations[i].freed /\ allocations[i].at = b.at /\ b.size <= allocations[i].size
    BY <2>1, <2>2 DEF Backed
  <2>6. base <= b.at /\ b.at + b.size <= base + PoolSize
    <3>1. base + allocations[i].padding <= b.at /\ b.at + allocations[i].size <= base + used
      BY <2>3, <2>5
    <3>2. base <= b.at /\ b.at + b.size <= base + used
      BY <3>1, <2>2, <2>3, <2>4, <2>5
    <3>3. QED
      BY <3>2, <2>2, <2>4
  <2>7. ASSUME NEW c \in lent \ {b}
        PROVE  b.at + b.size <= c.at \/ c.at + c.size <= b.at
    <3>1. c.at # b.at
      BY <2>2 DEF Backed
    <3>2. PICK j \in 1 .. n : ~allocations[j].freed /\ allocations[j].at = c.at /\ c.size <= allocations[j].size
      BY <2>1, <2>2 DEF Backed
    <3>3. i # j
      BY <3>1, <3>2, <2>5
    <3>4. i < j \/ j < i
      BY <3>3, <2>1
    <3>5. \A k, l \in 1 .. n : k < l =>
            allocations[k].at + allocations[k].size + allocations[l].padding <= allocations[l].at
      BY <2>1, <2>2 DEF Stacked
    <3>6. CASE i < j
      <4>1. allocations[i].at + allocations[i].size + allocations[j].padding <= allocations[j].at
        BY <3>5, <3>6
      <4>2. QED
        BY <4>1, <3>2, <2>3, <2>4, <2>5
    <3>7. CASE j < i
      <4>1. allocations[j].at + allocations[j].size + allocations[i].padding <= allocations[i].at
        BY <3>5, <3>7
      <4>2. QED
        BY <4>1, <3>2, <2>3, <2>4, <2>5
    <3>8. QED
      BY <3>4, <3>6, <3>7
  <2>8. QED
    BY <2>6, <2>7
<1>2. QED
  BY <1>1, PoolInvariant, PTL
=============================================================================
