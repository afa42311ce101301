-------------------------- MODULE JobSystemProofs ---------------------------
(***************************************************************************)
(* The job system runs a task at most once, never after its job was        *)
(* reported complete, and after its dependencies, for any number of jobs,  *)
(* workers and clients, any dependencies, any history of starts and        *)
(* shutdowns, and stores of flags that become visible at once or late.     *)
(*                                                                         *)
(* RunInv: the right to run a job is one thing, held by a queue or by one  *)
(* thread, and is gone once the task was started; a job ends only because  *)
(* its task ran or it was cancelled.  LinkInv: from the moment a           *)
(* submission stores its count, the count is at least the number of        *)
(* completions that have yet to subtract from it, and every dependency is  *)
(* registered or completed; before, what completions subtract wraps the    *)
(* counter around and never makes it 1.  Alone: nobody else finishes a job *)
(* whose task is running, unless the job was cancelled.                    *)
(***************************************************************************)
EXTENDS JobSystem, QueueLemmas, FiniteSetTheorems

Quiet == {"idle", "off", "loop", "exited", "all", "pump", "wakeall", "join"}

Enqueuing == {"enqueue", "push", "notify"}

PC == Quiet \cup Enqueuing \cup
  {"deps", "register", "count", "give", "start", "check", "task", "finish", "tally",
   "copy", "wake", "flag", "remove", "decide", "lock", "checked", "blocked"}

State == [pc : PC, job : Job \cup {NoJob}, dep : Job \cup {NoJob}, rest : SUBSET Job,
          num : Nat, drop : BOOLEAN, hidden : BOOLEAN,
          back : {"idle", "loop", "all", "pump"}, then : {"idle", "give", "wake"}]

(* A thread inside a call or a task has a job; one that enqueues has the   *)
(* job it enqueues.                                                        *)
Locals(t) ==
  /\ thread[t].pc \notin Quiet => thread[t].job \in Job
  /\ thread[t].pc \in Enqueuing => thread[t].dep \in Job /\ thread[t].then # "idle"

(* A queue holds jobs of its priority, none of them twice.                 *)
Queues ==
  /\ queues = [i \in 1 .. 3 |-> queues[i]]
  /\ \A i \in 1 .. 3 :
       Distinct(queues[i], Job) /\ \A j \in ToSet(queues[i]) : Priority[j] = i

Typing ==
  /\ thread \in [Thread -> State]
  /\ \A t \in Thread : Locals(t)
  /\ Queues
  /\ queued \subseteq Job /\ completed \subseteq Job
  /\ runs \in [Job -> Nat]

Waiting == {j \in Job : InQueue(j)}

(* The thread has the one right to run the job: it is about to put it in a *)
(* queue, or took it out of one.                                           *)
Holds(t, j) ==
  \/ thread[t].pc = "push" /\ thread[t].dep = j
  \/ thread[t].pc \in {"start", "check"} /\ thread[t].job = j

HeldOnce ==
  \A j \in Job : \A t \in Thread : Holds(t, j) =>
    j \notin Waiting /\ \A u \in Thread : Holds(u, j) => u = t

Unrun ==
  \A j \in Job :
    /\ runs[j] \in 0 .. 1
    /\ j \in Waiting \/ (\E t \in Thread : Holds(t, j)) => j \in queued /\ runs[j] = 0
    /\ j \notin queued => runs[j] = 0

(* A job ends because its task was run or because it was cancelled.        *)
Excused(j) == runs[j] = 1 \/ j \in cancelled

Ended ==
  /\ \A j \in completed : Excused(j)
  /\ \A t \in Thread :
       /\ thread[t].pc = "finish" => Excused(thread[t].job)
       /\ thread[t].pc \in {"remove", "decide"} => thread[t].job \in cancelled
       /\ thread[t].pc = "task" => runs[thread[t].job] = 1

(* The dependents of a job are jobs, and the counter counts.               *)
Linked == dependents \in [Job -> SUBSET Job] /\ submittedCount \in Nat

RunInv == Typing /\ HeldOnce /\ Unrun /\ Ended

Alone ==
  \A t \in Thread : thread[t].pc = "task" =>
    \/ thread[t].job \in cancelled
    \/ /\ thread[t].job \notin completed
       /\ \A u \in Thread : u # t /\ thread[u].job = thread[t].job =>
            thread[u].pc \notin {"task", "finish"}

-----------------------------------------------------------------------------
(* The thread is inside Submit of job j, before j is counted.              *)
SubmittingIn(s, j) == s.pc \in {"deps", "register", "count"} /\ s.job = j

Submitting(t, j) == SubmittingIn(thread[t], j)

(* The thread has completed job d and not yet woken all its dependents.    *)
PastIn(s, d) ==
  /\ s.job = d
  /\ \/ s.pc \in {"tally", "copy", "wake"}
     \/ s.pc \in Enqueuing /\ s.then = "wake"

Past(t, d) == PastIn(thread[t], d)

(* What is left to do for dependent j in that thread.                      *)
OwesIn(s, d, j) == PastIn(s, d) /\ (s.pc \in {"tally", "copy"} \/ j \in s.rest)

(* The dependencies job j is registered with, and those of them whose      *)
(* completion has yet to decrement its count.                              *)
Registered(j) == {d \in Job : j \in dependents[d]}

Pending(j) ==
  {d \in Registered(j) : d \notin completed \/ \E t \in Thread : OwesIn(thread[t], d, j)}

LinkTyping ==
  /\ remaining \in [Job -> 0 .. CounterSize - 1]
  /\ submitted \subseteq Job
  /\ \A j \in Job : Registered(j) \subseteq Deps[j]

PastOnce ==
  \A d \in Job : \A t \in Thread : Past(t, d) =>
    /\ d \in completed
    /\ \A u \in Thread : Past(u, d) => u = t
    /\ thread[t].pc \in Enqueuing \cup {"wake"} => thread[t].rest \subseteq dependents[d]

SubmittedOnce ==
  \A j \in Job : \A t \in Thread : Submitting(t, j) =>
    j \notin submitted /\ \A u \in Thread : Submitting(u, j) => u = t

Untouched ==
  \A j \in Job : j \notin submitted /\ (\A t \in Thread : ~Submitting(t, j)) =>
    Registered(j) = {} /\ remaining[j] = 0

Covered(j, rest) == \A d \in Deps[j] \ rest : d \in completed \/ d \in Registered(j)

(* Until the count is stored, what completions subtract from it wraps it   *)
(* around, never down to 1.                                                *)
Wrapped(j) ==
  \/ remaining[j] = 0
  \/ remaining[j] + Cardinality(Registered(j)) >= CounterSize + Cardinality(Pending(j))

RegisteringIn(s, j) ==
  /\ s.num = Cardinality(Registered(j))
  /\ Covered(j, s.rest)
  /\ s.pc # "count" => s.rest \subseteq Deps[j] \ Registered(j) /\ Wrapped(j)
  /\ s.pc = "register" => s.dep \in s.rest
  /\ s.pc = "count" => s.rest = {}

Registering ==
  \A j \in Job : \A t \in Thread : Submitting(t, j) => RegisteringIn(thread[t], j)

Stored(j) == j \in submitted \/ \E t \in Thread : thread[t].pc = "count" /\ thread[t].job = j

(* From then on the count is no less than what is yet to be subtracted.    *)
Counted ==
  \A j \in Job : Stored(j) => Cardinality(Pending(j)) <= remaining[j] /\ Covered(j, {})

Ready(j) == Deps[j] \subseteq completed

ReadyInv ==
  /\ \A j \in queued : Ready(j)
  /\ \A t \in Thread : thread[t].pc \in Enqueuing => Ready(thread[t].dep)

LinkInv ==
  LinkTyping /\ PastOnce /\ SubmittedOnce /\ Untouched /\ Registering /\ Counted /\ ReadyInv

-----------------------------------------------------------------------------
(* The queues, and what each access to them leaves in them.                *)

\* A queue that is not touched.
LEMMA QueuesSame ==
  ASSUME UNCHANGED queues
  PROVE  Waiting' = Waiting /\ (Queues => Queues')
BY DEF Waiting, InQueue, Queues

\* What is in a queue is in the queue of its priority only.
LEMMA WaitingIn ==
  ASSUME Queues, NEW j \in Job
  PROVE  j \in Waiting <=> j \in ToSet(queues[Priority[j]])
BY JobAssumption DEF Waiting, InQueue, Queues

\* EnqueueIfReady puts the job in the queue of its priority.
LEMMA QueuesPush ==
  ASSUME Queues, NEW j \in Job \ Waiting,
         queues' = [queues EXCEPT ![Priority[j]] = Append(@, j)]
  PROVE  Queues' /\ Waiting' = Waiting \cup {j}
<1>1. Priority[j] \in 1 .. 3 /\ j \in Job \ ToSet(queues[Priority[j]])
  BY JobAssumption, WaitingIn
<1>2. Distinct(queues[Priority[j]], Job)
  BY <1>1 DEF Queues
<1>3. /\ Distinct(Append(queues[Priority[j]], j), Job)
      /\ ToSet(Append(queues[Priority[j]], j)) = ToSet(queues[Priority[j]]) \cup {j}
  BY <1>1, <1>2, AppendDistinct
<1>4. \A i \in 1 .. 3 : queues'[i] = IF i = Priority[j] THEN Append(queues[i], j) ELSE queues[i]
  BY DEF Queues
<1>5. queues' = [i \in 1 .. 3 |-> queues'[i]]
  BY DEF Queues
<1>6. Queues'
  BY <1>1, <1>3, <1>4, <1>5 DEF Queues
<1>7. QED
  BY <1>1, <1>3, <1>4, <1>6 DEF Waiting, InQueue

\* A job is taken from the front of the first queue that has one.
LEMMA QueuesTake ==
  ASSUME Queues, NEW t \in Thread, NEW back, Take(t, back)
  PROVE  \E j \in Waiting :
           /\ Queues' /\ Waiting' = Waiting \ {j}
           /\ Become(t, [thread[t] EXCEPT !.pc = "start", !.job = j, !.back = back])
<1> DEFINE k == FirstQueue
           j == Head(queues[k])
<1>1. k \in 1 .. 3 /\ queues[k] # << >>
  <2>1. PICK i \in 1 .. 3 : queues[i] # << >>
    BY DEF Take, QueuesEmpty
  <2>2. \E n \in 1 .. 3 : queues[n] # << >> /\ \A m \in 1 .. n - 1 : queues[m] = << >>
    <3>1. CASE queues[1] # << >>
      BY <3>1
    <3>2. CASE queues[1] = << >> /\ queues[2] # << >>
      BY <3>2
    <3>3. CASE queues[1] = << >> /\ queues[2] = << >>
      BY <2>1, <3>3
    <3>4. QED
      BY <3>1, <3>2, <3>3
  <2>3. QED
    BY <2>2 DEF FirstQueue
<1>2. Distinct(queues[k], Job)
  BY <1>1 DEF Queues
<1>3. /\ Distinct(Tail(queues[k]), Job)
      /\ ToSet(Tail(queues[k])) = ToSet(queues[k]) \ {j}
      /\ j \in ToSet(queues[k])
  BY <1>1, <1>2, TailDistinct
<1>4. j \in Job /\ j \in Waiting /\ Priority[j] = k
  BY <1>1, <1>2, <1>3, Members DEF Distinct, Queues, Waiting, InQueue
<1>5. /\ queues' = [queues EXCEPT ![k] = Tail(@)]
      /\ Become(t, [thread[t] EXCEPT !.pc = "start", !.job = j, !.back = back])
  BY DEF Take
<1> HIDE DEF k, j
<1>6. \A i \in 1 .. 3 : queues'[i] = IF i = k THEN Tail(queues[i]) ELSE queues[i]
  BY <1>5 DEF Queues
<1>7. queues' = [i \in 1 .. 3 |-> queues'[i]]
  BY <1>5 DEF Queues
<1>8. Queues'
  BY <1>1, <1>3, <1>6, <1>7 DEF Queues
<1>9. \A i \in 1 .. 3 : i # k => j \notin ToSet(queues[i])
  BY <1>4 DEF Queues
<1>10. Waiting' = Waiting \ {j}
  BY <1>1, <1>3, <1>6, <1>9 DEF Waiting, InQueue
<1>11. QED
  BY <1>4, <1>5, <1>8, <1>10

\* Cancel takes the job out of its queue, if it is in one.
LEMMA QueuesRemove ==
  ASSUME Queues, NEW j, queues' = [i \in 1 .. 3 |-> RemoveFirst(queues[i], j)]
  PROVE  Queues' /\ Waiting' = Waiting \ {j}
<1>1. \A i \in 1 .. 3 : /\ Distinct(RemoveFirst(queues[i], j), Job)
                        /\ ToSet(RemoveFirst(queues[i], j)) = ToSet(queues[i]) \ {j}
  BY RemoveFirstDistinct DEF Queues
<1>2. \A i \in 1 .. 3 : queues'[i] = RemoveFirst(queues[i], j)
  OBVIOUS
<1>3. queues' = [i \in 1 .. 3 |-> queues'[i]]
  OBVIOUS
<1>4. Queues'
  BY <1>1, <1>2, <1>3 DEF Queues
<1>5. QED
  BY <1>1, <1>2, <1>4 DEF Waiting, InQueue

\* Initialize and Shutdown drop what is in the queues.
LEMMA QueuesClear ==
  ASSUME queues' = [i \in 1 .. 3 |-> << >>]
  PROVE  Queues' /\ Waiting' = {}
<1>1. \A i \in 1 .. 3 : queues'[i] = << >>
  OBVIOUS
<1>2. Queues'
  BY <1>1, EmptyDistinct DEF Queues
<1>3. QED
  BY <1>1, <1>2, EmptyDistinct DEF Waiting, InQueue

-----------------------------------------------------------------------------
(* A task is run at most once.                                             *)

\* Before the first call nothing is queued, held or run.
LEMMA InitRun ==
  ASSUME NEW on \in BOOLEAN, InitAs(on)
  PROVE  RunInv
<1>1. Queues /\ Waiting = {}
  BY EmptyDistinct DEF InitAs, Queues, Waiting, InQueue
<1>2. /\ thread \in [Thread -> State]
      /\ \A t \in Thread : thread[t].pc \in Quiet
  BY DEF InitAs, State, PC, Quiet, Idle, Off, Looping
<1>3. Typing
  BY <1>1, <1>2 DEF Typing, InitAs, Locals, Quiet, Enqueuing
<1>4. QED
  BY <1>1, <1>2, <1>3
     DEF RunInv, HeldOnce, Unrun, Ended, Holds, InitAs, Quiet

\* What a thread may become without touching a queue, a flag or a task: it
\* gains no right to run a job, and it ends only jobs that may end.
Harmless(t, s) ==
  /\ s \in State
  /\ s.pc \notin Quiet => s.job \in Job
  /\ s.pc \in Enqueuing => s.dep \in Job /\ s.then # "idle"
  /\ s.pc = "push" => thread[t].pc = "push" /\ s.dep = thread[t].dep
  /\ s.pc \in {"start", "check"} =>
       thread[t].pc \in {"start", "check"} /\ s.job = thread[t].job
  /\ s.pc = "finish" => Excused(s.job)
  /\ s.pc \in {"remove", "decide"} => s.job \in cancelled
  /\ s.pc = "task" => runs[s.job] = 1

\* Such a step keeps the invariant.
LEMMA HarmlessStep ==
  ASSUME RunInv, NEW t \in Thread, NEW s, Become(t, s), Harmless(t, s),
         UNCHANGED <<queues, cancelled, queued, completed, runs>>
  PROVE  RunInv'
<1>1. /\ thread' \in [Thread -> State]
      /\ thread'[t] = s
      /\ \A u \in Thread : u # t => thread'[u] = thread[u]
  BY DEF RunInv, Typing, Become, Harmless
<1>2. Waiting' = Waiting /\ Queues'
  BY QueuesSame DEF RunInv, Typing
<1>3. Typing'
  BY <1>1, <1>2 DEF RunInv, Typing, Locals, Harmless
<1>4. \A u \in Thread : \A j \in Job : Holds(u, j)' => Holds(u, j)
  BY <1>1 DEF Holds, Harmless
<1>5. HeldOnce' /\ Unrun'
  BY <1>2, <1>4 DEF RunInv, HeldOnce, Unrun
<1>6. Ended'
  BY <1>1 DEF RunInv, Ended, Harmless, Excused
<1>7. QED
  BY <1>3, <1>5, <1>6 DEF RunInv

\* A thread that is inside no call harms nothing.
LEMMA ReturnHarmless ==
  ASSUME NEW t \in Thread
  PROVE  Harmless(t, Idle)
BY DEF Harmless, Idle, State, PC, Quiet, Enqueuing

\* The steps of Submit.
LEMMA SubmitRun ==
  ASSUME RunInv, NEW c \in Client,
         \/ \E j \in Job : Submit(c, j) \/ ResetHandle(c, j)
         \/ CheckDep(c) \/ Register(c) \/ StoreRemaining(c) \/ CountSubmitted(c) \/ GiveHandle(c)
  PROVE  RunInv'
<1> USE DEF Quiet, Enqueuing
<1>0. c \in Thread /\ thread[c] \in State /\ Locals(c)
  BY DEF RunInv, Typing, Thread
<1>1. ASSUME NEW j \in Job, Submit(c, j)
      PROVE  RunInv'
  <2> DEFINE s == [Idle EXCEPT !.pc = "deps", !.job = j, !.rest = Deps[j]]
  <2>1. Harmless(c, s)
    BY JobAssumption DEF Harmless, State, PC, Idle
  <2>2. Become(c, s) /\ UNCHANGED <<queues, cancelled, queued, completed, runs>>
    BY <1>1 DEF Submit, flags, history
  <2>3. QED
    BY <1>0, <2>1, <2>2, HarmlessStep
<1>2. ASSUME NEW j \in Job, ResetHandle(c, j)
      PROVE  RunInv'
  <2>1. UNCHANGED <<queues, cancelled, queued, completed, runs, thread>>
    BY <1>2 DEF ResetHandle, flags, history
  <2>2. Become(c, thread[c])
    BY <2>1 DEF Become, RunInv, Typing
  <2>3. Harmless(c, thread[c])
    BY <1>0 DEF Harmless, Locals, RunInv, Ended
  <2>4. QED
    BY <1>0, <2>1, <2>2, <2>3, HarmlessStep
<1>3. ASSUME CheckDep(c)
      PROVE  RunInv'
  <2>1. PICK d \in thread[c].rest :
          Become(c, IF d \in completed
                    THEN [thread[c] EXCEPT !.rest = @ \ {d}]
                    ELSE [thread[c] EXCEPT !.pc = "register", !.dep = d])
    BY <1>3 DEF CheckDep
  <2>2. At(c, "deps") /\ UNCHANGED <<queues, cancelled, queued, completed, runs>>
    BY <1>3 DEF CheckDep, flags, history
  <2>3. Harmless(c, [thread[c] EXCEPT !.rest = @ \ {d}])
    BY <1>0, <2>2 DEF Harmless, State, PC, Locals, At
  <2>4. Harmless(c, [thread[c] EXCEPT !.pc = "register", !.dep = d])
    BY <1>0, <2>1, <2>2 DEF Harmless, State, PC, Locals, At
  <2>5. QED
    BY <1>0, <2>1, <2>2, <2>3, <2>4, HarmlessStep
<1>4. ASSUME Register(c)
      PROVE  RunInv'
  <2> DEFINE n == thread[c].num + 1
             r == thread[c].rest \ {thread[c].dep}
             s == [thread[c] EXCEPT !.pc = "deps", !.dep = NoJob, !.num = n, !.rest = r]
  <2>1. At(c, "register") /\ UNCHANGED <<queues, cancelled, queued, completed, runs>>
    BY <1>4 DEF Register, flags, history
  <2>2. Become(c, s)
    BY <1>4 DEF Register
  <2>3. Harmless(c, s)
    <3>1. n \in Nat /\ r \in SUBSET Job
      BY <1>0 DEF State
    <3> HIDE DEF n, r
    <3>2. QED
      BY <1>0, <2>1, <3>1 DEF Harmless, State, PC, Locals, At
  <2>4. QED
    BY <1>0, <2>1, <2>2, <2>3, HarmlessStep
<1>5. ASSUME StoreRemaining(c)
      PROVE  RunInv'
  <2> DEFINE s == [thread[c] EXCEPT !.pc = "count"]
  <2>1. Harmless(c, s)
    BY <1>0, <1>5 DEF Harmless, State, PC, Locals, At, StoreRemaining
  <2>2. Become(c, s) /\ UNCHANGED <<queues, cancelled, queued, completed, runs>>
    BY <1>5 DEF StoreRemaining, Go, Become, flags, history
  <2>3. QED
    BY <1>0, <2>1, <2>2, HarmlessStep
<1>6. ASSUME CountSubmitted(c)
      PROVE  RunInv'
  <2>1. At(c, "count") /\ UNCHANGED <<queues, cancelled, queued, completed, runs>>
    BY <1>6 DEF CountSubmitted, flags, history
  <2>2. Harmless(c, [thread[c] EXCEPT !.pc = "enqueue", !.dep = thread[c].job, !.then = "give"])
    BY <1>0, <2>1 DEF Harmless, State, PC, Locals, At
  <2>3. Harmless(c, [thread[c] EXCEPT !.pc = "give"])
    BY <1>0, <2>1 DEF Harmless, State, PC, Locals, At
  <2>4. \/ Become(c, [thread[c] EXCEPT !.pc = "enqueue", !.dep = thread[c].job, !.then = "give"])
        \/ Become(c, [thread[c] EXCEPT !.pc = "give"])
    BY <1>6 DEF CountSubmitted
  <2>5. QED
    BY <1>0, <2>1, <2>2, <2>3, <2>4, HarmlessStep
<1>7. ASSUME GiveHandle(c)
      PROVE  RunInv'
  <2>1. Become(c, Idle) /\ UNCHANGED <<queues, cancelled, queued, completed, runs>>
    BY <1>7 DEF GiveHandle, Return, flags, history
  <2>2. QED
    BY <1>0, <2>1, ReturnHarmless, HarmlessStep
<1>8. QED
  BY <1>1, <1>2, <1>3, <1>4, <1>5, <1>6, <1>7

\* The steps of EnqueueIfReady: marking the job queued makes the thread its
\* only holder, and pushing it hands the right to run it to the queue.
LEMMA EnqueueRun ==
  ASSUME RunInv, NEW t \in Thread, EnqueueStep(t)
  PROVE  RunInv'
<1> USE DEF Quiet, Enqueuing
<1>0. thread[t] \in State /\ Locals(t)
  BY DEF RunInv, Typing
<1> DEFINE j == thread[t].dep
           on == [thread[t] EXCEPT !.pc = thread[t].then, !.then = "idle", !.dep = NoJob]
<1>1. ASSUME thread[t].pc \in Enqueuing
      PROVE  Harmless(t, on)
  BY <1>0, <1>1 DEF Harmless, State, PC, Locals
<1>2. ASSUME MarkQueued(t)
      PROVE  RunInv'
  <2>1. At(t, "enqueue") /\ j \in Job /\ UNCHANGED <<queues, cancelled, completed, runs>>
    BY <1>0, <1>2 DEF MarkQueued, At, Locals, history
  <2>2. CASE Become(t, on) /\ UNCHANGED queued
    BY <1>1, <2>1, <2>2, HarmlessStep DEF At
  <2>3. CASE j \notin queued /\ queued' = queued \cup {j} /\ Go(t, "push")
    <3>1. /\ thread' \in [Thread -> State]
          /\ thread'[t] = [thread[t] EXCEPT !.pc = "push"]
          /\ \A u \in Thread : u # t => thread'[u] = thread[u]
      BY <1>0, <2>3 DEF RunInv, Typing, Go, State, PC
    <3>2. thread'[t].pc = "push" /\ thread'[t].dep = j /\ thread'[t].job \in Job
          /\ thread'[t].then # "idle"
      BY <1>0, <2>1, <3>1 DEF State, Locals, At
    <3>3. Waiting' = Waiting /\ Queues'
      BY <2>1, QueuesSame DEF RunInv, Typing
    <3>4. Typing'
      BY <2>1, <2>3, <3>1, <3>2, <3>3 DEF RunInv, Typing, Locals
    <3>5. \A i \in Job : \A u \in Thread : Holds(u, i)' <=> Holds(u, i) \/ (u = t /\ i = j)
      BY <2>1, <3>1, <3>2 DEF Holds, At
    <3>6. j \notin Waiting /\ \A u \in Thread : ~Holds(u, j)
      BY <2>1, <2>3 DEF RunInv, Unrun
    <3>7. HeldOnce'
      BY <3>3, <3>5, <3>6 DEF RunInv, HeldOnce
    <3>8. Unrun'
      BY <2>1, <2>3, <3>3, <3>5, <3>6 DEF RunInv, Unrun
    <3>9. Ended'
      BY <2>1, <3>1, <3>2 DEF RunInv, Ended, Excused
    <3>10. QED
      BY <3>4, <3>7, <3>8, <3>9 DEF RunInv
  <2>4. QED
    BY <1>2, <2>2, <2>3 DEF MarkQueued
<1>3. ASSUME Push(t)
      PROVE  RunInv'
  <2>1. /\ At(t, "push") /\ j \in Job /\ UNCHANGED <<queued, cancelled, completed, runs>>
        /\ queues' = [queues EXCEPT ![Priority[j]] = Append(@, j)]
        /\ Go(t, "notify")
    BY <1>0, <1>3 DEF Push, At, Locals, history, flags
  <2>2. Holds(t, j)
    BY <2>1 DEF Holds, At
  <2>3. j \in Job \ Waiting
    BY <2>1, <2>2 DEF RunInv, HeldOnce
  <2>4. Queues' /\ Waiting' = Waiting \cup {j}
    BY <2>1, <2>3, QueuesPush DEF RunInv, Typing
  <2>5. /\ thread' \in [Thread -> State]
        /\ thread'[t] = [thread[t] EXCEPT !.pc = "notify"]
        /\ \A u \in Thread : u # t => thread'[u] = thread[u]
    BY <1>0, <2>1 DEF RunInv, Typing, Go, State, PC
  <2>6. thread'[t].pc = "notify" /\ thread'[t].dep = j /\ thread'[t].job \in Job
        /\ thread'[t].then # "idle"
    BY <1>0, <2>1, <2>5 DEF State, Locals, At
  <2>7. Typing'
    BY <2>1, <2>4, <2>5, <2>6 DEF RunInv, Typing, Locals
  <2>8. \A i \in Job : \A u \in Thread : Holds(u, i)' <=> Holds(u, i) /\ u # t
    BY <2>1, <2>5, <2>6 DEF Holds, At
  <2>9. \A u \in Thread : Holds(u, j) => u = t
    BY <2>1, <2>2 DEF RunInv, HeldOnce
  <2>10. HeldOnce'
    BY <2>4, <2>8, <2>9 DEF RunInv, HeldOnce
  <2>11. j \in queued /\ runs[j] = 0
    BY <2>1, <2>2 DEF RunInv, Unrun
  <2>12. Unrun'
    BY <2>1, <2>4, <2>8, <2>11 DEF RunInv, Unrun
  <2>13. Ended'
    BY <2>1, <2>5, <2>6 DEF RunInv, Ended, Excused
  <2>14. QED
    BY <2>7, <2>10, <2>12, <2>13 DEF RunInv
<1>4. ASSUME NotifyWorker(t)
      PROVE  RunInv'
  <2>1. At(t, "notify") /\ Become(t, on)
        /\ UNCHANGED <<queues, cancelled, queued, completed, runs>>
    BY <1>4 DEF NotifyWorker, flags, history
  <2>2. QED
    BY <1>1, <2>1, HarmlessStep DEF At
<1>5. QED
  BY <1>2, <1>3, <1>4 DEF EnqueueStep

\* Taking a job out of a queue makes the thread its only holder.
LEMMA TakeRun ==
  ASSUME RunInv, NEW t \in Thread, thread[t].pc \in Quiet,
         NEW back \in {"loop", "all", "pump"}, Take(t, back),
         UNCHANGED <<cancelled, queued, completed, runs>>
  PROVE  RunInv'
<1> USE DEF Quiet, Enqueuing
<1>1. PICK j \in Waiting :
        /\ Queues' /\ Waiting' = Waiting \ {j}
        /\ Become(t, [thread[t] EXCEPT !.pc = "start", !.job = j, !.back = back])
  BY QueuesTake DEF RunInv, Typing
<1>2. j \in Job
  BY DEF Waiting
<1>3. thread[t] \in State
  BY DEF RunInv, Typing
<1>4. /\ thread' \in [Thread -> State]
      /\ thread'[t] = [thread[t] EXCEPT !.pc = "start", !.job = j, !.back = back]
      /\ \A u \in Thread : u # t => thread'[u] = thread[u]
  <2>1. [thread[t] EXCEPT !.pc = "start", !.job = j, !.back = back] \in State
    BY <1>2, <1>3 DEF State, PC
  <2>2. QED
    BY <1>1, <2>1 DEF RunInv, Typing, Become
<1>5. thread'[t].pc = "start" /\ thread'[t].job = j
  BY <1>3, <1>4 DEF State
<1>6. Typing'
  BY <1>1, <1>2, <1>4, <1>5 DEF RunInv, Typing, Locals
<1>7. \A i \in Job : \A u \in Thread : Holds(u, i)' <=> Holds(u, i) \/ (u = t /\ i = j)
  BY <1>4, <1>5 DEF Holds
<1>8. \A u \in Thread : ~Holds(u, j)
  BY <1>2 DEF RunInv, HeldOnce
<1>9. HeldOnce'
  BY <1>1, <1>7, <1>8 DEF RunInv, HeldOnce
<1>10. Unrun'
  BY <1>1, <1>2, <1>7 DEF RunInv, Unrun
<1>11. Ended'
  BY <1>4, <1>5 DEF RunInv, Ended, Excused
<1>12. QED
  BY <1>6, <1>9, <1>10, <1>11 DEF RunInv

\* The steps of running a task: it is started by the one thread that holds
\* its job, which thereby gives up the right to run it.
LEMMA RunningRun ==
  ASSUME RunInv, NEW t \in Thread, RunStep(t)
  PROVE  RunInv'
<1> USE DEF Quiet, Enqueuing
<1>0. thread[t] \in State /\ Locals(t)
  BY DEF RunInv, Typing
<1> DEFINE j == thread[t].job
<1>1. ASSUME Start(t)
      PROVE  RunInv'
  <2>1. At(t, "start") /\ UNCHANGED <<queues, cancelled, queued, completed, runs>>
    BY <1>1 DEF Start, history
  <2>2. /\ Harmless(t, [thread[t] EXCEPT !.pc = "check"])
        /\ Harmless(t, [thread[t] EXCEPT !.pc = "check", !.hidden = TRUE])
    BY <1>0, <2>1 DEF Harmless, State, PC, Locals, At
  <2>3. \/ Become(t, [thread[t] EXCEPT !.pc = "check"])
        \/ Become(t, [thread[t] EXCEPT !.pc = "check", !.hidden = TRUE])
    BY <1>1 DEF Start, Go, Become
  <2>4. QED
    BY <2>1, <2>2, <2>3, HarmlessStep
<1>2. ASSUME Drain(t)
      PROVE  RunInv'
  <2>1. UNCHANGED <<queues, cancelled, queued, completed, runs>>
        /\ Become(t, [thread[t] EXCEPT !.hidden = FALSE])
    BY <1>2 DEF Drain, Become, history
  <2>2. Harmless(t, [thread[t] EXCEPT !.hidden = FALSE])
    BY <1>0 DEF Harmless, State, Locals, RunInv, Ended
  <2>3. QED
    BY <2>1, <2>2, HarmlessStep
<1>3. ASSUME Check(t)
      PROVE  RunInv'
  <2>1. At(t, "check") /\ j \in Job /\ UNCHANGED <<queues, cancelled, queued, completed>>
    BY <1>0, <1>3 DEF Check, At, Locals, flags
  <2>2. CASE /\ j \in cancelled /\ UNCHANGED runs
             /\ Become(t, [thread[t] EXCEPT !.pc = "finish", !.drop = TRUE])
    <3>1. Harmless(t, [thread[t] EXCEPT !.pc = "finish", !.drop = TRUE])
      BY <1>0, <2>1, <2>2 DEF Harmless, State, PC, Excused
    <3>2. QED
      BY <2>1, <2>2, <3>1, HarmlessStep
  <2>3. CASE j \notin cancelled /\ Go(t, "task") /\ runs' = [runs EXCEPT ![j] = @ + 1]
    <3>1. /\ thread' \in [Thread -> State]
          /\ thread'[t] = [thread[t] EXCEPT !.pc = "task"]
          /\ \A u \in Thread : u # t => thread'[u] = thread[u]
      BY <1>0, <2>3 DEF RunInv, Typing, Go, State, PC
    <3>2. thread'[t].pc = "task" /\ thread'[t].job = j
      BY <1>0, <3>1 DEF State
    <3>3. Waiting' = Waiting /\ Queues'
      BY <2>1, QueuesSame DEF RunInv, Typing
    <3>4. Holds(t, j)
      BY <2>1 DEF Holds, At
    <3>5. j \in queued /\ runs[j] = 0 /\ runs \in [Job -> Nat]
      BY <2>1, <3>4 DEF RunInv, Typing, Unrun
    <3>6. runs' \in [Job -> Nat] /\ \A i \in Job : runs'[i] = IF i = j THEN 1 ELSE runs[i]
      BY <2>1, <2>3, <3>5
    <3>7. Typing'
      BY <2>1, <3>1, <3>2, <3>3, <3>6 DEF RunInv, Typing, Locals
    <3>8. \A i \in Job : \A u \in Thread : Holds(u, i)' <=> Holds(u, i) /\ u # t
      BY <2>1, <3>1, <3>2 DEF Holds, At
    <3>9. j \notin Waiting /\ \A u \in Thread : Holds(u, j) => u = t
      BY <2>1, <3>4 DEF RunInv, HeldOnce
    <3>10. HeldOnce'
      BY <3>3, <3>8, <3>9 DEF RunInv, HeldOnce
    <3>11. Unrun'
      BY <2>1, <3>3, <3>5, <3>6, <3>8, <3>9 DEF RunInv, Unrun
    <3>12. \A i \in Job : Excused(i) => Excused(i)'
      BY <2>1, <3>5, <3>6 DEF Excused
    <3>13. Ended'
      <4>1. completed \subseteq Job /\ \A u \in Thread : thread[u].pc \notin Quiet => thread[u].job \in Job
        BY DEF RunInv, Typing, Locals
      <4>2. \A i \in completed' : Excused(i)'
        BY <2>1, <3>12, <4>1 DEF RunInv, Ended
      <4>3. ASSUME NEW u \in Thread
            PROVE  (/\ thread[u].pc = "finish" => Excused(thread[u].job)
                    /\ thread[u].pc \in {"remove", "decide"} => thread[u].job \in cancelled
                    /\ thread[u].pc = "task" => runs[thread[u].job] = 1)'
        <5>1. CASE u = t
          BY <2>1, <3>2, <3>6, <5>1
        <5>2. CASE u # t
          BY <2>1, <3>1, <3>5, <3>6, <3>12, <4>1, <5>2 DEF RunInv, Ended, Excused
        <5>3. QED
          BY <5>1, <5>2
      <4>4. QED
        BY <4>2, <4>3 DEF Ended, Excused
    <3>14. QED
      BY <3>7, <3>10, <3>11, <3>13 DEF RunInv
  <2>4. QED
    BY <1>3, <2>2, <2>3 DEF Check
<1>4. ASSUME EndTask(t)
      PROVE  RunInv'
  <2> DEFINE s == [thread[t] EXCEPT !.pc = "finish", !.drop = FALSE]
  <2>1. At(t, "task") /\ UNCHANGED <<queues, cancelled, queued, completed, runs>>
        /\ Become(t, s)
    BY <1>4 DEF EndTask, flags, history
  <2>2. Harmless(t, s)
    BY <1>0, <2>1 DEF Harmless, State, PC, Locals, At, Excused, RunInv, Ended
  <2>3. QED
    BY <2>1, <2>2, HarmlessStep
<1>5. QED
  BY <1>1, <1>2, <1>3, <1>4 DEF RunStep

\* The steps of FinishJob.
LEMMA FinishRun ==
  ASSUME RunInv, Linked, NEW t \in Thread, FinishStep(t)
  PROVE  RunInv'
<1> USE DEF Quiet, Enqueuing
<1>0. thread[t] \in State /\ Locals(t)
  BY DEF RunInv, Typing
<1> DEFINE j == thread[t].job
<1>1. Harmless(t, Finished(t)) /\ Finished(t) \in State /\ Finished(t).pc \in Quiet
  <2>1. thread[t].back \in {"idle", "loop", "all", "pump"} /\ thread[t].num \in Nat
    BY <1>0 DEF State
  <2>2. Finished(t).pc = thread[t].back
    BY DEF Finished, Idle
  <2>3. Finished(t) \in State
    BY <2>1 DEF Finished, Idle, State, PC
  <2>4. QED
    BY <2>1, <2>2, <2>3 DEF Harmless
<1>2. ASSUME MarkCompleted(t)
      PROVE  RunInv'
  <2>1. At(t, "finish") /\ j \in Job /\ UNCHANGED <<queues, cancelled, queued, runs>>
    BY <1>0, <1>2 DEF MarkCompleted, At, Locals, history
  <2>2. CASE Become(t, Finished(t)) /\ UNCHANGED completed
    BY <1>1, <2>1, <2>2, HarmlessStep
  <2>3. CASE completed' = completed \cup {j} /\ Go(t, "tally")
    <3>1. /\ thread' \in [Thread -> State]
          /\ thread'[t] = [thread[t] EXCEPT !.pc = "tally"]
          /\ \A u \in Thread : u # t => thread'[u] = thread[u]
      BY <1>0, <2>3 DEF RunInv, Typing, Go, State, PC
    <3>2. thread'[t].pc = "tally" /\ thread'[t].job = j
      BY <1>0, <3>1 DEF State
    <3>3. Waiting' = Waiting /\ Queues'
      BY <2>1, QueuesSame DEF RunInv, Typing
    <3>4. Typing'
      BY <2>1, <2>3, <3>1, <3>2, <3>3 DEF RunInv, Typing, Locals
    <3>5. \A i \in Job : \A u \in Thread : Holds(u, i)' => Holds(u, i)
      BY <3>1, <3>2 DEF Holds
    <3>6. HeldOnce' /\ Unrun'
      BY <2>1, <3>3, <3>5 DEF RunInv, HeldOnce, Unrun
    <3>7. Excused(j)
      BY <2>1 DEF RunInv, Ended, At
    <3>8. Ended'
      BY <2>1, <2>3, <3>1, <3>2, <3>7 DEF RunInv, Ended, Excused
    <3>9. QED
      BY <3>4, <3>6, <3>8 DEF RunInv
  <2>4. QED
    BY <1>2, <2>2, <2>3 DEF MarkCompleted
<1>3. ASSUME CountCompleted(t)
      PROVE  RunInv'
  <2> DEFINE s == [thread[t] EXCEPT !.pc = "copy"]
  <2>1. At(t, "tally") /\ UNCHANGED <<queues, cancelled, queued, completed, runs>>
        /\ Become(t, s)
    BY <1>3 DEF CountCompleted, Go, Become, flags, history
  <2>2. Harmless(t, s)
    BY <1>0, <2>1 DEF Harmless, State, PC, Locals, At
  <2>3. QED
    BY <2>1, <2>2, HarmlessStep
<1>4. ASSUME CopyDependents(t)
      PROVE  RunInv'
  <2> DEFINE r == dependents[j]
             s == [thread[t] EXCEPT !.pc = "wake", !.rest = r]
  <2>1. At(t, "copy") /\ UNCHANGED <<queues, cancelled, queued, completed, runs>>
        /\ Become(t, s)
    BY <1>4 DEF CopyDependents, flags, history
  <2>2. r \subseteq Job
    BY <1>0, <2>1 DEF Linked, Locals, At
  <2> HIDE DEF r
  <2>3. Harmless(t, s)
    BY <1>0, <2>1, <2>2 DEF Harmless, State, PC, Locals, At
  <2>4. QED
    BY <2>1, <2>3, HarmlessStep
<1>5. ASSUME WakeDependent(t)
      PROVE  RunInv'
  <2>1. At(t, "wake") /\ UNCHANGED <<queues, cancelled, queued, completed, runs>>
    BY <1>5 DEF WakeDependent, flags, history
  <2>2. PICK d \in thread[t].rest :
          \/ Become(t, [thread[t] EXCEPT !.rest = thread[t].rest \ {d}])
          \/ Become(t, [[thread[t] EXCEPT !.rest = thread[t].rest \ {d}]
                         EXCEPT !.pc = "enqueue", !.dep = d, !.then = "wake"])
    BY <1>5 DEF WakeDependent
  <2> DEFINE r == thread[t].rest \ {d}
             others == [thread[t] EXCEPT !.rest = r]
  <2>3. r \in SUBSET Job /\ d \in Job
    BY <1>0 DEF State
  <2> HIDE DEF r
  <2>4. others \in State /\ others.pc = "wake" /\ others.job = j
    BY <1>0, <2>1, <2>3 DEF State, At
  <2> HIDE DEF others
  <2>5. Harmless(t, others) /\ Harmless(t, [others EXCEPT !.pc = "enqueue", !.dep = d, !.then = "wake"])
    BY <1>0, <2>1, <2>3, <2>4 DEF Harmless, State, PC, Locals, At
  <2>6. QED
    BY <2>1, <2>2, <2>5, HarmlessStep DEF others, r
<1>6. ASSUME NotifyWaiters(t)
      PROVE  RunInv'
  <2>1. At(t, "wake") /\ UNCHANGED <<queues, cancelled, queued, completed, runs>>
    BY <1>6 DEF NotifyWaiters, flags, history
  <2>2. \A u \in Thread :
          \/ u = t /\ thread'[u] = Finished(t)
          \/ u # t /\ thread'[u] = thread[u]
          \/ u # t /\ thread[u].pc = "blocked" /\ thread'[u] = [thread[u] EXCEPT !.pc = "lock"]
    BY <1>6 DEF NotifyWaiters, At
  <2>3. thread' = [u \in Thread |-> thread'[u]]
    BY <1>6 DEF NotifyWaiters
  <2>4. \A u \in Thread : thread[u] \in State
    BY DEF RunInv, Typing
  <2>5. \A u \in Thread :
          \/ thread'[u] = thread[u]
          \/ thread'[u].pc \in Quiet
          \/ thread'[u].pc = "lock" /\ thread'[u].job = thread[u].job /\ thread[u].pc = "blocked"
    <3> SUFFICES ASSUME NEW u \in Thread
                 PROVE  \/ thread'[u] = thread[u]
                        \/ thread'[u].pc \in Quiet
                        \/ /\ thread'[u].pc = "lock" /\ thread'[u].job = thread[u].job
                           /\ thread[u].pc = "blocked"
      OBVIOUS
    <3>1. CASE thread[u].pc = "blocked" /\ thread'[u] = [thread[u] EXCEPT !.pc = "lock"]
      BY <2>4, <3>1 DEF State
    <3>2. QED
      BY <1>1, <2>2, <3>1, Zenon
  <2>6. \A u \in Thread : thread'[u] \in State
    <3> SUFFICES ASSUME NEW u \in Thread
                 PROVE  thread'[u] \in State
      OBVIOUS
    <3>1. [thread[u] EXCEPT !.pc = "lock"] \in State
      BY <2>4 DEF State, PC
    <3>2. QED
      BY <1>1, <2>2, <2>4, <3>1, Zenon
  <2>7. Waiting' = Waiting /\ Queues'
    BY <2>1, QueuesSame DEF RunInv, Typing
  <2>8. Typing'
    BY <2>1, <2>3, <2>5, <2>6, <2>7 DEF RunInv, Typing, Locals
  <2>9. \A i \in Job : \A u \in Thread : Holds(u, i)' => Holds(u, i)
    BY <2>5 DEF Holds
  <2>10. HeldOnce' /\ Unrun'
    BY <2>1, <2>7, <2>9 DEF RunInv, HeldOnce, Unrun
  <2>11. Ended'
    BY <2>1, <2>5 DEF RunInv, Ended, Excused
  <2>12. QED
    BY <2>8, <2>10, <2>11 DEF RunInv
<1>7. QED
  BY <1>2, <1>3, <1>4, <1>5, <1>6 DEF FinishStep

\* The steps of Cancel, Wait and the calls that count: a cancellation flags
\* the job before it takes it out of the queue.
LEMMA CancelRun ==
  ASSUME RunInv, NEW c \in Client,
         \/ \E j \in Job : Cancel(c, j)
         \/ FlagCancelled(c) \/ RemoveQueued(c) \/ Decide(c)
  PROVE  RunInv'
<1> USE DEF Quiet, Enqueuing
<1>0. c \in Thread /\ thread[c] \in State /\ Locals(c)
  BY DEF RunInv, Typing, Thread
<1>1. ASSUME NEW j \in Job, Cancel(c, j)
      PROVE  RunInv'
  <2> DEFINE s == [Idle EXCEPT !.pc = "flag", !.job = j, !.drop = TRUE]
  <2>1. Harmless(c, s)
    BY DEF Harmless, State, PC, Idle
  <2>2. Become(c, s) /\ UNCHANGED <<queues, cancelled, queued, completed, runs>>
    BY <1>1 DEF Cancel, flags, history
  <2>3. QED
    BY <1>0, <2>1, <2>2, HarmlessStep
<1>2. ASSUME FlagCancelled(c)
      PROVE  RunInv'
  <2> DEFINE j == thread[c].job
  <2>1. /\ At(c, "flag") /\ j \in Job /\ UNCHANGED <<queues, queued, completed, runs>>
        /\ cancelled' = cancelled \cup {j} /\ Go(c, "remove")
    BY <1>0, <1>2 DEF FlagCancelled, At, Locals, history
  <2>2. /\ thread' \in [Thread -> State]
        /\ thread'[c] = [thread[c] EXCEPT !.pc = "remove"]
        /\ \A u \in Thread : u # c => thread'[u] = thread[u]
    BY <1>0, <2>1 DEF RunInv, Typing, Go, State, PC
  <2>3. thread'[c].pc = "remove" /\ thread'[c].job = j
    BY <1>0, <2>2 DEF State
  <2>4. Waiting' = Waiting /\ Queues'
    BY <2>1, QueuesSame DEF RunInv, Typing
  <2>5. Typing'
    BY <2>1, <2>2, <2>3, <2>4 DEF RunInv, Typing, Locals
  <2>6. \A i \in Job : \A u \in Thread : Holds(u, i)' => Holds(u, i)
    BY <2>2, <2>3 DEF Holds
  <2>7. HeldOnce' /\ Unrun'
    BY <2>1, <2>4, <2>6 DEF RunInv, HeldOnce, Unrun
  <2>8. Ended'
    BY <2>1, <2>2, <2>3 DEF RunInv, Ended, Excused
  <2>9. QED
    BY <2>5, <2>7, <2>8 DEF RunInv
<1>3. ASSUME RemoveQueued(c)
      PROVE  RunInv'
  <2> DEFINE j == thread[c].job
  <2>1. /\ At(c, "remove") /\ j \in Job /\ j \in cancelled
        /\ UNCHANGED <<cancelled, queued, completed, runs>>
        /\ queues' = [i \in 1 .. 3 |-> RemoveFirst(queues[i], j)]
        /\ Go(c, "finish") \/ Go(c, "decide")
    BY <1>0, <1>3 DEF RemoveQueued, At, Locals, flags, history, RunInv, Ended
  <2>2. /\ thread' \in [Thread -> State]
        /\ \/ thread'[c] = [thread[c] EXCEPT !.pc = "finish"]
           \/ thread'[c] = [thread[c] EXCEPT !.pc = "decide"]
        /\ \A u \in Thread : u # c => thread'[u] = thread[u]
    BY <1>0, <2>1 DEF RunInv, Typing, Go, State, PC
  <2>3. thread'[c].pc \in {"finish", "decide"} /\ thread'[c].job = j
    BY <1>0, <2>2 DEF State
  <2>4. Queues' /\ Waiting' = Waiting \ {j}
    BY <2>1, QueuesRemove DEF RunInv, Typing
  <2>5. Typing'
    BY <2>1, <2>2, <2>3, <2>4 DEF RunInv, Typing, Locals
  <2>6. \A i \in Job : \A u \in Thread : Holds(u, i)' => Holds(u, i)
    BY <2>2, <2>3 DEF Holds
  <2>7. HeldOnce' /\ Unrun'
    BY <2>1, <2>4, <2>6 DEF RunInv, HeldOnce, Unrun
  <2>8. Ended'
    BY <2>1, <2>2, <2>3 DEF RunInv, Ended, Excused
  <2>9. QED
    BY <2>5, <2>7, <2>8 DEF RunInv
<1>4. ASSUME Decide(c)
      PROVE  RunInv'
  <2> DEFINE s == [thread[c] EXCEPT !.pc = "finish"]
  <2>1. At(c, "decide") /\ UNCHANGED <<queues, cancelled, queued, completed, runs>>
        /\ (Become(c, Idle) \/ Become(c, s))
    BY <1>4 DEF Decide, Return, Go, Become, flags, history
  <2>2. Harmless(c, s)
    BY <1>0, <2>1 DEF Harmless, State, PC, Locals, At, Excused, RunInv, Ended
  <2>3. QED
    BY <1>0, <2>1, <2>2, ReturnHarmless, HarmlessStep
<1>5. QED
  BY <1>1, <1>2, <1>3, <1>4

\* A thread that goes on inside a wait or between two calls.
LEMMA GoHarmless ==
  ASSUME RunInv, NEW t \in Thread,
         NEW pc \in Quiet \cup {"checked", "blocked"},
         pc \notin Quiet => thread[t].pc \in {"lock", "checked"}
  PROVE  Harmless(t, [thread[t] EXCEPT !.pc = pc])
<1>1. thread[t] \in State /\ Locals(t)
  BY DEF RunInv, Typing
<1>2. QED
  BY <1>1 DEF Harmless, State, PC, Locals, Quiet, Enqueuing

\* The steps of Wait, WaitFor, WaitForAll, Pump and the worker loop.
LEMMA WaitRun ==
  ASSUME RunInv, Linked, NEW c \in Client,
         \/ \E j \in Job : Wait(c, j)
         \/ Lock(c) \/ Block(c) \/ TimeOut(c) \/ WaitForAll(c)
         \/ AllCounted(c) \/ AllPump(c) \/ PumpTake(c) \/ PumpEnd(c)
  PROVE  RunInv'
<1> USE DEF Quiet
<1>0. c \in Thread /\ thread[c] \in State /\ Locals(c)
  BY DEF RunInv, Typing, Thread
<1>1. ASSUME NEW j \in Job, Wait(c, j)
      PROVE  RunInv'
  <2>1. /\ Harmless(c, [Idle EXCEPT !.pc = "lock", !.job = j])
        /\ Harmless(c, [Idle EXCEPT !.pc = "lock", !.job = j, !.drop = TRUE])
    BY DEF Harmless, State, PC, Idle, Enqueuing
  <2>2. /\ UNCHANGED <<queues, cancelled, queued, completed, runs>>
        /\ \/ Become(c, [Idle EXCEPT !.pc = "lock", !.job = j])
           \/ Become(c, [Idle EXCEPT !.pc = "lock", !.job = j, !.drop = TRUE])
    BY <1>1 DEF Wait, flags, history
  <2>3. QED
    BY <1>0, <2>1, <2>2, HarmlessStep
<1>2. ASSUME Lock(c) \/ Block(c) \/ PumpEnd(c) \/ AllCounted(c) \/ TimeOut(c)
      PROVE  RunInv'
  <2>1. UNCHANGED <<queues, cancelled, queued, completed, runs>>
    BY <1>2 DEF Lock, Block, PumpEnd, AllCounted, TimeOut, flags, history
  <2>2. \/ Become(c, Idle)
        \/ At(c, "lock") /\ Become(c, [thread[c] EXCEPT !.pc = "checked"])
        \/ At(c, "checked") /\ Become(c, [thread[c] EXCEPT !.pc = "blocked"])
    BY <1>2 DEF Lock, Block, PumpEnd, AllCounted, TimeOut, Return, Go, Become
  <2>3. QED
    BY <1>0, <2>1, <2>2, ReturnHarmless, GoHarmless, HarmlessStep DEF At
<1>3. ASSUME WaitForAll(c)
      PROVE  RunInv'
  <2>1. Harmless(c, [Idle EXCEPT !.pc = "all", !.num = submittedCount])
    BY DEF Linked, Harmless, State, PC, Idle, Enqueuing
  <2>2. /\ UNCHANGED <<queues, cancelled, queued, completed, runs>>
        /\ Become(c, [Idle EXCEPT !.pc = "all", !.num = submittedCount])
    BY <1>3 DEF WaitForAll, flags, history
  <2>3. QED
    BY <1>0, <2>1, <2>2, HarmlessStep
<1>4. ASSUME AllPump(c) \/ PumpTake(c)
      PROVE  RunInv'
  <2>1. /\ UNCHANGED <<cancelled, queued, completed, runs>>
        /\ thread[c].pc \in {"all", "idle", "pump"}
        /\ Take(c, "all") \/ Take(c, "pump")
    BY <1>4 DEF AllPump, PumpTake, At, flags, history
  <2>2. QED
    BY <1>0, <2>1, TakeRun
<1>5. QED
  BY <1>1, <1>2, <1>3, <1>4

\* Initialize, Shutdown and the worker loop: no worker that is started or
\* joined holds a job.
LEMMA LifeRun ==
  ASSUME RunInv, NEW t \in Thread,
         \/ Initialize(t) \/ Shutdown(t) \/ WakeAll(t) \/ Join(t) \/ WorkerPop(t)
  PROVE  RunInv'
<1> USE DEF Quiet, Enqueuing
<1>1. thread[t] \in State /\ Locals(t)
  BY DEF RunInv, Typing
<1>2. ASSUME Shutdown(t) \/ WakeAll(t)
      PROVE  RunInv'
  <2>1. /\ UNCHANGED <<queues, cancelled, queued, completed, runs>>
        /\ \/ Become(t, [thread[t] EXCEPT !.pc = "wakeall"])
           \/ Become(t, [thread[t] EXCEPT !.pc = "join"])
    BY <1>2 DEF Shutdown, WakeAll, Go, Become, flags, history
  <2>2. QED
    BY <2>1, GoHarmless, HarmlessStep
<1>3. ASSUME WorkerPop(t)
      PROVE  RunInv'
  <2>1. At(t, "loop") /\ UNCHANGED <<cancelled, queued, completed, runs>>
    BY <1>3 DEF WorkerPop, flags, history
  <2>2. CASE Go(t, "exited") /\ UNCHANGED queues
    <3>1. Become(t, [thread[t] EXCEPT !.pc = "exited"])
      BY <2>2 DEF Go, Become
    <3>2. QED
      BY <2>1, <2>2, <3>1, GoHarmless, HarmlessStep
  <2>3. CASE Take(t, "loop")
    BY <2>1, <2>3, TakeRun DEF At
  <2>4. CASE UNCHANGED <<queues, thread>>
    <3>1. Become(t, [thread[t] EXCEPT !.pc = "loop"])
      BY <1>1, <2>1, <2>4 DEF Become, RunInv, Typing, At, State
    <3>2. QED
      BY <2>1, <2>4, <3>1, GoHarmless, HarmlessStep
  <2>5. QED
    BY <1>3, <2>2, <2>3, <2>4 DEF WorkerPop
<1>4. ASSUME Initialize(t) \/ Join(t)
      PROVE  RunInv'
  <2>1. /\ UNCHANGED <<cancelled, queued, completed, runs>>
        /\ queues' = [i \in 1 .. 3 |-> << >>]
        /\ thread' = [u \in Thread |-> thread'[u]]
        /\ \A u \in Thread : thread'[u] \in {thread[u], Off, Looping, Idle}
    <3>1. CASE Initialize(t)
      BY <3>1 DEF Initialize, flags, history
    <3>2. CASE Join(t)
      BY <3>2 DEF Join, flags, history
    <3>3. QED
      BY <1>4, <3>1, <3>2
  <2>2. /\ Off \in State /\ Looping \in State /\ Idle \in State
        /\ Off.pc \in Quiet /\ Looping.pc \in Quiet /\ Idle.pc \in Quiet
    BY DEF Off, Looping, Idle, State, PC
  <2>3. \A u \in Thread : thread'[u] = thread[u] \/ thread'[u].pc \in Quiet
    BY <2>1, <2>2, Zenon
  <2>4. \A u \in Thread : thread'[u] \in State
    <3>1. \A u \in Thread : thread[u] \in State
      BY DEF RunInv, Typing
    <3>2. QED
      BY <2>1, <2>2, <3>1
  <2>5. Queues' /\ Waiting' = {}
    BY <2>1, QueuesClear
  <2>6. Typing'
    BY <2>1, <2>3, <2>4, <2>5 DEF RunInv, Typing, Locals
  <2>7. \A i \in Job : \A u \in Thread : Holds(u, i)' => Holds(u, i)
    BY <2>3 DEF Holds
  <2>8. HeldOnce' /\ Unrun'
    BY <2>1, <2>5, <2>7 DEF RunInv, HeldOnce, Unrun
  <2>9. Ended'
    BY <2>1, <2>3 DEF RunInv, Ended, Excused
  <2>10. QED
    BY <2>6, <2>8, <2>9 DEF RunInv
<1>5. QED
  BY <1>2, <1>3, <1>4

\* Only a submission adds dependents and is counted.
LEMMA LinkedStep ==
  ASSUME RunInv, Linked, [Next]_vars
  PROVE  Linked'
<1> USE DEF Linked
<1>1. ASSUME NEW t \in Thread, EnqueueStep(t) \/ RunStep(t) \/ FinishStep(t) \/ WorkerPop(t)
      PROVE  Linked'
  BY <1>1
     DEF EnqueueStep, MarkQueued, Push, NotifyWorker, RunStep, Start, Drain, Check, EndTask,
         FinishStep, MarkCompleted, CountCompleted, CopyDependents, WakeDependent, NotifyWaiters,
         WorkerPop, links, counts
<1>2. ASSUME NEW c \in Client, Register(c)
      PROVE  Linked'
  <2>1. thread[c] \in State /\ Locals(c)
    BY DEF RunInv, Typing, Thread
  <2>2. thread[c].job \in Job
    BY <1>2, <2>1 DEF Register, At, Locals, Quiet
  <2>3. QED
    BY <1>2, <2>2 DEF Register, counts
<1>3. ASSUME NEW c \in Client, CallStep(c), ~Register(c)
      PROVE  Linked'
  <2>1. CASE CountSubmitted(c) \/ Join(c)
    BY <2>1 DEF CountSubmitted, Join, links
  <2>2. CASE CheckDep(c) \/ StoreRemaining(c) \/ GiveHandle(c) \/ FlagCancelled(c)
             \/ RemoveQueued(c) \/ Decide(c)
    BY <2>2
       DEF CheckDep, StoreRemaining, GiveHandle, FlagCancelled, RemoveQueued, Decide, links, counts
  <2>3. CASE Lock(c) \/ Block(c) \/ AllCounted(c) \/ AllPump(c) \/ PumpTake(c) \/ PumpEnd(c)
             \/ WakeAll(c)
    BY <2>3 DEF Lock, Block, AllCounted, AllPump, PumpTake, PumpEnd, WakeAll, links, counts
  <2>4. QED
    BY <1>3, <2>1, <2>2, <2>3 DEF CallStep
<1>4. ASSUME NEW c \in Client, Call(c)
      PROVE  Linked'
  <2>1. CASE Initialize(c)
    BY <2>1 DEF Initialize, links
  <2>2. ASSUME NEW j \in Job, Submit(c, j) \/ ResetHandle(c, j) \/ Cancel(c, j) \/ Wait(c, j)
        PROVE  Linked'
    BY <2>2 DEF Submit, ResetHandle, Cancel, Wait, links, counts
  <2>3. CASE WaitForAll(c) \/ Shutdown(c) \/ TimeOut(c)
    BY <2>3 DEF WaitForAll, Shutdown, TimeOut, links, counts
  <2>4. QED
    BY <1>4, <2>1, <2>2, <2>3 DEF Call
<1>5. CASE UNCHANGED vars
  BY <1>5 DEF vars, links, counts
<1>6. QED
  BY <1>1, <1>2, <1>3, <1>4, <1>5 DEF Next, Step

\* Every step keeps the invariant.
LEMMA NextRun ==
  ASSUME RunInv, Linked, [Next]_vars
  PROVE  RunInv' /\ Linked'
<1>1. ASSUME NEW t \in Thread, Step(t)
      PROVE  RunInv'
  BY <1>1, EnqueueRun, RunningRun, FinishRun, LifeRun, SubmitRun, CancelRun, WaitRun
     DEF Step, CallStep
<1>2. ASSUME NEW c \in Client, Call(c)
      PROVE  RunInv'
  <2>1. c \in Thread
    BY DEF Thread
  <2>2. QED
    BY <1>2, <2>1, SubmitRun, CancelRun, WaitRun, LifeRun DEF Call
<1>3. CASE UNCHANGED vars
  <2>1. UNCHANGED <<queues, thread, cancelled, queued, completed, runs>>
    BY <1>3 DEF vars, flags, history
  <2>2. Waiting' = Waiting /\ Queues'
    BY <2>1, QueuesSame DEF RunInv, Typing
  <2>3. Typing'
    BY <2>1, <2>2 DEF RunInv, Typing, Locals
  <2>4. HeldOnce' /\ Unrun'
    BY <2>1, <2>2 DEF RunInv, HeldOnce, Unrun, Holds
  <2>5. Ended'
    BY <2>1 DEF RunInv, Ended, Excused
  <2>6. QED
    BY <2>3, <2>4, <2>5, LinkedStep DEF RunInv
<1>4. QED
  BY <1>1, <1>2, <1>3, LinkedStep DEF Next

\* The invariant holds in every state, whether the system starts before the
\* first Initialize or right after it.
AnyInit == \E on \in BOOLEAN : InitAs(on)

\* The right to run a job is one thing, from the submission to the task.
THEOREM RunInvariant == AnyInit /\ [][Next]_vars => [](RunInv /\ Linked)
<1>1. AnyInit => RunInv /\ Linked
  <2> SUFFICES ASSUME NEW on \in BOOLEAN, InitAs(on)
               PROVE  RunInv /\ Linked
    BY DEF AnyInit
  <2>1. RunInv
    BY InitRun
  <2>2. Linked
    BY DEF InitAs, Linked
  <2>3. QED
    BY <2>1, <2>2
<1>2. RunInv /\ Linked /\ [Next]_vars => (RunInv /\ Linked)'
  BY NextRun
<1>3. QED
  BY <1>1, <1>2, PTL

\* Only the thread that looks at the flag of a job starts its task.
LEMMA RunsStep ==
  ASSUME [Next]_vars
  PROVE  UNCHANGED runs \/ \E t \in Thread : Check(t)
<1>1. ASSUME NEW t \in Thread, Step(t), ~Check(t)
      PROVE  UNCHANGED runs
  BY <1>1
     DEF Step, EnqueueStep, MarkQueued, Push, NotifyWorker, RunStep, Start, Drain,
         EndTask, FinishStep, MarkCompleted, CountCompleted, CopyDependents, WakeDependent,
         NotifyWaiters, WorkerPop, CallStep, CheckDep, Register, StoreRemaining,
         CountSubmitted, GiveHandle, FlagCancelled, RemoveQueued, Decide, Lock, Block,
         AllCounted, AllPump, PumpTake, PumpEnd, WakeAll, Join, history
<1>2. ASSUME NEW c \in Client, Call(c)
      PROVE  UNCHANGED runs
  BY <1>2
     DEF Call, Submit, ResetHandle, Cancel, Wait, WaitForAll, Initialize, Shutdown, TimeOut,
         history
<1>3. CASE UNCHANGED vars
  BY <1>3 DEF vars, history
<1>4. QED
  BY <1>1, <1>2, <1>3 DEF Next

-----------------------------------------------------------------------------
(* A job is queued only when its dependencies have completed.              *)

\* The counts are numbers below the width of the counter.
LEMMA Finite ==
  ASSUME LinkTyping, NEW j \in Job
  PROVE  /\ IsFiniteSet(Registered(j)) /\ IsFiniteSet(Pending(j))
         /\ Cardinality(Registered(j)) \in Nat /\ Cardinality(Pending(j)) \in Nat
         /\ Cardinality(Pending(j)) <= Cardinality(Registered(j))
         /\ Cardinality(Registered(j)) < CounterSize
         /\ Pending(j) \subseteq Registered(j)
         /\ CounterSize \in Nat \ {0} /\ remaining[j] \in 0 .. CounterSize - 1
<1>1. IsFiniteSet(Deps[j]) /\ Cardinality(Deps[j]) < CounterSize /\ CounterSize \in Nat
      /\ Cardinality(Deps[j]) \in Nat
  BY JobAssumption, FS_CardinalityType
<1>2. Registered(j) \subseteq Deps[j] /\ Pending(j) \subseteq Registered(j)
  BY DEF LinkTyping, Pending
<1>3. /\ IsFiniteSet(Registered(j)) /\ IsFiniteSet(Pending(j))
      /\ Cardinality(Registered(j)) <= Cardinality(Deps[j])
      /\ Cardinality(Pending(j)) <= Cardinality(Registered(j))
  BY <1>1, <1>2, FS_Subset
<1>4. Cardinality(Registered(j)) \in Nat /\ Cardinality(Pending(j)) \in Nat
  BY <1>3, FS_CardinalityType
<1>5. remaining[j] \in 0 .. CounterSize - 1
  BY DEF LinkTyping
<1>6. QED
  BY <1>1, <1>2, <1>3, <1>4, <1>5

\* Before the first submission there are no links.
LEMMA InitLink ==
  ASSUME NEW on \in BOOLEAN, InitAs(on)
  PROVE  LinkInv
<1>1. \A t \in Thread : thread[t].pc \in {"idle", "off", "loop"}
  BY DEF InitAs, Idle, Off, Looping
<1>2. \A j \in Job : Registered(j) = {}
  BY DEF InitAs, Registered
<1>3. LinkTyping
  <2>1. \A j \in Job : CounterSize \in Nat \ {0}
    BY JobAssumption, FS_CardinalityType
  <2>2. QED
    BY <1>2, <2>1 DEF InitAs, LinkTyping
<1>4. PastOnce /\ SubmittedOnce /\ Registering
  BY <1>1 DEF PastOnce, Past, PastIn, SubmittedOnce, Submitting, SubmittingIn, Registering, Enqueuing
<1>5. Untouched
  BY <1>2 DEF Untouched, InitAs
<1>6. Counted /\ ReadyInv
  BY <1>1 DEF Counted, Stored, ReadyInv, InitAs, Enqueuing
<1>7. QED
  BY <1>3, <1>4, <1>5, <1>6 DEF LinkInv

\* A change of a thread's locals that no link depends on: it is not inside
\* Submit, and owes the dependents of a job what it owed.
Neutral(r, s) ==
  \/ /\ s.pc = r.pc /\ s.job = r.job /\ s.dep = r.dep /\ s.rest = r.rest
     /\ s.num = r.num /\ s.then = r.then
  \/ /\ r.pc \notin {"deps", "register", "count"} /\ s.pc \notin {"deps", "register", "count"}
     /\ \A d \in Job : PastIn(s, d) <=> PastIn(r, d)
     /\ \A d, j \in Job : OwesIn(s, d, j) <=> OwesIn(r, d, j)
     /\ s.pc \in Enqueuing \cup {"wake"} => r.pc \in Enqueuing \cup {"wake"} /\ s.rest = r.rest
     /\ s.pc \in Enqueuing => r.pc \in Enqueuing /\ s.dep = r.dep

\* A step of such changes keeps the links.
LEMMA NeutralStep ==
  ASSUME RunInv, LinkInv, \A t \in Thread : Neutral(thread[t], thread'[t]),
         UNCHANGED <<completed, dependents, remaining, submitted>>,
         \A j \in queued' : j \in queued \/ Ready(j)
  PROVE  LinkInv'
<1>1. \A j \in Job : Registered(j)' = Registered(j)
  BY DEF Registered
<1>2. \A t \in Thread : \A d \in Job : Past(t, d)' <=> Past(t, d)
  BY DEF Neutral, Past, PastIn
<1>3. \A t \in Thread : \A d, j \in Job : OwesIn(thread[t], d, j)' <=> OwesIn(thread[t], d, j)
  BY DEF Neutral, OwesIn, PastIn
<1>4. \A t \in Thread :
        \/ /\ thread'[t].pc = thread[t].pc /\ thread'[t].job = thread[t].job
           /\ thread'[t].dep = thread[t].dep /\ thread'[t].rest = thread[t].rest
           /\ thread'[t].num = thread[t].num
        \/ \A j \in Job : ~Submitting(t, j) /\ ~Submitting(t, j)' /\ thread'[t].pc # "count" /\ thread[t].pc # "count"
  BY DEF Neutral, Submitting, SubmittingIn
<1>5. \A t \in Thread : \A j \in Job : Submitting(t, j)' <=> Submitting(t, j)
  BY <1>4 DEF Submitting, SubmittingIn
<1>6. \A j \in Job : Pending(j)' = Pending(j)
  <2> SUFFICES ASSUME NEW j \in Job
               PROVE  Pending(j)' = Pending(j)
    OBVIOUS
  <2>1. Registered(j) \subseteq Job
    BY DEF Registered
  <2>2. QED
    BY <1>1, <1>3, <2>1 DEF Pending
<1>7. LinkTyping'
  BY <1>1 DEF LinkInv, LinkTyping
<1>8. PastOnce'
  <2>1. \A d \in Job : \A t \in Thread : Past(t, d) /\ thread'[t].pc \in Enqueuing \cup {"wake"} =>
          thread[t].pc \in Enqueuing \cup {"wake"} /\ thread'[t].rest = thread[t].rest
    BY DEF Neutral
  <2>2. QED
    BY <1>2, <2>1 DEF LinkInv, PastOnce
<1>9. SubmittedOnce' /\ Untouched'
  BY <1>1, <1>5 DEF LinkInv, SubmittedOnce, Untouched
<1>10. Registering'
  <2> SUFFICES ASSUME NEW j \in Job, NEW t \in Thread, Submitting(t, j)'
               PROVE  RegisteringIn(thread[t], j)'
    BY DEF Registering
  <2>1. /\ thread'[t].pc = thread[t].pc /\ thread'[t].dep = thread[t].dep
        /\ thread'[t].rest = thread[t].rest /\ thread'[t].num = thread[t].num
        /\ RegisteringIn(thread[t], j)
    BY <1>4, <1>5 DEF LinkInv, Registering
  <2>2. QED
    BY <1>1, <1>6, <2>1 DEF RegisteringIn, Covered, Wrapped
<1>11. Counted'
  <2> SUFFICES ASSUME NEW j \in Job, Stored(j)'
               PROVE  (Cardinality(Pending(j)) <= remaining[j] /\ Covered(j, {}))'
    BY DEF Counted
  <2>1. Stored(j)
    BY <1>4 DEF Stored
  <2>2. QED
    BY <1>1, <1>6, <2>1 DEF LinkInv, Counted, Covered
<1>12. ReadyInv'
  <2>1. \A t \in Thread : thread'[t].pc \in Enqueuing => thread[t].pc \in Enqueuing /\ thread'[t].dep = thread[t].dep
    BY DEF Neutral
  <2>2. QED
    BY <2>1 DEF LinkInv, ReadyInv, Ready
<1>13. QED
  BY <1>7, <1>8, <1>9, <1>10, <1>11, <1>12 DEF LinkInv

\* One thread changes.
LEMMA NeutralBecome ==
  ASSUME RunInv, LinkInv, NEW t \in Thread, NEW s, Become(t, s), Neutral(thread[t], s),
         UNCHANGED <<completed, dependents, remaining, submitted>>,
         \A j \in queued' : j \in queued \/ Ready(j)
  PROVE  LinkInv'
<1>1. \A u \in Thread : thread'[u] = IF u = t THEN s ELSE thread[u]
  BY DEF Become, RunInv, Typing
<1>2. \A u \in Thread : Neutral(thread[u], thread'[u])
  BY <1>1 DEF Neutral
<1>3. QED
  BY <1>2, NeutralStep

\* A thread that was at none of the steps links depend on, and is at none.
Unlinked ==
  Quiet \cup {"give", "start", "check", "task", "finish", "flag", "remove", "decide", "lock",
              "checked", "blocked"}

\* Between two such places nothing changes for the links.
LEMMA UnlinkedNeutral ==
  ASSUME NEW r, NEW s, r.pc \in Unlinked, s.pc \in Unlinked
  PROVE  Neutral(r, s)
BY DEF Neutral, Unlinked, Quiet, Enqueuing, PastIn, OwesIn

\* Where a thread goes.
LEMMA Goes ==
  ASSUME RunInv, NEW t \in Thread, NEW pc, Go(t, pc)
  PROVE  \E s : Become(t, s) /\ s.pc = pc
<1>1. thread[t] \in State
  BY DEF RunInv, Typing
<1>2. [thread[t] EXCEPT !.pc = pc].pc = pc
  BY <1>1 DEF State
<1>3. Become(t, [thread[t] EXCEPT !.pc = pc])
  BY DEF Go, Become
<1>4. QED
  BY <1>2, <1>3

\* The steps that change no link.
LEMMA UnlinkedLink ==
  ASSUME RunInv, LinkInv, NEW t \in Thread,
         \/ GiveHandle(t) \/ RunStep(t) \/ FlagCancelled(t) \/ RemoveQueued(t) \/ Decide(t)
         \/ Lock(t) \/ Block(t) \/ AllCounted(t) \/ AllPump(t) \/ PumpTake(t) \/ PumpEnd(t)
         \/ WakeAll(t) \/ WorkerPop(t) \/ WaitForAll(t) \/ Shutdown(t) \/ TimeOut(t)
         \/ \E j \in Job : ResetHandle(t, j) \/ Cancel(t, j) \/ Wait(t, j)
  PROVE  LinkInv'
<1>1. UNCHANGED <<queued, completed, dependents, remaining, submitted>>
  <2>1. CASE GiveHandle(t) \/ RunStep(t) \/ FlagCancelled(t) \/ RemoveQueued(t) \/ Decide(t)
    BY <2>1 DEF GiveHandle, RunStep, Start, Drain, Check, EndTask, FlagCancelled, RemoveQueued,
                Decide, flags, links, history
  <2>2. CASE Lock(t) \/ Block(t) \/ AllCounted(t) \/ AllPump(t) \/ PumpTake(t) \/ PumpEnd(t)
             \/ WakeAll(t) \/ WorkerPop(t) \/ WaitForAll(t) \/ Shutdown(t) \/ TimeOut(t)
    BY <2>2 DEF Lock, Block, AllCounted, AllPump, PumpTake, PumpEnd, WakeAll, WorkerPop,
                WaitForAll, Shutdown, TimeOut, flags, links, history
  <2>3. CASE \E j \in Job : ResetHandle(t, j) \/ Cancel(t, j) \/ Wait(t, j)
    BY <2>3 DEF ResetHandle, Cancel, Wait, flags, links, history
  <2>4. QED
    BY <2>1, <2>2, <2>3
<1>2. thread[t] \in State /\ Locals(t)
  BY DEF RunInv, Typing
<1>3. ASSUME NEW back, Take(t, back)
      PROVE  \E s : Become(t, s) /\ s.pc = "start"
  <2>1. PICK j \in Waiting : Become(t, [thread[t] EXCEPT !.pc = "start", !.job = j, !.back = back])
    BY <1>3, QueuesTake DEF RunInv, Typing
  <2>2. [thread[t] EXCEPT !.pc = "start", !.job = j, !.back = back].pc = "start"
    BY <1>2 DEF State
  <2>3. QED
    BY <2>1, <2>2
<1>4. \/ \E s : Become(t, s) /\ Neutral(thread[t], s)
      \/ \E s : Become(t, s) /\ thread[t].pc \in Unlinked /\ s.pc \in Unlinked
  <2> USE DEF Unlinked, Quiet
  <2>1. CASE GiveHandle(t) \/ TimeOut(t) \/ AllCounted(t) \/ PumpEnd(t) \/ WaitForAll(t)
    <3>1. Idle.pc = "idle" /\ [Idle EXCEPT !.pc = "all", !.num = submittedCount].pc = "all"
      BY DEF Idle
    <3>2. QED
      BY <2>1, <3>1 DEF GiveHandle, TimeOut, AllCounted, PumpEnd, WaitForAll, Return, At
  <2>2. CASE Start(t)
    <3>1. [thread[t] EXCEPT !.pc = "check", !.hidden = TRUE].pc = "check"
      BY <1>2 DEF State
    <3>2. At(t, "start")
          /\ (Go(t, "check") \/ Become(t, [thread[t] EXCEPT !.pc = "check", !.hidden = TRUE]))
      BY <2>2 DEF Start
    <3>3. \E s : Become(t, s) /\ s.pc = "check"
      BY <3>1, <3>2, Goes
    <3>4. QED
      BY <3>2, <3>3 DEF At
  <2>3. CASE Check(t)
    <3>1. [thread[t] EXCEPT !.pc = "finish", !.drop = TRUE].pc = "finish"
      BY <1>2 DEF State
    <3>2. At(t, "check")
          /\ (Go(t, "task") \/ Become(t, [thread[t] EXCEPT !.pc = "finish", !.drop = TRUE]))
      BY <2>3 DEF Check
    <3>3. \E s : Become(t, s) /\ s.pc \in {"task", "finish"}
      BY <3>1, <3>2, Goes
    <3>4. QED
      BY <3>2, <3>3 DEF At
  <2>10. CASE EndTask(t)
    <3>1. [thread[t] EXCEPT !.pc = "finish", !.drop = FALSE].pc = "finish"
      BY <1>2 DEF State
    <3>2. At(t, "task") /\ Become(t, [thread[t] EXCEPT !.pc = "finish", !.drop = FALSE])
      BY <2>10 DEF EndTask
    <3>3. QED
      BY <3>1, <3>2 DEF At
  <2>11. CASE Drain(t)
    <3> DEFINE s == [thread[t] EXCEPT !.hidden = FALSE]
    <3>1. Become(t, s)
      BY <2>11 DEF Drain, Become
    <3>2. Neutral(thread[t], s)
      BY <1>2 DEF Neutral, State
    <3>3. QED
      BY <3>1, <3>2
  <2>4. CASE FlagCancelled(t) \/ RemoveQueued(t) \/ Decide(t)
    BY <1>2, <2>4 DEF FlagCancelled, RemoveQueued, Decide, Return, Go, Become, At, State, Idle
  <2>5. CASE Lock(t) \/ Block(t) \/ WakeAll(t) \/ Shutdown(t)
    BY <1>2, <2>5 DEF Lock, Block, WakeAll, Shutdown, Return, Go, Become, At, State, Idle
  <2>6. CASE AllPump(t) \/ PumpTake(t)
    BY <1>3, <2>6 DEF AllPump, PumpTake, At
  <2>7. CASE WorkerPop(t)
    <3>1. CASE Take(t, "loop")
      BY <1>3, <2>7, <3>1 DEF WorkerPop, At
    <3>2. CASE Go(t, "exited")
      BY <2>7, <3>2, Goes DEF WorkerPop, At
    <3>3. CASE UNCHANGED thread
      <4>1. Become(t, thread[t])
        BY <3>3 DEF Become, RunInv, Typing
      <4>2. QED
        BY <4>1 DEF Neutral
    <3>4. QED
      BY <2>7, <3>1, <3>2, <3>3 DEF WorkerPop
  <2>8. CASE \E j \in Job : ResetHandle(t, j) \/ Cancel(t, j) \/ Wait(t, j)
    <3>1. PICK j \in Job : ResetHandle(t, j) \/ Cancel(t, j) \/ Wait(t, j)
      BY <2>8
    <3>2. CASE ResetHandle(t, j)
      <4>1. Become(t, thread[t])
        BY <3>2 DEF Become, ResetHandle, RunInv, Typing
      <4>2. QED
        BY <4>1 DEF Neutral
    <3>3. CASE Cancel(t, j) \/ Wait(t, j)
      <4>1. thread[t].pc = "idle"
            /\ \/ Become(t, [Idle EXCEPT !.pc = "flag", !.job = j, !.drop = TRUE])
               \/ Become(t, [Idle EXCEPT !.pc = "lock", !.job = j])
               \/ Become(t, [Idle EXCEPT !.pc = "lock", !.job = j, !.drop = TRUE])
        BY <3>3 DEF Cancel, Wait, At
      <4>2. /\ [Idle EXCEPT !.pc = "flag", !.job = j, !.drop = TRUE].pc = "flag"
            /\ [Idle EXCEPT !.pc = "lock", !.job = j].pc = "lock"
            /\ [Idle EXCEPT !.pc = "lock", !.job = j, !.drop = TRUE].pc = "lock"
        BY DEF Idle
      <4>3. QED
        BY <4>1, <4>2
    <3>4. QED
      BY <3>1, <3>2, <3>3
  <2>9. QED
    BY <2>1, <2>2, <2>3, <2>4, <2>5, <2>6, <2>7, <2>8, <2>10, <2>11 DEF RunStep
<1>5. ASSUME NEW s, Become(t, s), Neutral(thread[t], s)
      PROVE  LinkInv'
  BY <1>1, <1>5, NeutralBecome
<1>6. ASSUME NEW s, Become(t, s), thread[t].pc \in Unlinked, s.pc \in Unlinked
      PROVE  LinkInv'
  BY <1>1, <1>6, UnlinkedNeutral, NeutralBecome
<1>7. QED
  BY <1>4, <1>5, <1>6

\* Every handler that changes links changes one thread.
LEMMA Becomes ==
  ASSUME RunInv, NEW t \in Thread, NEW s, Become(t, s)
  PROVE  thread'[t] = s /\ \A u \in Thread : u # t => thread'[u] = thread[u]
BY DEF Become, RunInv, Typing

\* EnqueueIfReady marks only jobs whose dependencies have completed.
LEMMA EnqueueLink ==
  ASSUME RunInv, LinkInv, NEW t \in Thread, EnqueueStep(t)
  PROVE  LinkInv'
<1>1. thread[t] \in State /\ Locals(t)
  BY DEF RunInv, Typing
<1> DEFINE on == [thread[t] EXCEPT !.pc = thread[t].then, !.then = "idle", !.dep = NoJob]
<1>2. ASSUME thread[t].pc \in Enqueuing
      PROVE  Neutral(thread[t], on)
  <2>1. /\ on.pc = thread[t].then /\ on.job = thread[t].job /\ on.rest = thread[t].rest
        /\ thread[t].then \in {"give", "wake"}
    BY <1>1, <1>2 DEF State, Locals
  <2>2. QED
    BY <1>2, <2>1 DEF Neutral, PastIn, OwesIn, Enqueuing
<1>3. ASSUME NEW pc \in {"push", "notify"}, thread[t].pc \in Enqueuing
      PROVE  Neutral(thread[t], [thread[t] EXCEPT !.pc = pc])
  <2> DEFINE s == [thread[t] EXCEPT !.pc = pc]
  <2>1. /\ s.pc = pc /\ s.job = thread[t].job /\ s.rest = thread[t].rest
        /\ s.then = thread[t].then /\ s.dep = thread[t].dep
    BY <1>1 DEF State
  <2> HIDE DEF s
  <2>2. Neutral(thread[t], s)
    BY <1>3, <2>1 DEF Neutral, PastIn, OwesIn, Enqueuing
  <2>3. QED
    BY <2>2 DEF s
<1>4. /\ thread[t].pc \in Enqueuing
      /\ UNCHANGED <<completed, dependents, remaining, submitted>>
      /\ \A j \in queued' : j \in queued \/ (thread[t].pc = "enqueue" /\ j = thread[t].dep)
  BY DEF EnqueueStep, MarkQueued, Push, NotifyWorker, At, Enqueuing, flags, links, history
<1>5. \A j \in queued' : j \in queued \/ Ready(j)
  BY <1>4 DEF LinkInv, ReadyInv
<1>6. Become(t, on) \/ Become(t, [thread[t] EXCEPT !.pc = "push"])
      \/ Become(t, [thread[t] EXCEPT !.pc = "notify"])
  BY DEF EnqueueStep, MarkQueued, Push, NotifyWorker, Go, Become
<1>7. QED
  BY <1>2, <1>3, <1>4, <1>5, <1>6, NeutralBecome

\* Initialize and Shutdown change no thread that is inside Submit or has
\* dependents to wake.
LEMMA LifeLink ==
  ASSUME RunInv, LinkInv, NEW c \in Client, Initialize(c) \/ Join(c)
  PROVE  LinkInv'
<1>1. UNCHANGED <<queued, completed, dependents, remaining, submitted>>
  BY DEF Initialize, Join, flags, links, history
<1>2. Idle.pc = "idle" /\ Off.pc = "off" /\ Looping.pc = "loop"
  BY DEF Idle, Off, Looping
<1>3. \A u \in Thread : Neutral(thread[u], thread'[u])
  <2> SUFFICES ASSUME NEW u \in Thread
               PROVE  Neutral(thread[u], thread'[u])
    OBVIOUS
  <2>1. CASE thread'[u] = thread[u]
    BY <2>1 DEF Neutral
  <2>2. CASE Initialize(c) /\ thread'[u] # thread[u]
    <3>1. thread'[u] = Looping /\ thread[u].pc = "off"
      BY <2>2 DEF Initialize, NoWorkers, At
    <3>2. QED
      BY <1>2, <3>1, UnlinkedNeutral DEF Unlinked, Quiet
  <2>3. CASE Join(c) /\ thread'[u] # thread[u]
    <3>1. thread'[u] \in {Off, Idle} /\ thread[u].pc \in {"exited", "join"}
      BY <2>3 DEF Join, At
    <3>2. QED
      BY <1>2, <3>1, UnlinkedNeutral DEF Unlinked, Quiet
  <2>4. QED
    BY <2>1, <2>2, <2>3
<1>4. QED
  BY <1>1, <1>3, NeutralStep

\* A submission starts with a job nobody is registered for.
LEMMA SubmitLink ==
  ASSUME RunInv, LinkInv, NEW c \in Client, NEW j \in Job, Submit(c, j)
  PROVE  LinkInv'
<1> DEFINE s == [Idle EXCEPT !.pc = "deps", !.job = j, !.rest = Deps[j]]
<1>1. /\ j \notin submitted /\ \A t \in Thread : thread[t].job # j
      /\ Become(c, s) /\ thread[c].pc = "idle" /\ c \in Thread
      /\ UNCHANGED <<queued, completed, dependents, remaining, submitted>>
  BY DEF Submit, At, Thread, flags, links, history
<1>2. /\ s.pc = "deps" /\ s.job = j /\ s.rest = Deps[j] /\ s.num = 0
  BY DEF Idle
<1> HIDE DEF s
<1>3. thread'[c] = s /\ \A u \in Thread : u # c => thread'[u] = thread[u]
  BY <1>1, Becomes
<1>4. Registered(j) = {} /\ remaining[j] = 0
  BY <1>1 DEF LinkInv, Untouched, Submitting, SubmittingIn
<1>5. \A i \in Job : Registered(i)' = Registered(i)
  BY <1>1 DEF Registered
<1>6. \A t \in Thread : \A d \in Job : Past(t, d)' <=> Past(t, d)
  BY <1>1, <1>2, <1>3 DEF Past, PastIn, Enqueuing
<1>7. \A t \in Thread : \A d, i \in Job : OwesIn(thread[t], d, i)' <=> OwesIn(thread[t], d, i)
  BY <1>1, <1>2, <1>3 DEF OwesIn, PastIn, Enqueuing
<1>8. \A i \in Job : Pending(i)' = Pending(i)
  BY <1>1, <1>5, <1>7 DEF Pending, Registered
<1>9. \A t \in Thread : \A i \in Job : Submitting(t, i)' <=> Submitting(t, i) \/ (t = c /\ i = j)
  BY <1>1, <1>2, <1>3 DEF Submitting, SubmittingIn
<1>10. LinkTyping'
  BY <1>1, <1>5 DEF LinkInv, LinkTyping
<1>11. PastOnce'
  BY <1>1, <1>3, <1>6 DEF LinkInv, PastOnce, Past, PastIn, Enqueuing
<1>12. \A t \in Thread : ~Submitting(t, j)
  BY <1>1 DEF Submitting, SubmittingIn
<1>13. SubmittedOnce' /\ Untouched'
  BY <1>1, <1>5, <1>9, <1>12 DEF LinkInv, SubmittedOnce, Untouched
<1>14. Registering'
  <2> SUFFICES ASSUME NEW i \in Job, NEW t \in Thread, Submitting(t, i)'
               PROVE  RegisteringIn(thread[t], i)'
    BY DEF Registering
  <2>1. CASE t = c
    <3>1. i = j
      BY <1>2, <1>3, <2>1 DEF Submitting, SubmittingIn
    <3>2. Cardinality({}) = 0
      BY FS_EmptySet
    <3>3. QED
      BY <1>1, <1>2, <1>3, <1>4, <1>5, <2>1, <3>1, <3>2 DEF RegisteringIn, Covered, Wrapped
  <2>2. CASE t # c
    <3>1. RegisteringIn(thread[t], i)
      BY <1>9, <2>2 DEF LinkInv, Registering
    <3>2. QED
      BY <1>1, <1>3, <1>5, <1>8, <2>2, <3>1 DEF RegisteringIn, Covered, Wrapped
  <2>3. QED
    BY <2>1, <2>2
<1>15. Counted'
  <2> SUFFICES ASSUME NEW i \in Job, Stored(i)'
               PROVE  (Cardinality(Pending(i)) <= remaining[i] /\ Covered(i, {}))'
    BY DEF Counted
  <2>1. Stored(i)
    BY <1>1, <1>2, <1>3 DEF Stored
  <2>2. QED
    BY <1>1, <1>5, <1>8, <2>1 DEF LinkInv, Counted, Covered
<1>16. ReadyInv'
  BY <1>1, <1>2, <1>3 DEF LinkInv, ReadyInv, Ready, Enqueuing
<1>17. QED
  BY <1>10, <1>11, <1>13, <1>14, <1>15, <1>16 DEF LinkInv

\* What a step inside Submit of job j leaves as it was: what is owed, and all
\* that concerns other threads and jobs.
OthersKept(c, j) ==
  /\ \A d, i \in Job : \A t \in Thread : OwesIn(thread[t], d, i)' <=> OwesIn(thread[t], d, i)
  /\ \A t \in Thread : \A i \in Job : t # c =>
       /\ Submitting(t, i)' <=> Submitting(t, i)
       /\ Submitting(t, i) => i # j /\ RegisteringIn(thread[t], i)'
  /\ PastOnce' /\ ReadyInv'
  /\ \A i \in Job \ {j} : Stored(i)' => Cardinality(Pending(i))' <= remaining'[i] /\ Covered(i, {})'
  /\ \A i \in Job \ {j} : i \notin submitted' /\ (\A t \in Thread : ~Submitting(t, i)') =>
       Registered(i)' = {} /\ remaining'[i] = 0

\* A step inside Submit of job j concerns no other thread or job.
LEMMA InSubmit ==
  ASSUME RunInv, LinkInv, NEW c \in Thread, NEW s, NEW j \in Job, Become(c, s),
         Submitting(c, j), s.job = j, s.pc \notin {"tally", "copy", "wake"},
         s.pc \in Enqueuing => s.then = "give" /\ s.dep = j /\ Ready(j),
         completed' = completed, queued' = queued, submitted \subseteq submitted',
         \A i \in submitted' : i \in submitted \/ i = j,
         \A i \in Job \ {j} : Registered(i)' = Registered(i) /\ remaining'[i] = remaining[i],
         \A d \in Job : dependents[d] \subseteq dependents'[d]
  PROVE  OthersKept(c, j)
<1>1. thread'[c] = s /\ \A u \in Thread : u # c => thread'[u] = thread[u]
  BY Becomes
<1>2. thread[c].pc \in {"deps", "register", "count"} /\ thread[c].job = j
  BY DEF Submitting, SubmittingIn
<1>3. \A t \in Thread : \A d \in Job : Past(t, d)' <=> Past(t, d)
  BY <1>1, <1>2 DEF Past, PastIn, Enqueuing
<1>4. \A d, i \in Job : \A t \in Thread : OwesIn(thread[t], d, i)' <=> OwesIn(thread[t], d, i)
  BY <1>1, <1>2 DEF OwesIn, PastIn, Enqueuing
<1>5. \A i \in Job \ {j} : Pending(i)' = Pending(i)
  BY <1>4 DEF Pending, Registered
<1>6. ASSUME NEW t \in Thread, NEW i \in Job, t # c
      PROVE  /\ Submitting(t, i)' <=> Submitting(t, i)
             /\ Submitting(t, i) => i # j /\ RegisteringIn(thread[t], i)'
  <2>1. Submitting(t, i)' <=> Submitting(t, i)
    BY <1>1, <1>6 DEF Submitting
  <2>2. ASSUME Submitting(t, i)
        PROVE  i # j /\ RegisteringIn(thread[t], i)'
    <3>1. i # j
      BY <1>6, <2>2 DEF LinkInv, SubmittedOnce
    <3>2. RegisteringIn(thread[t], i)
      BY <2>2 DEF LinkInv, Registering
    <3>3. QED
      BY <1>1, <1>5, <1>6, <3>1, <3>2 DEF RegisteringIn, Covered, Wrapped
  <2>3. QED
    BY <2>1, <2>2
<1>7. PastOnce'
  <2> SUFFICES ASSUME NEW d \in Job, NEW t \in Thread, Past(t, d)'
               PROVE  /\ d \in completed' /\ \A u \in Thread : Past(u, d)' => u = t
                      /\ thread'[t].pc \in Enqueuing \cup {"wake"} =>
                           thread'[t].rest \subseteq dependents'[d]
    BY DEF PastOnce
  <2>1. Past(t, d) /\ t # c
    BY <1>2, <1>3 DEF Past, PastIn, Enqueuing
  <2>2. QED
    BY <1>1, <1>3, <2>1 DEF LinkInv, PastOnce
<1>8. ReadyInv'
  BY <1>1 DEF LinkInv, ReadyInv, Ready
<1>9. ASSUME NEW i \in Job \ {j}, Stored(i)'
      PROVE  Cardinality(Pending(i))' <= remaining'[i] /\ Covered(i, {})'
  <2>1. Stored(i)
    BY <1>1, <1>9 DEF Stored
  <2>2. QED
    BY <1>5, <1>9, <2>1 DEF LinkInv, Counted, Covered
<1>10. ASSUME NEW i \in Job \ {j}, i \notin submitted', \A t \in Thread : ~Submitting(t, i)'
       PROVE  Registered(i)' = {} /\ remaining'[i] = 0
  <2>1. \A t \in Thread : ~Submitting(t, i)
    BY <1>2, <1>6, <1>10 DEF Submitting, SubmittingIn
  <2>2. QED
    BY <1>10, <2>1 DEF LinkInv, Untouched
<1>11. QED
  BY <1>4, <1>6, <1>7, <1>8, <1>9, <1>10 DEF OthersKept

\* A dependency that has completed is skipped, another one looked up.
LEMMA CheckDepLink ==
  ASSUME RunInv, LinkInv, NEW c \in Thread, CheckDep(c)
  PROVE  LinkInv'
<1>a. PICK j \in Job : thread[c].job = j
  BY DEF RunInv, Typing, Locals, CheckDep, At, Quiet
<1>0. thread[c] \in State /\ Submitting(c, j) /\ thread[c].pc = "deps"
  BY <1>a DEF RunInv, Typing, CheckDep, At, Submitting, SubmittingIn
<1>1. UNCHANGED <<queued, completed, dependents, remaining, submitted>>
  BY DEF CheckDep, flags, links, history
<1>2. PICK d \in thread[c].rest :
        Become(c, IF d \in completed
                  THEN [thread[c] EXCEPT !.rest = @ \ {d}]
                  ELSE [thread[c] EXCEPT !.pc = "register", !.dep = d])
  BY DEF CheckDep
<1>3. PICK s : /\ Become(c, s)
               /\ s.job = j /\ s.num = thread[c].num
               /\ \/ d \in completed /\ s.pc = "deps" /\ s.rest = thread[c].rest \ {d}
                  \/ s.pc = "register" /\ s.rest = thread[c].rest /\ s.dep = d
  <2>1. CASE d \in completed
    <3> DEFINE s == [thread[c] EXCEPT !.rest = @ \ {d}]
    <3>1. s.job = j /\ s.num = thread[c].num /\ s.pc = "deps" /\ s.rest = thread[c].rest \ {d}
      BY <1>0, <1>a DEF State
    <3>2. QED
      BY <1>2, <2>1, <3>1
  <2>2. CASE d \notin completed
    <3> DEFINE s == [thread[c] EXCEPT !.pc = "register", !.dep = d]
    <3>1. s.job = j /\ s.num = thread[c].num /\ s.pc = "register" /\ s.rest = thread[c].rest
          /\ s.dep = d
      BY <1>0, <1>a DEF State
    <3>2. QED
      BY <1>2, <2>2, <3>1
  <2>3. QED
    BY <2>1, <2>2
<1>4. \A i \in Job : Registered(i)' = Registered(i)
  BY <1>1 DEF Registered
<1>5. OthersKept(c, j)
  BY <1>0, <1>1, <1>3, <1>4, InSubmit DEF Enqueuing
<1>6. Pending(j)' = Pending(j)
  <2>1. \A d1 \in Job : \A t \in Thread : OwesIn(thread[t], d1, j)' <=> OwesIn(thread[t], d1, j)
    BY <1>0, <1>5 DEF OthersKept
  <2>2. Registered(j)' = Registered(j) /\ Registered(j) \subseteq Job
    BY <1>0, <1>4 DEF Registered
  <2>3. QED
    BY <1>1, <2>1, <2>2 DEF Pending
<1>7. thread'[c] = s /\ \A u \in Thread : u # c => thread'[u] = thread[u]
  BY <1>3, Becomes
<1>8. \A i \in Job : Submitting(c, i)' <=> i = j
  BY <1>0, <1>3, <1>7 DEF Submitting, SubmittingIn
<1>9. LinkTyping'
  BY <1>1, <1>4 DEF LinkInv, LinkTyping
<1>10. SubmittedOnce'
  BY <1>0, <1>1, <1>5, <1>8 DEF LinkInv, SubmittedOnce, OthersKept
<1>11. Untouched'
  BY <1>0, <1>5, <1>8 DEF Untouched, OthersKept
<1>12. RegisteringIn(thread[c], j)'
  <2>1. RegisteringIn(thread[c], j)
    BY <1>0 DEF LinkInv, Registering
  <2>2. Registered(j)' = Registered(j)
    BY <1>0, <1>4
  <2>3. s.pc \in {"deps", "register"} /\ s.rest \subseteq thread[c].rest /\ s.num = thread[c].num
        /\ (s.pc = "register" => s.dep \in s.rest)
        /\ \A e \in thread[c].rest \ s.rest : e \in completed
    BY <1>3
  <2>4. Covered(j, s.rest)'
    BY <1>1, <2>1, <2>2, <2>3 DEF RegisteringIn, Covered
  <2>5. Wrapped(j)'
    BY <1>0, <1>1, <1>6, <2>1, <2>2 DEF RegisteringIn, Wrapped
  <2>6. QED
    BY <1>0, <1>7, <2>1, <2>2, <2>3, <2>4, <2>5 DEF RegisteringIn
<1>13. Registering'
  <2>1. \A t \in Thread : \A i \in Job : t # c /\ Submitting(t, i)' => RegisteringIn(thread[t], i)'
    BY <1>5 DEF OthersKept
  <2>2. QED
    BY <1>8, <1>12, <2>1 DEF Registering
<1>14. ~Stored(j)'
  <2>1. j \notin submitted /\ \A t \in Thread : t # c => ~Submitting(t, j)
    BY <1>0 DEF LinkInv, SubmittedOnce
  <2>2. QED
    <3>1. \A t \in Thread : ~(thread'[t].pc = "count" /\ thread'[t].job = j)
      BY <1>3, <1>7, <2>1 DEF Submitting, SubmittingIn
    <3>2. QED
      BY <1>1, <2>1, <3>1 DEF Stored
<1>15. Counted'
  <2>1. \A i \in Job \ {j} : Stored(i)' => Cardinality(Pending(i))' <= remaining'[i] /\ Covered(i, {})'
    BY <1>5 DEF OthersKept
  <2>2. QED
    BY <1>14, <2>1 DEF Counted
<1>16. QED
  BY <1>5, <1>9, <1>10, <1>11, <1>13, <1>15 DEF LinkInv, OthersKept

\* The job is registered with a dependency that had not completed: one more
\* count, and at most one more completion to come.
LEMMA RegisterLink ==
  ASSUME RunInv, Linked, LinkInv, NEW c \in Thread, Register(c)
  PROVE  LinkInv'
<1>1. PICK j \in Job : thread[c].job = j
  BY DEF RunInv, Typing, Locals, Register, At, Quiet
<1>2. thread[c] \in State /\ Submitting(c, j) /\ thread[c].pc = "register"
  BY <1>1 DEF RunInv, Typing, Register, At, Submitting, SubmittingIn
<1>3. PICK d \in Job : thread[c].dep = d /\ d \in thread[c].rest
  BY <1>2 DEF LinkInv, Registering, RegisteringIn, State
<1>4. RegisteringIn(thread[c], j)
  BY <1>2 DEF LinkInv, Registering
<1>5. d \in Deps[j] /\ d \notin Registered(j)
  BY <1>2, <1>3, <1>4 DEF RegisteringIn
<1>6. /\ UNCHANGED <<queued, completed, remaining, submitted>>
      /\ dependents' = [dependents EXCEPT ![d] = @ \cup {j}]
  BY <1>1, <1>3 DEF Register, flags, history
<1>7. PICK s : /\ Become(c, s)
               /\ s.job = j /\ s.num = thread[c].num + 1 /\ s.pc = "deps"
               /\ s.rest = thread[c].rest \ {d}
  <2> DEFINE s == [thread[c] EXCEPT !.pc = "deps", !.dep = NoJob, !.num = @ + 1, !.rest = @ \ {d}]
  <2>1. s.job = j /\ s.num = thread[c].num + 1 /\ s.pc = "deps" /\ s.rest = thread[c].rest \ {d}
    BY <1>1, <1>2 DEF State
  <2>2. Become(c, s)
    BY <1>3 DEF Register
  <2>3. QED
    BY <2>1, <2>2
<1>8. \A e \in Job : dependents'[e] = IF e = d THEN dependents[e] \cup {j} ELSE dependents[e]
  BY <1>6 DEF Linked
<1>9. Registered(j)' = Registered(j) \cup {d} /\ \A i \in Job \ {j} : Registered(i)' = Registered(i)
  BY <1>8 DEF Registered
<1>10. OthersKept(c, j)
  BY <1>2, <1>6, <1>7, <1>8, <1>9, InSubmit DEF Enqueuing
<1>11. thread'[c] = s /\ \A u \in Thread : u # c => thread'[u] = thread[u]
  BY <1>7, Becomes
<1>12. Pending(j)' \subseteq Pending(j) \cup {d}
  <2>1. \A e \in Job : \A t \in Thread : OwesIn(thread[t], e, j)' <=> OwesIn(thread[t], e, j)
    BY <1>10 DEF OthersKept
  <2>2. QED
    BY <1>6, <1>9, <2>1 DEF Pending, Registered
<1>13. /\ Cardinality(Registered(j)') = Cardinality(Registered(j)) + 1
       /\ Cardinality(Pending(j)') \in Nat
       /\ Cardinality(Pending(j)') <= Cardinality(Pending(j)) + 1
  <2>1. /\ IsFiniteSet(Registered(j)) /\ IsFiniteSet(Pending(j)) /\ Cardinality(Registered(j)) \in Nat
        /\ Cardinality(Pending(j)) \in Nat /\ Pending(j) \subseteq Registered(j)
    BY Finite DEF LinkInv
  <2>2. Cardinality(Registered(j) \cup {d}) = Cardinality(Registered(j)) + 1
    BY <1>5, <2>1, FS_AddElement
  <2>3. /\ IsFiniteSet(Pending(j) \cup {d})
        /\ Cardinality(Pending(j) \cup {d}) = Cardinality(Pending(j)) + 1
    BY <1>5, <2>1, FS_AddElement
  <2>4. /\ IsFiniteSet(Pending(j)')
        /\ Cardinality(Pending(j)') <= Cardinality(Pending(j) \cup {d})
    BY <1>12, <2>3, FS_Subset
  <2>5. QED
    BY <1>9, <2>2, <2>3, <2>4, FS_CardinalityType
<1>14. \A i \in Job : Submitting(c, i)' <=> i = j
  BY <1>7, <1>11 DEF Submitting, SubmittingIn
<1>15. j \notin submitted /\ \A t \in Thread : t # c => ~Submitting(t, j)
  BY <1>2 DEF LinkInv, SubmittedOnce
<1>16. LinkTyping'
  BY <1>5, <1>6, <1>9 DEF LinkInv, LinkTyping
<1>17. SubmittedOnce'
  BY <1>2, <1>6, <1>10, <1>14 DEF LinkInv, SubmittedOnce, OthersKept
<1>18. Untouched'
  BY <1>10, <1>14 DEF Untouched, OthersKept
<1>19. RegisteringIn(thread[c], j)'
  <2>1. s.num = Cardinality(Registered(j)')
    BY <1>4, <1>7, <1>13 DEF RegisteringIn
  <2>2. Covered(j, s.rest)'
    BY <1>4, <1>6, <1>7, <1>9 DEF RegisteringIn, Covered
  <2>3. s.rest \subseteq Deps[j] \ Registered(j)'
    BY <1>2, <1>4, <1>7, <1>9 DEF RegisteringIn
  <2>4. Wrapped(j)'
    <3>1. Cardinality(Registered(j)) \in Nat /\ Cardinality(Pending(j)) \in Nat
          /\ remaining[j] \in Nat /\ CounterSize \in Nat
      BY Finite DEF LinkInv
    <3>2. Wrapped(j)
      BY <1>2, <1>4 DEF RegisteringIn
    <3>3. QED
      BY <1>6, <1>13, <3>1, <3>2 DEF Wrapped
  <2>5. QED
    BY <1>7, <1>11, <2>1, <2>2, <2>3, <2>4 DEF RegisteringIn
<1>20. Registering'
  BY <1>10, <1>14, <1>19 DEF Registering, OthersKept
<1>21. ~Stored(j)'
  <2>1. \A t \in Thread : ~(thread'[t].pc = "count" /\ thread'[t].job = j)
    BY <1>7, <1>11, <1>15 DEF Submitting, SubmittingIn
  <2>2. QED
    BY <1>6, <1>15, <2>1 DEF Stored
<1>22. Counted'
  BY <1>10, <1>21 DEF Counted, OthersKept
<1>23. QED
  BY <1>10, <1>16, <1>17, <1>18, <1>20, <1>22 DEF LinkInv, OthersKept

\* The number of registrations is stored over whatever completions have made
\* of the count meanwhile.
LEMMA StoreLink ==
  ASSUME RunInv, LinkInv, NEW c \in Thread, StoreRemaining(c)
  PROVE  LinkInv'
<1>1. PICK j \in Job : thread[c].job = j
  BY DEF RunInv, Typing, Locals, StoreRemaining, At, Quiet
<1>2. thread[c] \in State /\ Submitting(c, j) /\ thread[c].pc = "deps" /\ thread[c].rest = {}
  BY <1>1 DEF RunInv, Typing, StoreRemaining, At, Submitting, SubmittingIn
<1>3. RegisteringIn(thread[c], j)
  BY <1>2 DEF LinkInv, Registering
<1>4. /\ UNCHANGED <<queued, completed, dependents, submitted>>
      /\ remaining' = [remaining EXCEPT ![j] = thread[c].num]
  BY <1>1 DEF StoreRemaining, flags, history
<1>5. PICK s : /\ Become(c, s)
               /\ s.job = j /\ s.num = thread[c].num /\ s.pc = "count" /\ s.rest = {}
  <2> DEFINE s == [thread[c] EXCEPT !.pc = "count"]
  <2>1. s.job = j /\ s.num = thread[c].num /\ s.pc = "count" /\ s.rest = {}
    BY <1>1, <1>2 DEF State
  <2>2. Become(c, s)
    BY DEF StoreRemaining, Go, Become
  <2>3. QED
    BY <2>1, <2>2
<1>6. \A i \in Job : Registered(i)' = Registered(i)
  BY <1>4 DEF Registered
<1>7. \A i \in Job : remaining'[i] = IF i = j THEN thread[c].num ELSE remaining[i]
  BY <1>4 DEF LinkInv, LinkTyping
<1>8. OthersKept(c, j)
  BY <1>2, <1>4, <1>5, <1>6, <1>7, InSubmit DEF Enqueuing
<1>9. thread'[c] = s /\ \A u \in Thread : u # c => thread'[u] = thread[u]
  BY <1>5, Becomes
<1>10. Pending(j)' = Pending(j)
  <2>1. \A e \in Job : \A t \in Thread : OwesIn(thread[t], e, j)' <=> OwesIn(thread[t], e, j)
    BY <1>8 DEF OthersKept
  <2>2. QED
    BY <1>4, <1>6, <2>1 DEF Pending, Registered
<1>11. /\ thread[c].num = Cardinality(Registered(j)) /\ thread[c].num \in 0 .. CounterSize - 1
       /\ Cardinality(Pending(j)) <= thread[c].num
  BY <1>3, Finite DEF RegisteringIn, LinkInv
<1>12. Covered(j, {})'
  BY <1>2, <1>3, <1>4, <1>6 DEF RegisteringIn, Covered
<1>13. \A i \in Job : Submitting(c, i)' <=> i = j
  BY <1>5, <1>9 DEF Submitting, SubmittingIn
<1>14. LinkTyping'
  BY <1>4, <1>6, <1>11 DEF LinkInv, LinkTyping
<1>15. SubmittedOnce'
  BY <1>2, <1>4, <1>8, <1>13 DEF LinkInv, SubmittedOnce, OthersKept
<1>16. Untouched'
  BY <1>8, <1>13 DEF Untouched, OthersKept
<1>17. RegisteringIn(thread[c], j)'
  BY <1>5, <1>6, <1>9, <1>11, <1>12 DEF RegisteringIn
<1>18. Registering'
  BY <1>8, <1>13, <1>17 DEF Registering, OthersKept
<1>19. Counted'
  BY <1>7, <1>8, <1>10, <1>11, <1>12 DEF Counted, OthersKept
<1>20. QED
  BY <1>8, <1>14, <1>15, <1>16, <1>18, <1>19 DEF LinkInv, OthersKept

\* A job that was registered nowhere is ready at once.
LEMMA CountLink ==
  ASSUME RunInv, LinkInv, NEW c \in Thread, CountSubmitted(c)
  PROVE  LinkInv'
<1>1. PICK j \in Job : thread[c].job = j
  BY DEF RunInv, Typing, Locals, CountSubmitted, At, Quiet
<1>2. thread[c] \in State /\ Submitting(c, j) /\ thread[c].pc = "count"
  BY <1>1 DEF RunInv, Typing, CountSubmitted, At, Submitting, SubmittingIn
<1>3. RegisteringIn(thread[c], j)
  BY <1>2 DEF LinkInv, Registering
<1>4. /\ UNCHANGED <<queued, completed, dependents, remaining>>
      /\ submitted' = submitted \cup {j}
  BY <1>1 DEF CountSubmitted, flags, links
<1>5. thread[c].num = 0 => Ready(j)
  <2> SUFFICES ASSUME thread[c].num = 0
               PROVE  Ready(j)
    OBVIOUS
  <2>1. Registered(j) = {}
    BY <1>3, Finite, FS_EmptySet DEF RegisteringIn, LinkInv
  <2>2. QED
    BY <1>2, <1>3, <2>1 DEF RegisteringIn, Covered, Ready
<1>6. PICK s : /\ Become(c, s) /\ s.job = j
               /\ \/ thread[c].num = 0 /\ s.pc = "enqueue" /\ s.dep = j /\ s.then = "give"
                  \/ s.pc = "give"
  <2>1. CASE thread[c].num = 0
    <3> DEFINE s == [thread[c] EXCEPT !.pc = "enqueue", !.dep = thread[c].job, !.then = "give"]
    <3>1. s.job = j /\ s.pc = "enqueue" /\ s.dep = j /\ s.then = "give"
      BY <1>1, <1>2 DEF State
    <3>2. Become(c, s)
      BY <2>1 DEF CountSubmitted
    <3>3. QED
      BY <2>1, <3>1, <3>2
  <2>2. CASE thread[c].num # 0
    <3> DEFINE s == [thread[c] EXCEPT !.pc = "give"]
    <3>1. s.job = j /\ s.pc = "give"
      BY <1>1, <1>2 DEF State
    <3>2. Become(c, s)
      BY <2>2 DEF CountSubmitted
    <3>3. QED
      BY <3>1, <3>2
  <2>3. QED
    BY <2>1, <2>2
<1>7. \A i \in Job : Registered(i)' = Registered(i)
  BY <1>4 DEF Registered
<1>8. OthersKept(c, j)
  BY <1>2, <1>4, <1>5, <1>6, <1>7, InSubmit DEF Enqueuing
<1>9. thread'[c] = s /\ \A u \in Thread : u # c => thread'[u] = thread[u]
  BY <1>6, Becomes
<1>10. Pending(j)' = Pending(j)
  <2>1. \A e \in Job : \A t \in Thread : OwesIn(thread[t], e, j)' <=> OwesIn(thread[t], e, j)
    BY <1>8 DEF OthersKept
  <2>2. QED
    BY <1>4, <1>7, <2>1 DEF Pending, Registered
<1>11. \A i \in Job : ~Submitting(c, i)'
  BY <1>6, <1>9 DEF Submitting, SubmittingIn
<1>12. LinkTyping'
  BY <1>4, <1>7 DEF LinkInv, LinkTyping
<1>13. SubmittedOnce'
  BY <1>4, <1>8, <1>11 DEF LinkInv, SubmittedOnce, OthersKept
<1>14. Untouched'
  BY <1>4, <1>8 DEF Untouched, OthersKept
<1>15. Registering'
  BY <1>8, <1>11 DEF Registering, OthersKept
<1>16. Counted'
  <2>1. Stored(j)
    BY <1>1, <1>2 DEF Stored
  <2>2. Cardinality(Pending(j)') <= remaining'[j] /\ Covered(j, {})'
    BY <1>4, <1>7, <1>10, <2>1 DEF LinkInv, Counted, Covered
  <2>3. QED
    BY <1>8, <2>2 DEF Counted, OthersKept
<1>17. QED
  BY <1>8, <1>12, <1>13, <1>14, <1>15, <1>16 DEF LinkInv, OthersKept

\* What a step of FinishJob has to show: what it does to the count of a job.
Settled(j) ==
  /\ remaining'[j] \in 0 .. CounterSize - 1
  /\ Registered(j) = {} => remaining'[j] = remaining[j]
  /\ Wrapped(j) => Wrapped(j)'
  /\ Stored(j) /\ Cardinality(Pending(j)) <= remaining[j] => Cardinality(Pending(j))' <= remaining'[j]

\* A step of FinishJob that does this to every count keeps the links.
LEMMA InFinish ==
  ASSUME RunInv, LinkInv, NEW t \in Thread, NEW s, Become(t, s),
         thread[t].pc \notin {"deps", "register", "count"}, s.pc \notin {"deps", "register", "count"},
         UNCHANGED <<queued, dependents, submitted>>, completed \subseteq completed',
         remaining' = [j \in Job |-> remaining'[j]],
         \A d \in Job : PastIn(s, d) =>
           /\ d \in completed' /\ (Past(t, d) \/ d \notin completed)
           /\ s.pc \in Enqueuing \cup {"wake"} => s.rest \subseteq dependents[d],
         s.pc \in Enqueuing => Deps[s.dep] \subseteq completed',
         \A j \in Job : Settled(j)
  PROVE  LinkInv'
<1>1. thread'[t] = s /\ \A u \in Thread : u # t => thread'[u] = thread[u]
  BY Becomes
<1>2. \A j \in Job : Registered(j)' = Registered(j)
  BY DEF Registered
<1>3. \A u \in Thread : \A j \in Job : Submitting(u, j)' <=> Submitting(u, j)
  BY <1>1 DEF Submitting, SubmittingIn
<1>4. \A u \in Thread : \A d \in Job : u # t => (Past(u, d)' <=> Past(u, d))
  BY <1>1 DEF Past
<1>5. LinkTyping'
  BY <1>2 DEF LinkInv, LinkTyping, Settled
<1>6. PastOnce'
  <2> SUFFICES ASSUME NEW d \in Job, NEW u \in Thread, Past(u, d)'
               PROVE  /\ d \in completed' /\ \A v \in Thread : Past(v, d)' => v = u
                      /\ thread'[u].pc \in Enqueuing \cup {"wake"} =>
                           thread'[u].rest \subseteq dependents'[d]
    BY DEF PastOnce
  <2>1. \A v \in Thread : Past(v, d)' => Past(v, d) \/ (v = t /\ d \notin completed)
    BY <1>1, <1>4 DEF Past
  <2>2. \A v \in Thread : Past(v, d)' => v = u
    BY <2>1 DEF LinkInv, PastOnce
  <2>3. CASE u = t
    BY <1>1, <2>2, <2>3 DEF Past
  <2>4. CASE u # t
    BY <1>1, <1>4, <2>2, <2>4 DEF LinkInv, PastOnce
  <2>5. QED
    BY <2>3, <2>4
<1>7. SubmittedOnce' /\ Untouched'
  BY <1>2, <1>3 DEF LinkInv, SubmittedOnce, Untouched, Settled
<1>8. \A j \in Job : \A rest : Covered(j, rest) => Covered(j, rest)'
  BY <1>2 DEF Covered
<1>9. Registering'
  <2> SUFFICES ASSUME NEW j \in Job, NEW u \in Thread, Submitting(u, j)'
               PROVE  RegisteringIn(thread[u], j)'
    BY DEF Registering
  <2>1. RegisteringIn(thread[u], j) /\ u # t
    BY <1>3 DEF LinkInv, Registering, Submitting, SubmittingIn
  <2>2. thread'[u] = thread[u] /\ Registered(j)' = Registered(j)
    BY <1>1, <1>2, <2>1
  <2>3. QED
    BY <2>1, <2>2 DEF RegisteringIn, Covered, Settled
<1>10. Counted'
  <2> SUFFICES ASSUME NEW j \in Job, Stored(j)'
               PROVE  (Cardinality(Pending(j)) <= remaining[j] /\ Covered(j, {}))'
    BY DEF Counted
  <2>1. Stored(j)
    BY <1>1 DEF Stored
  <2>2. Cardinality(Pending(j)) <= remaining[j] /\ Covered(j, {})
    BY <2>1 DEF LinkInv, Counted
  <2>3. QED
    BY <1>8, <2>1, <2>2 DEF Settled
<1>11. ReadyInv'
  BY <1>1 DEF LinkInv, ReadyInv, Ready
<1>12. QED
  BY <1>5, <1>6, <1>7, <1>9, <1>10, <1>11 DEF LinkInv

\* A step that subtracts nothing and owes what it owed.
LEMMA SettledSame ==
  ASSUME LinkInv, UNCHANGED <<remaining, dependents>>,
         \A d, j \in Job :
           (d \notin completed' \/ \E u \in Thread : OwesIn(thread'[u], d, j))
             <=> (d \notin completed \/ \E u \in Thread : OwesIn(thread[u], d, j))
  PROVE  \A j \in Job : Settled(j)
<1> SUFFICES ASSUME NEW j \in Job
             PROVE  Settled(j)
  OBVIOUS
<1>1. Registered(j)' = Registered(j) /\ Registered(j) \subseteq Job
  BY DEF Registered
<1>2. Pending(j)' = Pending(j)
  BY <1>1 DEF Pending, OwesIn, PastIn
<1>3. Wrapped(j) => Wrapped(j)'
  BY <1>1, <1>2 DEF Wrapped
<1>4. QED
  BY <1>1, <1>2, <1>3 DEF Settled, LinkInv, LinkTyping

\* The completion is published; its dependents are owed from here on.
LEMMA MarkLink ==
  ASSUME RunInv, LinkInv, NEW t \in Thread, MarkCompleted(t)
  PROVE  LinkInv'
<1>1. PICK d \in Job : thread[t].job = d
  BY DEF RunInv, Typing, Locals, MarkCompleted, At, Quiet
<1>2. thread[t] \in State /\ thread[t].pc = "finish"
  BY DEF RunInv, Typing, MarkCompleted, At
<1>3. UNCHANGED <<queued, dependents, remaining, submitted>>
  BY DEF MarkCompleted, links, history
<1>4. CASE Become(t, Finished(t)) /\ UNCHANGED completed
  <2>1. Finished(t).pc \in Unlinked
    BY <1>2 DEF Finished, Idle, State, Unlinked, Quiet
  <2>2. Neutral(thread[t], Finished(t))
    BY <1>2, <2>1, UnlinkedNeutral DEF Unlinked
  <2>3. QED
    BY <1>3, <1>4, <2>2, NeutralBecome
<1>5. CASE d \notin completed /\ completed' = completed \cup {d} /\ Go(t, "tally")
  <2>1. PICK s : Become(t, s) /\ s.pc = "tally" /\ s.job = d
    <3> DEFINE s == [thread[t] EXCEPT !.pc = "tally"]
    <3>1. s.pc = "tally" /\ s.job = d
      BY <1>1, <1>2 DEF State
    <3>2. Become(t, s)
      BY <1>5 DEF Go, Become
    <3>3. QED
      BY <3>1, <3>2
  <2>2. thread'[t] = s /\ \A u \in Thread : u # t => thread'[u] = thread[u]
    BY <2>1, Becomes
  <2>3. \A e \in Job : PastIn(s, e) <=> e = d
    BY <2>1 DEF PastIn, Enqueuing
  <2>4. \A e \in Job : ~PastIn(thread[t], e)
    BY <1>2 DEF PastIn, Enqueuing
  <2>5. \A e, j \in Job :
          (e \notin completed' \/ \E u \in Thread : OwesIn(thread'[u], e, j))
            <=> (e \notin completed \/ \E u \in Thread : OwesIn(thread[u], e, j))
    <3> SUFFICES ASSUME NEW e \in Job, NEW j \in Job
                 PROVE  (e \notin completed' \/ \E u \in Thread : OwesIn(thread'[u], e, j))
                          <=> (e \notin completed \/ \E u \in Thread : OwesIn(thread[u], e, j))
      OBVIOUS
    <3>1. CASE e = d
      BY <1>5, <2>1, <2>2, <2>3, <3>1 DEF OwesIn
    <3>2. CASE e # d
      <4>1. \A u \in Thread : OwesIn(thread'[u], e, j) <=> OwesIn(thread[u], e, j)
        BY <2>2, <2>3, <2>4, <3>2 DEF OwesIn
      <4>2. QED
        BY <1>5, <3>2, <4>1
    <3>3. QED
      BY <3>1, <3>2
  <2>6. \A j \in Job : Settled(j)
    BY <1>3, <2>5, SettledSame
  <2>7. remaining' = [j \in Job |-> remaining'[j]]
    BY <1>3 DEF LinkInv, LinkTyping
  <2>8. QED
    BY <1>2, <1>3, <1>5, <2>1, <2>3, <2>6, <2>7, InFinish DEF Enqueuing
<1>6. QED
  BY <1>1, <1>4, <1>5 DEF MarkCompleted

\* Counting the completion, copying the list of dependents, and leaving.
LEMMA CopyLink ==
  ASSUME RunInv, Linked, LinkInv, NEW t \in Thread,
         CountCompleted(t) \/ CopyDependents(t) \/ NotifyWaiters(t)
  PROVE  LinkInv'
<1>1. PICK d \in Job : thread[t].job = d
  BY DEF RunInv, Typing, Locals, CountCompleted, CopyDependents, NotifyWaiters, At, Quiet
<1>2. thread[t] \in State
  BY DEF RunInv, Typing
<1>3. UNCHANGED <<queued, completed, dependents, remaining, submitted>>
  BY DEF CountCompleted, CopyDependents, NotifyWaiters, flags, links, history
<1>4. CASE CountCompleted(t)
  <2>1. PICK s : Become(t, s) /\ s.pc = "copy" /\ s.job = d
    <3> DEFINE s == [thread[t] EXCEPT !.pc = "copy"]
    <3>1. s.pc = "copy" /\ s.job = d
      BY <1>1, <1>2 DEF State
    <3>2. Become(t, s)
      BY <1>4 DEF CountCompleted, Go, Become
    <3>3. QED
      BY <3>1, <3>2
  <2>2. thread[t].pc = "tally"
    BY <1>4 DEF CountCompleted, At
  <2>3. Neutral(thread[t], s)
    BY <1>1, <2>1, <2>2 DEF Neutral, PastIn, OwesIn, Enqueuing
  <2>4. QED
    BY <1>3, <2>1, <2>3, NeutralBecome
<1>5. CASE CopyDependents(t)
  <2>1. PICK s : Become(t, s) /\ s.pc = "wake" /\ s.job = d /\ s.rest = dependents[d]
    <3> DEFINE s == [thread[t] EXCEPT !.pc = "wake", !.rest = dependents[d]]
    <3>1. s.pc = "wake" /\ s.job = d /\ s.rest = dependents[d]
      BY <1>1, <1>2 DEF State
    <3>2. Become(t, s)
      BY <1>1, <1>5 DEF CopyDependents
    <3>3. QED
      BY <3>1, <3>2
  <2>2. thread[t].pc = "copy" /\ Past(t, d)
    BY <1>1, <1>5 DEF CopyDependents, At, Past, PastIn
  <2>3. thread'[t] = s /\ \A u \in Thread : u # t => thread'[u] = thread[u]
    BY <2>1, Becomes
  <2>4. \A e \in Job : PastIn(s, e) => e = d
    BY <2>1 DEF PastIn
  <2>5. d \in completed
    BY <2>2 DEF LinkInv, PastOnce
  <2>6. \A j \in Job : Settled(j)
    <3> SUFFICES ASSUME NEW j \in Job
                 PROVE  Settled(j)
      OBVIOUS
    <3>1. Registered(j)' = Registered(j) /\ Registered(j) \subseteq Job
      BY <1>3 DEF Registered
    <3>2. \A e \in Registered(j) : \A u \in Thread : OwesIn(thread'[u], e, j) <=> OwesIn(thread[u], e, j)
      <4> SUFFICES ASSUME NEW e \in Registered(j), NEW u \in Thread
                   PROVE  OwesIn(thread'[u], e, j) <=> OwesIn(thread[u], e, j)
        OBVIOUS
      <4>1. CASE u # t
        BY <2>3, <4>1
      <4>2. CASE u = t
        BY <1>1, <2>1, <2>2, <2>3, <3>1, <4>2 DEF OwesIn, PastIn, Registered
      <4>3. QED
        BY <4>1, <4>2
    <3>3. Pending(j)' = Pending(j)
      BY <1>3, <3>1, <3>2 DEF Pending
    <3>4. Wrapped(j) => Wrapped(j)'
      BY <1>3, <3>1, <3>3 DEF Wrapped
    <3>5. QED
      BY <1>3, <3>1, <3>3, <3>4 DEF Settled, LinkInv, LinkTyping
  <2>7. remaining' = [j \in Job |-> remaining'[j]]
    BY <1>3 DEF LinkInv, LinkTyping
  <2>8. QED
    BY <1>3, <2>1, <2>2, <2>4, <2>5, <2>6, <2>7, InFinish DEF Enqueuing
<1>6. CASE NotifyWaiters(t)
  <2>1. thread[t].pc = "wake" /\ thread[t].rest = {} /\ Past(t, d)
    BY <1>1, <1>6 DEF NotifyWaiters, At, Past, PastIn
  <2>2. /\ thread'[t] = Finished(t)
        /\ \A u \in Thread : u # t =>
             \/ thread'[u] = thread[u]
             \/ thread[u].pc = "blocked" /\ thread'[u] = [thread[u] EXCEPT !.pc = "lock"]
    <3>1. \A u \in Thread : thread'[u] =
            IF u = t THEN Finished(t)
            ELSE IF thread[u].pc = "blocked" /\ thread[u].job = thread[t].job
                 THEN [thread[u] EXCEPT !.pc = "lock"]
                 ELSE thread[u]
      <4>1. thread' = [u \in Thread |->
              IF u = t THEN Finished(t)
              ELSE IF At(u, "blocked") /\ thread[u].job = thread[t].job
                   THEN [thread[u] EXCEPT !.pc = "lock"]
                   ELSE thread[u]]
        BY <1>6 DEF NotifyWaiters
      <4>2. QED
        BY <4>1, Zenon DEF At
    <3>2. QED
      BY <3>1, Zenon
  <2>3. Finished(t).pc \in {"idle", "loop", "all", "pump"}
    BY <1>2 DEF Finished, Idle, State
  <2>4. \A u \in Thread : u # t =>
          \/ thread'[u] = thread[u]
          \/ thread[u].pc = "blocked" /\ thread'[u].pc = "lock"
    <3>1. \A u \in Thread : thread[u] \in State
      BY DEF RunInv, Typing
    <3>2. \A u \in Thread : [thread[u] EXCEPT !.pc = "lock"].pc = "lock"
      BY <3>1 DEF State
    <3>3. QED
      BY <2>2, <3>2
  <2>5. \A u \in Thread : \A e \in Job : PastIn(thread'[u], e) => Past(u, e) /\ u # t
    BY <2>2, <2>3, <2>4 DEF Past, PastIn, Enqueuing
  <2>6. \A u \in Thread : \A e, j \in Job : OwesIn(thread'[u], e, j) <=> OwesIn(thread[u], e, j)
    <3> SUFFICES ASSUME NEW u \in Thread, NEW e \in Job, NEW j \in Job
                 PROVE  OwesIn(thread'[u], e, j) <=> OwesIn(thread[u], e, j)
      OBVIOUS
    <3>1. CASE u = t
      BY <2>1, <2>2, <2>3, <3>1 DEF OwesIn, PastIn, Enqueuing
    <3>2. CASE u # t
      BY <2>4, <3>2 DEF OwesIn, PastIn, Enqueuing
    <3>3. QED
      BY <3>1, <3>2
  <2>7. \A j \in Job : Settled(j)
    BY <1>3, <2>6, SettledSame
  <2>8. \A u \in Thread :
          \/ thread'[u] = thread[u]
          \/ /\ thread[u].pc \notin {"deps", "register", "count"} \cup Enqueuing
             /\ thread'[u].pc \notin {"deps", "register", "count", "wake"} \cup Enqueuing
    BY <2>1, <2>2, <2>3, <2>4 DEF Enqueuing
  <2>9. \A u \in Thread : \A j \in Job : Submitting(u, j)' <=> Submitting(u, j)
    BY <2>8 DEF Submitting, SubmittingIn
  <2>10. \A j \in Job : Registered(j)' = Registered(j) /\ (Stored(j)' <=> Stored(j))
    BY <1>3, <2>8 DEF Registered, Stored
  <2>11. PastOnce'
    BY <1>3, <2>5, <2>8 DEF LinkInv, PastOnce, Past
  <2>12. \A j \in Job : \A rest : Covered(j, rest)' <=> Covered(j, rest)
    BY <1>3, <2>10 DEF Covered
  <2>13. Registering'
    <3> SUFFICES ASSUME NEW j \in Job, NEW u \in Thread, Submitting(u, j)'
                 PROVE  RegisteringIn(thread[u], j)'
      BY DEF Registering
    <3>1. RegisteringIn(thread[u], j) /\ thread'[u] = thread[u]
      BY <2>8, <2>9 DEF LinkInv, Registering, Submitting, SubmittingIn
    <3>2. QED
      BY <1>3, <2>7, <2>10, <3>1 DEF RegisteringIn, Covered, Settled
  <2>14. Counted'
    BY <2>7, <2>10, <2>12 DEF LinkInv, Counted, Settled
  <2>15. LinkTyping' /\ SubmittedOnce' /\ Untouched'
    BY <1>3, <2>9, <2>10 DEF LinkInv, LinkTyping, SubmittedOnce, Untouched
  <2>16. ReadyInv'
    BY <1>3, <2>8 DEF LinkInv, ReadyInv, Ready
  <2>17. QED
    BY <2>11, <2>13, <2>14, <2>15, <2>16 DEF LinkInv
<1>7. QED
  BY <1>4, <1>5, <1>6

\* Subtracting 1 wraps around at 0.
LEMMA Decrement ==
  ASSUME NEW C \in Nat \ {0}, NEW r \in 0 .. C - 1
  PROVE  (r + C - 1) % C = IF r = 0 THEN C - 1 ELSE r - 1
OBVIOUS

\* One dependent is taken off the list: what its dependency owed it is paid.
LEMMA WakeLink ==
  ASSUME RunInv, Linked, LinkInv, NEW t \in Thread, WakeDependent(t)
  PROVE  LinkInv'
<1>1. PICK d \in Job : thread[t].job = d
  BY DEF RunInv, Typing, Locals, WakeDependent, At, Quiet
<1>2. thread[t] \in State /\ thread[t].pc = "wake" /\ Past(t, d)
  BY <1>1 DEF RunInv, Typing, WakeDependent, At, Past, PastIn
<1>3. UNCHANGED <<queued, completed, dependents, submitted>>
  BY DEF WakeDependent, flags, history
<1>4. PICK j \in thread[t].rest :
        LET others == [thread[t] EXCEPT !.rest = @ \ {j}]
        IN  \/ /\ ~Alive(j)
               /\ Become(t, others)
               /\ UNCHANGED remaining
            \/ /\ Alive(j)
               /\ remaining' = [remaining EXCEPT ![j] = (@ + CounterSize - 1) % CounterSize]
               /\ Become(t, IF remaining[j] = 1
                            THEN [others EXCEPT !.pc = "enqueue", !.dep = j, !.then = "wake"]
                            ELSE others)
  BY DEF WakeDependent
<1>5. /\ thread[t].rest \subseteq dependents[d] /\ d \in completed
      /\ \A u \in Thread : Past(u, d) => u = t
  BY <1>2 DEF LinkInv, PastOnce
<1>6. j \in Job /\ d \in Registered(j)
  BY <1>5 DEF Linked, Registered
<1>7. PICK s : /\ Become(t, s)
               /\ s.job = d /\ s.rest = thread[t].rest \ {j}
               /\ \/ s.pc = "wake"
                  \/ s.pc = "enqueue" /\ s.dep = j /\ s.then = "wake" /\ remaining[j] = 1
  <2> DEFINE others == [thread[t] EXCEPT !.rest = @ \ {j}]
             next == [others EXCEPT !.pc = "enqueue", !.dep = j, !.then = "wake"]
  <2>1. others.job = d /\ others.rest = thread[t].rest \ {j} /\ others.pc = "wake"
    BY <1>1, <1>2 DEF State
  <2>2. /\ next.job = d /\ next.rest = thread[t].rest \ {j} /\ next.pc = "enqueue"
        /\ next.dep = j /\ next.then = "wake"
    BY <1>1, <1>2 DEF State
  <2>3. Become(t, others) \/ (Become(t, next) /\ remaining[j] = 1)
    BY <1>4
  <2> HIDE DEF others, next
  <2>4. QED
    BY <2>1, <2>2, <2>3
<1>8. thread'[t] = s /\ \A u \in Thread : u # t => thread'[u] = thread[u]
  BY <1>7, Becomes
<1>9. \A e \in Job : (PastIn(s, e) <=> e = d) /\ (Past(t, e) <=> e = d)
  BY <1>1, <1>2, <1>7 DEF Past, PastIn, Enqueuing
<1>10. \A i \in Job : Registered(i)' = Registered(i) /\ Registered(i) \subseteq Job
  BY <1>3 DEF Registered
<1>11. \A i \in Job \ {j} : Pending(i)' = Pending(i)
  <2> SUFFICES ASSUME NEW i \in Job \ {j}
               PROVE  Pending(i)' = Pending(i)
    OBVIOUS
  <2>1. \A e \in Job : \A u \in Thread : OwesIn(thread'[u], e, i) <=> OwesIn(thread[u], e, i)
    BY <1>2, <1>7, <1>8, <1>9 DEF OwesIn, Past
  <2>2. QED
    BY <1>3, <1>10, <2>1 DEF Pending
<1>12. d \in Pending(j)
  BY <1>2, <1>6 DEF Pending, OwesIn, Past
<1>13. Pending(j)' = Pending(j) \ {d}
  <2>1. \A e \in Job \ {d} : \A u \in Thread : OwesIn(thread'[u], e, j) <=> OwesIn(thread[u], e, j)
    BY <1>8, <1>9 DEF OwesIn, Past
  <2>2. \A u \in Thread : ~OwesIn(thread'[u], d, j)
    <3> SUFFICES ASSUME NEW u \in Thread
                 PROVE  ~OwesIn(thread'[u], d, j)
      OBVIOUS
    <3>1. CASE u = t
      BY <1>7, <1>8, <3>1 DEF OwesIn
    <3>2. CASE u # t
      BY <1>5, <1>8, <3>2 DEF OwesIn, Past
    <3>3. QED
      BY <3>1, <3>2
  <2>3. d \notin Pending(j)'
    BY <1>3, <1>5, <2>2 DEF Pending
  <2>4. \A e \in Job \ {d} : e \in Pending(j)' <=> e \in Pending(j)
    BY <1>3, <1>6, <1>10, <2>1 DEF Pending
  <2>5. Pending(j) \subseteq Job /\ Pending(j)' \subseteq Job
    BY <1>6, <1>10 DEF Pending
  <2>6. QED
    BY <2>3, <2>4, <2>5
<1>14. /\ Cardinality(Registered(j)) \in Nat /\ Cardinality(Pending(j)) \in Nat
       /\ Cardinality(Pending(j)) <= Cardinality(Registered(j))
       /\ Cardinality(Registered(j)) < CounterSize
       /\ CounterSize \in Nat \ {0} /\ remaining[j] \in 0 .. CounterSize - 1
       /\ IsFiniteSet(Pending(j))
  BY <1>6, Finite DEF LinkInv
<1>15. Cardinality(Pending(j))' = Cardinality(Pending(j)) - 1 /\ Cardinality(Pending(j)) > 0
  <2>1. Cardinality(Pending(j) \ {d}) = Cardinality(Pending(j)) - 1
    BY <1>12, <1>14, FS_RemoveElement
  <2>2. Cardinality(Pending(j) \ {d}) \in Nat
    BY <1>14, FS_RemoveElement, FS_CardinalityType
  <2>3. QED
    BY <1>13, <1>14, <2>1, <2>2
<1>16. /\ \A i \in Job \ {j} : remaining'[i] = remaining[i]
       /\ \/ remaining'[j] = remaining[j]
          \/ remaining'[j] = IF remaining[j] = 0 THEN CounterSize - 1 ELSE remaining[j] - 1
       /\ remaining' = [i \in Job |-> remaining'[i]]
  <2>1. (remaining[j] + CounterSize - 1) % CounterSize =
          IF remaining[j] = 0 THEN CounterSize - 1 ELSE remaining[j] - 1
    BY <1>14, Decrement
  <2>2. remaining' = remaining
        \/ remaining' = [remaining EXCEPT ![j] = (remaining[j] + CounterSize - 1) % CounterSize]
    BY <1>4
  <2>3. QED
    BY <1>6, <2>1, <2>2 DEF LinkInv, LinkTyping
<1>17. Settled(j)
  <2>1. remaining'[j] \in 0 .. CounterSize - 1
    BY <1>14, <1>16
  <2>2. Registered(j)' = Registered(j) /\ Registered(j) # {}
    BY <1>6, <1>10
  <2>3. Wrapped(j) => Wrapped(j)'
    BY <1>14, <1>15, <1>16, <2>2 DEF Wrapped
  <2>4. Cardinality(Pending(j)) <= remaining[j] => Cardinality(Pending(j))' <= remaining'[j]
    BY <1>14, <1>15, <1>16
  <2>5. QED
    BY <2>1, <2>2, <2>3, <2>4 DEF Settled
<1>18. \A i \in Job \ {j} : Settled(i)
  <2> SUFFICES ASSUME NEW i \in Job \ {j}
               PROVE  Settled(i)
    OBVIOUS
  <2>1. Registered(i)' = Registered(i) /\ Pending(i)' = Pending(i) /\ remaining'[i] = remaining[i]
    BY <1>10, <1>11, <1>16
  <2>2. QED
    BY <2>1 DEF Settled, Wrapped, LinkInv, LinkTyping
<1>19. ASSUME remaining[j] = 1
       PROVE  Ready(j)
  <2>1. Stored(j)
    <3> SUFFICES ASSUME ~Stored(j)
                 PROVE  FALSE
      OBVIOUS
    <3>1. PICK u \in Thread : Submitting(u, j)
      BY <1>6 DEF LinkInv, Untouched, Stored
    <3>2. thread[u].pc # "count" /\ RegisteringIn(thread[u], j)
      BY <1>6, <3>1 DEF LinkInv, Registering, Stored, Submitting, SubmittingIn
    <3>3. QED
      BY <1>14, <1>15, <1>19, <3>2 DEF RegisteringIn, Wrapped
  <2>2. Cardinality(Pending(j)) <= 1 /\ Covered(j, {})
    BY <1>6, <1>19, <2>1 DEF LinkInv, Counted
  <2>3. Pending(j) \ {d} = {}
    <3>1. Cardinality(Pending(j) \ {d}) = 0 /\ IsFiniteSet(Pending(j) \ {d})
      BY <1>12, <1>14, <1>15, <2>2, FS_RemoveElement
    <3>2. QED
      BY <3>1, FS_EmptySet
  <2>4. \A e \in Registered(j) : e \in completed
    BY <1>5, <2>3 DEF Pending
  <2>5. QED
    BY <2>2, <2>4 DEF Covered, Ready
<1>20. s.pc \in Enqueuing => Deps[s.dep] \subseteq completed'
  BY <1>3, <1>7, <1>19 DEF Ready, Enqueuing
<1>21. QED
  BY <1>2, <1>3, <1>5, <1>7, <1>9, <1>16, <1>17, <1>18, <1>20, InFinish DEF Enqueuing

\* Every step keeps the links.
LEMMA NextLink ==
  ASSUME RunInv, Linked, LinkInv, [Next]_vars
  PROVE  LinkInv'
<1>1. ASSUME NEW t \in Thread, Step(t)
      PROVE  LinkInv'
  <2>1. CASE EnqueueStep(t) \/ RunStep(t) \/ WorkerPop(t)
    BY <2>1, EnqueueLink, UnlinkedLink
  <2>2. CASE FinishStep(t)
    BY <2>2, MarkLink, CopyLink, WakeLink DEF FinishStep
  <2>3. CASE t \in Client /\ CallStep(t)
    <3>1. CASE CheckDep(t) \/ Register(t) \/ StoreRemaining(t) \/ CountSubmitted(t) \/ Join(t)
      BY <2>3, <3>1, CheckDepLink, RegisterLink, StoreLink, CountLink, LifeLink
    <3>2. CASE GiveHandle(t) \/ FlagCancelled(t) \/ RemoveQueued(t) \/ Decide(t) \/ Lock(t)
               \/ Block(t) \/ AllCounted(t) \/ AllPump(t) \/ PumpTake(t) \/ PumpEnd(t) \/ WakeAll(t)
      BY <3>2, UnlinkedLink
    <3>3. QED
      BY <2>3, <3>1, <3>2 DEF CallStep
  <2>4. QED
    BY <1>1, <2>1, <2>2, <2>3 DEF Step
<1>2. ASSUME NEW c \in Client, Call(c)
      PROVE  LinkInv'
  <2>1. c \in Thread
    BY DEF Thread
  <2>2. ASSUME NEW j \in Job, Submit(c, j)
        PROVE  LinkInv'
    BY <2>2, SubmitLink
  <2>3. CASE Initialize(c)
    BY <2>3, LifeLink
  <2>4. CASE \/ \E j \in Job : ResetHandle(c, j) \/ Cancel(c, j) \/ Wait(c, j)
             \/ WaitForAll(c) \/ Shutdown(c) \/ TimeOut(c)
    BY <2>1, <2>4, UnlinkedLink
  <2>5. QED
    BY <1>2, <2>2, <2>3, <2>4 DEF Call
<1>3. CASE UNCHANGED vars
  <2>1. UNCHANGED <<thread, queued, completed, dependents, remaining, submitted>>
    BY <1>3 DEF vars, flags, links, history
  <2>2. \A t \in Thread : Neutral(thread[t], thread'[t])
    BY <2>1 DEF Neutral
  <2>3. QED
    BY <2>1, <2>2, NeutralStep
<1>4. QED
  BY <1>1, <1>2, <1>3 DEF Next

\* A job that is queued, in a queue, taken, or running has its dependencies
\* completed, whatever the memory model.
THEOREM LinkInvariant == AnyInit /\ [][Next]_vars => [](RunInv /\ Linked /\ LinkInv)
<1>1. AnyInit => LinkInv
  BY InitLink DEF AnyInit
<1>2. RunInv /\ Linked /\ LinkInv /\ [Next]_vars => LinkInv'
  BY NextLink
<1>3. QED
  BY <1>1, <1>2, RunInvariant, PTL

\* A task runs only after every job it was submitted with as a dependency was
\* reported complete, whatever stores are still in a buffer.
CompletedFirst == \A t \in Thread : At(t, "task") => Deps[thread[t].job] \subseteq completed

\* The job of a running task was marked queued, and so was ready.
LEMMA TaskReady ==
  ASSUME RunInv, LinkInv
  PROVE  CompletedFirst
<1> SUFFICES ASSUME NEW t \in Thread, At(t, "task")
             PROVE  Deps[thread[t].job] \subseteq completed
  BY DEF CompletedFirst
<1>1. thread[t].job \in Job /\ runs[thread[t].job] = 1
  BY DEF RunInv, Typing, Locals, Ended, At, Quiet
<1>2. thread[t].job \in queued
  BY <1>1 DEF RunInv, Unrun
<1>3. QED
  BY <1>2 DEF LinkInv, ReadyInv, Ready

\* A task never starts before the completions it depends on are published,
\* whatever happens between a submission and the completions that race it.
THEOREM DependenciesCompleted == AnyInit /\ [][Next]_vars => []CompletedFirst
BY TaskReady, LinkInvariant, PTL

-----------------------------------------------------------------------------
(* Nobody but the thread that runs the task of a job finishes the job,     *)
(* unless it was cancelled.                                                *)

\* The steps that bring a thread to look at the flag, into the task, or out
\* of it, and those that publish a flag.
Arrives(t) == Start(t) \/ Check(t) \/ EndTask(t) \/ RemoveQueued(t) \/ Decide(t)

Active == {"check", "task", "finish"}

Stays(r, s) == s.pc \in Active => s.pc = r.pc /\ s.job = r.job

\* One thread changes, and not into one of those places.
LEMMA StaysBecome ==
  ASSUME RunInv, NEW t \in Thread, NEW s, Become(t, s), Stays(thread[t], s)
  PROVE  \A u \in Thread : Stays(thread[u], thread'[u])
<1>1. thread'[t] = s /\ \A u \in Thread : u # t => thread'[u] = thread[u]
  BY Becomes
<1>2. QED
  BY <1>1 DEF Stays

\* One thread moves on, and not to one of those places.
LEMMA StaysGo ==
  ASSUME RunInv, NEW t \in Thread, NEW pc, Go(t, pc), pc \notin Active
  PROVE  \A u \in Thread : Stays(thread[u], thread'[u])
<1>1. PICK s : Become(t, s) /\ s.pc = pc
  BY Goes
<1>2. QED
  BY <1>1, StaysBecome DEF Stays

\* Inside the calls.
LEMMA CallStays ==
  ASSUME RunInv, NEW t \in Thread,
         \/ CheckDep(t) \/ Register(t) \/ StoreRemaining(t) \/ CountSubmitted(t) \/ GiveHandle(t)
         \/ FlagCancelled(t) \/ Lock(t) \/ Block(t) \/ AllCounted(t) \/ AllPump(t) \/ PumpTake(t)
         \/ PumpEnd(t) \/ WakeAll(t) \/ WorkerPop(t) \/ WaitForAll(t) \/ Shutdown(t) \/ TimeOut(t)
  PROVE  \A u \in Thread : Stays(thread[u], thread'[u])
<1> USE DEF Active
<1>1. thread[t] \in State
  BY DEF RunInv, Typing
<1>2. ASSUME NEW back, Take(t, back)
      PROVE  \A u \in Thread : Stays(thread[u], thread'[u])
  <2>1. PICK j \in Waiting : Become(t, [thread[t] EXCEPT !.pc = "start", !.job = j, !.back = back])
    BY <1>2, QueuesTake DEF RunInv, Typing
  <2>2. [thread[t] EXCEPT !.pc = "start", !.job = j, !.back = back].pc = "start"
    BY <1>1 DEF State
  <2>3. QED
    BY <2>1, <2>2, StaysBecome DEF Stays
<1>3. Idle.pc = "idle" /\ [Idle EXCEPT !.pc = "all", !.num = submittedCount].pc = "all"
  BY DEF Idle
<1>4. CASE \/ GiveHandle(t) \/ TimeOut(t) \/ AllCounted(t) \/ PumpEnd(t) \/ WaitForAll(t)
  <2>1. Become(t, Idle) \/ Become(t, [Idle EXCEPT !.pc = "all", !.num = submittedCount])
    BY <1>4 DEF GiveHandle, TimeOut, AllCounted, PumpEnd, WaitForAll, Return
  <2>2. QED
    BY <1>3, <2>1, StaysBecome DEF Stays
<1>5. CASE \/ StoreRemaining(t) \/ FlagCancelled(t) \/ Lock(t) \/ Block(t) \/ WakeAll(t) \/ Shutdown(t)
  <2>1. \/ Become(t, Idle) \/ Go(t, "count") \/ Go(t, "remove") \/ Go(t, "checked")
        \/ Go(t, "blocked") \/ Go(t, "join") \/ Go(t, "wakeall")
    BY <1>5 DEF StoreRemaining, FlagCancelled, Lock, Block, WakeAll, Shutdown, Return
  <2>2. QED
    BY <1>3, <2>1, StaysBecome, StaysGo DEF Stays
<1>6. CASE AllPump(t) \/ PumpTake(t)
  BY <1>2, <1>6 DEF AllPump, PumpTake
<1>7. CASE WorkerPop(t)
  <2>1. CASE UNCHANGED thread
    BY <2>1 DEF Stays
  <2>2. QED
    BY <1>2, <1>7, <2>1, StaysGo DEF WorkerPop
<1>8. CASE CheckDep(t)
  <2>1. PICK d \in thread[t].rest :
          Become(t, IF d \in completed
                    THEN [thread[t] EXCEPT !.rest = @ \ {d}]
                    ELSE [thread[t] EXCEPT !.pc = "register", !.dep = d])
    BY <1>8 DEF CheckDep
  <2>2. /\ [thread[t] EXCEPT !.rest = @ \ {d}].pc = "deps"
        /\ [thread[t] EXCEPT !.pc = "register", !.dep = d].pc = "register"
    BY <1>1, <1>8 DEF CheckDep, At, State
  <2>3. CASE d \in completed
    BY <2>1, <2>2, <2>3, StaysBecome DEF Stays
  <2>4. CASE d \notin completed
    BY <2>1, <2>2, <2>4, StaysBecome DEF Stays
  <2>5. QED
    BY <2>3, <2>4
<1>9. CASE Register(t)
  <2> DEFINE s == [thread[t] EXCEPT !.pc = "deps", !.dep = NoJob, !.num = @ + 1,
                                    !.rest = @ \ {thread[t].dep}]
  <2>1. s.pc = "deps"
    BY <1>1 DEF State
  <2>2. Become(t, s)
    BY <1>9 DEF Register
  <2>3. QED
    BY <2>1, <2>2, StaysBecome DEF Stays
<1>10. CASE CountSubmitted(t)
  <2> DEFINE s == [thread[t] EXCEPT !.pc = "enqueue", !.dep = thread[t].job, !.then = "give"]
             r == [thread[t] EXCEPT !.pc = "give"]
  <2>1. s.pc = "enqueue" /\ r.pc = "give"
    BY <1>1 DEF State
  <2>2. Become(t, s) \/ Become(t, r)
    BY <1>10 DEF CountSubmitted
  <2>3. QED
    BY <2>1, <2>2, StaysBecome DEF Stays
<1>11. QED
  BY <1>4, <1>5, <1>6, <1>7, <1>8, <1>9, <1>10

\* EnqueueIfReady and FinishJob.
LEMMA FinishStays ==
  ASSUME RunInv, NEW t \in Thread, EnqueueStep(t) \/ FinishStep(t) \/ Drain(t)
  PROVE  \A u \in Thread : Stays(thread[u], thread'[u])
<1> USE DEF Active
<1>1. thread[t] \in State /\ Locals(t)
  BY DEF RunInv, Typing
<1>2. CASE EnqueueStep(t)
  <2> DEFINE s == [thread[t] EXCEPT !.pc = thread[t].then, !.then = "idle", !.dep = NoJob]
  <2>1. s.pc \in {"give", "wake"}
    BY <1>1, <1>2 DEF State, Locals, EnqueueStep, MarkQueued, Push, NotifyWorker, At, Enqueuing
  <2>2. Become(t, s) \/ Go(t, "push") \/ Go(t, "notify")
    BY <1>2 DEF EnqueueStep, MarkQueued, Push, NotifyWorker
  <2>3. QED
    BY <2>1, <2>2, StaysBecome, StaysGo DEF Stays
<1>3. Finished(t).pc \in {"idle", "loop", "all", "pump"}
  BY <1>1 DEF Finished, Idle, State
<1>4. CASE MarkCompleted(t) \/ CountCompleted(t)
  <2>1. Become(t, Finished(t)) \/ Go(t, "tally") \/ Go(t, "copy")
    BY <1>4 DEF MarkCompleted, CountCompleted
  <2>2. QED
    BY <1>3, <2>1, StaysBecome, StaysGo DEF Stays
<1>5. CASE CopyDependents(t)
  <2> DEFINE s == [thread[t] EXCEPT !.pc = "wake", !.rest = dependents[thread[t].job]]
  <2>1. s.pc = "wake" /\ Become(t, s)
    BY <1>1, <1>5 DEF State, CopyDependents
  <2>2. QED
    BY <2>1, StaysBecome DEF Stays
<1>6. CASE WakeDependent(t)
  <2>1. PICK d : LET others == [thread[t] EXCEPT !.rest = @ \ {d}]
                 IN  \/ Become(t, others)
                     \/ Become(t, [others EXCEPT !.pc = "enqueue", !.dep = d, !.then = "wake"])
    BY <1>6 DEF WakeDependent
  <2> DEFINE others == [thread[t] EXCEPT !.rest = @ \ {d}]
             next == [others EXCEPT !.pc = "enqueue", !.dep = d, !.then = "wake"]
  <2>2. others.pc = "wake" /\ next.pc = "enqueue"
    BY <1>1, <1>6 DEF State, WakeDependent, At
  <2>3. Become(t, others) \/ Become(t, next)
    BY <2>1
  <2>4. QED
    BY <2>2, <2>3, StaysBecome DEF Stays
<1>7. CASE NotifyWaiters(t)
  <2>1. \A u \in Thread : thread'[u] =
          IF u = t THEN Finished(t)
          ELSE IF At(u, "blocked") /\ thread[u].job = thread[t].job
               THEN [thread[u] EXCEPT !.pc = "lock"]
               ELSE thread[u]
    BY <1>7 DEF NotifyWaiters
  <2>2. \A u \in Thread : thread[u] \in State
    BY DEF RunInv, Typing
  <2>3. \A u \in Thread : [thread[u] EXCEPT !.pc = "lock"].pc = "lock"
    BY <2>2 DEF State
  <2>4. QED
    BY <1>3, <2>1, <2>3 DEF Stays
<1>8. CASE Drain(t)
  <2> DEFINE s == [thread[t] EXCEPT !.hidden = FALSE]
  <2>1. s.pc = thread[t].pc /\ s.job = thread[t].job
    BY <1>1 DEF State
  <2>2. Become(t, s)
    BY <1>8 DEF Drain, Become
  <2>3. QED
    BY <2>1, <2>2, StaysBecome DEF Stays
<1>9. QED
  BY <1>2, <1>4, <1>5, <1>6, <1>7, <1>8 DEF FinishStep

\* Starting and joining the workers.
LEMMA LifeStays ==
  ASSUME RunInv, NEW c \in Client, Initialize(c) \/ Join(c)
  PROVE  \A u \in Thread : Stays(thread[u], thread'[u])
<1>1. \A u \in Thread : thread'[u] \in {thread[u], Off, Looping, Idle}
  <2>1. CASE Initialize(c)
    BY <2>1 DEF Initialize
  <2>2. CASE Join(c)
    BY <2>2 DEF Join
  <2>3. QED
    BY <2>1, <2>2
<1>2. Off.pc = "off" /\ Looping.pc = "loop" /\ Idle.pc = "idle"
  BY DEF Off, Looping, Idle
<1>3. QED
  BY <1>1, <1>2 DEF Stays, Active

\* Every step, then, either is one of those or moves no thread there.
LEMMA Arrivals ==
  ASSUME RunInv, [Next]_vars, \A t \in Thread : ~Arrives(t)
  PROVE  \A u \in Thread : Stays(thread[u], thread'[u])
<1>1. ASSUME NEW t \in Thread, Step(t)
      PROVE  \A u \in Thread : Stays(thread[u], thread'[u])
  BY <1>1, CallStays, FinishStays, LifeStays DEF Step, CallStep, RunStep, Arrives
<1>2. ASSUME NEW c \in Client, Call(c)
      PROVE  \A u \in Thread : Stays(thread[u], thread'[u])
  <2>1. c \in Thread
    BY DEF Thread
  <2>2. ASSUME NEW j \in Job, Submit(c, j) \/ ResetHandle(c, j) \/ Cancel(c, j) \/ Wait(c, j)
        PROVE  \A u \in Thread : Stays(thread[u], thread'[u])
    <3>1. CASE ResetHandle(c, j)
      BY <3>1 DEF ResetHandle, Stays
    <3>2. \/ Become(c, [Idle EXCEPT !.pc = "deps", !.job = j, !.rest = Deps[j]])
          \/ Become(c, [Idle EXCEPT !.pc = "flag", !.job = j, !.drop = TRUE])
          \/ Become(c, [Idle EXCEPT !.pc = "lock", !.job = j])
          \/ Become(c, [Idle EXCEPT !.pc = "lock", !.job = j, !.drop = TRUE])
          \/ ResetHandle(c, j)
      BY <2>2 DEF Submit, Cancel, Wait
    <3>3. /\ [Idle EXCEPT !.pc = "deps", !.job = j, !.rest = Deps[j]].pc = "deps"
          /\ [Idle EXCEPT !.pc = "flag", !.job = j, !.drop = TRUE].pc = "flag"
          /\ [Idle EXCEPT !.pc = "lock", !.job = j].pc = "lock"
          /\ [Idle EXCEPT !.pc = "lock", !.job = j, !.drop = TRUE].pc = "lock"
      BY DEF Idle
    <3>4. QED
      BY <2>1, <3>1, <3>2, <3>3, StaysBecome DEF Stays, Active
  <2>3. QED
    BY <1>2, <2>1, <2>2, CallStays, LifeStays DEF Call
<1>3. CASE UNCHANGED vars
  BY <1>3 DEF vars, Stays
<1>4. QED
  BY <1>1, <1>2, <1>3 DEF Next

\* The flags: cancelled only grows, and only FinishJob sets completed.
LEMMA FlagStep ==
  ASSUME [Next]_vars
  PROVE  /\ cancelled \subseteq cancelled'
         /\ \/ UNCHANGED completed
            \/ \E t \in Thread : /\ thread[t].pc = "finish"
                                 /\ completed' = completed \cup {thread[t].job}
<1>1. ASSUME NEW t \in Thread, EnqueueStep(t) \/ RunStep(t) \/ FinishStep(t) \/ WorkerPop(t)
      PROVE  /\ cancelled \subseteq cancelled'
             /\ UNCHANGED completed
                \/ (thread[t].pc = "finish" /\ completed' = completed \cup {thread[t].job})
  BY <1>1
     DEF EnqueueStep, MarkQueued, Push, NotifyWorker, RunStep, Start, Drain, Check, EndTask,
         FinishStep, MarkCompleted, CountCompleted, CopyDependents, WakeDependent, NotifyWaiters,
         WorkerPop, At, flags
<1>2. ASSUME NEW t \in Thread, CallStep(t)
      PROVE  cancelled \subseteq cancelled' /\ UNCHANGED completed
  BY <1>2
     DEF CallStep, CheckDep, Register, StoreRemaining, CountSubmitted, GiveHandle, FlagCancelled,
         RemoveQueued, Decide, Lock, Block, AllCounted, AllPump, PumpTake, PumpEnd, WakeAll, Join,
         flags
<1>3. ASSUME NEW c \in Client, Call(c)
      PROVE  UNCHANGED <<cancelled, completed>>
  BY <1>3
     DEF Call, Submit, ResetHandle, Cancel, Wait, WaitForAll, Initialize, Shutdown, TimeOut, flags
<1>4. CASE UNCHANGED vars
  BY <1>4 DEF vars, flags
<1>5. QED
  BY <1>1, <1>2, <1>3, <1>4 DEF Next, Step

\* A thread comes to a task only as the holder of a job that has not run, and
\* another comes to finish that job only after it was cancelled.
LEMMA AloneStep ==
  ASSUME RunInv, Alone, [Next]_vars
  PROVE  Alone'
<1>1. cancelled \subseteq cancelled'
  BY FlagStep
<1>2. CASE \A t \in Thread : ~Arrives(t)
  <2>1. \A u \in Thread : Stays(thread[u], thread'[u])
    BY <1>2, Arrivals
  <2> SUFFICES ASSUME NEW t \in Thread, thread'[t].pc = "task", thread'[t].job \notin cancelled'
               PROVE  /\ thread'[t].job \notin completed'
                      /\ \A u \in Thread : u # t /\ thread'[u].job = thread'[t].job =>
                           thread'[u].pc \notin {"task", "finish"}
    BY DEF Alone
  <2>2. thread[t].pc = "task" /\ thread'[t].job = thread[t].job
    BY <2>1 DEF Stays, Active
  <2>3. /\ thread[t].job \notin completed
        /\ \A u \in Thread : u # t /\ thread[u].job = thread[t].job =>
             thread[u].pc \notin {"task", "finish"}
    BY <1>1, <2>2 DEF Alone
  <2>4. thread[t].job \notin completed'
    BY <2>2, <2>3, FlagStep
  <2>5. QED
    BY <2>1, <2>2, <2>3, <2>4 DEF Stays, Active
<1>3. ASSUME NEW t \in Thread, Arrives(t)
      PROVE  Alone'
  <2>1. thread[t] \in State /\ Locals(t)
    BY DEF RunInv, Typing
  <2>2. PICK j \in Job : thread[t].job = j
    BY <1>3, <2>1 DEF Locals, Arrives, Start, Check, EndTask, RemoveQueued, Decide, At, Quiet
  <2>3. UNCHANGED completed
    BY <1>3 DEF Arrives, Start, Check, EndTask, RemoveQueued, Decide, flags
  <2>4. ASSUME NEW s, Become(t, s), s.pc \notin {"task", "finish"}
        PROVE  Alone'
    <3>1. thread'[t] = s /\ \A u \in Thread : u # t => thread'[u] = thread[u]
      BY <2>4, Becomes
    <3>2. QED
      BY <1>1, <2>3, <2>4, <3>1 DEF Alone
  <2>5. ASSUME NEW s, Become(t, s), s.pc = "finish", s.job = j,
               j \in cancelled \/ \A u \in Thread : u # t /\ thread[u].job = j => thread[u].pc # "task"
        PROVE  Alone'
    <3>1. thread'[t] = s /\ \A u \in Thread : u # t => thread'[u] = thread[u]
      BY <2>5, Becomes
    <3>2. QED
      BY <1>1, <2>3, <2>5, <3>1 DEF Alone
  <2>6. CASE Start(t)
    <3>1. PICK s : Become(t, s) /\ s.pc = "check"
      <4>1. Go(t, "check") \/ Become(t, [thread[t] EXCEPT !.pc = "check", !.hidden = TRUE])
        BY <2>6 DEF Start
      <4>2. [thread[t] EXCEPT !.pc = "check", !.hidden = TRUE].pc = "check"
        BY <2>1 DEF State
      <4>3. QED
        BY <4>1, <4>2, Goes
    <3>2. QED
      BY <2>4, <3>1
  <2>7. CASE Check(t)
    <3>1. /\ thread[t].pc = "check" /\ runs[j] = 0
      BY <2>2, <2>7 DEF Check, At, RunInv, Unrun, Holds
    <3>2. CASE j \in cancelled
      <4> DEFINE s == [thread[t] EXCEPT !.pc = "finish", !.drop = TRUE]
      <4>1. s.pc = "finish" /\ s.job = j
        BY <2>1, <2>2 DEF State
      <4>2. Become(t, s)
        BY <2>2, <2>7, <3>2 DEF Check
      <4> HIDE DEF s
      <4>3. QED
        BY <2>5, <3>2, <4>1, <4>2
    <3>3. CASE j \notin cancelled
      <4>1. PICK s : Become(t, s) /\ s.pc = "task" /\ s.job = j
        <5> DEFINE s == [thread[t] EXCEPT !.pc = "task"]
        <5>1. s.pc = "task" /\ s.job = j
          BY <2>1, <2>2 DEF State
        <5>2. Become(t, s)
          BY <2>2, <2>7, <3>3 DEF Check, Go, Become
        <5>3. QED
          BY <5>1, <5>2
      <4>2. thread'[t] = s /\ \A u \in Thread : u # t => thread'[u] = thread[u]
        BY <4>1, Becomes
      <4>3. ~Excused(j)
        BY <3>1, <3>3 DEF Excused
      <4>4. j \notin completed
        BY <4>3 DEF RunInv, Ended
      <4>5. \A u \in Thread : thread[u].job = j => thread[u].pc \notin {"task", "finish"}
        BY <3>1, <4>3 DEF RunInv, Ended
      <4> SUFFICES ASSUME NEW v \in Thread, thread'[v].pc = "task", thread'[v].job \notin cancelled'
                   PROVE  /\ thread'[v].job \notin completed'
                          /\ \A u \in Thread : u # v /\ thread'[u].job = thread'[v].job =>
                               thread'[u].pc \notin {"task", "finish"}
        BY DEF Alone
      <4>6. CASE v = t
        BY <2>3, <4>1, <4>2, <4>4, <4>5, <4>6
      <4>7. CASE v # t
        <5>1. thread[v].pc = "task" /\ thread'[v] = thread[v] /\ thread[v].job # j
          BY <4>2, <4>5, <4>7
        <5>2. QED
          BY <1>1, <2>3, <4>1, <4>2, <5>1 DEF Alone
      <4>8. QED
        BY <4>6, <4>7
    <3>4. QED
      BY <3>2, <3>3
  <2>8. CASE EndTask(t)
    <3> DEFINE s == [thread[t] EXCEPT !.pc = "finish", !.drop = FALSE]
    <3>1. s.pc = "finish" /\ s.job = j
      BY <2>1, <2>2 DEF State
    <3>2. thread[t].pc = "task" /\ Become(t, s)
      BY <2>8 DEF EndTask, At
    <3>3. j \in cancelled \/ \A u \in Thread : u # t /\ thread[u].job = j => thread[u].pc # "task"
      BY <2>2, <3>2 DEF Alone
    <3> HIDE DEF s
    <3>4. QED
      BY <2>5, <3>1, <3>2, <3>3
  <2>9. CASE RemoveQueued(t) \/ Decide(t)
    <3>1. j \in cancelled
      BY <2>2, <2>9 DEF RunInv, Ended, RemoveQueued, Decide, At
    <3>2. \/ Go(t, "finish") \/ Go(t, "decide")
          \/ Become(t, Idle)
      BY <2>9 DEF RemoveQueued, Decide, Return
    <3>3. CASE Go(t, "finish")
      <4> DEFINE s == [thread[t] EXCEPT !.pc = "finish"]
      <4>1. s.pc = "finish" /\ s.job = j
        BY <2>1, <2>2 DEF State
      <4>2. Become(t, s)
        BY <3>3 DEF Go, Become
      <4> HIDE DEF s
      <4>3. QED
        BY <2>5, <3>1, <4>1, <4>2
    <3>4. CASE Go(t, "decide")
      <4>1. PICK s : Become(t, s) /\ s.pc = "decide"
        BY <3>4, Goes
      <4>2. QED
        BY <2>4, <4>1
    <3>5. CASE Become(t, Idle)
      <4>1. Idle.pc = "idle"
        BY DEF Idle
      <4>2. QED
        BY <2>4, <3>5, <4>1
    <3>6. QED
      BY <3>2, <3>3, <3>4, <3>5
  <2>10. QED
    BY <1>3, <2>6, <2>7, <2>8, <2>9 DEF Arrives
<1>4. QED
  BY <1>2, <1>3

\* Nobody else runs or finishes the job of a running task that was not
\* cancelled, and it is not reported complete.
THEOREM AloneInvariant == AnyInit /\ [][Next]_vars => [](RunInv /\ Alone)
<1>1. AnyInit => Alone
  <2> SUFFICES ASSUME NEW on \in BOOLEAN, InitAs(on)
               PROVE  Alone
    BY DEF AnyInit
  <2>1. \A t \in Thread : thread[t].pc \in {"idle", "off", "loop"}
    BY DEF InitAs, Idle, Off, Looping
  <2>2. QED
    BY <2>1 DEF Alone
<1>2. RunInv /\ Alone /\ [Next]_vars => Alone'
  BY AloneStep
<1>3. QED
  BY <1>1, <1>2, RunInvariant, PTL

\* A task is started at most once, and never after its job was reported
\* complete: the one thread that looks at the flag of a job that may still
\* run holds it, and a job that has ended has been run or cancelled.  A job
\* is reported complete after its task, or because it was cancelled.
THEOREM TaskRunsOnce == Spec => RunsOnce
<1>1. ASSUME RunInv, [Next]_vars, NEW j \in Job, runs'[j] # runs[j]
      PROVE  runs[j] = 0 /\ j \notin completed
  <2>1. PICK t \in Thread : Check(t)
    BY <1>1, RunsStep
  <2>2. /\ thread[t].pc = "check" /\ thread[t].job = j
        /\ j \notin cancelled
    BY <1>1, <2>1 DEF Check, At, RunInv, Typing
  <2>3. runs[j] = 0
    BY <1>1, <2>2 DEF RunInv, Unrun, Holds
  <2>4. QED
    BY <1>1, <2>2, <2>3 DEF RunInv, Ended, Excused
<1>2. ASSUME RunInv, Alone, [Next]_vars, NEW j \in Job, j \in completed' \ completed, j \notin cancelled
      PROVE  runs[j] = 1 /\ \A t \in Thread : ~(At(t, "task") /\ thread[t].job = j)
  <2>1. PICK t \in Thread : thread[t].pc = "finish" /\ thread[t].job = j
    BY <1>2, FlagStep
  <2>2. runs[j] = 1
    BY <1>2, <2>1 DEF RunInv, Ended, Excused
  <2>3. \A u \in Thread : ~(At(u, "task") /\ thread[u].job = j)
    BY <1>2, <2>1 DEF Alone, At
  <2>4. QED
    BY <2>2, <2>3
<1>3. RunInv /\ Alone /\ [Next]_vars =>
        [\A j \in Job :
           /\ runs'[j] # runs[j] => runs[j] = 0 /\ j \notin completed
           /\ j \in completed' \ completed =>
                \/ j \in cancelled
                \/ runs[j] = 1 /\ \A t \in Thread : ~(At(t, "task") /\ thread[t].job = j)]_vars
  BY <1>1, <1>2
<1>4. Init => AnyInit
  BY DEF Init, AnyInit
<1>5. QED
  BY <1>3, <1>4, AloneInvariant, PTL DEF Spec, RunsOnce

\* A job that has completed has no task running unless it was cancelled, and
\* the dependencies of a running task have completed.
LEMMA FirstOf ==
  ASSUME RunInv, LinkInv, Alone
  PROVE  DependenciesFirst
<1> SUFFICES ASSUME NEW t \in Thread, At(t, "task"), NEW d \in Deps[thread[t].job]
             PROVE  /\ d \in completed
                    /\ d \in cancelled \/ \A u \in Thread : ~(At(u, "task") /\ thread[u].job = d)
  BY DEF DependenciesFirst
<1>1. d \in completed
  BY TaskReady DEF CompletedFirst
<1>2. QED
  BY <1>1 DEF Alone, At

\* A task runs only after its dependencies have completed and, those that
\* were not cancelled, left their tasks; before the first Initialize or after
\* it, and however late stores become visible.
THEOREM DependenciesComeFirst == (Spec => []DependenciesFirst) /\ (RunningSpec => []DependenciesFirst)
<1>1. RunInv /\ LinkInv /\ Alone => DependenciesFirst
  BY FirstOf
<1>2. Init => AnyInit
  BY DEF Init, AnyInit
<1>3. InitAs(TRUE) => AnyInit
  BY DEF AnyInit
<1>4. AnyInit /\ [][Next]_vars => []DependenciesFirst
  BY <1>1, LinkInvariant, AloneInvariant, PTL
<1>5. Spec => []DependenciesFirst
  BY <1>2, <1>4 DEF Spec
<1>6. RunningSpec => []DependenciesFirst
  BY <1>3, <1>4 DEF RunningSpec
<1>7. QED
  BY <1>5, <1>6
=============================================================================
