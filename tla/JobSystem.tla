----------------------------- MODULE JobSystem ------------------------------
(***************************************************************************)
(* engine/jobsystem: worker threads and client threads over three queues   *)
(* under one mutex, jobs that wait for other jobs, cancellation, waiting,  *)
(* pumping, shutdown and a new start.                                      *)
(*                                                                         *)
(* A thread is its program counter and its locals.  One step is one        *)
(* access to shared state: an atomic load, store or exchange, or a whole   *)
(* critical section.  Loads that no other step can come between with an    *)
(* effect (two early returns in a row, a load whose answer is final) are   *)
(* one step.  Every job is submitted at most once and named by its task.   *)
(***************************************************************************)
EXTENDS Naturals, FiniteSets, Sequences, SequencesExt

CONSTANTS
  Job,         \* the jobs
  Worker,      \* the worker threads Initialize starts
  Client,      \* the threads that call the interface
  Deps,        \* the dependencies each job is submitted with
  Priority,    \* the queue of each job: 1 high, 2 normal, 3 low
  Calls,       \* the calls the clients of this instance make
  Buffered,    \* a store may still be invisible when the next load is done
  CounterSize, \* the number of values of remainingDeps
  MaxStarts,   \* bound: the calls of Initialize
  NoJob

ASSUME JobAssumption ==
  /\ NoJob \notin Job
  /\ Deps \in [Job -> SUBSET Job]
  /\ Priority \in [Job -> 1 .. 3]
  /\ Worker \cap Client = {}
  /\ Buffered \in BOOLEAN
  /\ MaxStarts \in Nat
  /\ CounterSize \in Nat
  /\ \A j \in Job : IsFiniteSet(Deps[j]) /\ Cardinality(Deps[j]) < CounterSize

VARIABLES
  running,     \* running_
  queues,      \* queues_
  asleep,      \* workers blocked in workAvailable_.wait
  started, cancelled, queued, completed,   \* the jobs with that flag set
  remaining,   \* by job: remainingDeps
  dependents,  \* by job: dependents
  held,        \* the jobs some client has a handle of
  submittedCount, completedCount,
  thread,      \* by thread: pc and locals
  submitted,   \* history: the jobs counted in submittedCount
  runs,        \* history, by job: how often its task was started
  starts       \* history: the calls of Initialize

flags == <<started, cancelled, queued, completed>>
links == <<remaining, dependents, held>>
counts == <<submittedCount, completedCount>>
history == <<submitted, runs, starts>>
vars == <<running, queues, asleep, flags, links, counts, thread, history>>

Thread == Worker \cup Client

(* then, back: where the thread goes on after EnqueueIfReady, FinishJob.    *)
Idle == [pc |-> "idle", job |-> NoJob, dep |-> NoJob, rest |-> {}, num |-> 0,
         drop |-> FALSE, hidden |-> FALSE, back |-> "idle", then |-> "idle"]

Off == [Idle EXCEPT !.pc = "off"]

Looping == [Idle EXCEPT !.pc = "loop", !.back = "loop"]

(* Before the first Initialize, or, on = TRUE, right after it.             *)
InitAs(on) ==
  /\ running = on
  /\ queues = [i \in 1 .. 3 |-> << >>]
  /\ asleep = {}
  /\ started = {} /\ cancelled = {} /\ queued = {} /\ completed = {}
  /\ remaining = [j \in Job |-> 0]
  /\ dependents = [j \in Job |-> {}]
  /\ held = {}
  /\ submittedCount = 0 /\ completedCount = 0
  /\ thread = [t \in Thread |-> IF t \in Client THEN Idle ELSE IF on THEN Looping ELSE Off]
  /\ submitted = {}
  /\ runs = [j \in Job |-> 0]
  /\ starts = IF on THEN 1 ELSE 0

Init == InitAs(FALSE)

At(t, pc) == thread[t].pc = pc

Go(t, pc) == thread' = [thread EXCEPT ![t].pc = pc]

Become(t, state) == thread' = [thread EXCEPT ![t] = state]

Return(t) == Become(t, Idle)

InQueue(j) == \E i \in 1 .. 3 : j \in ToSet(queues[i])

(* Some shared_ptr to the job: a handle, a queue or a local of a thread.   *)
Alive(j) ==
  \/ j \in held
  \/ InQueue(j)
  \/ \E t \in Thread : thread[t].job = j \/ thread[t].dep = j

(* The job's mutex is held across steps only by a thread about to block.   *)
MutexFree(j) == \A t \in Thread : ~(At(t, "checked") /\ thread[t].job = j)

-----------------------------------------------------------------------------
(* Submit.                                                                 *)
Submit(c, j) ==
  /\ "Submit" \in Calls /\ At(c, "idle")
  /\ j \notin submitted /\ \A t \in Thread : thread[t].job # j
  /\ Deps[j] \subseteq held
  /\ Become(c, [Idle EXCEPT !.pc = "deps", !.job = j, !.rest = Deps[j]])
  /\ UNCHANGED <<running, queues, asleep, flags, links, counts, history>>

(* A dependency that has completed is skipped; the others are registered   *)
(* with, after that look at the flag, under their own mutex.               *)
CheckDep(c) ==
  /\ At(c, "deps")
  /\ \E d \in thread[c].rest :
       Become(c, IF d \in completed
                 THEN [thread[c] EXCEPT !.rest = @ \ {d}]
                 ELSE [thread[c] EXCEPT !.pc = "register", !.dep = d])
  /\ UNCHANGED <<running, queues, asleep, flags, links, counts, history>>

Register(c) ==
  /\ At(c, "register")
  /\ LET d == thread[c].dep
     IN  /\ MutexFree(d)
         /\ dependents' = [dependents EXCEPT ![d] = @ \cup {thread[c].job}]
         /\ Become(c, [thread[c] EXCEPT !.pc = "deps", !.dep = NoJob, !.num = @ + 1,
                                        !.rest = @ \ {d}])
  /\ UNCHANGED <<running, queues, asleep, flags, remaining, held, counts, history>>

StoreRemaining(c) ==
  /\ At(c, "deps") /\ thread[c].rest = {}
  /\ remaining' = [remaining EXCEPT ![thread[c].job] = thread[c].num]
  /\ Go(c, "count")
  /\ UNCHANGED <<running, queues, asleep, flags, dependents, held, counts, history>>

CountSubmitted(c) ==
  /\ At(c, "count")
  /\ submittedCount' = submittedCount + 1
  /\ submitted' = submitted \cup {thread[c].job}
  /\ Become(c, IF thread[c].num = 0
               THEN [thread[c] EXCEPT !.pc = "enqueue", !.dep = thread[c].job, !.then = "give"]
               ELSE [thread[c] EXCEPT !.pc = "give"])
  /\ UNCHANGED <<running, queues, asleep, flags, links, completedCount, runs, starts>>

GiveHandle(c) ==
  /\ At(c, "give")
  /\ held' = held \cup {thread[c].job}
  /\ Return(c)
  /\ UNCHANGED <<running, queues, asleep, flags, remaining, dependents, counts, history>>

(* JobHandle::Reset: the client lets go of its handle.                     *)
ResetHandle(c, j) ==
  /\ "Reset" \in Calls /\ At(c, "idle") /\ j \in held
  /\ held' = held \ {j}
  /\ UNCHANGED <<running, queues, asleep, flags, remaining, dependents, counts, thread, history>>

-----------------------------------------------------------------------------
(* EnqueueIfReady of the job `dep`.                                        *)
MarkQueued(t) ==
  /\ At(t, "enqueue")
  /\ LET j == thread[t].dep
     IN  \/ /\ j \in completed \cup queued
            /\ Become(t, [thread[t] EXCEPT !.pc = thread[t].then, !.then = "idle", !.dep = NoJob])
            /\ UNCHANGED queued
         \/ /\ j \notin completed \cup queued
            /\ queued' = queued \cup {j}
            /\ Go(t, "push")
  /\ UNCHANGED <<running, queues, asleep, started, cancelled, completed, links, counts, history>>

Push(t) ==
  /\ At(t, "push")
  /\ queues' = [queues EXCEPT ![Priority[thread[t].dep]] = Append(@, thread[t].dep)]
  /\ Go(t, "notify")
  /\ UNCHANGED <<running, asleep, flags, links, counts, history>>

\* Mutant: nobody is notified.
NotifyNobody(t) ==
  /\ At(t, "notify")
  /\ Become(t, [thread[t] EXCEPT !.pc = thread[t].then, !.then = "idle", !.dep = NoJob])
  /\ UNCHANGED <<running, queues, asleep, flags, links, counts, history>>

NotifyWorker(t) ==
  /\ At(t, "notify")
  /\ \/ asleep = {} /\ UNCHANGED asleep
     \/ \E w \in asleep : asleep' = asleep \ {w}
  /\ Become(t, [thread[t] EXCEPT !.pc = thread[t].then, !.then = "idle", !.dep = NoJob])
  /\ UNCHANGED <<running, queues, flags, links, counts, history>>

-----------------------------------------------------------------------------
(* Taking and running a job: WorkerLoop, and Pump without workers or with  *)
(* no limit.                                                               *)
QueuesEmpty == \A i \in 1 .. 3 : queues[i] = << >>

FirstQueue == CHOOSE i \in 1 .. 3 : queues[i] # << >> /\ \A k \in 1 .. i - 1 : queues[k] = << >>

Take(t, back) ==
  /\ ~QueuesEmpty
  /\ queues' = [queues EXCEPT ![FirstQueue] = Tail(@)]
  /\ Become(t, [thread[t] EXCEPT !.pc = "start", !.job = Head(queues[FirstQueue]), !.back = back])

(* PopJobBlocking, from the top of the loop or after a wake-up.            *)
WorkerPop(w) ==
  /\ At(w, "loop") /\ w \notin asleep
  /\ \/ /\ ~running
        /\ Go(w, "exited")
        /\ UNCHANGED <<queues, asleep>>
     \/ /\ running
        /\ Take(w, "loop")
        /\ UNCHANGED asleep
     \/ /\ running /\ QueuesEmpty
        /\ asleep' = asleep \cup {w}
        /\ UNCHANGED <<queues, thread>>
  /\ UNCHANGED <<running, flags, links, counts, history>>

(* started.store: visible at once or, in a store buffer, only later.       *)
Start(t) ==
  /\ At(t, "start")
  /\ \/ /\ started' = started \cup {thread[t].job}
        /\ Go(t, "check")
     \/ /\ Buffered
        /\ Become(t, [thread[t] EXCEPT !.pc = "check", !.hidden = TRUE])
        /\ UNCHANGED started
  /\ UNCHANGED <<running, queues, asleep, cancelled, queued, completed, links, counts, history>>

Drain(t) ==
  /\ thread[t].hidden
  /\ started' = started \cup {thread[t].job}
  /\ thread' = [thread EXCEPT ![t].hidden = FALSE]
  /\ UNCHANGED <<running, queues, asleep, cancelled, queued, completed, links, counts, history>>

Check(t) ==
  /\ At(t, "check")
  /\ \/ /\ thread[t].job \in cancelled
        /\ Become(t, [thread[t] EXCEPT !.pc = "finish", !.drop = TRUE])
        /\ UNCHANGED runs
     \/ /\ thread[t].job \notin cancelled
        /\ Go(t, "task")
        /\ runs' = [runs EXCEPT ![thread[t].job] = @ + 1]
  /\ UNCHANGED <<running, queues, asleep, flags, links, counts, submitted, starts>>

(* The task ends, with or without an exception.                            *)
EndTask(t) ==
  /\ At(t, "task")
  /\ Become(t, [thread[t] EXCEPT !.pc = "finish", !.drop = FALSE])
  /\ UNCHANGED <<running, queues, asleep, flags, links, counts, history>>

-----------------------------------------------------------------------------
(* FinishJob of the job `job`; `drop`: cancelled before it ran.  Finished  *)
(* is what is left of the thread's locals after it.                        *)
Finished(t) == [Idle EXCEPT !.pc = thread[t].back, !.num = thread[t].num]

MarkCompleted(t) ==
  /\ At(t, "finish") /\ ~thread[t].hidden
  /\ \/ /\ thread[t].job \in completed
        /\ Become(t, Finished(t))
        /\ UNCHANGED completed
     \/ /\ thread[t].job \notin completed
        /\ completed' = completed \cup {thread[t].job}
        /\ Go(t, "tally")
  /\ UNCHANGED <<running, queues, asleep, started, cancelled, queued, links, counts, history>>

CountCompleted(t) ==
  /\ At(t, "tally")
  /\ completedCount' = completedCount + 1
  /\ Go(t, "copy")
  /\ UNCHANGED <<running, queues, asleep, flags, links, submittedCount, history>>

\* Mutant: the dependents are copied without taking the job's mutex.
CopyUnlocked(t) ==
  /\ At(t, "copy")
  /\ Become(t, [thread[t] EXCEPT !.pc = "wake", !.rest = dependents[thread[t].job]])
  /\ UNCHANGED <<running, queues, asleep, flags, links, counts, history>>

CopyDependents(t) ==
  /\ At(t, "copy") /\ MutexFree(thread[t].job)
  /\ Become(t, [thread[t] EXCEPT !.pc = "wake", !.rest = dependents[thread[t].job]])
  /\ UNCHANGED <<running, queues, asleep, flags, links, counts, history>>

\* Mutant: the last but one dependency enqueues it.
WakeDependentEarly(t) ==
  /\ At(t, "wake")
  /\ \E d \in thread[t].rest :
       LET others == [thread[t] EXCEPT !.rest = @ \ {d}]
       IN  /\ remaining' = [remaining EXCEPT ![d] = (@ + CounterSize - 1) % CounterSize]
           /\ Become(t, [others EXCEPT !.pc = "enqueue", !.dep = d, !.then = "wake"])
  /\ UNCHANGED <<running, queues, asleep, flags, dependents, held, counts, history>>

(* A dependent that is gone is skipped; one whose count was 1 is enqueued. *)
WakeDependent(t) ==
  /\ At(t, "wake")
  /\ \E d \in thread[t].rest :
       LET others == [thread[t] EXCEPT !.rest = @ \ {d}]
       IN  \/ /\ ~Alive(d)
              /\ Become(t, others)
              /\ UNCHANGED remaining
           \/ /\ Alive(d)
              /\ remaining' = [remaining EXCEPT ![d] = (@ + CounterSize - 1) % CounterSize]
              /\ Become(t, IF remaining[d] = 1
                           THEN [others EXCEPT !.pc = "enqueue", !.dep = d, !.then = "wake"]
                           ELSE others)
  /\ UNCHANGED <<running, queues, asleep, flags, dependents, held, counts, history>>

(* cv.notify_all.                                                          *)
NotifyWaiters(t) ==
  /\ At(t, "wake") /\ thread[t].rest = {}
  /\ thread' = [u \in Thread |->
       IF u = t THEN Finished(t)
       ELSE IF At(u, "blocked") /\ thread[u].job = thread[t].job
            THEN [thread[u] EXCEPT !.pc = "lock"]
            ELSE thread[u]]
  /\ UNCHANGED <<running, queues, asleep, flags, links, counts, history>>

-----------------------------------------------------------------------------
(* Cancel: nothing to do for a job that has started or completed.          *)
Cancel(c, j) ==
  /\ "Cancel" \in Calls /\ At(c, "idle") /\ j \in held
  /\ j \notin completed \cup started
  /\ Become(c, [Idle EXCEPT !.pc = "flag", !.job = j, !.drop = TRUE])
  /\ UNCHANGED <<running, queues, asleep, flags, links, counts, history>>

\* Mutant: the flag that keeps the job from running is not stored.
FlagNothing(c) ==
  /\ At(c, "flag")
  /\ Go(c, "remove")
  /\ UNCHANGED <<running, queues, asleep, flags, links, counts, history>>

FlagCancelled(c) ==
  /\ At(c, "flag")
  /\ cancelled' = cancelled \cup {thread[c].job}
  /\ Go(c, "remove")
  /\ UNCHANGED <<running, queues, asleep, started, queued, completed, links, counts, history>>

RemoveQueued(c) ==
  /\ At(c, "remove")
  /\ LET j == thread[c].job
     IN  /\ queues' = [i \in 1 .. 3 |-> RemoveFirst(queues[i], j)]
         /\ Go(c, IF InQueue(j) THEN "finish" ELSE "decide")
  /\ UNCHANGED <<running, asleep, flags, links, counts, history>>

Decide(c) ==
  /\ At(c, "decide")
  /\ IF thread[c].job \in started THEN Return(c) ELSE Go(c, "finish")
  /\ UNCHANGED <<running, queues, asleep, flags, links, counts, history>>

-----------------------------------------------------------------------------
(* Wait and WaitFor (which may time out): the flag is looked at under the  *)
(* job's mutex, which is held until the thread blocks.                     *)
Wait(c, j) ==
  /\ At(c, "idle") /\ j \in held
  /\ \/ "Wait" \in Calls /\ Become(c, [Idle EXCEPT !.pc = "lock", !.job = j])
     \/ "WaitFor" \in Calls /\ Become(c, [Idle EXCEPT !.pc = "lock", !.job = j, !.drop = TRUE])
  /\ UNCHANGED <<running, queues, asleep, flags, links, counts, history>>

Lock(c) ==
  /\ At(c, "lock") /\ MutexFree(thread[c].job)
  /\ IF thread[c].job \in completed THEN Return(c) ELSE Go(c, "checked")
  /\ UNCHANGED <<running, queues, asleep, flags, links, counts, history>>

Block(c) ==
  /\ At(c, "checked")
  /\ Go(c, "blocked")
  /\ UNCHANGED <<running, queues, asleep, flags, links, counts, history>>

TimeOut(c) ==
  /\ At(c, "blocked") /\ thread[c].drop
  /\ Return(c)
  /\ UNCHANGED <<running, queues, asleep, flags, links, counts, history>>

-----------------------------------------------------------------------------
(* WaitForAll counts; its Pump(0.5) runs jobs only when there is no worker.*)
NoWorkers == \A w \in Worker : At(w, "off")

WaitForAll(c) ==
  /\ "WaitForAll" \in Calls /\ At(c, "idle")
  /\ Become(c, [Idle EXCEPT !.pc = "all", !.num = submittedCount])
  /\ UNCHANGED <<running, queues, asleep, flags, links, counts, history>>

AllCounted(c) ==
  /\ At(c, "all") /\ completedCount >= thread[c].num
  /\ Return(c)
  /\ UNCHANGED <<running, queues, asleep, flags, links, counts, history>>

AllPump(c) ==
  /\ At(c, "all") /\ completedCount < thread[c].num
  /\ NoWorkers
  /\ Take(c, "all")
  /\ UNCHANGED <<running, asleep, flags, links, counts, history>>

(* Pump takes one job after the other.  With workers only the unlimited    *)
(* call runs jobs; without, a budget may end it after any of them.         *)
PumpTake(c) ==
  /\ "Pump" \in Calls
  /\ At(c, "idle") \/ At(c, "pump")
  /\ Take(c, "pump")
  /\ UNCHANGED <<running, asleep, flags, links, counts, history>>

PumpEnd(c) ==
  /\ At(c, "pump")
  /\ QueuesEmpty \/ NoWorkers
  /\ Return(c)
  /\ UNCHANGED <<running, queues, asleep, flags, links, counts, history>>

-----------------------------------------------------------------------------
(* Initialize and Shutdown are made by one thread at a time.               *)
Initialize(c) ==
  /\ "Initialize" \in Calls /\ At(c, "idle")
  /\ ~running /\ NoWorkers
  /\ \A t \in Client : ~At(t, "wakeall") /\ ~At(t, "join")
  /\ starts < MaxStarts
  /\ starts' = starts + 1
  /\ running' = TRUE
  /\ queues' = [i \in 1 .. 3 |-> << >>]
  /\ submittedCount' = 0 /\ completedCount' = 0
  /\ thread' = [t \in Thread |-> IF t \in Worker THEN Looping ELSE thread[t]]
  /\ UNCHANGED <<asleep, flags, links, submitted, runs>>

Shutdown(c) ==
  /\ "Shutdown" \in Calls /\ At(c, "idle")
  /\ running
  /\ running' = FALSE
  /\ Go(c, "wakeall")
  /\ UNCHANGED <<queues, asleep, flags, links, counts, history>>

\* Mutant: one worker is notified, not all of them.
WakeOne(c) ==
  /\ At(c, "wakeall")
  /\ \/ asleep = {} /\ UNCHANGED asleep
     \/ \E w \in asleep : asleep' = asleep \ {w}
  /\ Go(c, "join")
  /\ UNCHANGED <<running, queues, flags, links, counts, history>>

WakeAll(c) ==
  /\ At(c, "wakeall")
  /\ asleep' = {}
  /\ Go(c, "join")
  /\ UNCHANGED <<running, queues, flags, links, counts, history>>

Join(c) ==
  /\ At(c, "join") /\ \A w \in Worker : At(w, "exited")
  /\ queues' = [i \in 1 .. 3 |-> << >>]
  /\ submittedCount' = 0 /\ completedCount' = 0
  /\ thread' = [t \in Thread |-> IF t \in Worker THEN Off ELSE IF t = c THEN Idle ELSE thread[t]]
  /\ UNCHANGED <<running, asleep, flags, links, history>>

-----------------------------------------------------------------------------
(* The steps a thread takes inside a call or a worker loop.                *)
EnqueueStep(t) == MarkQueued(t) \/ Push(t) \/ NotifyWorker(t)

RunStep(t) == Start(t) \/ Drain(t) \/ Check(t) \/ EndTask(t)

FinishStep(t) ==
  MarkCompleted(t) \/ CountCompleted(t) \/ CopyDependents(t) \/ WakeDependent(t) \/ NotifyWaiters(t)

CallStep(c) ==
  \/ CheckDep(c) \/ Register(c) \/ StoreRemaining(c) \/ CountSubmitted(c) \/ GiveHandle(c)
  \/ FlagCancelled(c) \/ RemoveQueued(c) \/ Decide(c)
  \/ Lock(c) \/ Block(c)
  \/ AllCounted(c) \/ AllPump(c) \/ PumpTake(c) \/ PumpEnd(c)
  \/ WakeAll(c) \/ Join(c)

Step(t) ==
  \/ EnqueueStep(t) \/ RunStep(t) \/ FinishStep(t)
  \/ t \in Worker /\ WorkerPop(t)
  \/ t \in Client /\ CallStep(t)

Call(c) ==
  \/ \E j \in Job : Submit(c, j) \/ ResetHandle(c, j) \/ Cancel(c, j) \/ Wait(c, j)
  \/ WaitForAll(c) \/ Initialize(c) \/ Shutdown(c) \/ TimeOut(c)

Next == (\E t \in Thread : Step(t)) \/ (\E c \in Client : Call(c))

Spec == Init /\ [][Next]_vars

(* Every thread that is inside a call, a task or the worker loop goes on;  *)
(* a task ends; nobody has to make a call, except that a client that pumps *)
(* does so as long as there is something to run.                           *)
Fairness == \A t \in Thread : WF_vars(Step(t))

FairSpec == Spec /\ Fairness

(* The system is initialized before the first job is submitted.            *)
RunningSpec == InitAs(TRUE) /\ [][Next]_vars /\ Fairness

-----------------------------------------------------------------------------
TypeOK ==
  /\ running \in BOOLEAN
  /\ queues \in [1 .. 3 -> Seq(Job)]
  /\ asleep \subseteq Worker
  /\ started \subseteq Job /\ cancelled \subseteq Job
  /\ queued \subseteq Job /\ completed \subseteq Job
  /\ remaining \in [Job -> 0 .. CounterSize - 1]
  /\ dependents \in [Job -> SUBSET Job]
  /\ held \subseteq submitted
  /\ submitted \subseteq Job
  /\ submittedCount <= Cardinality(Job) /\ completedCount <= Cardinality(Job)
  /\ runs \in [Job -> 0 .. 1]
  /\ \A t \in Thread :
       /\ thread[t].job \in Job \cup {NoJob} /\ thread[t].dep \in Job \cup {NoJob}
       /\ thread[t].rest \subseteq Job

(* While a task runs, every job it was submitted with as a dependency has  *)
(* completed; and its task has ended, unless that job was cancelled, which *)
(* can complete a job under its own running task (TasksEndFirst).          *)
DependenciesFirst ==
  \A t \in Thread : At(t, "task") =>
    \A d \in Deps[thread[t].job] :
      /\ d \in completed
      /\ d \in cancelled \/ \A u \in Thread : ~(At(u, "task") /\ thread[u].job = d)

(* A task is started at most once and not after its job was reported       *)
(* complete, whoever cancels it meanwhile; and a job is reported complete  *)
(* only when its task has been started and has ended, or by reason of a    *)
(* Cancel.                                                                 *)
RunsOnce ==
  [][\A j \in Job :
       /\ runs'[j] # runs[j] => runs[j] = 0 /\ j \notin completed
       /\ j \in completed' \ completed =>
            \/ j \in cancelled
            \/ runs[j] = 1 /\ \A t \in Thread : ~(At(t, "task") /\ thread[t].job = j)]_vars

(* A job that is reported complete, to who waits for it and to who polls,  *)
(* is not running: Cancel leaves a job alone that already runs.  The code  *)
(* does not keep this: see Start.                                          *)
TasksEndFirst == \A t \in Thread : At(t, "task") => thread[t].job \notin completed

(* What is in a queue is completed, unless the system is shut down: no     *)
(* notification is lost between the workers.                               *)
QueueServed ==
  \A j \in Job : InQueue(j) /\ running ~> j \in completed \/ ~running

(* A thread that waits for a job that has completed is woken.              *)
WaitersWoken ==
  \A c \in Client : At(c, "blocked") /\ thread[c].job \in completed ~> ~At(c, "blocked")

(* Shutdown, which one thread at a time is in, returns: every worker       *)
(* leaves, wherever it was.                                                *)
ShutdownReturns ==
  (\E c \in Client : At(c, "join")) ~> (\A c \in Client : ~At(c, "join"))

(* Every job submitted is completed, its dependencies being submitted too. *)
AllFinish == \A j \in Job : j \in submitted ~> j \in completed
=============================================================================
