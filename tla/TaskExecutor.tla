---------------------------- MODULE TaskExecutor ----------------------------
(***************************************************************************)
(* engine/task: TaskExecutor, which runs instances of task definitions     *)
(* step by step, TaskScheduler, which starts definitions that accept       *)
(* themselves, and TaskReplanner.  A condition never looks at the world:   *)
(* it is true or false once and for all, and a set of conditions is the    *)
(* list of what they are.                                                  *)
(*                                                                         *)
(* Update and ProcessEvent walk containers that completing a task extends. *)
(* Where the walk goes after that is up to the library: the rest of it is  *)
(* then chosen anew.                                                       *)
(***************************************************************************)
EXTENDS Naturals, Sequences, FiniteSets, SequencesExt

CONSTANTS
  Task, Step, Event,
  NoStep, NoFile,
  Definitions,    \* by task: the definitions that may be registered for it
  MaxInstances,   \* bound: the instances started
  MaxTaskCalls    \* bound: the calls made

ConditionSet == [logic : {"All", "Any", "One"}, holds : Seq(BOOLEAN)]

Instance ==
  [task : Task, status : {"InProgress", "Completed", "Failed", "Abandoned"}, current : Step \cup {NoStep},
   steps : [Step -> {"Pending", "InProgress", "Completed", "Failed", "Blocked"}], achieved : BOOLEAN]

ASSUME TaskAssumption ==
  /\ IsFiniteSet(Task) /\ NoStep \notin Step /\ {MaxInstances, MaxTaskCalls} \subseteq Nat
  /\ \A ids \in SUBSET (1..MaxInstances) : NoFile \notin [ids -> Instance]
  /\ \A t \in Task : \A d \in Definitions[t] :
       /\ d.first \in Step \cup {NoStep} /\ d.order \in Seq(Step)
       /\ {d.starts, d.completes, d.fails} \subseteq [Step -> ConditionSet]
       /\ {d.accepted, d.achieved, d.failed} \subseteq ConditionSet
       /\ d.optional \subseteq Step /\ d.alternatives \in [Step -> Seq(Step)]
       /\ {d.auto, d.replannable} \subseteq BOOLEAN
       /\ d.events \subseteq Event /\ d.next \in Seq(Task) /\ d.before \subseteq Task

VARIABLES
  definitions,  \* taskDefinitions_: by task, the definition registered, as a set of at most one
  executor,     \* taskInstances_, eventToTasks_, and the number of ids drawn
  walk,         \* the loop under way: over all instances, or over those subscribed to an event
  dirty,        \* autoSaveDirty_
  saved,        \* the file: the instances in it
  taskCalls     \* bound: the calls so far

taskVars == <<definitions, executor, walk, dirty, saved, taskCalls>>

NoWalk == [of |-> "nothing"]

TaskInit ==
  /\ definitions = [t \in Task |-> {}]
  /\ executor = [instances |-> <<>>, subscribed |-> [e \in Event |-> <<>>], drawn |-> 0]
  /\ walk = NoWalk /\ dirty = FALSE /\ saved = NoFile /\ taskCalls = 0

Registered(t) == definitions[t] # {}

Def(t) == CHOOSE d \in definitions[t] : TRUE

(* One call at a time.                                                     *)
Called == walk = NoWalk /\ taskCalls < MaxTaskCalls /\ taskCalls' = taskCalls + 1

-----------------------------------------------------------------------------
Evaluate(c) ==
  LET true == {k \in DOMAIN c.holds : c.holds[k]} IN
  \/ c.holds = <<>>
  \/ c.logic = "All" /\ true = DOMAIN c.holds
  \/ c.logic = "Any" /\ true # {}
  \/ c.logic = "One" /\ \E k \in true : true = {k}

CanStart(d, s) == s \in ToSet(d.order) /\ Evaluate(d.starts[s])

HasFailed(d, s) == d.fails[s].holds # <<>> /\ Evaluate(d.fails[s])

(* One instance; a step's status is Pending until it is set.               *)
New(t) ==
  [task |-> t, status |-> "InProgress", current |-> NoStep,
   steps |-> [s \in Step |-> "Pending"], achieved |-> FALSE]

SetStep(i, s, status) == [i EXCEPT !.steps = [@ EXCEPT ![s] = status]]

MoveTo(i, s) == [i EXCEPT !.current = s]

EnterStep(i, s, d) == IF CanStart(d, s) THEN SetStep(MoveTo(i, s), s, "InProgress") ELSE MoveTo(i, s)

EnterNext(i, d) ==
  LET s == SelectInSeq(d.order, LAMBDA p : i.steps[p] = "Pending")
  IN  IF s = 0 THEN i ELSE EnterStep(i, d.order[s], d)

(* A step that completes and fails at once hands its failure to the next.  *)
UpdateCurrentStep(i, d) ==
  LET now == i.current
      done == EnterNext(SetStep(i, now, "Completed"), d)
      stepped == IF Evaluate(d.completes[now]) THEN done ELSE i
  IN  IF now = NoStep THEN IF d.first = NoStep THEN i ELSE EnterStep(i, d.first, d)
      ELSE IF now \notin ToSet(d.order) \/ i.steps[now] # "InProgress" THEN i
      ELSE IF HasFailed(d, now) THEN SetStep(stepped, stepped.current, "Failed")
      ELSE stepped

AllDone(i, d) == i.achieved /\ \A s \in ToSet(d.order) \ d.optional : i.steps[s] = "Completed"

-----------------------------------------------------------------------------
(* The executor x, as one call after the other changes it.                 *)
Accepts(t) == Evaluate(Def(t).accepted)

AutoAccepts(t) == Registered(t) /\ Def(t).auto /\ Accepts(t)

(* StartTask of these of the tasks, one after the other.                   *)
Launch(x, tasks, these) ==
  LET Id(k) == x.drawn + Cardinality({j \in these : j <= k})
      TaskOf(id) == tasks[CHOOSE k \in these : Id(k) = id]
      ids == {Id(k) : k \in these}
  IN  [instances |-> [id \in DOMAIN x.instances \cup ids |->
                        IF id \in ids THEN New(TaskOf(id)) ELSE x.instances[id]],
       subscribed |-> [e \in Event |->
         x.subscribed[e] \o SetToSortSeq({id \in ids : e \in Def(TaskOf(id)).events}, <)],
       drawn |-> x.drawn + Cardinality(these)]

Put(x, id, i) == [x EXCEPT !.instances = [@ EXCEPT ![id] = i]]

CompleteTask(x, id) ==
  LET i == x.instances[id]
      next == Def(i.task).next
  IN  IF i.status = "Completed" THEN x
      ELSE Launch(Put(x, id, [i EXCEPT !.status = "Completed"]), next, {k \in DOMAIN next : AutoAccepts(next[k])})

FailTask(x, id) == Put(x, id, [x.instances[id] EXCEPT !.status = "Failed"])

(* UpdateCurrentStep, CheckTaskCompletion and CheckTaskFailure.  A task    *)
(* without failure conditions fails: an empty set of conditions holds.     *)
UpdateTask(x, id) ==
  LET d == Def(x.instances[id].task)
      stepped == UpdateCurrentStep(x.instances[id], d)
      i == [stepped EXCEPT !.achieved = @ \/ Evaluate(d.achieved)]
      y == Put(x, id, i)
      z == IF AllDone(i, d) THEN CompleteTask(y, id) ELSE y
  IN  IF Evaluate(d.failed) THEN FailTask(z, id) ELSE z

Tracked(x, t) ==
  \E id \in DOMAIN x.instances :
    x.instances[id].task = t /\ x.instances[id].status \notin {"Abandoned", "Failed"}

CheckPrerequisites(x, t) ==
  \A p \in Def(t).before : \E id \in DOMAIN x.instances :
    x.instances[id].task = p /\ x.instances[id].status = "Completed"

(* The scheduler starts those of these tasks that accept themselves; that  *)
(* one is started changes nothing for the others.                          *)
AcceptTasks(x, those) ==
  LET ready == SetToSeq({t \in those : AutoAccepts(t) /\ CheckPrerequisites(x, t) /\ ~Tracked(x, t)})
  IN  Launch(x, ready, DOMAIN ready)

-----------------------------------------------------------------------------
\* Mutant: the end of a task does not mark the state dirty.
NoticedButEnd(old, new) ==
  \E id \in DOMAIN new :
    id \notin DOMAIN old \/ new[id].steps # old[id].steps \/ new[id].achieved # old[id].achieved

(* MarkStateDirty is called for all changes but that of the current step.  *)
Noticed(old, new) ==
  \E id \in DOMAIN new :
    id \notin DOMAIN old \/ [new[id] EXCEPT !.current = NoStep] # [old[id] EXCEPT !.current = NoStep]

Become(x) ==
  /\ x.drawn <= MaxInstances
  /\ executor' = x
  /\ dirty' = (dirty \/ Noticed(executor.instances, x.instances))

(* FlushAutoSaveIfNeeded; writing the file may fail.                       *)
Flush ==
  IF ~dirty THEN UNCHANGED <<dirty, saved>>
  ELSE \/ saved' = executor.instances /\ dirty' = FALSE
       \/ UNCHANGED <<dirty, saved>>

Register(t, d) ==
  /\ Called
  /\ definitions' = [definitions EXCEPT ![t] = {d}]
  /\ UNCHANGED <<executor, walk, dirty, saved>>

(* No instance may refer to it: they hold its address.                     *)
Unregister(t) ==
  /\ Called /\ \A id \in DOMAIN executor.instances : executor.instances[id].task # t
  /\ definitions' = [definitions EXCEPT ![t] = {}]
  /\ UNCHANGED <<executor, walk, dirty, saved>>

Start(t) ==
  /\ Called /\ Registered(t)
  /\ Become(Launch(executor, <<t>>, {k \in {1} : Accepts(t)}))
  /\ UNCHANGED <<definitions, walk, saved>>

Complete(id) == Called /\ Become(CompleteTask(executor, id)) /\ UNCHANGED <<definitions, walk, saved>>

Fail(id) == Called /\ Become(FailTask(executor, id)) /\ UNCHANGED <<definitions, walk, saved>>

AbandonTask(id) ==
  /\ Called
  /\ executor' = Put(executor, id, [executor.instances[id] EXCEPT !.status = "Abandoned"]) /\ dirty' = TRUE
  /\ UNCHANGED <<definitions, walk, saved>>

-----------------------------------------------------------------------------
(* The first alternative of the current step that can start, or 0.         *)
Alternative(i, d) == SelectInSeq(d.alternatives[i.current], LAMBDA s : CanStart(d, s))

\* Mutant: the step that is given up stays in progress.
ReplannedOver(i, d) ==
  LET k == IF i.current \in ToSet(d.order) THEN Alternative(i, d) ELSE 0
  IN  IF i.current = NoStep \/ k = 0 THEN i ELSE MoveTo(i, d.alternatives[i.current][k])

(* ReplanTask of the executor: the alternative is entered, not started.    *)
Replanned(i, d) ==
  LET k == IF i.current \in ToSet(d.order) THEN Alternative(i, d) ELSE 0
      undone == SetStep(i, i.current, "Pending")
  IN  IF i.current = NoStep THEN i
      ELSE IF k = 0 THEN undone
      ELSE MoveTo(undone, d.alternatives[i.current][k])

(* FindAlternativeStep, of the replanner.                                  *)
Switched(i, d) ==
  LET k == IF i.current \in ToSet(d.order) THEN Alternative(i, d) ELSE 0
      s == d.alternatives[i.current][k]
  IN  IF k = 0 THEN i
      ELSE SetStep(MoveTo(SetStep(i, i.current, "Blocked"), s), s, "InProgress")

(* ReplanTask of either; the replanner does what the first of its rules    *)
(* that holds says, which may be nothing or to fail the task.              *)
Replan(id) ==
  LET i == executor.instances[id] d == Def(i.task) IN
  /\ Called /\ d.replannable
  /\ \/ executor' = Put(executor, id, Replanned(i, d)) /\ UNCHANGED dirty
     \/ executor' = Put(executor, id, Switched(i, d)) /\ UNCHANGED dirty
     \/ Become(FailTask(executor, id))
  /\ UNCHANGED <<definitions, walk, saved>>

-----------------------------------------------------------------------------
(* Executor and scheduler may be driven apart, or by the manager.          *)
CheckAutoAcceptTasks == Called /\ Become(AcceptTasks(executor, Task)) /\ UNCHANGED <<definitions, walk, saved>>

Update ==
  /\ Called /\ walk' = [of |-> "all", left |-> DOMAIN executor.instances]
  /\ UNCHANGED <<definitions, executor, dirty, saved>>

UpdateOne(id) ==
  LET x == UpdateTask(executor, id)
      others == DOMAIN x.instances \ {id}
  IN  /\ walk.of = "all" /\ id \in walk.left /\ executor.instances[id].status = "InProgress"
      /\ Become(x)
      /\ \E left \in IF x.drawn = executor.drawn THEN {walk.left \ {id}} ELSE SUBSET others :
           walk' = [walk EXCEPT !.left = left]
      /\ UNCHANGED <<taskCalls, definitions, saved>>

UpdateEnds ==
  /\ walk.of = "all" /\ \A id \in walk.left : executor.instances[id].status # "InProgress"
  /\ walk' = NoWalk /\ Flush
  /\ UNCHANGED <<taskCalls, definitions, executor>>

ProcessEvent(e, scheduled) ==
  /\ Called
  /\ walk' = [of |-> "event", event |-> e, left |-> executor.subscribed[e], scheduled |-> scheduled]
  /\ UNCHANGED <<definitions, executor, dirty, saved>>

Notify ==
  LET id == Head(walk.left)
      known == id \in DOMAIN executor.instances
      x == IF known THEN UpdateTask(executor, id) ELSE executor
  IN  /\ walk.of = "event" /\ walk.left # <<>>
      /\ x.drawn <= MaxInstances
      /\ executor' = x /\ dirty' = (dirty \/ known)
      /\ \E left \in IF x.subscribed[walk.event] = executor.subscribed[walk.event]
                     THEN {Tail(walk.left)} ELSE AllSubSeqs(Tail(walk.left)) :
           walk' = [walk EXCEPT !.left = left]
      /\ UNCHANGED <<taskCalls, definitions, saved>>

EventEnds ==
  /\ walk.of = "event" /\ walk.left = <<>>
  /\ Flush
  /\ walk' = IF walk.scheduled THEN [of |-> "accept", event |-> walk.event] ELSE NoWalk
  /\ UNCHANGED <<taskCalls, definitions, executor>>

AcceptForEvent ==
  /\ walk.of = "accept"
  /\ Become(AcceptTasks(executor, {t \in Task : Registered(t) /\ walk.event \in Def(t).events}))
  /\ walk' = NoWalk
  /\ UNCHANGED <<taskCalls, definitions, saved>>

-----------------------------------------------------------------------------
SaveState == Called /\ saved' = executor.instances /\ UNCHANGED <<definitions, executor, walk, dirty>>

(* Instances of tasks not registered are skipped; the others subscribe.    *)
Loaded ==
  LET known == {id \in DOMAIN saved : Registered(saved[id].task)} IN
  [executor EXCEPT
     !.instances = [id \in known |-> saved[id]],
     !.subscribed = [e \in Event |-> SetToSeq({id \in known : e \in Def(saved[id].task).events})]]

LoadState ==
  /\ Called /\ saved # NoFile
  /\ executor' = Loaded /\ dirty' = FALSE
  /\ UNCHANGED <<definitions, walk, saved>>

(* Shutdown saves whatever the flag says, and forgets the instances.       *)
ShutdownTasks ==
  /\ Called
  /\ executor' = [executor EXCEPT !.instances = <<>>]
  /\ \/ saved' = executor.instances /\ dirty' = FALSE
     \/ UNCHANGED <<dirty, saved>>
  /\ UNCHANGED <<definitions, walk>>

TaskNext ==
  \/ \E t \in Task : (\E d \in Definitions[t] : Register(t, d)) \/ Unregister(t) \/ Start(t)
  \/ \E id \in DOMAIN executor.instances :
       Complete(id) \/ Fail(id) \/ AbandonTask(id) \/ Replan(id) \/ UpdateOne(id)
  \/ \E e \in Event, scheduled \in BOOLEAN : ProcessEvent(e, scheduled)
  \/ CheckAutoAcceptTasks \/ Update \/ UpdateEnds \/ Notify \/ EventEnds \/ AcceptForEvent
  \/ SaveState \/ LoadState \/ ShutdownTasks

TaskSpec == TaskInit /\ [][TaskNext]_taskVars

-----------------------------------------------------------------------------
(* The only step of a task that is in progress is its current one, through *)
(* completions, failures, replanning of either kind, saving and loading:   *)
(* a step that is given up or left never runs on.                          *)
OneStepRuns ==
  \A id \in DOMAIN executor.instances : \A s \in Step :
    executor.instances[id].steps[s] = "InProgress" => executor.instances[id].current = s

(* While nothing waits to be saved, the file has every instance, and where *)
(* its task ended: a crash forgets no start, completion or failure.        *)
NothingUnsaved ==
  ~dirty => \A id \in DOMAIN executor.instances :
    saved # NoFile /\ id \in DOMAIN saved
      /\ saved[id].status = executor.instances[id].status

(* Both, of TaskExecutor's walks, its replanning and its file.             *)
TasksSound == OneStepRuns /\ NothingUnsaved
=============================================================================
