---------------------------- MODULE MCJobSystem -----------------------------
(* Model-checking instances of JobSystem: one job, or one that waits for     *)
(* another.  Jobs that wait for two others are an instance of MCWorldMirror. *)
EXTENDS JobSystem

CONSTANTS a, b, w1, w2, m1, m2

ChainDeps == [j \in Job |-> IF j = b THEN {a} ELSE {}]

Normal == [j \in Job |-> 2]

Mixed == [j \in Job |-> IF j = a THEN 3 ELSE 1]

(* The system runs after so many starts, the jobs `over` have run and nobody *)
(* has a handle of them; job j has been submitted and is in its queue.  The  *)
(* threads of the other clients have ended.                                  *)
Pending(j, over, clients, start) ==
  /\ running = TRUE
  /\ queues = [i \in 1 .. 3 |-> IF i = Priority[j] THEN <<j>> ELSE << >>]
  /\ asleep = {}
  /\ started = over /\ cancelled = {} /\ queued = over \cup {j} /\ completed = over
  /\ remaining = [k \in Job |-> 0]
  /\ dependents = [k \in Job |-> {}]
  /\ held = {j}
  /\ submittedCount = Cardinality(over) + 1 /\ completedCount = Cardinality(over)
  /\ thread = [t \in Thread |->
                 IF t \in Worker THEN Looping ELSE IF t \in clients THEN Idle ELSE Off]
  /\ submitted = over \cup {j}
  /\ runs = [k \in Job |-> IF k \in over THEN 1 ELSE 0]
  /\ starts = start

(* Either one client, which may submit b while a runs and shut the system    *)
(* down, or two clients with b to cancel, to wait for and to let go of, that *)
(* shut the system down and may start it again.                              *)
LifecycleSpec ==
  /\ Pending(a, {}, {m1}, MaxStarts) \/ Pending(b, {a}, {m1, m2}, 1)
  /\ [][Next]_vars
  /\ Fairness
=============================================================================
