--------------------------- MODULE MCWorldMirror -----------------------------
(* Three parts that are checked for what is true in every state or of every  *)
(* step: the entity world, the replication of what a world shows to a view,  *)
(* and jobs that wait for other jobs.  They share no state, and a behaviour  *)
(* is one of them: `unit` says which.                                        *)
(*                                                                           *)
(* The world and the replication meet only in the set of renderable          *)
(* entities, which the replication takes as it comes.  One entity is         *)
(* replicated: the records of different entities never meet in a block.      *)
(* The job z waits for two others; a worker runs jobs, and a client that     *)
(* submits, cancels and lets go of handles pumps beside it.                  *)
EXTENDS SnapshotReplication, EntityWorld, TLC

(* x1, x2, y1, y2 stand for component types, visual states, poses and jobs:  *)
(* in each unit they are alike, so one permutation serves all units.         *)
CONSTANTS e1, x1, x2, y1, y2, z, w1, m1, NoJob

VARIABLES
  running, queues, asleep, started, cancelled, queued, completed, remaining, dependents, held,
  submittedCount, completedCount, thread, submitted, runs, starts

jobVars ==
  <<running, queues, asleep, started, cancelled, queued, completed, remaining, dependents, held,
    submittedCount, completedCount, thread, submitted, runs, starts>>

Jobs == INSTANCE JobSystem WITH
  Job <- {y1, y2, z},
  Worker <- {w1},
  Client <- {m1},
  Deps <- [j \in {y1, y2, z} |-> IF j = z THEN {y1, y2} ELSE {}],
  Priority <- [j \in {y1, y2, z} |-> 2],
  Calls <- {"Submit", "Cancel", "Reset", "Pump"},
  Buffered <- TRUE,
  CounterSize <- 4,
  MaxStarts <- 1

VARIABLE unit

Symmetry == Permutations({x1, x2}) \cup Permutations({y1, y2})

MCInit == unit \in {"world", "mirror", "jobs"} /\ Init /\ WorldInit /\ Jobs!InitAs(TRUE)

MCNext ==
  /\ unit' = unit
  /\ \/ unit = "world" /\ WorldNext /\ UNCHANGED <<vars, jobVars>>
     \/ unit = "mirror" /\ Next /\ UNCHANGED <<entityVars, jobVars>>
     \/ unit = "jobs" /\ Jobs!Next /\ UNCHANGED <<vars, entityVars>>

MCSpec == MCInit /\ [][MCNext]_<<unit, vars, entityVars, jobVars>>

(* While a task runs, the dependencies of its job have completed, and their  *)
(* tasks have ended unless they were cancelled: DependenciesFirst of         *)
(* JobSystem, with stores of flags that become visible late.                 *)
DependenciesFirst == Jobs!DependenciesFirst
=============================================================================
