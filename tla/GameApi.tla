------------------------------ MODULE GameApi -------------------------------
(***************************************************************************)
(* engine/gameapi: the calls one caller makes in a tick, their capability  *)
(* and quota checks, the intents its writes leave behind, and the resolver *)
(* that turns these into changes of the world when the tick ends.          *)
(*                                                                         *)
(* What a read returns is left out.  The caller controls one entity; of    *)
(* its components the goal of a movement is kept, and whether it has       *)
(* action flags; of the objectives one.                                    *)
(***************************************************************************)
EXTENDS Naturals, Sequences, FiniteSets, SequencesExt

CONSTANTS
  Caps,            \* caps_, the capabilities of this caller
  MaxHostCalls, MaxComms, MaxLogs, MaxScans, \* its quotas per tick
  LogRingCapacity,
  ObjectiveSize,   \* the values of an objective's state, an int32_t
  MaxTicks         \* bound: the ticks begun

ASSUME GameApiAssumption ==
  /\ {MaxHostCalls, MaxComms, MaxLogs, MaxScans, LogRingCapacity, MaxTicks} \subseteq Nat
  /\ ObjectiveSize \in Nat \ {0}

VARIABLES
  tick,      \* whether the callers' code may run, and the ticks begun
  charged,   \* hostCallsThisTick_, commsThisTick_, logsThisTick_, scansThisTick_
  intents,   \* intents_
  logRing,   \* logRing_: the calls whose lines it has
  self,      \* the controlled entity and its components
  objective, \* states_ of the objective store
  signals,   \* signals_ of the resolver, a number
  answered   \* history: the writes and the lines that calls of this tick were told Ok for

apiVars == <<charged, intents, logRing, answered>>
worldVars == <<self, objective, signals>>
gameVars == <<tick, apiVars, worldVars>>

CapabilityFor == [
  GetTick |-> "Time", GetTimeSeconds |-> "Time", Self |-> "Observe", IsValid |-> "Observe",
  GetPosition |-> "Observe", QueryByTag |-> "Observe", SenseRadius |-> "Sense",
  SenseNearest |-> "Sense", MoveTo |-> "Actuate", Stop |-> "Actuate", SetActionFlag |-> "Actuate",
  SendSignal |-> "Comms", GetObjective |-> "Tasks", ReportProgress |-> "Tasks", Log |-> "Log",
  Raycast |-> "Sense", GetWaterState |-> "Sense"]

CallId == DOMAIN CapabilityFor

Writes == {"MoveTo", "Stop", "SetActionFlag", "SendSignal", "ReportProgress"}

Quota == [QueryByTag |-> "scans", SenseRadius |-> "scans", SenseNearest |-> "scans",
          SendSignal |-> "comms", Log |-> "logs"]

Limit == [calls |-> MaxHostCalls, scans |-> MaxScans, comms |-> MaxComms, logs |-> MaxLogs]

NothingCharged == [calls |-> 0, scans |-> 0, comms |-> 0, logs |-> 0]

NothingAnswered == [writes |-> << >>, lines |-> 0]

GameInit ==
  /\ tick = [open |-> FALSE, n |-> 0]
  /\ charged = NothingCharged
  /\ intents = << >> /\ logRing = << >> /\ answered = NothingAnswered
  /\ self = [alive |-> TRUE, goal |-> "none", flags |-> FALSE]
  /\ objective = 0 /\ signals = 0

-----------------------------------------------------------------------------
\* Mutant: one more call than the quota.
SpentLate(counter) == charged[counter] > Limit[counter]

Spent(counter) == charged[counter] >= Limit[counter]

Charge(counters) == charged' = [c \in DOMAIN charged |-> IF c \in counters THEN charged[c] + 1 ELSE charged[c]]

(* These take no argument that could be wrong and need nothing configured. *)
NeverRefused == {"Self", "Stop", "ReportProgress"}

Record(id) ==
  /\ intents' = IF id \in Writes THEN Append(intents, id) ELSE intents
  /\ logRing' = IF id = "Log" /\ LogRingCapacity > 0
                THEN LET lines == Append(logRing, id)
                     IN  IF Len(lines) > LogRingCapacity THEN Tail(lines) ELSE lines
                ELSE logRing
  /\ answered' = [writes |-> IF id \in Writes THEN Append(answered.writes, id) ELSE answered.writes,
                  lines |-> IF id = "Log" THEN answered.lines + 1 ELSE answered.lines]

NoRecord == UNCHANGED <<intents, logRing, answered>>

(* The call is let in: Enter charged it.  The arguments may be invalid, or *)
(* what the call reads not be there; a quota of its own comes after them.  *)
Serve(id, status) ==
  \/ status = "Refused" /\ id \notin NeverRefused /\ Charge({"calls"}) /\ NoRecord
  \/ IF id \in DOMAIN Quota
     THEN \/ Spent(Quota[id]) /\ status = "RateLimited" /\ Charge({"calls"}) /\ NoRecord
          \/ ~Spent(Quota[id]) /\ Charge({"calls", Quota[id]})
               /\ \/ status = "Ok" /\ Record(id)
                  \/ status = "NotFound" /\ Quota[id] = "scans" /\ NoRecord
     ELSE status = "Ok" /\ Charge({"calls"}) /\ Record(id)

(* Memory runs out before anything is recorded; what was charged stays.    *)
Throw(id) ==
  /\ \/ Charge({"calls"})
     \/ id \in DOMAIN Quota /\ ~Spent(Quota[id]) /\ Charge({"calls", Quota[id]})
  /\ NoRecord

Enter(id) == CapabilityFor[id] \in Caps /\ ~Spent("calls")

GameCall(id, status) ==
  \/ CapabilityFor[id] \notin Caps /\ status = "PermissionDenied" /\ UNCHANGED apiVars
  \/ CapabilityFor[id] \in Caps /\ Spent("calls") /\ status = "RateLimited" /\ UNCHANGED apiVars
  \/ Enter(id) /\ Serve(id, status)

-----------------------------------------------------------------------------
BeginTick ==
  /\ ~tick.open /\ tick.n < MaxTicks
  /\ tick' = [open |-> TRUE, n |-> tick.n + 1]
  /\ charged' = NothingCharged
  /\ answered' = NothingAnswered
  /\ UNCHANGED <<intents, logRing, worldVars>>

(* DefaultIntentResolver::Apply for one intent of a living entity.  The    *)
(* addition to an objective wraps.                                         *)
ApplyIntent(w, intent) ==
  CASE intent = "MoveTo"         -> [w EXCEPT !.goal = "active"]
    [] intent = "Stop"           -> [w EXCEPT !.goal = IF @ = "none" THEN @ ELSE "stopped"]
    [] intent = "SetActionFlag"  -> [w EXCEPT !.flags = TRUE]
    [] intent = "SendSignal"     -> [w EXCEPT !.signals = @ + 1]
    [] intent = "ReportProgress" -> [w EXCEPT !.objective = (@ + 1) % ObjectiveSize]

Unresolved == [goal |-> self.goal, flags |-> self.flags, objective |-> objective, signals |-> 0]

\* Mutant: the intents of an entity that was destroyed meanwhile count too.
ResolvedAnyway == FoldLeft(ApplyIntent, Unresolved, intents)

(* Each intent asks whether its entity lives; all are of one entity, and   *)
(* none destroys it.                                                       *)
Resolved == IF self.alive THEN FoldLeft(ApplyIntent, Unresolved, intents) ELSE Unresolved

(* The tick ends: Apply, then ClearIntents.                                *)
ApplyIntents ==
  /\ tick.open
  /\ tick' = [tick EXCEPT !.open = FALSE]
  /\ self' = [self EXCEPT !.goal = Resolved.goal, !.flags = Resolved.flags]
  /\ objective' = Resolved.objective /\ signals' = Resolved.signals
  /\ intents' = << >>
  /\ UNCHANGED <<charged, logRing, answered>>

(* An entity that reaches its goal stops.                                  *)
StepKinematics ==
  /\ ~tick.open /\ self.goal = "active"
  /\ self' = [self EXCEPT !.goal = "stopped"]
  /\ UNCHANGED <<tick, apiVars, objective, signals>>

(* The game destroys the entity, with its components.                      *)
DestroySelf ==
  /\ self.alive
  /\ self' = [alive |-> FALSE, goal |-> "none", flags |-> FALSE]
  /\ UNCHANGED <<tick, apiVars, objective, signals>>

-----------------------------------------------------------------------------
(* What the calls of a tick that returned Ok asked for is what is recorded *)
(* for its end, in their order, and stays within the quotas: also over     *)
(* several runs of the caller's code in a tick, when calls fail halfway,   *)
(* and when the ring of lines is full.                                     *)
AnsweredIsRecorded ==
  LET sent == {k \in DOMAIN answered.writes : answered.writes[k] = "SendSignal"} IN
  /\ tick.open => intents = answered.writes
  /\ answered.lines <= MaxLogs /\ Cardinality(sent) <= MaxComms
  /\ Len(answered.writes) + answered.lines <= MaxHostCalls
  /\ answered.lines <= Len(logRing) \/ Len(logRing) = LogRingCapacity

(* A destroyed entity gets no components back, and what it asked for       *)
(* before it was destroyed changes nothing.                                *)
DeadDoNothing == [][~self.alive => UNCHANGED <<self, objective>> /\ signals' \in {0, signals}]_gameVars
=============================================================================
