----------------------------- MODULE GuestProofs ----------------------------
(***************************************************************************)
(* What the engine promises about the programs it hosts: guests of the     *)
(* reference machine, and Lua scripts.                                     *)
(*                                                                         *)
(* Guests.  The three things the host promises about a guest of the        *)
(* reference machine hold for any code, policy, quotas and sizes and any number of   *)
(* runs and ticks: what is reported is what was used, no access leaves the *)
(* memory that was granted, and what the game API answered with Ok is what *)
(* it recorded, within the quotas.  And the dead do nothing.               *)
(*                                                                         *)
(* The argument: the fuel left and the fuel spent add up to the policy's   *)
(* while a run is on (Metered); a window that passes the machine's check   *)
(* is below the memory's size, so that cutting its words to half their     *)
(* width changes nothing (Windowed); and each answer is charged at least   *)
(* once to the tick and once to its own quota before it is recorded, while *)
(* a call that fails halfway is charged and records nothing (Recorded).    *)
(*                                                                         *)
(* Scripts.  They stay sound for any entities, paths and configurations,   *)
(* and however their texts fail.  The argument: the slots of the registry  *)
(* that hold a table are those of the scripts, one each, and the others    *)
(* are the list of free slots (VmTypes, Owned), so that no two scripts are *)
(* given the same; a failed reload is the one thing that breaks this, and  *)
(* sets staleRef.  A component says that it is started only when its       *)
(* environment has seen OnStart (StartedFirst).                            *)
(*                                                                         *)
(* The editor.  It is a process that answers when it likes; the surface    *)
(* stays sound whatever it does.  The argument: what it sent and was not   *)
(* handled yet is a stream of messages of two parts in turn, of which at   *)
(* most one half is read (InStep); an answer in the stream or in the table *)
(* to a request of the call is true (Truthful); and a call that has got    *)
(* as far as it has, has earned it (Earned).                               *)
(***************************************************************************)
EXTENDS RefVm, ScriptSystem, QueueLemmas, NvimSurface, FiniteSetTheorems

-----------------------------------------------------------------------------
(* The inductive invariant.                                                *)
Counters == {"calls", "scans", "comms", "logs"}

Sent(w) == {k \in DOMAIN w : w[k] = "SendSignal"}

GameTypes ==
  /\ tick = [open |-> tick.open, n |-> tick.n] /\ tick.open \in BOOLEAN
  /\ charged \in [Counters -> Nat]
  /\ logRing \in Seq(CallId) /\ Len(logRing) <= LogRingCapacity
  /\ answered \in [writes : Seq(CallId), lines : Nat]
  /\ self = [alive |-> self.alive, goal |-> self.goal, flags |-> self.flags]
  /\ self.alive \in BOOLEAN
  /\ ~self.alive => self.goal = "none"

Recorded ==
  /\ intents = IF tick.open THEN answered.writes ELSE << >>
  /\ Len(answered.writes) + answered.lines <= charged["calls"]
  /\ Cardinality(Sent(answered.writes)) <= charged["comms"]
  /\ answered.lines <= charged["logs"]
  /\ \A c \in Counters : charged[c] <= Limit[c]
  /\ answered.lines <= Len(logRing) \/ Len(logRing) = LogRingCapacity

Metered ==
  /\ vm \in [on : BOOLEAN, fuel : Nat, stack : Nat, frames : Nat, hostCalls : Nat]
  /\ result = [trap |-> result.trap, fuelUsed |-> result.fuelUsed, hostCalls |-> result.hostCalls]
  /\ work \in [fuel : Nat, hostCalls : Nat]
  /\ work.fuel <= Fuel /\ work.hostCalls <= MaxRunHostCalls
  /\ vm.on => tick.open /\ vm.fuel + work.fuel = Fuel /\ vm.hostCalls = work.hostCalls
  /\ ~vm.on => result.fuelUsed = work.fuel /\ result.hostCalls = work.hostCalls

GuestInv == GameTypes /\ Recorded /\ Metered /\ inside

-----------------------------------------------------------------------------
(* The game API.                                                           *)

\* The tables of the calls.
LEMMA Tables ==
  /\ Writes \subseteq CallId /\ "Log" \in CallId \ Writes
  /\ \A id \in DOMAIN Quota : Quota[id] \in Counters \ {"calls"}
  /\ {"SendSignal", "Log"} \subseteq DOMAIN Quota
  /\ Quota["SendSignal"] = "comms" /\ Quota["Log"] = "logs"
  /\ Limit \in [Counters -> Nat]
  /\ Limit["calls"] = MaxHostCalls /\ Limit["comms"] = MaxComms /\ Limit["logs"] = MaxLogs
<1>1. Writes \subseteq CallId /\ "Log" \in CallId \ Writes
  BY DEF Writes, CallId, CapabilityFor
<1>2. DOMAIN Quota = {"QueryByTag", "SenseRadius", "SenseNearest", "SendSignal", "Log"}
  BY DEF Quota
<1>3. /\ Quota["QueryByTag"] = "scans" /\ Quota["SenseRadius"] = "scans"
      /\ Quota["SenseNearest"] = "scans" /\ Quota["SendSignal"] = "comms" /\ Quota["Log"] = "logs"
  BY DEF Quota
<1>4. /\ Limit["calls"] = MaxHostCalls /\ Limit["comms"] = MaxComms /\ Limit["logs"] = MaxLogs
      /\ Limit["scans"] = MaxScans
      /\ Limit = [c \in Counters |-> Limit[c]]
  BY DEF Limit, Counters
<1>5. Limit \in [Counters -> Nat]
  BY <1>4, GameApiAssumption DEF Counters
<1>6. QED
  BY <1>1, <1>2, <1>3, <1>4, <1>5 DEF Counters

\* The signals among the writes are finitely many, one more if one is added.
LEMMA SentCount ==
  ASSUME NEW w \in Seq(CallId)
  PROVE  /\ Cardinality(Sent(w)) \in Nat
         /\ \A id \in CallId : Cardinality(Sent(Append(w, id))) =
              IF id = "SendSignal" THEN Cardinality(Sent(w)) + 1 ELSE Cardinality(Sent(w))
<1>1. Len(w) \in Nat /\ DOMAIN w = 1 .. Len(w)
  BY LenProperties
<1>2. IsFiniteSet(1 .. Len(w))
  BY <1>1, FS_Interval
<1>3. Sent(w) \subseteq 1 .. Len(w)
  BY <1>1 DEF Sent
<1>4. IsFiniteSet(Sent(w)) /\ Cardinality(Sent(w)) \in Nat
  BY <1>2, <1>3, FS_Subset, FS_CardinalityType
<1>5. ASSUME NEW id \in CallId
      PROVE  Cardinality(Sent(Append(w, id))) =
               IF id = "SendSignal" THEN Cardinality(Sent(w)) + 1 ELSE Cardinality(Sent(w))
  <2> DEFINE v == Append(w, id)
  <2>1. /\ v \in Seq(CallId) /\ Len(v) = Len(w) + 1 /\ v[Len(w) + 1] = id
        /\ \A k \in 1 .. Len(w) : v[k] = w[k]
    BY <1>1
  <2>2. DOMAIN v = 1 .. Len(w) + 1
    BY <2>1, LenProperties
  <2> HIDE DEF v
  <2>3. \A k : k \in 1 .. Len(w) + 1 <=> k \in 1 .. Len(w) \/ k = Len(w) + 1
    BY <1>1
  <2>4. Len(w) + 1 \notin Sent(w)
    BY <1>1, <1>3
  <2>5. Sent(v) = IF id = "SendSignal" THEN Sent(w) \cup {Len(w) + 1} ELSE Sent(w)
    BY <1>1, <2>1, <2>2, <2>3 DEF Sent
  <2>6. Cardinality(Sent(w) \cup {Len(w) + 1}) = Cardinality(Sent(w)) + 1
    BY <1>4, <2>4, FS_AddElement
  <2>7. QED
    BY <2>5, <2>6 DEF v
<1>6. QED
  BY <1>4, <1>5

\* What a charge does to the counters.
LEMMA Charging ==
  ASSUME GameTypes, NEW cs \in SUBSET Counters, Charge(cs)
  PROVE  /\ charged' \in [Counters -> Nat]
         /\ \A c \in Counters : charged'[c] = IF c \in cs THEN charged[c] + 1 ELSE charged[c]
BY DEF GameTypes, Charge

(* A call that was let in, and what it may have charged.                   *)
Charged(cs) ==
  /\ cs \in SUBSET Counters /\ "calls" \in cs /\ \A c \in cs : ~Spent(c)
  /\ Charge(cs)

\* A call that records nothing keeps what is recorded.
LEMMA NothingMore ==
  ASSUME GameTypes, Recorded, NEW cs, Charged(cs), NoRecord, tick' = tick, self' = self
  PROVE  GameTypes' /\ Recorded'
<1>1. /\ charged' \in [Counters -> Nat]
      /\ \A c \in Counters : charged'[c] = IF c \in cs THEN charged[c] + 1 ELSE charged[c]
  BY Charging DEF Charged
<1>2. /\ charged \in [Counters -> Nat] /\ {"calls", "comms", "logs"} \subseteq Counters
      /\ answered \in [writes : Seq(CallId), lines : Nat]
  BY DEF GameTypes, Counters
<1>3. Cardinality(Sent(answered.writes)) \in Nat /\ Len(answered.writes) \in Nat /\ answered.lines \in Nat
  BY <1>2, SentCount, LenProperties
<1>4. \A c \in Counters : charged'[c] <= Limit[c] /\ charged[c] <= charged'[c]
  <2>0. \A c \in cs : c \in Counters /\ charged[c] \in Nat /\ Limit[c] \in Nat /\ ~(charged[c] >= Limit[c])
    BY <1>2, Tables DEF Charged, Spent
  <2>1. \A c \in cs : charged[c] < Limit[c]
    BY <2>0
  <2>2. \A c \in Counters : charged[c] \in Nat /\ Limit[c] \in Nat /\ charged[c] <= Limit[c]
    BY <1>2, Tables DEF Recorded
  <2>3. QED
    BY <1>1, <2>1, <2>2
<1>5. GameTypes'
  BY <1>1 DEF GameTypes, NoRecord
<1>6. /\ Len(answered.writes) + answered.lines <= charged'["calls"]
      /\ Cardinality(Sent(answered.writes)) <= charged'["comms"]
      /\ answered.lines <= charged'["logs"]
  BY <1>1, <1>2, <1>3, <1>4 DEF Recorded
<1>7. Recorded'
  BY <1>4, <1>6 DEF Recorded, NoRecord
<1>8. QED
  BY <1>5, <1>7

\* A call that records is charged for what it records.
LEMMA OneMore ==
  ASSUME GameTypes, Recorded, NEW id \in CallId, NEW cs, Charged(cs), Record(id),
         id \in DOMAIN Quota => Quota[id] \in cs,
         tick.open, tick' = tick, self' = self
  PROVE  GameTypes' /\ Recorded'
<1>1. /\ charged' \in [Counters -> Nat]
      /\ \A c \in Counters : charged'[c] = IF c \in cs THEN charged[c] + 1 ELSE charged[c]
  BY Charging DEF Charged
<1>2. /\ charged \in [Counters -> Nat] /\ {"calls", "comms", "logs"} \subseteq Counters
      /\ answered \in [writes : Seq(CallId), lines : Nat]
      /\ logRing \in Seq(CallId) /\ Len(logRing) <= LogRingCapacity
      /\ LogRingCapacity \in Nat
  BY GameApiAssumption DEF GameTypes, Counters
<1> DEFINE w == answered.writes
           n == answered.lines
<1>3. w \in Seq(CallId) /\ n \in Nat /\ Cardinality(Sent(w)) \in Nat /\ Len(w) \in Nat /\ Len(logRing) \in Nat
  BY <1>2, SentCount, LenProperties
<1>4. \A c \in Counters : charged'[c] <= Limit[c] /\ charged[c] <= charged'[c]
  <2>0. \A c \in cs : c \in Counters /\ charged[c] \in Nat /\ Limit[c] \in Nat /\ ~(charged[c] >= Limit[c])
    BY <1>2, Tables DEF Charged, Spent
  <2>1. \A c \in cs : charged[c] < Limit[c]
    BY <2>0
  <2>2. \A c \in Counters : charged[c] \in Nat /\ Limit[c] \in Nat /\ charged[c] <= Limit[c]
    BY <1>2, Tables DEF Recorded
  <2>3. QED
    BY <1>1, <2>1, <2>2
<1> DEFINE v == IF id \in Writes THEN Append(w, id) ELSE w
           m == IF id = "Log" THEN n + 1 ELSE n
<1>5. answered' = [writes |-> v, lines |-> m]
  BY DEF Record
<1>6. /\ v \in Seq(CallId) /\ m \in Nat /\ Len(v) = IF id \in Writes THEN Len(w) + 1 ELSE Len(w)
      /\ m = IF id = "Log" THEN n + 1 ELSE n
  BY <1>3
<1>7. Cardinality(Sent(v)) = IF id = "SendSignal" THEN Cardinality(Sent(w)) + 1 ELSE Cardinality(Sent(w))
  BY <1>3, SentCount, Tables DEF Writes
<1>8. answered'.writes = v /\ answered'.lines = m /\ answered' \in [writes : Seq(CallId), lines : Nat]
  BY <1>5, <1>6
<1>9. /\ logRing' \in Seq(CallId) /\ Len(logRing') <= LogRingCapacity /\ Len(logRing') \in Nat
      /\ Len(logRing) <= Len(logRing')
      /\ id = "Log" => Len(logRing') = Len(logRing) + 1 \/ Len(logRing') = LogRingCapacity
  <2> DEFINE lines == Append(logRing, id)
  <2>1. lines \in Seq(CallId) /\ Len(lines) = Len(logRing) + 1
    BY <1>2
  <2>2. Tail(lines) \in Seq(CallId) /\ Len(Tail(lines)) = Len(logRing)
    BY <2>1, <1>3, HeadTailProperties, EmptySeq
  <2>3. logRing' = IF id = "Log" /\ LogRingCapacity > 0
                   THEN IF Len(lines) > LogRingCapacity THEN Tail(lines) ELSE lines
                   ELSE logRing
    BY DEF Record
  <2> HIDE DEF lines
  <2>4. CASE id = "Log" /\ LogRingCapacity > 0 /\ Len(lines) > LogRingCapacity
    BY <2>1, <2>2, <2>3, <2>4, <1>2, <1>3
  <2>5. CASE id = "Log" /\ LogRingCapacity > 0 /\ ~(Len(lines) > LogRingCapacity)
    BY <2>1, <2>3, <2>5, <1>2, <1>3
  <2>6. CASE ~(id = "Log" /\ LogRingCapacity > 0)
    BY <2>3, <2>6, <1>2, <1>3
  <2>7. QED
    BY <2>4, <2>5, <2>6
<1>10. intents' = IF tick.open THEN v ELSE << >>
  BY <1>3 DEF Record, Recorded
<1> HIDE DEF v, m
<1>11. GameTypes'
  BY <1>1, <1>8, <1>9 DEF GameTypes
<1>12. /\ "calls" \in cs
       /\ id = "SendSignal" => "comms" \in cs
       /\ id = "Log" => "logs" \in cs
       /\ id = "Log" => id \notin Writes
  BY Tables DEF Charged
<1>13. Len(v) + m <= charged'["calls"]
  <2>1. charged'["calls"] = charged["calls"] + 1
    BY <1>1, <1>2, <1>12
  <2>2. Len(w) + n <= charged["calls"]
    BY DEF Recorded
  <2>3. Len(v) + m <= (Len(w) + n) + 1
    BY <1>3, <1>6, <1>12
  <2>4. /\ charged["calls"] \in Nat /\ Len(w) + n \in Nat /\ Len(v) + m \in Nat
    <3>1. Len(v) \in Nat
      BY <1>3, <1>6
    <3>2. charged["calls"] \in Nat
      BY <1>2
    <3>3. m \in Nat
      BY <1>6
    <3>4. QED
      BY <1>3, <3>1, <3>2, <3>3
  <2> DEFINE a == Len(w) + n
             b == Len(v) + m
             c == charged["calls"]
  <2> HIDE DEF a, b, c
  <2>5. b <= c + 1
    BY <2>2, <2>3, <2>4 DEF a, b, c
  <2>6. QED
    BY <2>1, <2>5 DEF b, c
<1>14. Cardinality(Sent(v)) <= charged'["comms"]
  <2>1. Cardinality(Sent(w)) <= charged["comms"]
    BY DEF Recorded
  <2>2. charged'["comms"] = IF "comms" \in cs THEN charged["comms"] + 1 ELSE charged["comms"]
    BY <1>1, <1>2
  <2>3. QED
    BY <2>1, <2>2, <1>2, <1>3, <1>7, <1>12
<1>15. m <= charged'["logs"]
  <2>1. n <= charged["logs"]
    BY DEF Recorded
  <2>2. charged'["logs"] = IF "logs" \in cs THEN charged["logs"] + 1 ELSE charged["logs"]
    BY <1>1, <1>2
  <2>3. QED
    BY <2>1, <2>2, <1>2, <1>3, <1>12 DEF m
<1>16. m <= Len(logRing') \/ Len(logRing') = LogRingCapacity
  <2>1. n <= Len(logRing) \/ Len(logRing) = LogRingCapacity
    BY DEF Recorded
  <2>2. QED
    BY <2>1, <1>2, <1>3, <1>9 DEF m
<1>17. Recorded'
  BY <1>4, <1>8, <1>10, <1>13, <1>14, <1>15, <1>16 DEF Recorded
<1>18. QED
  BY <1>11, <1>17

\* A call that the game answers, or that fails halfway, keeps what is recorded.
LEMMA CallKept ==
  ASSUME GameTypes, Recorded, tick.open, tick' = tick, self' = self, NEW id \in CallId,
         \/ \E status : GameCall(id, status)
         \/ Enter(id) /\ Throw(id)
  PROVE  GameTypes' /\ Recorded'
<1>1. CASE UNCHANGED apiVars
  BY <1>1 DEF GameTypes, Recorded, apiVars
<1>2. CASE /\ ~Spent("calls")
           /\ \/ Charge({"calls"}) /\ (NoRecord \/ (Record(id) /\ id \notin DOMAIN Quota))
              \/ /\ id \in DOMAIN Quota /\ ~Spent(Quota[id])
                 /\ Charge({"calls", Quota[id]}) /\ (NoRecord \/ Record(id))
  <2>1. CASE Charge({"calls"}) /\ (NoRecord \/ (Record(id) /\ id \notin DOMAIN Quota))
    <3>1. Charged({"calls"})
      BY <1>2, <2>1 DEF Charged, Counters
    <3>2. QED
      BY <2>1, <3>1, NothingMore, OneMore
  <2>2. CASE /\ id \in DOMAIN Quota /\ ~Spent(Quota[id])
             /\ Charge({"calls", Quota[id]}) /\ (NoRecord \/ Record(id))
    <3> DEFINE cs == {"calls", Quota[id]}
    <3>1. Quota[id] \in Counters
      BY <2>2, Tables
    <3>2. Charged(cs) /\ Quota[id] \in cs
      BY <1>2, <2>2, <3>1 DEF Charged, Counters
    <3> HIDE DEF cs
    <3>3. QED
      BY <2>2, <3>2, NothingMore, OneMore
  <2>3. QED
    BY <1>2, <2>1, <2>2
<1>3. CASE Enter(id) /\ Throw(id)
  BY <1>2, <1>3 DEF Enter, Throw
<1>4. ASSUME NEW status, Enter(id), Serve(id, status)
      PROVE  GameTypes' /\ Recorded'
  BY <1>2, <1>4 DEF Enter, Serve
<1>5. QED
  BY <1>1, <1>3, <1>4 DEF GameCall

\* The steps of the world between the calls keep it too.
LEMMA GameKept ==
  ASSUME GameTypes, Recorded, BeginTick \/ ApplyIntents \/ StepKinematics \/ DestroySelf
  PROVE  GameTypes' /\ Recorded'
<1>1. CASE BeginTick
  <2>1. /\ charged' \in [Counters -> Nat] /\ \A c \in Counters : charged'[c] = 0
    BY <1>1 DEF BeginTick, NothingCharged, Counters
  <2>2. /\ answered' = [writes |-> << >>, lines |-> 0] /\ intents' = << >>
        /\ answered'.writes = << >> /\ answered'.lines = 0
        /\ answered' \in [writes : Seq(CallId), lines : Nat]
    BY <1>1, EmptySeq DEF BeginTick, NothingAnswered, Recorded
  <2>3. Len(<< >>) = 0 /\ Cardinality(Sent(<< >>)) = 0
    <3>1. Sent(<< >>) = {}
      BY DEF Sent
    <3>2. QED
      BY <3>1, FS_EmptySet
  <2>4. GameTypes'
    BY <1>1, <2>1, <2>2 DEF GameTypes, BeginTick, worldVars
  <2>5. \A c \in Counters : charged'[c] <= Limit[c]
    BY <2>1, Tables
  <2>6. Recorded'
    <3>1. tick'.open = TRUE /\ logRing' = logRing /\ Len(logRing) \in Nat
      BY <1>1, LenProperties DEF BeginTick, GameTypes
    <3>2. {"calls", "comms", "logs"} \subseteq Counters
      BY DEF Counters
    <3>3. QED
      BY <2>1, <2>2, <2>3, <2>5, <3>1, <3>2 DEF Recorded
  <2>7. QED
    BY <2>4, <2>6
<1>2. CASE ApplyIntents
  <2>1. /\ self' = [alive |-> self.alive, goal |-> Resolved.goal, flags |-> Resolved.flags]
        /\ ~self.alive => Resolved.goal = self.goal
    BY <1>2 DEF ApplyIntents, GameTypes, Resolved, Unresolved
  <2>2. tick' = [open |-> FALSE, n |-> tick.n] /\ UNCHANGED <<charged, logRing, answered>> /\ intents' = << >>
    BY <1>2 DEF ApplyIntents, GameTypes
  <2>3. QED
    BY <2>1, <2>2 DEF GameTypes, Recorded
<1>3. CASE StepKinematics
  <2>1. /\ self' = [alive |-> self.alive, goal |-> "stopped", flags |-> self.flags] /\ self.alive
    BY <1>3 DEF StepKinematics, GameTypes
  <2>2. QED
    BY <1>3, <2>1 DEF StepKinematics, apiVars, GameTypes, Recorded
<1>4. CASE DestroySelf
  BY <1>4 DEF DestroySelf, apiVars, GameTypes, Recorded
<1>5. QED
  BY <1>1, <1>2, <1>3, <1>4

-----------------------------------------------------------------------------
(* The accesses to the memory.                                             *)

\* A number below a bound is its own remainder.
LEMMA Remainder == ASSUME NEW x \in Nat, NEW b \in Nat \ {0}, x < b PROVE x % b = x
OBVIOUS

\* A window that passes the machine's check is not changed by cutting its words.
LEMMA Windowed ==
  ASSUME NEW w \in Windows, ~(w.len > 0 /\ Outside(w.off, w.len))
  PROVE  /\ Low(w).off \in Nat /\ Low(w).len \in Nat
         /\ Low(w).len > 0 => Low(w).off + Low(w).len <= MemoryBytes
<1>1. MemoryBytes \in Nat /\ HalfSize \in Nat \ {0} /\ MemoryBytes < HalfSize
  BY RefVmAssumption
<1>2. w.off \in Nat /\ w.len \in Nat
  <2>1. w \in [off : 0 .. WordSize - 1, len : 0 .. WordSize - 1]
    BY RefVmAssumption
  <2>2. QED
    BY <2>1
<1>3. Low(w).off = w.off % HalfSize /\ Low(w).len = w.len % HalfSize
  BY DEF Low
<1>4. w.off % HalfSize \in Nat /\ w.len % HalfSize \in Nat
  BY <1>1, <1>2
<1>5. CASE w.len = 0
  BY <1>1, <1>3, <1>4, <1>5, Remainder
<1>6. CASE w.len > 0
  <2>1. w.off + w.len <= MemoryBytes
    BY <1>1, <1>2, <1>6 DEF Outside
  <2>2. w.off < HalfSize /\ w.len < HalfSize
    BY <1>1, <1>2, <1>6, <2>1
  <2>3. w.off % HalfSize = w.off /\ w.len % HalfSize = w.len
    BY <1>1, <1>2, <2>2, Remainder
  <2>4. QED
    BY <1>2, <1>3, <2>1, <2>3
<1>7. QED
  BY <1>2, <1>5, <1>6

\* What a call reads of its arguments, and writes of its result, is inside.
LEMMA ReadInside ==
  ASSUME NEW id \in CallId, NEW a, a.off \in Nat, a.len \in Nat,
         a.len > 0 => a.off + a.len <= MemoryBytes, ArgsSize[id] <= a.len
  PROVE  ReadArg(id, a)
<1>1. /\ MemoryBytes \in Nat /\ ArgsSize[id] \in Nat /\ ArgsSize["Log"] > 0
  BY RefVmAssumption
<1>2. CASE id = "Log"
  BY <1>1, <1>2 DEF ReadArg, Access
<1>3. CASE id # "Log"
  BY <1>1, <1>3 DEF ReadArg, Access
<1>4. QED
  BY <1>2, <1>3

LEMMA WriteInside ==
  ASSUME NEW id \in CallId, NEW r, r.off \in Nat, r.len \in Nat,
         r.len > 0 => r.off + r.len <= MemoryBytes
  PROVE  WriteRet(id, r)
<1>1. /\ MemoryBytes \in Nat /\ ResultSize[id] \in Nat
      /\ EntityListHeader \in Nat \ {0} /\ EntityIdSize \in Nat \ {0}
  BY RefVmAssumption
<1>2. CASE id \in Lists /\ r.len >= EntityListHeader
  <2> DEFINE room == r.len - EntityListHeader
             n == room \div EntityIdSize
  <2>1. room \in Nat
    BY <1>1, <1>2
  <2>2. EntityListCapacity(r.len) = n
    BY <1>1, <1>2 DEF EntityListCapacity
  <2>3. n * EntityIdSize <= room /\ n * EntityIdSize \in Nat
    <3> HIDE DEF room
    <3>1. QED
      BY <1>1, <2>1
  <2> HIDE DEF n
  <2> DEFINE used == n * EntityIdSize
  <2>4. used <= r.len - EntityListHeader /\ used \in Nat
    BY <2>3
  <2>5. WriteRet(id, r) <=> r.len < EntityListHeader \/ Access(r.off, EntityListHeader + used, r.off, r.len)
    BY <1>2, <2>2 DEF WriteRet
  <2> HIDE DEF used
  <2>6. QED
    BY <1>1, <1>2, <2>4, <2>5 DEF Access
<1>3. CASE ~(id \in Lists /\ r.len >= EntityListHeader)
  BY <1>1, <1>3 DEF WriteRet, Access
<1>4. QED
  BY <1>2, <1>3

-----------------------------------------------------------------------------
(* The machine.                                                            *)

\* The records that a step of the machine leaves.
LEMMA Overwritten ==
  ASSUME NEW r \in [on : BOOLEAN, fuel : Nat, stack : Nat, frames : Nat, hostCalls : Nat],
         NEW f, NEW x, NEW h
  PROVE  /\ [r EXCEPT !.fuel = f, !.stack = x] =
              [on |-> r.on, fuel |-> f, stack |-> x, frames |-> r.frames, hostCalls |-> r.hostCalls]
         /\ [r EXCEPT !.fuel = f, !.frames = x] =
              [on |-> r.on, fuel |-> f, stack |-> r.stack, frames |-> x, hostCalls |-> r.hostCalls]
         /\ [r EXCEPT !.fuel = f, !.stack = x, !.hostCalls = h] =
              [on |-> r.on, fuel |-> f, stack |-> x, frames |-> r.frames, hostCalls |-> h]
<1> DEFINE one == [r EXCEPT !.fuel = f]
<1>1. one = [on |-> r.on, fuel |-> f, stack |-> r.stack, frames |-> r.frames, hostCalls |-> r.hostCalls]
  OBVIOUS
<1> HIDE DEF one
<1> DEFINE two == [one EXCEPT !.stack = x]
<1>2. two = [on |-> r.on, fuel |-> f, stack |-> x, frames |-> r.frames, hostCalls |-> r.hostCalls]
  BY <1>1
<1>3. [one EXCEPT !.frames = x] =
        [on |-> r.on, fuel |-> f, stack |-> r.stack, frames |-> x, hostCalls |-> r.hostCalls]
  BY <1>1
<1> HIDE DEF two
<1>4. [two EXCEPT !.hostCalls = h] =
        [on |-> r.on, fuel |-> f, stack |-> x, frames |-> r.frames, hostCalls |-> h]
  BY <1>2
<1>5. /\ [r EXCEPT !.fuel = f, !.stack = x] = two
      /\ [r EXCEPT !.fuel = f, !.frames = x] = [one EXCEPT !.frames = x]
      /\ [r EXCEPT !.fuel = f, !.stack = x, !.hostCalls = h] = [two EXCEPT !.hostCalls = h]
  BY DEF one, two
<1>6. QED
  BY <1>2, <1>3, <1>4, <1>5

\* The ways out of a run, and the next instruction, keep the account, when what
\* was fetched was charged.
LEMMA Ended ==
  ASSUME Metered, vm.on, NEW cost \in Nat, NEW calls \in Nat, NEW trap, cost <= vm.fuel,
         vm.hostCalls + calls <= MaxRunHostCalls,
         Finish(trap, vm.fuel - cost, vm.hostCalls + calls),
         work' = [fuel |-> work.fuel + cost, hostCalls |-> work.hostCalls + calls]
  PROVE  Metered'
<1>1. Fuel \in Nat /\ MaxRunHostCalls \in Nat
  BY RefVmAssumption
<1>2. /\ work.fuel \in Nat /\ work.hostCalls \in Nat /\ vm.fuel \in Nat /\ vm.hostCalls \in Nat
      /\ vm.fuel + work.fuel = Fuel /\ vm.hostCalls = work.hostCalls
  BY DEF Metered
<1>3. /\ vm' = [on |-> FALSE, fuel |-> 0, stack |-> 0, frames |-> 0, hostCalls |-> 0]
      /\ result' = [trap |-> trap, fuelUsed |-> Fuel - (vm.fuel - cost), hostCalls |-> vm.hostCalls + calls]
  BY DEF Finish, Stopped
<1>4. Fuel - (vm.fuel - cost) = work.fuel + cost /\ work.fuel + cost <= Fuel
  BY <1>1, <1>2
<1>5. vm' \in [on : BOOLEAN, fuel : Nat, stack : Nat, frames : Nat, hostCalls : Nat] /\ ~vm'.on
  BY <1>3
<1>6. work' \in [fuel : Nat, hostCalls : Nat] /\ work'.fuel = work.fuel + cost /\ work'.hostCalls = work.hostCalls + calls
  BY <1>2
<1>7. QED
  BY <1>1, <1>2, <1>3, <1>4, <1>5, <1>6 DEF Metered

LEMMA Advanced ==
  ASSUME Metered, vm.on, tick'.open, NEW cost \in Nat, NEW calls \in Nat, cost <= vm.fuel,
         vm.hostCalls + calls <= MaxRunHostCalls,
         NEW stack \in Nat, NEW frames \in Nat,
         vm' = [on |-> vm.on, fuel |-> vm.fuel - cost, stack |-> stack, frames |-> frames,
                hostCalls |-> vm.hostCalls + calls],
         work' = [fuel |-> work.fuel + cost, hostCalls |-> work.hostCalls + calls],
         UNCHANGED result
  PROVE  Metered'
<1>1. Fuel \in Nat /\ MaxRunHostCalls \in Nat
  BY RefVmAssumption
<1>2. /\ work.fuel \in Nat /\ work.hostCalls \in Nat /\ vm.fuel \in Nat /\ vm.hostCalls \in Nat
      /\ vm.fuel + work.fuel = Fuel /\ vm.hostCalls = work.hostCalls
  BY DEF Metered
<1>3. vm' \in [on : BOOLEAN, fuel : Nat, stack : Nat, frames : Nat, hostCalls : Nat]
  BY <1>2
<1>4. /\ vm'.on /\ vm'.fuel = vm.fuel - cost /\ vm'.hostCalls = vm.hostCalls + calls
      /\ work' \in [fuel : Nat, hostCalls : Nat]
      /\ work'.fuel = work.fuel + cost /\ work'.hostCalls = work.hostCalls + calls
  BY <1>2
<1>5. work'.fuel <= Fuel /\ vm'.fuel + work'.fuel = Fuel
  BY <1>1, <1>2, <1>4
<1>6. result' = [trap |-> result'.trap, fuelUsed |-> result'.fuelUsed, hostCalls |-> result'.hostCalls]
  BY DEF Metered
<1>7. QED
  BY <1>1, <1>2, <1>3, <1>4, <1>5, <1>6 DEF Metered

\* An instruction other than a host call: it traps, or the machine goes on.
Goes(stack, frames) ==
  /\ vm' = [on |-> vm.on, fuel |-> vm.fuel - 1, stack |-> stack, frames |-> frames, hostCalls |-> vm.hostCalls]
  /\ UNCHANGED result

LEMMA Stepped ==
  ASSUME GuestInv, Fetch(1), UNCHANGED <<runs, gameVars>>, inside',
         \/ \E reason : Trap(reason)
         \/ \E stack, frames \in Nat : Goes(stack, frames)
  PROVE  GuestInv'
<1>1. vm.on /\ vm.fuel >= 1 /\ tick.open /\ Metered
  BY DEF Fetch, GuestInv, Metered
<1>2. /\ vm.fuel \in Nat /\ vm.hostCalls \in Nat /\ work.hostCalls \in Nat
      /\ work = [fuel |-> work.fuel, hostCalls |-> work.hostCalls]
      /\ work.hostCalls <= MaxRunHostCalls /\ vm.hostCalls = work.hostCalls
  BY <1>1 DEF Metered
<1>3. work' = [fuel |-> work.fuel + 1, hostCalls |-> work.hostCalls]
  BY <1>2 DEF Fetch
<1>4. work.hostCalls + 0 = work.hostCalls /\ vm.hostCalls + 0 = vm.hostCalls
  BY <1>2
<1>5. GameTypes' /\ Recorded'
  BY DEF GuestInv, GameTypes, Recorded, gameVars, apiVars, worldVars
<1>6. ASSUME NEW reason, Trap(reason) PROVE Metered'
  BY <1>1, <1>2, <1>3, <1>4, <1>6, Ended DEF Trap
<1>7. ASSUME NEW stack \in Nat, NEW frames \in Nat, Goes(stack, frames) PROVE Metered'
  <2>1. vm' = [on |-> vm.on, fuel |-> vm.fuel - 1, stack |-> stack, frames |-> frames, hostCalls |-> vm.hostCalls + 0]
    BY <1>4, <1>7 DEF Goes
  <2>2. tick'.open
    BY <1>1 DEF gameVars
  <2>4. work' = [fuel |-> work.fuel + 1, hostCalls |-> work.hostCalls + 0] /\ UNCHANGED result
    BY <1>3, <1>4, <1>7 DEF Goes
  <2>5. vm.hostCalls + 0 <= MaxRunHostCalls
    BY <1>2, <1>4
  <2>6. QED
    BY <1>1, <2>1, <2>2, <2>4, <2>5, Advanced
<1>8. QED
  BY <1>5, <1>6, <1>7 DEF GuestInv

\* Instructions.
LEMMA Rows ==
  \A i \in Moves \cup Arithmetic \cup Branches : i.takes \in Nat /\ i.leaves \in Nat
BY DEF Moves, Arithmetic, Branches, Row

LEMMA InstructionKept ==
  ASSUME GuestInv,
         \/ Call \/ Ret
         \/ \E i \in Moves \cup Arithmetic \cup Branches : Execute(i)
         \/ \E width \in {1, 2}, stores \in BOOLEAN, address \in {w.off : w \in Windows} :
              LoadStore(width, stores, address)
  PROVE  GuestInv'
<1>1. /\ vm \in [on : BOOLEAN, fuel : Nat, stack : Nat, frames : Nat, hostCalls : Nat]
      /\ vm.stack \in Nat /\ vm.frames \in Nat /\ inside
  BY DEF GuestInv, Metered
<1>2. CASE Call
  <2>1. Fetch(1) /\ UNCHANGED <<runs, gameVars>> /\ inside'
    BY <1>1, <1>2 DEF Call
  <2>2. (\E reason : Trap(reason)) \/ Goes(vm.stack, vm.frames + 1)
    BY <1>1, <1>2, Overwritten DEF Call, Goes
  <2>3. vm.frames + 1 \in Nat
    BY <1>1
  <2>4. QED
    BY <1>1, <2>1, <2>2, <2>3, Stepped
<1>3. CASE Ret
  <2>1. Fetch(1) /\ UNCHANGED <<runs, gameVars>> /\ inside'
    BY <1>1, <1>3 DEF Ret
  <2>2. (\E reason : Trap(reason)) \/ (vm.frames > 1 /\ Goes(vm.stack, vm.frames - 1))
    BY <1>1, <1>3, Overwritten DEF Ret, Goes
  <2>3. vm.frames > 1 => vm.frames - 1 \in Nat
    BY <1>1
  <2>4. QED
    BY <1>1, <2>1, <2>2, <2>3, Stepped
<1>4. ASSUME NEW i \in Moves \cup Arithmetic \cup Branches, Execute(i) PROVE GuestInv'
  <2>1. Fetch(1) /\ UNCHANGED <<runs, gameVars>> /\ inside'
    BY <1>1, <1>4 DEF Execute
  <2>2. i.takes \in Nat /\ i.leaves \in Nat
    BY Rows
  <2>3. (\E reason : Trap(reason)) \/ (vm.stack >= i.takes /\ Goes(vm.stack - i.takes + i.leaves, vm.frames))
    BY <1>1, <1>4, Overwritten DEF Execute, Goes
  <2>4. vm.stack >= i.takes => vm.stack - i.takes + i.leaves \in Nat
    BY <1>1, <2>2
  <2>5. QED
    BY <1>1, <2>1, <2>3, <2>4, Stepped
<1>5. ASSUME NEW width \in {1, 2}, NEW stores \in BOOLEAN, NEW address \in {w.off : w \in Windows},
             LoadStore(width, stores, address)
      PROVE  GuestInv'
  <2>1. Fetch(1) /\ UNCHANGED <<runs, gameVars>>
    BY <1>5 DEF LoadStore
  <2>2. address \in Nat /\ MemoryBytes \in Nat
    <3>1. PICK w \in Windows : address = w.off
      OBVIOUS
    <3>2. w \in [off : 0 .. WordSize - 1, len : 0 .. WordSize - 1]
      BY RefVmAssumption
    <3>3. w.off \in Nat
      BY <3>2
    <3>4. QED
      BY <3>1, <3>3, RefVmAssumption
  <2>3. ~Outside(address, width) => Access(address, width, 0, MemoryBytes)
    BY <2>2 DEF Outside, Access
  <2>4. inside'
    BY <1>1, <1>5, <2>3 DEF LoadStore
  <2> DEFINE left == IF stores THEN vm.stack - 2 ELSE vm.stack
  <2>5. (\E reason : Trap(reason)) \/ (vm.stack >= (IF stores THEN 2 ELSE 1) /\ Goes(left, vm.frames))
    BY <1>1, <1>5, Overwritten DEF LoadStore, Goes
  <2>6. vm.stack >= (IF stores THEN 2 ELSE 1) => left \in Nat
    BY <1>1
  <2>7. QED
    BY <1>1, <2>1, <2>4, <2>5, <2>6, Stepped
<1>6. QED
  BY <1>2, <1>3, <1>4, <1>5

\* A host call is charged whatever becomes of it.
LEMMA HostCallKept ==
  ASSUME GuestInv, NEW a \in Windows, NEW r \in Windows, HostCall(a, r)
  PROVE  GuestInv'
<1> DEFINE bad == \E w \in {a, r} : w.len > 0 /\ Outside(w.off, w.len)
           fuel == vm.fuel - HostCallFuel
<1>1. /\ vm.on /\ vm.fuel >= HostCallFuel /\ HostCallFuel \in Nat /\ MaxRunHostCalls \in Nat
      /\ UNCHANGED <<runs, tick, worldVars>> /\ tick.open /\ inside
  BY RefVmAssumption DEF HostCall, GuestInv, Metered
<1>2. /\ vm \in [on : BOOLEAN, fuel : Nat, stack : Nat, frames : Nat, hostCalls : Nat]
      /\ vm.fuel \in Nat /\ vm.stack \in Nat /\ vm.frames \in Nat /\ vm.hostCalls \in Nat
      /\ work = [fuel |-> work.fuel, hostCalls |-> work.hostCalls] /\ work.hostCalls \in Nat
      /\ vm.hostCalls = work.hostCalls /\ vm.hostCalls <= MaxRunHostCalls
      /\ vm.hostCalls + 0 = vm.hostCalls /\ work.hostCalls + 0 = work.hostCalls
  <2>1. Metered
    BY DEF GuestInv
  <2>2. /\ vm \in [on : BOOLEAN, fuel : Nat, stack : Nat, frames : Nat, hostCalls : Nat]
        /\ work \in [fuel : Nat, hostCalls : Nat]
        /\ vm.hostCalls = work.hostCalls /\ work.hostCalls <= MaxRunHostCalls
    BY <1>1, <2>1 DEF Metered
  <2>3. QED
    BY <2>2
<1>3. GameTypes /\ Recorded /\ Metered /\ tick' = tick /\ self' = self
  BY <1>1 DEF GuestInv, worldVars
<1>4. CASE /\ \E trap : Finish(trap, fuel, vm.hostCalls)
           /\ work' = [work EXCEPT !.fuel = @ + HostCallFuel]
           /\ UNCHANGED <<inside, apiVars>>
  <2>1. work' = [fuel |-> work.fuel + HostCallFuel, hostCalls |-> work.hostCalls + 0]
    BY <1>2, <1>4
  <2>2. \E trap : Finish(trap, vm.fuel - HostCallFuel, vm.hostCalls + 0)
    BY <1>2, <1>4
  <2>3. Metered'
    BY <1>1, <1>2, <1>3, <2>1, <2>2, Ended
  <2>4. GameTypes' /\ Recorded'
    BY <1>1, <1>3, <1>4 DEF GameTypes, Recorded, apiVars
  <2>5. QED
    BY <1>1, <1>4, <2>3, <2>4 DEF GuestInv
<1>5. ASSUME NEW id \in CallId,
             vm.stack >= 4 /\ vm.hostCalls < MaxRunHostCalls /\ ~bad,
             work' = [fuel |-> work.fuel + HostCallFuel, hostCalls |-> work.hostCalls + 1],
             Invoke(id, Low(a), Low(r)),
             vm' = [vm EXCEPT !.fuel = fuel, !.stack = @ - 3, !.hostCalls = @ + 1],
             UNCHANGED result
      PROVE  GuestInv'
  <2>1. vm.stack - 3 \in Nat /\ vm.hostCalls + 1 <= MaxRunHostCalls
    BY <1>1, <1>2, <1>5
  <2>2. vm' = [on |-> vm.on, fuel |-> vm.fuel - HostCallFuel, stack |-> vm.stack - 3, frames |-> vm.frames,
               hostCalls |-> vm.hostCalls + 1]
    BY <1>2, <1>5, Overwritten
  <2>3. Metered'
    <3> DEFINE left == vm.stack - 3
    <3>1. left \in Nat
      BY <2>1
    <3>2. vm' = [on |-> vm.on, fuel |-> vm.fuel - HostCallFuel, stack |-> left, frames |-> vm.frames,
                 hostCalls |-> vm.hostCalls + 1]
      BY <2>2
    <3> HIDE DEF left
    <3>3. tick'.open
      BY <1>1
    <3>4. QED
      BY <1>1, <1>2, <1>3, <1>5, <2>1, <3>1, <3>2, <3>3, Advanced
  <2>4. GameTypes' /\ Recorded'
    <3>1. CASE UNCHANGED <<inside, apiVars>>
      BY <1>3, <3>1 DEF GameTypes, Recorded, apiVars
    <3>2. CASE \E status : GameCall(id, status)
      BY <1>1, <1>3, <3>2, CallKept
    <3>3. QED
      BY <1>5, <3>1, <3>2 DEF Invoke
  <2>5. inside'
    <3> DEFINE b == Low(a)
               s == Low(r)
    <3>1. b.off \in Nat /\ b.len \in Nat /\ (b.len > 0 => b.off + b.len <= MemoryBytes)
      BY <1>5, Windowed
    <3>2. s.off \in Nat /\ s.len \in Nat /\ (s.len > 0 => s.off + s.len <= MemoryBytes)
      BY <1>5, Windowed
    <3>3. Invoke(id, b, s)
      BY <1>5
    <3> HIDE DEF b, s
    <3>4. ArgsSize[id] <= b.len => ReadArg(id, b)
      BY <3>1, ReadInside
    <3>5. WriteRet(id, s)
      BY <3>2, WriteInside
    <3>6. QED
      BY <1>1, <3>3, <3>4, <3>5 DEF Invoke
  <2>6. QED
    BY <2>3, <2>4, <2>5 DEF GuestInv
<1>6. ASSUME NEW id \in CallId,
             vm.stack >= 4 /\ vm.hostCalls < MaxRunHostCalls /\ ~bad,
             work' = [fuel |-> work.fuel + HostCallFuel, hostCalls |-> work.hostCalls + 1],
             Enter(id) /\ Throw(id),
             \E trap : Finish(trap, fuel, vm.hostCalls + 1),
             UNCHANGED inside
      PROVE  GuestInv'
  <2>1. vm.hostCalls + 1 <= MaxRunHostCalls
    BY <1>1, <1>2, <1>6
  <2>2. \E trap : Finish(trap, vm.fuel - HostCallFuel, vm.hostCalls + 1)
    BY <1>6
  <2>3. Metered'
    BY <1>1, <1>2, <1>3, <1>6, <2>1, <2>2, Ended
  <2>4. GameTypes' /\ Recorded'
    BY <1>1, <1>3, <1>6, CallKept
  <2>5. QED
    BY <1>1, <1>6, <2>3, <2>4 DEF GuestInv
<1>7. QED
  BY <1>4, <1>5, <1>6 DEF HostCall

-----------------------------------------------------------------------------
(* The whole.                                                              *)
LEMMA GuestInit == VmInit => GuestInv
<1> SUFFICES ASSUME VmInit PROVE GuestInv
  OBVIOUS
<1>1. /\ tick = [open |-> FALSE, n |-> 0] /\ intents = << >> /\ logRing = << >>
      /\ charged = [calls |-> 0, scans |-> 0, comms |-> 0, logs |-> 0]
      /\ answered = [writes |-> << >>, lines |-> 0]
      /\ self = [alive |-> TRUE, goal |-> "none", flags |-> FALSE]
      /\ vm = [on |-> FALSE, fuel |-> 0, stack |-> 0, frames |-> 0, hostCalls |-> 0]
      /\ result = [trap |-> "None", fuelUsed |-> 0, hostCalls |-> 0]
      /\ work = [fuel |-> 0, hostCalls |-> 0] /\ inside
  BY DEF VmInit, GameInit, Stopped, NoResult, NoWork, NothingCharged, NothingAnswered
<1>2. /\ Len(<< >>) = 0 /\ << >> \in Seq(CallId) /\ LogRingCapacity \in Nat
      /\ Fuel \in Nat /\ MaxRunHostCalls \in Nat
  BY EmptySeq, GameApiAssumption, RefVmAssumption
<1>3. Cardinality(Sent(<< >>)) = 0
  <2>1. Sent(<< >>) = {}
    BY DEF Sent
  <2>2. QED
    BY <2>1, FS_EmptySet
<1>4. charged \in [Counters -> Nat] /\ \A c \in Counters : charged[c] = 0
  BY <1>1 DEF Counters
<1>5. GameTypes
  BY <1>1, <1>2, <1>4 DEF GameTypes
<1>6. {"calls", "comms", "logs"} \subseteq Counters /\ \A c \in Counters : charged[c] <= Limit[c]
  BY <1>4, Tables DEF Counters
<1>7. Recorded
  BY <1>1, <1>2, <1>3, <1>4, <1>6 DEF Recorded
<1>8. Metered
  BY <1>1, <1>2 DEF Metered
<1>9. QED
  BY <1>1, <1>5, <1>7, <1>8 DEF GuestInv

LEMMA GuestNext == GuestInv /\ [VmNext]_<<gameVars, vmVars>> => GuestInv'
<1> SUFFICES ASSUME GuestInv, [VmNext]_<<gameVars, vmVars>> PROVE GuestInv'
  OBVIOUS
<1>1. CASE Game
  <2>1. GameTypes' /\ Recorded'
    BY <1>1, GameKept DEF Game, GuestInv
  <2>2. ~vm.on /\ UNCHANGED vmVars
    BY <1>1 DEF Game
  <2>3. QED
    BY <2>1, <2>2 DEF GuestInv, Metered, vmVars
<1>2. CASE Run
  <2>1. GameTypes' /\ Recorded' /\ inside' /\ tick'.open
    BY <1>2 DEF Run, GuestInv, GameTypes, Recorded, gameVars, apiVars, worldVars
  <2>2. Fuel \in Nat /\ MaxRunHostCalls \in Nat /\ Fuel - Fuel = 0
    BY RefVmAssumption
  <2>3. work' = [fuel |-> 0, hostCalls |-> 0]
    BY <1>2 DEF Run, NoWork
  <2>4. CASE \E trap : Finish(trap, Fuel, 0)
    <3>1. PICK trap : Finish(trap, Fuel, 0)
      BY <2>4
    <3>2. /\ vm' = [on |-> FALSE, fuel |-> 0, stack |-> 0, frames |-> 0, hostCalls |-> 0]
          /\ result' = [trap |-> trap, fuelUsed |-> Fuel - Fuel, hostCalls |-> 0]
      BY <3>1 DEF Finish, Stopped
    <3>3. Metered'
      BY <2>2, <2>3, <3>2 DEF Metered
    <3>4. QED
      BY <2>1, <3>3 DEF GuestInv
  <2>5. CASE /\ vm' = [on |-> TRUE, fuel |-> Fuel, stack |-> 1, frames |-> 1, hostCalls |-> 0]
             /\ result' = NoResult
    <3>1. result' = [trap |-> "None", fuelUsed |-> 0, hostCalls |-> 0]
      BY <2>5 DEF NoResult
    <3>2. Metered'
      BY <2>1, <2>2, <2>3, <2>5, <3>1 DEF Metered
    <3>3. QED
      BY <2>1, <3>2 DEF GuestInv
  <2>6. QED
    BY <1>2, <2>4, <2>5 DEF Run
<1>3. CASE RunsOut
  <2>1. vm.on /\ UNCHANGED <<inside, work, runs, gameVars>> /\ \E trap : Finish(trap, vm.fuel, vm.hostCalls)
    BY <1>3 DEF RunsOut
  <2>2. /\ vm.fuel - 0 = vm.fuel /\ vm.hostCalls + 0 = vm.hostCalls /\ vm.fuel \in Nat
        /\ vm.hostCalls <= MaxRunHostCalls
    BY <2>1 DEF GuestInv, Metered
  <2>3. work' = [fuel |-> work.fuel + 0, hostCalls |-> work.hostCalls + 0]
    BY <2>1 DEF GuestInv, Metered
  <2>4. \E trap : Finish(trap, vm.fuel - 0, vm.hostCalls + 0)
    BY <2>1, <2>2
  <2>5. vm.hostCalls + 0 <= MaxRunHostCalls
    BY <2>2
  <2>6. Metered'
    BY <2>1, <2>2, <2>3, <2>4, <2>5, Ended DEF GuestInv
  <2>7. GameTypes' /\ Recorded'
    BY <2>1 DEF GuestInv, GameTypes, Recorded, gameVars, apiVars, worldVars
  <2>8. QED
    BY <2>1, <2>6, <2>7 DEF GuestInv
<1>4. CASE \/ Call \/ Ret
           \/ \E i \in Moves \cup Arithmetic \cup Branches : Execute(i)
           \/ \E width \in {1, 2}, stores \in BOOLEAN, address \in {w.off : w \in Windows} :
                LoadStore(width, stores, address)
  BY <1>4, InstructionKept
<1>5. CASE \E a, r \in Windows : HostCall(a, r)
  BY <1>5, HostCallKept
<1>6. CASE UNCHANGED <<gameVars, vmVars>>
  BY <1>6 DEF GuestInv, GameTypes, Recorded, Metered, gameVars, apiVars, worldVars, vmVars
<1>7. QED
  BY <1>1, <1>2, <1>3, <1>4, <1>5, <1>6 DEF VmNext

LEMMA GuestInductive == VmSpec => []GuestInv
BY GuestInit, GuestNext, PTL DEF VmSpec

(* The promises of the host (RefVm.cpp, gateway.cpp, host_api.cpp): what a *)
(* run reports is what it used, no access is outside, and the answers of a *)
(* tick are what is recorded for its end, within the quotas.               *)
THEOREM HostKeepsItsWord == VmSpec => []GuestContained
<1>1. GuestInv => GuestContained
  <2> SUFFICES ASSUME GuestInv PROVE GuestContained
    OBVIOUS
  <2>1. Accounted /\ AccessInside
    BY DEF GuestInv, Metered, Accounted, AccessInside
  <2>2. /\ Len(answered.writes) \in Nat /\ Cardinality(Sent(answered.writes)) \in Nat /\ answered.lines \in Nat
        /\ charged["calls"] \in Nat /\ charged["comms"] \in Nat /\ charged["logs"] \in Nat
    <3>1. answered.writes \in Seq(CallId) /\ answered.lines \in Nat /\ charged \in [Counters -> Nat]
      BY DEF GuestInv, GameTypes
    <3>2. QED
      BY <3>1, SentCount, LenProperties DEF Counters
  <2>3. charged["calls"] <= MaxHostCalls /\ charged["comms"] <= MaxComms /\ charged["logs"] <= MaxLogs
    BY Tables DEF GuestInv, Recorded, Counters
  <2>4. /\ Len(answered.writes) + answered.lines <= charged["calls"]
        /\ Cardinality(Sent(answered.writes)) <= charged["comms"]
        /\ answered.lines <= charged["logs"]
        /\ tick.open => intents = answered.writes
        /\ answered.lines <= Len(logRing) \/ Len(logRing) = LogRingCapacity
    BY DEF GuestInv, Recorded
  <2>5. MaxHostCalls \in Nat /\ MaxComms \in Nat /\ MaxLogs \in Nat
    BY GameApiAssumption
  <2>6. AnsweredIsRecorded
    <3>1. /\ Len(answered.writes) + answered.lines <= MaxHostCalls
          /\ Cardinality(Sent(answered.writes)) <= MaxComms /\ answered.lines <= MaxLogs
      BY ONLY <2>2, <2>3, <2>4, <2>5
    <3>2. QED
      BY <2>4, <3>1 DEF AnsweredIsRecorded, Sent
  <2>7. QED
    BY <2>1, <2>6 DEF GuestContained
<1>2. QED
  BY <1>1, GuestInductive, PTL

(* DefaultIntentResolver::Apply skips the intents of an entity that was    *)
(* destroyed meanwhile, and kinematics has nothing left of it to move.     *)
THEOREM NoDeedsOfTheDead == VmSpec => DeadDoNothing
<1>1. GuestInv /\ [VmNext]_<<gameVars, vmVars>>
        => [~self.alive => UNCHANGED <<self, objective>> /\ signals' \in {0, signals}]_gameVars
  <2> SUFFICES ASSUME GuestInv, VmNext, ~self.alive
               PROVE  UNCHANGED <<self, objective>> /\ signals' \in {0, signals}
    BY DEF gameVars, vmVars
  <2>1. CASE BeginTick
    BY <2>1 DEF BeginTick, worldVars
  <2>2. CASE ApplyIntents
    <3>1. Resolved = [goal |-> self.goal, flags |-> self.flags, objective |-> objective, signals |-> 0]
      BY DEF Resolved, Unresolved
    <3>2. self' = [alive |-> self.alive, goal |-> self.goal, flags |-> self.flags]
      BY <2>2, <3>1 DEF ApplyIntents, GuestInv, GameTypes
    <3>3. QED
      BY <2>2, <3>1, <3>2 DEF ApplyIntents, GuestInv, GameTypes
  <2>3. CASE StepKinematics \/ DestroySelf
    BY <2>3 DEF StepKinematics, DestroySelf, GuestInv, GameTypes
  <2>4. CASE UNCHANGED worldVars
    BY <2>4 DEF worldVars
  <2>5. QED
    <3>1. Run \/ RunsOut \/ Call \/ Ret => UNCHANGED worldVars
      BY DEF Run, RunsOut, Call, Ret, gameVars
    <3>2. ASSUME NEW i, Execute(i) PROVE UNCHANGED worldVars
      BY <3>2 DEF Execute, gameVars
    <3>3. ASSUME NEW width, NEW stores, NEW address, LoadStore(width, stores, address)
          PROVE  UNCHANGED worldVars
      BY <3>3 DEF LoadStore, gameVars
    <3>4. ASSUME NEW a, NEW r, HostCall(a, r) PROVE UNCHANGED worldVars
      BY <3>4 DEF HostCall
    <3>5. QED
      BY <2>1, <2>2, <2>3, <2>4, <3>1, <3>2, <3>3, <3>4 DEF VmNext, Game
<1>2. QED
  BY <1>1, GuestInductive, PTL DEF VmSpec, DeadDoNothing

-----------------------------------------------------------------------------
(* Scripts.  The inductive invariant of the virtual machine.               *)
Slot(lv, id) == lv.scripts[id].environmentRef

Ran(lv, id) == lv.registry[Slot(lv, id)].ran

VmTypes(lv) ==
  /\ lv = [scripts |-> lv.scripts, next |-> lv.next, registry |-> lv.registry, unused |-> lv.unused,
           staleRef |-> lv.staleRef]
  /\ lv.next \in Nat \ {0} /\ lv.staleRef \in BOOLEAN
  /\ lv.registry \in Seq(Table \cup {Released})
  /\ lv.scripts = [id \in DOMAIN lv.scripts |-> lv.scripts[id]]
  /\ \A id \in DOMAIN lv.scripts :
       /\ id \in Nat /\ id < lv.next
       /\ lv.scripts[id] \in [environmentRef : 1..Len(lv.registry), failed : BOOLEAN, reloaded : BOOLEAN]
  /\ Distinct(lv.unused, 1..Len(lv.registry))
  /\ \A slot \in 1..Len(lv.registry) : slot \in ToSet(lv.unused) <=> lv.registry[slot] = Released

(* The scripts that hold the tables of the registry, each its own.         *)
Owned(lv, owners) ==
  /\ \A id \in owners : id \in DOMAIN lv.scripts /\ lv.registry[Slot(lv, id)] # Released
                        /\ lv.registry[Slot(lv, id)].script = id
  /\ \A slot \in 1..Len(lv.registry) :
       lv.registry[slot] # Released => \E id \in owners : Slot(lv, id) = slot

-----------------------------------------------------------------------------
(* The virtual machine.                                                    *)

\* A table is not the mark of a slot without one.
LEMMA TableIsNotReleased ==
  ASSUME NEW table \in Table
  PROVE  table # Released
BY ScriptAssumption

\* The fields of a machine, written anew.
LEMMA Rewritten ==
  ASSUME NEW lv, VmTypes(lv), NEW r, NEW u, NEW f
  PROVE  /\ [lv EXCEPT !.registry = r, !.unused = u, !.scripts = f] =
              [scripts |-> f, next |-> lv.next, registry |-> r, unused |-> u, staleRef |-> lv.staleRef]
         /\ [lv EXCEPT !.registry = r, !.unused = u] =
              [scripts |-> lv.scripts, next |-> lv.next, registry |-> r, unused |-> u, staleRef |-> lv.staleRef]
<1> DEFINE one == [lv EXCEPT !.registry = r]
<1>1. one = [scripts |-> lv.scripts, next |-> lv.next, registry |-> r, unused |-> lv.unused, staleRef |-> lv.staleRef]
  BY DEF VmTypes
<1> HIDE DEF one
<1> DEFINE two == [one EXCEPT !.unused = u]
<1>2. two = [scripts |-> lv.scripts, next |-> lv.next, registry |-> r, unused |-> u, staleRef |-> lv.staleRef]
  BY <1>1
<1> HIDE DEF two
<1>3. [two EXCEPT !.scripts = f] =
        [scripts |-> f, next |-> lv.next, registry |-> r, unused |-> u, staleRef |-> lv.staleRef]
  BY <1>2
<1>4. [lv EXCEPT !.registry = r, !.unused = u] = two /\ [lv EXCEPT !.registry = r, !.unused = u, !.scripts = f] = [two EXCEPT !.scripts = f]
  BY DEF one, two
<1>5. QED
  BY <1>2, <1>3, <1>4

\* A new member at the front.
LEMMA PushDistinct ==
  ASSUME NEW S, NEW s, Distinct(s, S), NEW x \in S \ ToSet(s)
  PROVE  Distinct(<<x>> \o s, S) /\ ToSet(<<x>> \o s) = ToSet(s) \cup {x}
<1> DEFINE t == <<x>> \o s
<1>1. PICK n \in Nat : n = Len(s)
  BY LenProperties DEF Distinct
<1>2. /\ t \in Seq(S) /\ Len(t) = n + 1 /\ t[1] = x
      /\ \A i \in 1 .. n : t[i + 1] = s[i]
  <2>1. s \in Seq(S) /\ <<x>> \in Seq(S) /\ Len(<<x>>) = 1 /\ <<x>>[1] = x
    BY DEF Distinct
  <2>2. /\ t \in Seq(S) /\ Len(t) = 1 + n
        /\ \A i \in 1 .. 1 + n : t[i] = IF i <= 1 THEN <<x>>[i] ELSE s[i - 1]
    BY <1>1, <2>1, ConcatProperties
  <2> HIDE DEF t
  <2>3. \A i \in 1 .. n : i + 1 \in 1 .. 1 + n /\ ~(i + 1 <= 1) /\ (i + 1) - 1 = i
    BY <1>1
  <2>4. QED
    BY <1>1, <2>1, <2>2, <2>3
<1>3. DOMAIN s = 1 .. n /\ DOMAIN t = 1 .. n + 1
  BY <1>1, <1>2, LenProperties DEF Distinct
<1> HIDE DEF t
<1>4. \A y : y \in ToSet(t) <=> \E i \in 1 .. n + 1 : t[i] = y
  BY <1>2, Members
<1>5. \A y : y \in ToSet(s) <=> \E i \in 1 .. n : s[i] = y
  BY <1>1, Members DEF Distinct
<1>6. \A i, k \in 1 .. n : s[i] = s[k] => i = k
  BY <1>3 DEF Distinct, IsInjective
<1>7. \A i \in 1 .. n + 1 : i = 1 \/ (i - 1 \in 1 .. n /\ t[i] = s[i - 1])
  <2> SUFFICES ASSUME NEW i \in 1 .. n + 1, i # 1
               PROVE  i - 1 \in 1 .. n /\ t[i] = s[i - 1]
    OBVIOUS
  <2>1. i - 1 \in 1 .. n /\ (i - 1) + 1 = i
    BY <1>1
  <2>2. t[(i - 1) + 1] = s[i - 1]
    BY <1>2, <2>1
  <2>3. QED
    BY <2>1, <2>2
<1>8. \A i \in 1 .. n : s[i] # x
  BY <1>5
<1>9. IsInjective(t)
  <2> SUFFICES ASSUME NEW i \in 1 .. n + 1, NEW k \in 1 .. n + 1, t[i] = t[k]
               PROVE  i = k
    BY <1>3 DEF IsInjective
  <2>1. CASE i = 1 \/ k = 1
    BY <1>2, <1>7, <1>8, <2>1
  <2>2. CASE i # 1 /\ k # 1
    <3>1. i - 1 \in 1 .. n /\ k - 1 \in 1 .. n /\ s[i - 1] = s[k - 1]
      BY <1>7, <2>2
    <3>2. i - 1 = k - 1
      BY <1>6, <3>1
    <3>3. QED
      BY <1>1, <3>2
  <2>3. QED
    BY <2>1, <2>2
<1>10. \A y : y \in ToSet(t) <=> y \in ToSet(s) \/ y = x
  <2>1. 1 \in 1 .. n + 1 /\ \A i \in 1 .. n : i + 1 \in 1 .. n + 1
    BY <1>1
  <2>2. QED
    BY <1>2, <1>4, <1>5, <1>7, <2>1
<1>11. QED
  BY <1>2, <1>9, <1>10 DEF Distinct, t

\* The slot that luaL_ref takes holds no table.
LEMMA FreshSlot ==
  ASSUME NEW lv, VmTypes(lv), NEW table \in Table
  PROVE  LET fresh == lv.unused = << >>
             slot == IF fresh THEN Len(lv.registry) + 1 ELSE Head(lv.unused)
             r == IF fresh THEN Append(lv.registry, table) ELSE [lv.registry EXCEPT ![slot] = table]
             u == IF fresh THEN lv.unused ELSE Tail(lv.unused)
         IN  /\ r \in Seq(Table \cup {Released}) /\ Len(r) \in Nat /\ Len(r) >= Len(lv.registry)
             /\ slot \in 1..Len(r) /\ r[slot] = table
             /\ \A k \in 1..Len(r) : k # slot => k \in 1..Len(lv.registry) /\ r[k] = lv.registry[k]
             /\ slot \in 1..Len(lv.registry) => lv.registry[slot] = Released
             /\ Distinct(u, 1..Len(r))
             /\ \A k \in 1..Len(r) : k \in ToSet(u) <=> r[k] = Released
<1> DEFINE fresh == lv.unused = << >>
           n == Len(lv.registry)
           q == lv.registry
           S == Table \cup {Released}
           slot == IF fresh THEN Len(lv.registry) + 1 ELSE Head(lv.unused)
           r == IF fresh THEN Append(lv.registry, table) ELSE [lv.registry EXCEPT ![slot] = table]
           u == IF fresh THEN lv.unused ELSE Tail(lv.unused)
<1>1. /\ q \in Seq(S) /\ n \in Nat /\ DOMAIN q = 1..n /\ table \in S /\ table # Released
      /\ Distinct(lv.unused, 1..n)
      /\ \A k \in 1..n : k \in ToSet(lv.unused) <=> q[k] = Released
  BY LenProperties, TableIsNotReleased DEF VmTypes
<1>2. CASE fresh
  <2>1. slot = n + 1 /\ r = Append(q, table) /\ u = << >>
    BY <1>2
  <2>2. /\ r \in Seq(S) /\ Len(r) = n + 1 /\ r[n + 1] = table
        /\ \A k \in 1..n : r[k] = q[k]
    BY <1>1, <2>1
  <2>3. \A k \in 1..n + 1 : k \in 1..n \/ k = n + 1
    BY <1>1
  <2>4. Distinct(u, 1..n + 1) /\ ToSet(u) = {}
    BY <2>1, EmptyDistinct
  <2>5. ToSet(lv.unused) = {}
    BY <1>2, EmptyDistinct
  <2> HIDE DEF r, u, slot
  <2>6. \A k \in 1..n + 1 : k \in ToSet(u) <=> r[k] = Released
    BY <1>1, <2>2, <2>3, <2>4, <2>5
  <2>7. n + 1 \in 1..n + 1 /\ n + 1 \in Nat /\ n + 1 >= n /\ n + 1 \notin 1..n
    BY <1>1
  <2>8. QED
    BY <2>1, <2>2, <2>3, <2>4, <2>6, <2>7 DEF r, u, slot
<1>3. CASE ~fresh
  <2>1. slot = Head(lv.unused) /\ r = [q EXCEPT ![slot] = table] /\ u = Tail(lv.unused)
    BY <1>3
  <2>2. /\ Distinct(u, 1..n) /\ ToSet(u) = ToSet(lv.unused) \ {slot} /\ slot \in ToSet(lv.unused)
    BY <1>1, <1>3, <2>1, TailDistinct
  <2>3. slot \in 1..n
    BY <1>1, <2>2, Members DEF Distinct
  <2>4. /\ r \in Seq(S) /\ Len(r) = n /\ r[slot] = table
        /\ \A k \in 1..n : k # slot => r[k] = q[k]
    BY <1>1, <2>1, <2>3
  <2> HIDE DEF r, u, slot
  <2>5. \A k \in 1..n : k \in ToSet(u) <=> r[k] = Released
    BY <1>1, <2>2, <2>4
  <2>6. QED
    BY <1>1, <2>2, <2>3, <2>4, <2>5 DEF r, u, slot
<1>4. QED
  BY <1>2, <1>3

\* A script gets an environment of its own.
LEMMA PreparedIsSound ==
  ASSUME NEW lv, VmTypes(lv), NEW id \in Nat, id < lv.next, NEW reloaded \in BOOLEAN
  PROVE  LET w == Prepared(lv, id, reloaded) IN
         /\ VmTypes(w) /\ w.next = lv.next /\ w.staleRef = lv.staleRef
         /\ DOMAIN w.scripts = DOMAIN lv.scripts \cup {id}
         /\ w.scripts[id].reloaded = reloaded
         /\ \A other \in DOMAIN lv.scripts : other # id => w.scripts[other] = lv.scripts[other]
         /\ Ran(w, id) = {}
         /\ \A other \in DOMAIN lv.scripts :
              other # id /\ lv.registry[Slot(lv, other)] # Released => Ran(w, other) = Ran(lv, other)
         /\ \A owners : Owned(lv, owners) /\ id \notin owners => Owned(w, owners \cup {id})
<1> DEFINE w == Prepared(lv, id, reloaded)
           table == [script |-> id, ran |-> {}]
           fresh == lv.unused = << >>
           slot == IF fresh THEN Len(lv.registry) + 1 ELSE Head(lv.unused)
           r == IF fresh THEN Append(lv.registry, table) ELSE [lv.registry EXCEPT ![slot] = table]
           u == IF fresh THEN lv.unused ELSE Tail(lv.unused)
           info == [environmentRef |-> slot, failed |-> FALSE, reloaded |-> reloaded]
           f == [other \in DOMAIN lv.scripts \cup {id} |-> IF other = id THEN info ELSE lv.scripts[other]]
           n == Len(lv.registry)
<1>1. table \in Table /\ table.ran = {} /\ table.script = id /\ table # Released
  BY TableIsNotReleased DEF Table
<1>2. w = [lv EXCEPT !.registry = r, !.unused = u, !.scripts = f]
  BY DEF Prepared
<1> HIDE DEF table
<1>3. /\ r \in Seq(Table \cup {Released}) /\ Len(r) \in Nat /\ Len(r) >= n
      /\ slot \in 1..Len(r) /\ r[slot] = table
      /\ \A k \in 1..Len(r) : k # slot => k \in 1..n /\ r[k] = lv.registry[k]
      /\ slot \in 1..n => lv.registry[slot] = Released
      /\ Distinct(u, 1..Len(r))
      /\ \A k \in 1..Len(r) : k \in ToSet(u) <=> r[k] = Released
  BY <1>1, FreshSlot
<1> HIDE DEF r, u, slot
<1>4. info \in [environmentRef : 1..Len(r), failed : BOOLEAN, reloaded : BOOLEAN]
      /\ info.environmentRef = slot /\ info.reloaded = reloaded
  BY <1>3
<1> HIDE DEF info
<1>5. /\ DOMAIN f = DOMAIN lv.scripts \cup {id} /\ f = [k \in DOMAIN f |-> f[k]]
      /\ f[id] = info /\ \A other \in DOMAIN lv.scripts : other # id => f[other] = lv.scripts[other]
  OBVIOUS
<1> HIDE DEF f
<1>6. w = [scripts |-> f, next |-> lv.next, registry |-> r, unused |-> u, staleRef |-> lv.staleRef]
  BY <1>2, Rewritten
<1> HIDE DEF w
<1>7. w.scripts = f /\ w.next = lv.next /\ w.registry = r /\ w.unused = u /\ w.staleRef = lv.staleRef
  BY <1>6
<1>8. n \in Nat /\ lv.next \in Nat \ {0} /\ lv.staleRef \in BOOLEAN
  BY LenProperties DEF VmTypes
<1>9. \A k \in DOMAIN f : k \in Nat /\ k < lv.next
                          /\ f[k] \in [environmentRef : 1..Len(r), failed : BOOLEAN, reloaded : BOOLEAN]
  <2> SUFFICES ASSUME NEW k \in DOMAIN f
               PROVE  k \in Nat /\ k < lv.next
                      /\ f[k] \in [environmentRef : 1..Len(r), failed : BOOLEAN, reloaded : BOOLEAN]
    OBVIOUS
  <2>1. CASE k = id
    BY <1>4, <1>5, <2>1
  <2>2. CASE k # id
    <3>1. k \in DOMAIN lv.scripts /\ f[k] = lv.scripts[k]
      BY <1>5, <2>2
    <3>2. k \in Nat /\ k < lv.next /\ lv.scripts[k] \in [environmentRef : 1..n, failed : BOOLEAN, reloaded : BOOLEAN]
      BY <3>1 DEF VmTypes
    <3>3. 1..n \subseteq 1..Len(r)
      BY <1>3, <1>8
    <3>4. QED
      BY <3>1, <3>2, <3>3
  <2>3. QED
    BY <2>1, <2>2
<1>10. VmTypes(w)
  BY <1>3, <1>5, <1>6, <1>7, <1>8, <1>9 DEF VmTypes
<1>11. Slot(w, id) = slot /\ w.registry[slot] = table
  BY <1>3, <1>4, <1>5, <1>7 DEF Slot
<1>12. ASSUME NEW other \in DOMAIN lv.scripts, other # id, lv.registry[Slot(lv, other)] # Released
       PROVE  Slot(w, other) = Slot(lv, other) /\ w.registry[Slot(w, other)] = lv.registry[Slot(lv, other)]
  <2>1. Slot(w, other) = Slot(lv, other) /\ Slot(lv, other) \in 1..n
    BY <1>5, <1>7, <1>12 DEF Slot, VmTypes
  <2>2. Slot(lv, other) # slot /\ Slot(lv, other) \in 1..Len(r)
    BY <1>3, <1>8, <1>12, <2>1
  <2>3. QED
    BY <1>3, <1>7, <2>1, <2>2
<1>13. ASSUME NEW owners, Owned(lv, owners), id \notin owners
       PROVE  Owned(w, owners \cup {id})
  <2>1. \A other \in owners : /\ other \in DOMAIN lv.scripts /\ other # id
                              /\ lv.registry[Slot(lv, other)] # Released
                              /\ lv.registry[Slot(lv, other)].script = other
    BY <1>13 DEF Owned
  <2>2. ASSUME NEW k \in 1..Len(r), r[k] # Released
        PROVE  \E other \in owners \cup {id} : Slot(w, other) = k
    <3>1. CASE k = slot
      BY <1>11, <3>1
    <3>2. CASE k # slot
      <4>1. k \in 1..n /\ lv.registry[k] # Released
        BY <1>3, <2>2, <3>2
      <4>2. PICK other \in owners : Slot(lv, other) = k
        BY <1>13, <4>1 DEF Owned
      <4>3. QED
        BY <1>12, <2>1, <4>2
    <3>3. QED
      BY <3>1, <3>2
  <2>3. \A k \in owners \cup {id} : /\ k \in DOMAIN w.scripts /\ w.registry[Slot(w, k)] # Released
                                    /\ w.registry[Slot(w, k)].script = k
    BY <1>1, <1>5, <1>7, <1>11, <1>12, <2>1
  <2>4. QED
    BY <1>7, <2>2, <2>3 DEF Owned
<1>14. Ran(w, id) = {}
  BY <1>1, <1>11 DEF Ran
<1>15. \A other \in DOMAIN lv.scripts :
         other # id /\ lv.registry[Slot(lv, other)] # Released => Ran(w, other) = Ran(lv, other)
  BY <1>12 DEF Ran
<1>16. QED
  BY <1>4, <1>5, <1>7, <1>10, <1>13, <1>14, <1>15 DEF w

\* Of which the others' are not touched.
LEMMA PreparedIsOwned ==
  ASSUME NEW lv, VmTypes(lv), NEW id \in Nat, id < lv.next, NEW reloaded \in BOOLEAN,
         NEW owners, Owned(lv, owners), id \notin owners
  PROVE  LET w == Prepared(lv, id, reloaded) IN
         /\ Owned(w, owners \cup {id}) /\ Ran(w, id) = {}
         /\ \A other \in owners : Ran(w, other) = Ran(lv, other)
<1> DEFINE w == Prepared(lv, id, reloaded)
<1>1. Owned(w, owners \cup {id})
  BY PreparedIsSound
<1>2. Ran(w, id) = {}
  BY PreparedIsSound
<1>3. \A other \in owners : /\ other \in DOMAIN lv.scripts /\ other # id
                            /\ lv.registry[Slot(lv, other)] # Released
  BY DEF Owned
<1>4. \A other \in DOMAIN lv.scripts :
        other # id /\ lv.registry[Slot(lv, other)] # Released => Ran(w, other) = Ran(lv, other)
  BY PreparedIsSound
<1>5. QED
  BY <1>1, <1>2, <1>3, <1>4

\* A slot that holds a table is given back.
LEMMA UnrefIsSound ==
  ASSUME NEW lv, VmTypes(lv), NEW id \in DOMAIN lv.scripts, lv.registry[Slot(lv, id)] # Released
  PROVE  LET w == LuaUnref(lv, Slot(lv, id)) IN
         /\ VmTypes(w) /\ w.next = lv.next /\ w.staleRef = lv.staleRef /\ w.scripts = lv.scripts
         /\ Len(w.registry) = Len(lv.registry)
         /\ \A owners : Owned(lv, owners) /\ id \in owners =>
              /\ Owned(w, owners \ {id})
              /\ \A other \in owners \ {id} : Ran(w, other) = Ran(lv, other)
<1> DEFINE slot == Slot(lv, id)
           w == LuaUnref(lv, slot)
           q == lv.registry
           n == Len(q)
           r == [q EXCEPT ![slot] = Released]
           u == <<slot>> \o lv.unused
           S == Table \cup {Released}
<1>1. /\ q \in Seq(S) /\ n \in Nat /\ DOMAIN q = 1..n
      /\ Distinct(lv.unused, 1..n)
      /\ \A k \in 1..n : k \in ToSet(lv.unused) <=> q[k] = Released
      /\ lv.next \in Nat \ {0} /\ lv.staleRef \in BOOLEAN
  BY LenProperties DEF VmTypes
<1>2. slot \in 1..n /\ q[slot] # Released
  BY DEF Slot, VmTypes
<1>3. w = [lv EXCEPT !.registry = r, !.unused = u]
  BY DEF LuaUnref
<1> HIDE DEF slot, q
<1>4. /\ r \in Seq(S) /\ Len(r) = n /\ r[slot] = Released
      /\ \A k \in 1..n : k # slot => r[k] = q[k]
  BY <1>1, <1>2
<1>5. Distinct(u, 1..n) /\ ToSet(u) = ToSet(lv.unused) \cup {slot}
  BY <1>1, <1>2, PushDistinct
<1> HIDE DEF r, u
<1>6. w = [scripts |-> lv.scripts, next |-> lv.next, registry |-> r, unused |-> u, staleRef |-> lv.staleRef]
  BY <1>3, Rewritten
<1> HIDE DEF w
<1>7. w.scripts = lv.scripts /\ w.next = lv.next /\ w.registry = r /\ w.unused = u /\ w.staleRef = lv.staleRef
  BY <1>6
<1>8. VmTypes(w)
  <2>1. \A k \in 1..n : k \in ToSet(u) <=> r[k] = Released
    BY <1>1, <1>4, <1>5
  <2>2. QED
    BY <1>1, <1>4, <1>5, <1>6, <1>7, <2>1 DEF VmTypes, q
<1>9. ASSUME NEW owners, Owned(lv, owners), id \in owners
      PROVE  /\ Owned(w, owners \ {id})
             /\ \A other \in owners \ {id} : Ran(w, other) = Ran(lv, other)
  <2>1. \A other \in owners : /\ other \in DOMAIN lv.scripts
                              /\ q[Slot(lv, other)] # Released /\ q[Slot(lv, other)].script = other
                              /\ Slot(w, other) = Slot(lv, other)
    BY <1>7, <1>9 DEF Owned, Slot, q
  <2>2. \A other \in owners : Slot(lv, other) \in 1..n
    BY <2>1 DEF Slot, VmTypes, q
  <2>3. \A other \in owners \ {id} : Slot(lv, other) # slot
    BY <1>9, <2>1 DEF slot
  <2>4. \A other \in owners \ {id} : w.registry[Slot(w, other)] = q[Slot(lv, other)]
    BY <1>4, <1>7, <2>1, <2>2, <2>3
  <2>5. ASSUME NEW k \in 1..n, r[k] # Released
        PROVE  \E other \in owners \ {id} : Slot(w, other) = k
    <3>1. k # slot /\ q[k] # Released
      BY <1>4, <2>5
    <3>2. PICK other \in owners : Slot(lv, other) = k
      BY <1>9, <3>1 DEF Owned, q
    <3>3. other # id
      BY <3>1, <3>2 DEF slot
    <3>4. QED
      BY <2>1, <3>2, <3>3
  <2>6. Owned(w, owners \ {id})
    BY <1>4, <1>7, <2>1, <2>4, <2>5 DEF Owned
  <2>7. QED
    BY <2>4, <2>6 DEF Ran, q
<1>10. QED
  BY <1>4, <1>7, <1>8, <1>9 DEF w, slot, q

Watched == {"OnStart", "OnUpdate"}

\* A call leaves the slots as they are, and its trace in the script's own table.
LEMMA CalledIsSound ==
  ASSUME NEW lv, VmTypes(lv), NEW id \in DOMAIN lv.scripts, NEW function, NEW end
  PROVE  LET w == CalledFunction(lv, id, function, end) IN
         /\ VmTypes(w) /\ w.next = lv.next /\ w.staleRef = lv.staleRef
         /\ DOMAIN w.scripts = DOMAIN lv.scripts
         /\ \A other \in DOMAIN lv.scripts :
              Slot(w, other) = Slot(lv, other) /\ w.scripts[other].reloaded = lv.scripts[other].reloaded
         /\ \A slot \in 1..Len(lv.registry) : w.registry[slot] = Released <=> lv.registry[slot] = Released
         /\ \A owners : Owned(lv, owners) /\ id \in owners =>
              /\ Owned(w, owners)
              /\ \A other \in owners : other # id => Ran(w, other) = Ran(lv, other)
              /\ Ran(w, id) = IF Answers(lv, id, end) THEN Ran(lv, id) \cup ({function} \cap Watched)
                              ELSE Ran(lv, id)
<1> DEFINE w == CalledFunction(lv, id, function, end)
           slot == Slot(lv, id)
           q == lv.registry
           n == Len(q)
           S == Table \cup {Released}
           added == {function} \cap Watched
           table == [q[slot] EXCEPT !.ran = @ \cup added]
           r == [q EXCEPT ![slot] = table]
           info == [lv.scripts[id] EXCEPT !.failed = TRUE]
           f == [lv.scripts EXCEPT ![id] = info]
<1>1. /\ q \in Seq(S) /\ n \in Nat /\ DOMAIN q = 1..n
      /\ Distinct(lv.unused, 1..n)
      /\ \A k \in 1..n : k \in ToSet(lv.unused) <=> q[k] = Released
      /\ lv.next \in Nat \ {0} /\ lv.staleRef \in BOOLEAN
  BY LenProperties DEF VmTypes
<1>2. slot \in 1..n /\ q[slot] \in S
  BY <1>1, ElementOfSeq DEF Slot, VmTypes
<1>3. CASE Answers(lv, id, end)
  <2>1. q[slot] # Released /\ q[slot] \in Table
    BY <1>2, <1>3 DEF Answers, Slot
  <2>2. w = [lv EXCEPT !.registry = r]
    BY <1>3 DEF CalledFunction, Slot, Watched
  <2>3. added \in SUBSET Watched
    OBVIOUS
  <2> HIDE DEF slot, q, added
  <2>4. table \in Table /\ table.script = q[slot].script /\ table.ran = q[slot].ran \cup added
    BY <2>1, <2>3 DEF Table, Watched
  <2>5. table # Released
    BY <2>4, TableIsNotReleased
  <2> HIDE DEF table
  <2>6. /\ r \in Seq(S) /\ Len(r) = n /\ r[slot] = table
        /\ \A k \in 1..n : k # slot => r[k] = q[k]
    BY <1>1, <1>2, <2>4
  <2> HIDE DEF r
  <2>7. w = [scripts |-> lv.scripts, next |-> lv.next, registry |-> r, unused |-> lv.unused, staleRef |-> lv.staleRef]
    BY <2>2 DEF VmTypes
  <2> HIDE DEF w
  <2>8. w.scripts = lv.scripts /\ w.next = lv.next /\ w.registry = r /\ w.unused = lv.unused /\ w.staleRef = lv.staleRef
    BY <2>7
  <2>9. \A k \in 1..n : r[k] = Released <=> q[k] = Released
    BY <2>1, <2>5, <2>6
  <2>10. VmTypes(w)
    <3>1. \A k \in 1..n : k \in ToSet(lv.unused) <=> r[k] = Released
      BY <1>1, <2>9
    <3>2. QED
      BY <1>1, <2>6, <2>7, <2>8, <3>1 DEF VmTypes, q
  <2>11. \A other \in DOMAIN lv.scripts : Slot(w, other) = Slot(lv, other) /\ Slot(lv, other) \in 1..n
    BY <2>8 DEF Slot, VmTypes, q
  <2>12. ASSUME NEW owners, Owned(lv, owners), id \in owners
         PROVE  /\ Owned(w, owners)
                /\ \A other \in owners : other # id => Ran(w, other) = Ran(lv, other)
                /\ Ran(w, id) = Ran(lv, id) \cup added
    <3>1. \A other \in owners : /\ other \in DOMAIN lv.scripts
                                /\ q[Slot(lv, other)] # Released /\ q[Slot(lv, other)].script = other
      BY <2>12 DEF Owned, q
    <3>2. q[slot].script = id
      BY <2>12, <3>1 DEF slot
    <3>3. \A other \in owners : other # id => Slot(lv, other) # slot
      BY <3>1, <3>2
    <3>4. \A other \in owners : other # id => r[Slot(lv, other)] = q[Slot(lv, other)]
      BY <2>6, <2>11, <3>1, <3>3
    <3>5. \A other \in owners : r[Slot(lv, other)] # Released /\ r[Slot(lv, other)].script = other
      <4>1. r[slot] # Released /\ r[slot].script = id /\ Slot(lv, id) = slot
        BY <2>4, <2>5, <2>6, <3>2 DEF slot
      <4>2. QED
        BY <3>1, <3>4, <4>1
    <3>6. ASSUME NEW k \in 1..n, q[k] # Released
          PROVE  \E other \in owners : Slot(w, other) = k
      <4>1. PICK other \in owners : Slot(lv, other) = k
        BY <2>12, <3>6 DEF Owned, q
      <4>2. QED
        BY <2>11, <3>1, <4>1
    <3>7. \A k \in 1..n : r[k] # Released => \E other \in owners : Slot(w, other) = k
      BY <2>9, <3>6
    <3>8. \A other \in owners : /\ other \in DOMAIN w.scripts /\ w.registry[Slot(w, other)] # Released
                                /\ w.registry[Slot(w, other)].script = other
      BY <2>8, <2>11, <3>1, <3>5
    <3>9. Owned(w, owners)
      BY <2>6, <2>8, <3>7, <3>8 DEF Owned
    <3>10. \A other \in owners : other # id => Ran(w, other) = Ran(lv, other)
      BY <2>8, <2>11, <3>1, <3>4 DEF Ran, q
    <3>11. Ran(w, id) = r[slot].ran /\ Ran(lv, id) = q[slot].ran
      BY <2>8, <2>11 DEF Ran, q, slot
    <3>12. QED
      BY <2>4, <2>6, <3>9, <3>10, <3>11
  <2>13. QED
    BY <1>3, <2>8, <2>9, <2>10, <2>11, <2>12 DEF w, q, added
<1>4. CASE ~Answers(lv, id, end)
  <2>1. w = [lv EXCEPT !.scripts = f]
    BY <1>4 DEF CalledFunction
  <2>2. lv.scripts[id] \in [environmentRef : 1..n, failed : BOOLEAN, reloaded : BOOLEAN]
    BY DEF VmTypes
  <2>3. /\ info \in [environmentRef : 1..n, failed : BOOLEAN, reloaded : BOOLEAN]
        /\ info.environmentRef = slot /\ info.reloaded = lv.scripts[id].reloaded
    BY <2>2 DEF Slot
  <2> HIDE DEF info
  <2>4. /\ f = [k \in DOMAIN f |-> f[k]] /\ DOMAIN f = DOMAIN lv.scripts /\ f[id] = info
        /\ \A k \in DOMAIN f : k # id => f[k] = lv.scripts[k]
    BY DEF VmTypes
  <2> HIDE DEF f
  <2>5. w = [scripts |-> f, next |-> lv.next, registry |-> lv.registry, unused |-> lv.unused, staleRef |-> lv.staleRef]
    BY <2>1 DEF VmTypes
  <2> HIDE DEF w
  <2>6. w.scripts = f /\ w.next = lv.next /\ w.registry = q /\ w.unused = lv.unused /\ w.staleRef = lv.staleRef
    BY <2>5
  <2>7. VmTypes(w)
    BY <1>1, <2>3, <2>4, <2>5, <2>6 DEF VmTypes
  <2>8. \A other \in DOMAIN lv.scripts :
          Slot(w, other) = Slot(lv, other) /\ w.scripts[other].reloaded = lv.scripts[other].reloaded
    BY <2>3, <2>4, <2>6 DEF Slot
  <2>9. ASSUME NEW owners, Owned(lv, owners), id \in owners
        PROVE  Owned(w, owners) /\ \A other \in owners : Ran(w, other) = Ran(lv, other)
    <3>1. \A other \in owners : other \in DOMAIN lv.scripts /\ Slot(w, other) = Slot(lv, other)
      BY <2>8, <2>9 DEF Owned
    <3>2. QED
      BY <2>4, <2>6, <2>9, <3>1 DEF Owned, Ran
  <2>10. QED
    BY <1>4, <2>4, <2>6, <2>7, <2>8, <2>9 DEF w
<1>5. QED
  BY <1>3, <1>4

(* As long as no reload failed, each script has an environment of its own. *)
SoundVm(lv) == VmTypes(lv) /\ (~lv.staleRef => Owned(lv, DOMAIN lv.scripts))

\* LoadScriptFromString.
LEMMA LoadedIsSound ==
  ASSUME NEW lv, SoundVm(lv), NEW text
  PROVE  LET w == LoadedScript(lv, text) id == lv.next IN
         /\ SoundVm(w) /\ w.staleRef = lv.staleRef /\ id \in Nat /\ id \notin DOMAIN lv.scripts
         /\ DOMAIN w.scripts = IF text = "bad" THEN DOMAIN lv.scripts ELSE DOMAIN lv.scripts \cup {id}
         /\ text # "bad" => ~w.scripts[id].reloaded /\ (~lv.staleRef => Ran(w, id) = {})
         /\ \A other \in DOMAIN lv.scripts :
              w.scripts[other] = lv.scripts[other] /\ (~lv.staleRef => Ran(w, other) = Ran(lv, other))
<1> DEFINE known == [lv EXCEPT !.next = @ + 1]
           w == LoadedScript(lv, text)
           id == lv.next
           owners == DOMAIN lv.scripts
<1>1. /\ known = [scripts |-> lv.scripts, next |-> lv.next + 1, registry |-> lv.registry, unused |-> lv.unused,
                  staleRef |-> lv.staleRef]
      /\ id \in Nat \ {0} /\ id \notin DOMAIN lv.scripts
  BY DEF SoundVm, VmTypes
<1>2. w = IF text = "bad" THEN known ELSE Prepared(known, id, FALSE)
  BY DEF LoadedScript
<1> HIDE DEF known, w
<1>3. /\ known.scripts = lv.scripts /\ known.next = lv.next + 1 /\ known.registry = lv.registry
      /\ known.unused = lv.unused /\ known.staleRef = lv.staleRef
  BY <1>1
<1>4. VmTypes(known)
  <2>1. \A k \in DOMAIN lv.scripts : k \in Nat /\ k < lv.next + 1
    BY DEF SoundVm, VmTypes
  <2>2. lv.next + 1 \in Nat \ {0}
    BY <1>1
  <2>3. QED
    BY <1>1, <1>3, <2>1, <2>2 DEF SoundVm, VmTypes
<1>5. ~lv.staleRef => Owned(known, owners) /\ \A other \in owners : Ran(known, other) = Ran(lv, other)
  BY <1>3 DEF SoundVm, Owned, Slot, Ran
<1>6. CASE text = "bad"
  BY <1>1, <1>2, <1>3, <1>4, <1>5, <1>6 DEF SoundVm, w
<1>7. CASE text # "bad"
  <2> DEFINE no == FALSE
             v == Prepared(known, id, no)
  <2>1. id < known.next /\ id \in Nat /\ no \in BOOLEAN
    BY <1>1, <1>3
  <2>2. w = v
    BY <1>2, <1>7
  <2>3. id \notin owners
    BY <1>1
  <2> HIDE DEF no, id, owners
  <2>4. /\ VmTypes(v) /\ v.next = known.next /\ v.staleRef = known.staleRef
        /\ DOMAIN v.scripts = DOMAIN known.scripts \cup {id}
        /\ v.scripts[id].reloaded = no
        /\ \A other \in DOMAIN known.scripts : other # id => v.scripts[other] = known.scripts[other]
    BY <1>4, <2>1, PreparedIsSound
  <2>5. Owned(known, owners) =>
          /\ Owned(v, owners \cup {id}) /\ Ran(v, id) = {}
          /\ \A other \in owners : Ran(v, other) = Ran(known, other)
    BY <1>4, <2>1, <2>3, PreparedIsOwned
  <2> HIDE DEF v
  <2>6. ~lv.staleRef => /\ Owned(v, owners \cup {id}) /\ Ran(v, id) = {}
                        /\ \A other \in owners : Ran(v, other) = Ran(lv, other)
    BY <1>1, <1>5, <2>4, <2>5
  <2>7. SoundVm(v)
    BY <1>3, <2>4, <2>6 DEF SoundVm, owners
  <2>8. \A other \in DOMAIN lv.scripts : v.scripts[other] = lv.scripts[other]
    BY <1>1, <1>3, <2>4
  <2>9. QED
    BY <1>1, <1>3, <1>7, <2>2, <2>4, <2>6, <2>7, <2>8 DEF w, no, id, owners
<1>8. QED
  BY <1>6, <1>7

\* UnloadScript.
LEMMA UnloadedIsSound ==
  ASSUME NEW lv, SoundVm(lv), NEW id \in DOMAIN lv.scripts, lv.registry[Slot(lv, id)] # Released
  PROVE  LET w == Unloaded(lv, id) IN
         /\ SoundVm(w) /\ w.staleRef = lv.staleRef
         /\ DOMAIN w.scripts = DOMAIN lv.scripts \ {id}
         /\ \A other \in DOMAIN w.scripts :
              w.scripts[other] = lv.scripts[other] /\ (~lv.staleRef => Ran(w, other) = Ran(lv, other))
<1> DEFINE v == LuaUnref(lv, Slot(lv, id))
           w == Unloaded(lv, id)
           owners == DOMAIN lv.scripts
           f == [other \in owners \ {id} |-> lv.scripts[other]]
<1>1. /\ VmTypes(v) /\ v.next = lv.next /\ v.staleRef = lv.staleRef /\ v.scripts = lv.scripts
      /\ Len(v.registry) = Len(lv.registry)
      /\ Owned(lv, owners) /\ id \in owners =>
           /\ Owned(v, owners \ {id})
           /\ \A other \in owners \ {id} : Ran(v, other) = Ran(lv, other)
  BY UnrefIsSound DEF SoundVm
<1>2. w = [v EXCEPT !.scripts = f]
  BY <1>1 DEF Unloaded, Slot
<1> HIDE DEF v
<1>3. w = [scripts |-> f, next |-> v.next, registry |-> v.registry, unused |-> v.unused, staleRef |-> v.staleRef]
  BY <1>1, <1>2 DEF VmTypes
<1> HIDE DEF w
<1>4. w.scripts = f /\ w.next = v.next /\ w.registry = v.registry /\ w.unused = v.unused /\ w.staleRef = v.staleRef
  BY <1>3
<1>5. /\ f = [k \in DOMAIN f |-> f[k]] /\ DOMAIN f = owners \ {id}
      /\ \A other \in DOMAIN f : f[other] = v.scripts[other]
  BY <1>1
<1> HIDE DEF f
<1>6. VmTypes(w)
  BY <1>1, <1>3, <1>4, <1>5 DEF VmTypes
<1>7. \A other \in owners \ {id} : Slot(w, other) = Slot(v, other) /\ Ran(w, other) = Ran(v, other)
  BY <1>1, <1>4, <1>5 DEF Slot, Ran
<1>8. ~lv.staleRef => Owned(w, owners \ {id}) /\ \A other \in owners \ {id} : Ran(w, other) = Ran(lv, other)
  <2> SUFFICES ASSUME ~lv.staleRef
               PROVE  Owned(w, owners \ {id}) /\ \A other \in owners \ {id} : Ran(w, other) = Ran(lv, other)
    OBVIOUS
  <2>1. Owned(v, owners \ {id}) /\ \A other \in owners \ {id} : Ran(v, other) = Ran(lv, other)
    BY <1>1 DEF SoundVm
  <2>2. Owned(w, owners \ {id})
    BY <1>4, <1>5, <1>7, <2>1 DEF Owned
  <2>3. QED
    BY <1>7, <2>1, <2>2
<1>9. QED
  BY <1>1, <1>4, <1>5, <1>6, <1>8 DEF SoundVm, w

\* ReloadScript, with a text that may be bad.
LEMMA ReloadedIsSound ==
  ASSUME NEW lv, SoundVm(lv), NEW id \in DOMAIN lv.scripts, lv.registry[Slot(lv, id)] # Released, NEW text
  PROVE  LET w == Reloaded(lv, id, text) IN
         /\ SoundVm(w) /\ (~w.staleRef => ~lv.staleRef)
         /\ DOMAIN w.scripts = DOMAIN lv.scripts
         /\ ~w.staleRef => w.scripts[id].reloaded
         /\ \A other \in DOMAIN lv.scripts : other # id =>
              w.scripts[other] = lv.scripts[other] /\ (~w.staleRef => Ran(w, other) = Ran(lv, other))
<1> DEFINE v == LuaUnref(lv, Slot(lv, id))
           w == Reloaded(lv, id, text)
           owners == DOMAIN lv.scripts
           rest == owners \ {id}
<1>1. /\ VmTypes(v) /\ v.next = lv.next /\ v.staleRef = lv.staleRef /\ v.scripts = lv.scripts
      /\ Len(v.registry) = Len(lv.registry)
      /\ Owned(lv, owners) /\ id \in owners =>
           /\ Owned(v, rest)
           /\ \A other \in rest : Ran(v, other) = Ran(lv, other)
  BY UnrefIsSound DEF SoundVm
<1>2. w = IF text = "bad" THEN [v EXCEPT !.staleRef = TRUE] ELSE Prepared(v, id, TRUE)
  BY DEF Reloaded, Slot
<1> HIDE DEF v, w
<1>3. CASE text = "bad"
  <2>1. w = [scripts |-> v.scripts, next |-> v.next, registry |-> v.registry, unused |-> v.unused, staleRef |-> TRUE]
    BY <1>1, <1>2, <1>3 DEF VmTypes
  <2>2. w.scripts = v.scripts /\ w.next = v.next /\ w.registry = v.registry /\ w.unused = v.unused /\ w.staleRef
    BY <2>1
  <2>3. w.staleRef \in BOOLEAN
    BY <2>1
  <2>4. VmTypes(w)
    BY <1>1, <2>1, <2>2, <2>3 DEF VmTypes
  <2>5. QED
    BY <1>1, <2>2, <2>4 DEF SoundVm, w
<1>4. CASE text # "bad"
  <2> DEFINE yes == TRUE
             u == Prepared(v, id, yes)
  <2>1. id \in Nat /\ id < v.next /\ yes \in BOOLEAN
    BY <1>1 DEF VmTypes
  <2>2. w = u
    BY <1>2, <1>4
  <2> HIDE DEF yes
  <2>3. /\ VmTypes(u) /\ u.next = v.next /\ u.staleRef = v.staleRef
        /\ DOMAIN u.scripts = DOMAIN v.scripts \cup {id}
        /\ u.scripts[id].reloaded = yes
        /\ \A other \in DOMAIN v.scripts : other # id => u.scripts[other] = v.scripts[other]
    BY <1>1, <2>1, PreparedIsSound
  <2>4. rest \cup {id} = owners /\ id \notin rest /\ DOMAIN u.scripts = owners
    BY <1>1, <2>3
  <2> HIDE DEF rest
  <2>5. Owned(v, rest) => Owned(u, rest \cup {id}) /\ \A other \in rest : Ran(u, other) = Ran(v, other)
    BY <1>1, <2>1, <2>4, PreparedIsOwned
  <2> HIDE DEF u
  <2>6. ~lv.staleRef => Owned(u, owners) /\ \A other \in rest : Ran(u, other) = Ran(lv, other)
    BY <1>1, <2>4, <2>5 DEF SoundVm
  <2>7. SoundVm(u)
    BY <1>1, <2>3, <2>4, <2>6 DEF SoundVm
  <2>8. QED
    BY <1>1, <2>2, <2>3, <2>4, <2>6, <2>7 DEF w, yes, rest
<1>5. QED
  BY <1>3, <1>4

-----------------------------------------------------------------------------
(* The components.                                                         *)

Components ==
  [scriptID : Nat, config : ScriptConfigs, isEnabled : BOOLEAN, isStarted : BOOLEAN, timeSinceLastUpdate : Nat]

(* Each script loaded is that of one component.                            *)
Hosting(lv, of) ==
  /\ of = [key \in DOMAIN of |-> of[key]] /\ DOMAIN of \subseteq ScriptKeys
  /\ \A key \in DOMAIN of : of[key] \in Components /\ of[key].scriptID \in DOMAIN lv.scripts
  /\ \A key, other \in DOMAIN of : of[key].scriptID = of[other].scriptID => key = other
  /\ \A id \in DOMAIN lv.scripts : \E key \in DOMAIN of : of[key].scriptID = id

(* A component says that it is started only if its environment has seen    *)
(* OnStart; and one that starts by itself is not updated before.           *)
StartedFirst(lv, of) ==
  ~lv.staleRef => \A key \in DOMAIN of :
    LET id == of[key].scriptID IN
    ~lv.scripts[id].reloaded =>
      /\ of[key].isStarted => "OnStart" \in Ran(lv, id)
      /\ of[key].config.autoStart /\ "OnUpdate" \in Ran(lv, id) => "OnStart" \in Ran(lv, id)

System(s) ==
  /\ s = [vm |-> s.vm, of |-> s.of]
  /\ SoundVm(s.vm) /\ Hosting(s.vm, s.of) /\ StartedFirst(s.vm, s.of)

(* What a callback leaves as it was: the scripts, their slots, and the     *)
(* components but for their being enabled and started.                     *)
Alike(s, t) ==
  /\ System(t) /\ DOMAIN t.of = DOMAIN s.of
  /\ \A key \in DOMAIN s.of : t.of[key].scriptID = s.of[key].scriptID /\ t.of[key].config = s.of[key].config
  /\ \A id \in DOMAIN s.vm.scripts :
       /\ id \in DOMAIN t.vm.scripts
       /\ t.vm.registry[Slot(t.vm, id)] = Released <=> s.vm.registry[Slot(s.vm, id)] = Released

\* One callback after the other.
LEMMA AlikeOn ==
  ASSUME NEW s, NEW t, NEW u, System(s), Alike(s, t), Alike(t, u)
  PROVE  Alike(s, u)
BY DEF Alike

\* None.
LEMMA AlikeNot ==
  ASSUME NEW s, System(s)
  PROVE  Alike(s, s)
BY DEF Alike

\* A component is written: started only if its environment has seen OnStart.
LEMMA ComponentIsSound ==
  ASSUME NEW s, System(s), NEW key \in DOMAIN s.of, NEW c \in Components,
         c.scriptID = s.of[key].scriptID, c.config = s.of[key].config,
         c.isStarted => \/ s.of[key].isStarted
                        \/ s.vm.staleRef \/ s.vm.scripts[c.scriptID].reloaded
                        \/ "OnStart" \in Ran(s.vm, c.scriptID)
  PROVE  LET t == SetComponent(s, key, c) IN
         /\ Alike(s, t) /\ t.vm = s.vm /\ t.of[key] = c
         /\ \A other \in DOMAIN s.of : other # key => t.of[other] = s.of[other]
<1> DEFINE t == SetComponent(s, key, c)
           f == [s.of EXCEPT ![key] = c]
<1>1. /\ f = [k \in DOMAIN f |-> f[k]] /\ DOMAIN f = DOMAIN s.of /\ f[key] = c
      /\ \A k \in DOMAIN f : k # key => f[k] = s.of[k]
  BY DEF System, Hosting
<1>2. t = [s EXCEPT !.of = f]
  BY DEF SetComponent
<1> HIDE DEF f, t
<1>3. t = [vm |-> s.vm, of |-> f]
  BY <1>2 DEF System
<1>4. t.vm = s.vm /\ t.of = f
  BY <1>3
<1>5. \A k \in DOMAIN f : /\ f[k] \in Components /\ f[k].scriptID = s.of[k].scriptID
                          /\ f[k].config = s.of[k].config
  BY <1>1 DEF System, Hosting
<1>6. Hosting(t.vm, t.of)
  BY <1>1, <1>4, <1>5 DEF System, Hosting
<1>7. StartedFirst(t.vm, t.of)
  <2> SUFFICES ASSUME ~s.vm.staleRef, NEW k \in DOMAIN f, ~s.vm.scripts[f[k].scriptID].reloaded
               PROVE  /\ f[k].isStarted => "OnStart" \in Ran(s.vm, f[k].scriptID)
                      /\ f[k].config.autoStart /\ "OnUpdate" \in Ran(s.vm, f[k].scriptID)
                           => "OnStart" \in Ran(s.vm, f[k].scriptID)
    BY <1>4 DEF StartedFirst
  <2>1. /\ s.of[k].isStarted => "OnStart" \in Ran(s.vm, s.of[k].scriptID)
        /\ s.of[k].config.autoStart /\ "OnUpdate" \in Ran(s.vm, s.of[k].scriptID)
             => "OnStart" \in Ran(s.vm, s.of[k].scriptID)
    BY <1>1, <1>5 DEF System, StartedFirst
  <2>2. CASE k = key
    BY <1>1, <1>5, <2>1, <2>2
  <2>3. CASE k # key
    BY <1>1, <1>5, <2>1, <2>3
  <2>4. QED
    BY <2>2, <2>3
<1>8. System(t)
  BY <1>3, <1>4, <1>6, <1>7 DEF System
<1>9. QED
  BY <1>1, <1>4, <1>5, <1>8 DEF Alike, t

\* CallScriptCallback, where OnUpdate is called only on a component that has started if it does so by itself.
LEMMA CallbackIsSound ==
  ASSUME NEW s, System(s), NEW key \in DOMAIN s.of, NEW callback, NEW end,
         callback = "OnUpdate" => (s.of[key].config.autoStart => s.of[key].isStarted)
  PROVE  LET t == CallScriptCallback(s, key, callback, end) id == s.of[key].scriptID IN
         /\ Alike(s, t) /\ t.vm.staleRef = s.vm.staleRef
         /\ t.vm.scripts[id].reloaded = s.vm.scripts[id].reloaded
         /\ t.of[key] \in Components /\ t.of[key].isStarted = s.of[key].isStarted
         /\ callback = "OnStart" /\ Answers(s.vm, id, end) /\ ~s.vm.staleRef => "OnStart" \in Ran(t.vm, id)
<1> DEFINE c == s.of[key]
           id == c.scriptID
           lv == s.vm
           w == CalledFunction(lv, id, callback, end)
           succeeds == Answers(lv, id, end)
           on == c.isEnabled /\ (callback = "OnDestroy" \/ succeeds)
           d == [c EXCEPT !.isEnabled = on]
           f == [s.of EXCEPT ![key] = d]
           t == CallScriptCallback(s, key, callback, end)
           owners == DOMAIN lv.scripts
<1>1. c \in Components /\ id \in DOMAIN lv.scripts /\ SoundVm(lv) /\ VmTypes(lv)
  BY DEF System, Hosting, SoundVm
<1>2. t = [vm |-> w, of |-> f]
  BY DEF CallScriptCallback
<1>3. on \in BOOLEAN
  BY <1>1 DEF Components
<1> HIDE DEF on
<1>4. d \in Components /\ d.scriptID = id /\ d.config = c.config /\ d.isStarted = c.isStarted
  BY <1>1, <1>3 DEF Components
<1> HIDE DEF d
<1>5. /\ f = [k \in DOMAIN f |-> f[k]] /\ DOMAIN f = DOMAIN s.of /\ f[key] = d
      /\ \A k \in DOMAIN f : k # key => f[k] = s.of[k]
  BY DEF System, Hosting
<1> HIDE DEF f, t
<1>6. t.vm = w /\ t.of = f /\ t = [vm |-> t.vm, of |-> t.of]
  BY <1>2
<1> HIDE DEF lv, id
<1>7. /\ VmTypes(w) /\ w.next = lv.next /\ w.staleRef = lv.staleRef
      /\ DOMAIN w.scripts = DOMAIN lv.scripts
      /\ \A other \in DOMAIN lv.scripts :
           Slot(w, other) = Slot(lv, other) /\ w.scripts[other].reloaded = lv.scripts[other].reloaded
      /\ \A slot \in 1..Len(lv.registry) : w.registry[slot] = Released <=> lv.registry[slot] = Released
      /\ \A some : Owned(lv, some) /\ id \in some =>
           /\ Owned(w, some)
           /\ \A other \in some : other # id => Ran(w, other) = Ran(lv, other)
           /\ Ran(w, id) = IF succeeds THEN Ran(lv, id) \cup ({callback} \cap Watched) ELSE Ran(lv, id)
  BY <1>1, CalledIsSound
<1> HIDE DEF w, succeeds
<1> USE DEF lv, id
<1>8. ~lv.staleRef =>
        /\ Owned(w, owners)
        /\ \A other \in owners : other # id => Ran(w, other) = Ran(lv, other)
        /\ Ran(w, id) = IF succeeds THEN Ran(lv, id) \cup ({callback} \cap Watched) ELSE Ran(lv, id)
  BY <1>1, <1>7 DEF SoundVm
<1>9. SoundVm(w)
  BY <1>7, <1>8 DEF SoundVm
<1>10. \A k \in DOMAIN f : /\ f[k] \in Components /\ f[k].scriptID = s.of[k].scriptID
                           /\ f[k].config = s.of[k].config /\ f[k].isStarted = s.of[k].isStarted
  BY <1>4, <1>5 DEF System, Hosting
<1>11. Hosting(w, f)
  BY <1>5, <1>7, <1>10 DEF System, Hosting
<1>12. StartedFirst(w, f)
  <2> SUFFICES ASSUME ~lv.staleRef, NEW k \in DOMAIN f, ~w.scripts[f[k].scriptID].reloaded
               PROVE  /\ f[k].isStarted => "OnStart" \in Ran(w, f[k].scriptID)
                      /\ f[k].config.autoStart /\ "OnUpdate" \in Ran(w, f[k].scriptID)
                           => "OnStart" \in Ran(w, f[k].scriptID)
    BY <1>7 DEF StartedFirst
  <2> DEFINE i == s.of[k].scriptID
  <2>1. /\ f[k].scriptID = i /\ i \in owners /\ f[k].config = s.of[k].config /\ f[k].isStarted = s.of[k].isStarted
        /\ i = id => k = key
    BY <1>5, <1>10 DEF System, Hosting
  <2>2. ~lv.scripts[i].reloaded
    BY <1>7, <2>1
  <2>3. /\ s.of[k].isStarted => "OnStart" \in Ran(lv, i)
        /\ s.of[k].config.autoStart /\ "OnUpdate" \in Ran(lv, i) => "OnStart" \in Ran(lv, i)
    BY <1>5, <2>2 DEF System, StartedFirst
  <2>4. CASE i # id
    BY <1>8, <2>1, <2>3, <2>4
  <2>5. CASE i = id
    <3>1. k = key
      BY <2>1, <2>5
    <3>2. Ran(lv, id) \subseteq Ran(w, id) /\ Ran(w, id) \subseteq Ran(lv, id) \cup {callback}
      BY <1>8
    <3>3. callback = "OnUpdate" => (s.of[k].config.autoStart => s.of[k].isStarted)
      BY <3>1
    <3>4. QED
      BY <2>1, <2>3, <2>5, <3>2, <3>3
  <2>6. QED
    BY <2>4, <2>5
<1>13. System(t)
  BY <1>6, <1>9, <1>11, <1>12 DEF System
<1>14. \A other \in DOMAIN lv.scripts :
         w.registry[Slot(w, other)] = Released <=> lv.registry[Slot(lv, other)] = Released
  <2>1. \A other \in DOMAIN lv.scripts : Slot(lv, other) \in 1..Len(lv.registry)
    BY <1>1 DEF VmTypes, Slot
  <2>2. QED
    BY <1>7, <2>1
<1>15. Alike(s, t)
  BY <1>5, <1>6, <1>7, <1>10, <1>13, <1>14 DEF Alike
<1>16. callback = "OnStart" /\ succeeds /\ ~lv.staleRef => "OnStart" \in Ran(w, id)
  BY <1>8 DEF Watched
<1>17. QED
  BY <1>1, <1>4, <1>5, <1>6, <1>7, <1>15, <1>16 DEF t, succeeds

\* StartScript: a component is started once its environment has seen OnStart.
LEMMA StartIsSound ==
  ASSUME NEW s, System(s), NEW key \in DOMAIN s.of, NEW end
  PROVE  Alike(s, StartScript(s, key, end))
<1> DEFINE start == "OnStart"
           id == s.of[key].scriptID
           succeeds == Answers(s.vm, id, end)
           called == CallScriptCallback(s, key, start, end)
           c == [called.of[key] EXCEPT !.isStarted = succeeds]
           t == SetComponent(called, key, c)
<1>1. start = "OnStart" /\ succeeds \in BOOLEAN
  BY DEF Answers
<1>2. StartScript(s, key, end) = IF s.of[key].isStarted \/ ~s.of[key].isEnabled THEN s ELSE t
  BY DEF StartScript
<1> HIDE DEF start
<1>3. /\ Alike(s, called)
      /\ called.of[key] \in Components
      /\ start = "OnStart" /\ succeeds /\ ~s.vm.staleRef => "OnStart" \in Ran(called.vm, id)
      /\ called.vm.staleRef = s.vm.staleRef
  BY <1>1, CallbackIsSound
<1>4. System(called) /\ key \in DOMAIN called.of /\ called.of[key].scriptID = id
  BY <1>3 DEF Alike
<1> HIDE DEF called, succeeds
<1>5. /\ c \in Components /\ c.scriptID = called.of[key].scriptID /\ c.config = called.of[key].config
      /\ c.isStarted = succeeds
  BY <1>1, <1>3 DEF Components
<1> HIDE DEF c
<1>6. c.isStarted => \/ called.of[key].isStarted
                     \/ called.vm.staleRef \/ called.vm.scripts[c.scriptID].reloaded
                     \/ "OnStart" \in Ran(called.vm, c.scriptID)
  BY <1>1, <1>3, <1>4, <1>5
<1>7. Alike(called, t)
  BY <1>4, <1>5, <1>6, ComponentIsSound
<1>8. Alike(s, t)
  BY <1>3, <1>7, AlikeOn
<1>9. QED
  BY <1>2, <1>8, AlikeNot

\* ScriptComponent::Update: one that starts by itself is not updated before it has.
LEMMA ComponentUpdateIsSound ==
  ASSUME NEW s, System(s), NEW key \in DOMAIN s.of, NEW ends
  PROVE  Alike(s, UpdateComponent(s, key, ends))
<1> DEFINE starts == s.of[key].config.autoStart /\ ~s.of[key].isStarted
           ready == IF starts THEN StartScript(s, key, ends.start) ELSE s
           script == ready.of[key]
           since == script.timeSinceLastUpdate + 1
           Later(frames) == [script EXCEPT !.timeSinceLastUpdate = frames]
           Waited(frames) == SetComponent(ready, key, Later(frames))
           waited == Waited(0)
           update == "OnUpdate"
           called == CallScriptCallback(waited, key, update, ends.update)
<1>1. UpdateComponent(s, key, ends) =
        IF ~s.of[key].isEnabled THEN s
        ELSE IF starts /\ ~(script.isEnabled /\ script.isStarted) THEN ready
        ELSE IF since < script.config.updateInterval THEN Waited(since)
        ELSE called
  BY DEF UpdateComponent
<1>2. Alike(s, ready)
  <2>1. Alike(s, StartScript(s, key, ends.start))
    BY StartIsSound
  <2>2. QED
    BY <2>1, AlikeNot
<1>3. /\ System(ready) /\ key \in DOMAIN ready.of /\ script.config = s.of[key].config
      /\ ~starts => script.isStarted = s.of[key].isStarted
  BY <1>2 DEF Alike
<1> HIDE DEF ready
<1>4. script \in Components /\ since \in Nat
  BY <1>3 DEF System, Hosting, Components
<1>5. ASSUME NEW frames \in Nat
      PROVE  /\ Alike(ready, Waited(frames)) /\ Waited(frames).vm = ready.vm
             /\ Waited(frames).of[key] = Later(frames)
             /\ Later(frames).config = script.config /\ Later(frames).isStarted = script.isStarted
  <2> DEFINE c == Later(frames)
  <2>1. c \in Components /\ c.scriptID = script.scriptID /\ c.config = script.config /\ c.isStarted = script.isStarted
    BY <1>4, <1>5 DEF Components
  <2> HIDE DEF c
  <2>2. Alike(ready, SetComponent(ready, key, c)) /\ SetComponent(ready, key, c).vm = ready.vm
        /\ SetComponent(ready, key, c).of[key] = c
    BY <1>3, <2>1, ComponentIsSound
  <2>3. QED
    BY <2>1, <2>2 DEF c
<1>6. CASE ~(starts /\ ~(script.isEnabled /\ script.isStarted))
  <2>1. /\ Alike(ready, waited) /\ waited.of[key].config = script.config /\ waited.of[key].isStarted = script.isStarted
    BY <1>5
  <2>2. System(waited) /\ key \in DOMAIN waited.of
    BY <1>3, <2>1 DEF Alike
  <2> HIDE DEF waited
  <2>3. update = "OnUpdate" => (waited.of[key].config.autoStart => waited.of[key].isStarted)
    BY <1>3, <1>6, <2>1
  <2> HIDE DEF update
  <2>4. Alike(waited, called)
    BY <2>2, <2>3, CallbackIsSound
  <2>5. Alike(ready, called)
    BY <1>3, <2>1, <2>4, AlikeOn
  <2>6. Alike(s, called)
    BY <1>2, <2>5, AlikeOn
  <2>7. Alike(s, Waited(since))
    BY <1>2, <1>4, <1>5, AlikeOn
  <2>8. QED
    BY <1>1, <1>6, <2>6, <2>7, AlikeNot DEF waited
<1>7. CASE starts /\ ~(script.isEnabled /\ script.isStarted)
  BY <1>1, <1>2, <1>7, AlikeNot
<1>8. QED
  BY <1>6, <1>7

-----------------------------------------------------------------------------
(* The inductive invariant of the script system.                           *)
Visited(queue) == Distinct(queue, ScriptKeys) /\ ToSet(queue) \subseteq DOMAIN hosted.of

HostInv ==
  /\ hosted = [of |-> hosted.of, order |-> hosted.order]
  /\ System(Now)
  /\ Visited(hosted.order) /\ DOMAIN hosted.of \subseteq ToSet(hosted.order)

ScriptInv ==
  /\ HostInv
  /\ visits = [starting |-> visits.starting, updating |-> visits.updating]
  /\ Visited(visits.starting) /\ Visited(visits.updating)

\* A step that only calls callbacks keeps the components and their order.
LEMMA CallbackKeeps ==
  ASSUME HostInv, NEW s, Alike(Now, s), Becomes(s)
  PROVE  HostInv' /\ DOMAIN hosted'.of = DOMAIN hosted.of
<1>1. s = [vm |-> s.vm, of |-> s.of] /\ System(s) /\ DOMAIN s.of = DOMAIN hosted.of
  BY DEF Alike, System, Now
<1>2. hosted' = [of |-> s.of, order |-> hosted.order] /\ lua' = s.vm
  BY DEF Becomes, HostInv
<1>3. hosted'.of = s.of /\ hosted'.order = hosted.order
  BY <1>2
<1>4. Now' = s
  BY <1>1, <1>2, <1>3 DEF Now
<1>5. System(Now')
  BY <1>1, <1>4
<1>6. QED
  BY <1>1, <1>2, <1>3, <1>5 DEF HostInv, Visited

\* Between the loops there is nobody to visit.
LEMMA IdleVisitsNobody ==
  ASSUME Idle, UNCHANGED visits
  PROVE  /\ visits' = [starting |-> visits'.starting, updating |-> visits'.updating]
         /\ Visited(visits.starting)' /\ Visited(visits.updating)'
<1>1. visits' = [starting |-> << >>, updating |-> << >>]
  BY DEF Idle, NoVisits
<1>2. visits'.starting = << >> /\ visits'.updating = << >>
  BY <1>1
<1>3. QED
  BY <1>1, <1>2, EmptyDistinct DEF Visited

\* Each visit leaves one fewer.
LEMMA VisitedOn ==
  ASSUME NEW queue, Visited(queue)
  PROVE  Visited(<< >>) /\ (queue # << >> => Visited(Tail(queue)))
<1>1. Visited(<< >>)
  BY EmptyDistinct DEF Visited
<1>2. queue # << >> => Distinct(Tail(queue), ScriptKeys) /\ ToSet(Tail(queue)) = ToSet(queue) \ {Head(queue)}
  BY TailDistinct DEF Visited
<1>3. QED
  BY <1>1, <1>2 DEF Visited

\* A loop starts with all components, and its visits go on to the next.
LEMMA VisitGoesOn ==
  ASSUME ScriptInv, NEW starting, NEW updating,
         visits' = [starting |-> starting, updating |-> updating],
         \/ starting = << >>
         \/ starting = hosted.order
         \/ starting = visits.starting
         \/ visits.starting # << >> /\ starting = Tail(visits.starting),
         \/ updating = << >>
         \/ updating = hosted.order
         \/ updating = visits.updating
         \/ visits.updating # << >> /\ updating = Tail(visits.updating),
         DOMAIN hosted'.of = DOMAIN hosted.of
  PROVE  /\ visits' = [starting |-> visits'.starting, updating |-> visits'.updating]
         /\ Visited(visits.starting)' /\ Visited(visits.updating)'
<1>1. visits'.starting = starting /\ visits'.updating = updating
  OBVIOUS
<1>2. Visited(starting)
  BY VisitedOn DEF ScriptInv, HostInv
<1>3. Visited(updating)
  BY VisitedOn DEF ScriptInv, HostInv
<1>4. QED
  BY <1>1, <1>2, <1>3 DEF Visited

\* UpdateScripts and the visits of its loop.
LEMMA UpdateKeeps ==
  ASSUME ScriptInv, UpdateScripts \/ VisitToUpdate
  PROVE  ScriptInv'
<1>1. CASE UpdateScripts
  <2>1. visits' = [starting |-> << >>, updating |-> hosted.order] /\ UNCHANGED <<lua, hosted>>
    BY <1>1 DEF UpdateScripts, NoVisits
  <2>2. HostInv'
    BY <2>1 DEF ScriptInv, HostInv, Now, Visited
  <2>3. QED
    BY <2>1, <2>2, VisitGoesOn DEF ScriptInv
<1>2. CASE VisitToUpdate
  <2> DEFINE key == Head(visits.updating)
  <2>1. PICK ends : Becomes(UpdateComponent(Now, key, ends))
    BY <1>2 DEF VisitToUpdate
  <2>2. visits.updating # << >> /\ visits' = [starting |-> visits.starting, updating |-> Tail(visits.updating)]
    BY <1>2 DEF VisitToUpdate, ScriptInv
  <2>3. key \in DOMAIN Now.of /\ System(Now)
    BY <2>2, TailDistinct DEF ScriptInv, HostInv, Visited, Now
  <2> DEFINE s == UpdateComponent(Now, key, ends)
  <2>4. Alike(Now, s)
    BY <2>3, ComponentUpdateIsSound
  <2> HIDE DEF s
  <2>5. HostInv' /\ DOMAIN hosted'.of = DOMAIN hosted.of
    BY <2>1, <2>4, CallbackKeeps DEF ScriptInv, s
  <2>6. QED
    BY <2>2, <2>5, VisitGoesOn DEF ScriptInv
<1>3. QED
  BY <1>1, <1>2

\* InitializeScripts and the visits of its loop.
LEMMA InitializeKeeps ==
  ASSUME ScriptInv, InitializeScripts \/ VisitToStart
  PROVE  ScriptInv'
<1>1. CASE InitializeScripts
  <2>1. visits' = [starting |-> hosted.order, updating |-> << >>] /\ UNCHANGED <<lua, hosted>>
    BY <1>1 DEF InitializeScripts, NoVisits
  <2>2. HostInv'
    BY <2>1 DEF ScriptInv, HostInv, Now, Visited
  <2>3. QED
    BY <2>1, <2>2, VisitGoesOn DEF ScriptInv
<1>2. CASE VisitToStart
  <2> DEFINE key == Head(visits.starting)
             S(end) == IF hosted.of[key].config.autoStart THEN StartScript(Now, key, end) ELSE Now
  <2>1. PICK end : Becomes(S(end))
    BY <1>2 DEF VisitToStart
  <2>2. visits.starting # << >> /\ visits' = [starting |-> Tail(visits.starting), updating |-> visits.updating]
    BY <1>2 DEF VisitToStart, ScriptInv
  <2>3. key \in DOMAIN Now.of /\ System(Now)
    BY <2>2, TailDistinct DEF ScriptInv, HostInv, Visited, Now
  <2>4. Alike(Now, StartScript(Now, key, end))
    BY <2>3, StartIsSound
  <2> DEFINE s == S(end)
  <2>5. Alike(Now, s)
    BY <2>3, <2>4, AlikeNot
  <2> HIDE DEF s
  <2>6. HostInv' /\ DOMAIN hosted'.of = DOMAIN hosted.of
    BY <2>1, <2>5, CallbackKeeps DEF ScriptInv, s
  <2>7. QED
    BY <2>2, <2>6, VisitGoesOn DEF ScriptInv
<1>3. QED
  BY <1>1, <1>2

\* A step of the machine alone.
LEMMA MachineKeeps ==
  ASSUME ScriptInv, Idle, UNCHANGED <<hosted, visits>>,
         SoundVm(lua'), Hosting(lua', hosted.of), StartedFirst(lua', hosted.of)
  PROVE  ScriptInv'
<1> DEFINE s == [vm |-> lua', of |-> hosted.of]
<1>1. s = [vm |-> s.vm, of |-> s.of] /\ s.vm = lua' /\ s.of = hosted.of
  OBVIOUS
<1>2. Now' = s
  BY DEF Now
<1> HIDE DEF s
<1>3. System(Now')
  BY <1>1, <1>2 DEF System
<1>4. HostInv'
  BY <1>3 DEF ScriptInv, HostInv, Visited
<1>5. QED
  BY <1>4, IdleVisitsNobody DEF ScriptInv

\* ReloadScript.
LEMMA ReloadKeeps ==
  ASSUME ScriptInv, NEW id, ReloadScript(id)
  PROVE  ScriptInv'
<1>1. PICK text : lua' = Reloaded(lua, id, text)
  BY DEF ReloadScript
<1>2. /\ SoundVm(lua) /\ Hosting(lua, hosted.of) /\ StartedFirst(lua, hosted.of)
      /\ id \in DOMAIN lua.scripts /\ lua.registry[Slot(lua, id)] # Released
  BY DEF ReloadScript, ScriptInv, HostInv, System, Now, Slot
<1> DEFINE w == Reloaded(lua, id, text)
<1>3. /\ SoundVm(w) /\ (~w.staleRef => ~lua.staleRef)
      /\ DOMAIN w.scripts = DOMAIN lua.scripts
      /\ ~w.staleRef => w.scripts[id].reloaded
      /\ \A other \in DOMAIN lua.scripts : other # id =>
           w.scripts[other] = lua.scripts[other] /\ (~w.staleRef => Ran(w, other) = Ran(lua, other))
  BY <1>2, ReloadedIsSound
<1> HIDE DEF w
<1>4. Hosting(w, hosted.of)
  BY <1>2, <1>3 DEF Hosting
<1>5. StartedFirst(w, hosted.of)
  BY <1>2, <1>3 DEF StartedFirst, Hosting
<1>6. QED
  BY <1>1, <1>3, <1>4, <1>5, MachineKeeps DEF ReloadScript, w

\* CallFunction.
LEMMA CallKeeps ==
  ASSUME ScriptInv, NEW key, CallFunction(key)
  PROVE  ScriptInv'
<1> DEFINE id == hosted.of[key].scriptID
           function == "other"
<1>1. PICK end : lua' = CalledFunction(lua, id, function, end)
  BY DEF CallFunction
<1>2. /\ SoundVm(lua) /\ Hosting(lua, hosted.of) /\ StartedFirst(lua, hosted.of) /\ key \in DOMAIN hosted.of
  BY DEF CallFunction, ScriptInv, HostInv, System, Now
<1>3. id \in DOMAIN lua.scripts /\ VmTypes(lua) /\ function \notin Watched
  BY <1>2 DEF Hosting, SoundVm, Watched
<1> DEFINE w == CalledFunction(lua, id, function, end)
<1> HIDE DEF id, function
<1>4. /\ VmTypes(w) /\ w.staleRef = lua.staleRef
      /\ DOMAIN w.scripts = DOMAIN lua.scripts
      /\ \A other \in DOMAIN lua.scripts : w.scripts[other].reloaded = lua.scripts[other].reloaded
      /\ \A some : Owned(lua, some) /\ id \in some =>
           /\ Owned(w, some)
           /\ \A other \in some : other # id => Ran(w, other) = Ran(lua, other)
           /\ Ran(w, id) = IF Answers(lua, id, end) THEN Ran(lua, id) \cup ({function} \cap Watched) ELSE Ran(lua, id)
  BY <1>3, CalledIsSound
<1> HIDE DEF w
<1>5. ~lua.staleRef => Owned(w, DOMAIN w.scripts) /\ \A other \in DOMAIN lua.scripts : Ran(w, other) = Ran(lua, other)
  <2> SUFFICES ASSUME ~lua.staleRef
               PROVE  Owned(w, DOMAIN w.scripts) /\ \A other \in DOMAIN lua.scripts : Ran(w, other) = Ran(lua, other)
    OBVIOUS
  <2>1. /\ Owned(w, DOMAIN lua.scripts)
        /\ \A other \in DOMAIN lua.scripts : other # id => Ran(w, other) = Ran(lua, other)
        /\ Ran(w, id) = IF Answers(lua, id, end) THEN Ran(lua, id) \cup ({function} \cap Watched) ELSE Ran(lua, id)
    BY <1>2, <1>3, <1>4 DEF SoundVm
  <2>2. Ran(w, id) = Ran(lua, id)
    BY <1>3, <2>1
  <2>3. QED
    BY <1>4, <2>1, <2>2
<1>6. SoundVm(w)
  BY <1>4, <1>5 DEF SoundVm
<1>7. Hosting(w, hosted.of)
  BY <1>2, <1>4 DEF Hosting
<1>8. StartedFirst(w, hosted.of)
  BY <1>2, <1>4, <1>5 DEF StartedFirst, Hosting
<1>9. QED
  BY <1>1, <1>6, <1>7, <1>8, MachineKeeps DEF CallFunction, w

\* EnableScript and DisableScript.
LEMMA SwitchKeeps ==
  ASSUME ScriptInv, NEW key, NEW on \in BOOLEAN, SwitchScript(key, on)
  PROVE  ScriptInv'
<1> DEFINE c == [hosted.of[key] EXCEPT !.isEnabled = on]
           set == SetComponent(Now, key, c)
           callback == IF on THEN "OnEnable" ELSE "OnDisable"
<1>1. PICK end : Becomes(CallScriptCallback(set, key, callback, end))
  BY DEF SwitchScript
<1>2. System(Now) /\ Now.of = hosted.of /\ key \in DOMAIN Now.of /\ Now.of[key] \in Components
  BY DEF SwitchScript, ScriptInv, HostInv, System, Hosting, Now
<1>3. /\ c \in Components /\ c.scriptID = Now.of[key].scriptID /\ c.config = Now.of[key].config
      /\ c.isStarted = Now.of[key].isStarted
  BY <1>2 DEF Components
<1>4. callback # "OnUpdate"
  OBVIOUS
<1> HIDE DEF c, callback
<1>5. Alike(Now, set)
  BY <1>2, <1>3, ComponentIsSound
<1>6. System(set) /\ key \in DOMAIN set.of
  BY <1>2, <1>5 DEF Alike
<1> HIDE DEF set
<1> DEFINE s == CallScriptCallback(set, key, callback, end)
<1>7. Alike(set, s)
  BY <1>4, <1>6, CallbackIsSound
<1>8. Alike(Now, s)
  BY <1>2, <1>5, <1>7, AlikeOn
<1> HIDE DEF s
<1>9. HostInv'
  BY <1>1, <1>8, CallbackKeeps DEF ScriptInv, s
<1>10. QED
  BY <1>9, IdleVisitsNobody DEF ScriptInv, SwitchScript

\* What holds of the components before a script is added or removed.
LEMMA Hosted ==
  ASSUME ScriptInv
  PROVE  /\ SoundVm(lua) /\ Hosting(lua, hosted.of) /\ StartedFirst(lua, hosted.of)
         /\ Distinct(hosted.order, ScriptKeys) /\ ToSet(hosted.order) = DOMAIN hosted.of
BY DEF ScriptInv, HostInv, System, Now, Visited

\* Components and order are written anew.
LEMMA WrittenKeeps ==
  ASSUME ScriptInv, Idle, UNCHANGED visits, NEW of, NEW order,
         hosted' = [of |-> of, order |-> order], SoundVm(lua'), Hosting(lua', of), StartedFirst(lua', of),
         Distinct(order, ScriptKeys), ToSet(order) = DOMAIN of
  PROVE  ScriptInv'
<1>1. hosted'.of = of /\ hosted'.order = order
  OBVIOUS
<1> DEFINE s == [vm |-> lua', of |-> of]
<1>2. s = [vm |-> s.vm, of |-> s.of] /\ s.vm = lua' /\ s.of = of
  OBVIOUS
<1>3. Now' = s
  BY <1>1 DEF Now
<1> HIDE DEF s
<1>4. System(Now')
  BY <1>2, <1>3 DEF System
<1>5. HostInv'
  BY <1>1, <1>4 DEF HostInv, Visited
<1>6. QED
  BY <1>5, IdleVisitsNobody DEF ScriptInv

\* AddScriptComponent: nothing is loaded for an entity that has the script.
LEMMA AddKeeps ==
  ASSUME ScriptInv, NEW key \in ScriptKeys, AddScriptComponent(key)
  PROVE  ScriptInv'
<1>1. PICK config \in ScriptConfigs, text \in {"good", "bad"} :
        /\ lua' = LoadedScript(lua, text)
        /\ hosted' = IF text = "bad" THEN hosted
                     ELSE [of |-> [k \in DOMAIN hosted.of \cup {key} |-> IF k = key THEN Component(config) ELSE hosted.of[k]],
                           order |-> Append(hosted.order, key)]
  BY DEF AddScriptComponent
<1> DEFINE w == LoadedScript(lua, text)
           id == lua.next
           c == Component(config)
           of == hosted.of
           f == [k \in DOMAIN of \cup {key} |-> IF k = key THEN c ELSE of[k]]
           order == Append(hosted.order, key)
<1>2. /\ SoundVm(w) /\ w.staleRef = lua.staleRef /\ id \in Nat /\ id \notin DOMAIN lua.scripts
      /\ DOMAIN w.scripts = IF text = "bad" THEN DOMAIN lua.scripts ELSE DOMAIN lua.scripts \cup {id}
      /\ text # "bad" => ~w.scripts[id].reloaded /\ (~lua.staleRef => Ran(w, id) = {})
      /\ \A other \in DOMAIN lua.scripts :
           w.scripts[other] = lua.scripts[other] /\ (~lua.staleRef => Ran(w, other) = Ran(lua, other))
  BY Hosted, LoadedIsSound
<1> HIDE DEF w
<1>3. key \notin DOMAIN of /\ Idle /\ UNCHANGED visits
  BY DEF AddScriptComponent
<1>4. CASE text = "bad"
  <2>1. Hosting(w, of)
    BY <1>2, <1>4, Hosted DEF Hosting
  <2>2. StartedFirst(w, of)
    BY <1>2, <1>4, Hosted DEF StartedFirst, Hosting
  <2>3. QED
    BY <1>1, <1>2, <1>3, <1>4, <2>1, <2>2, MachineKeeps DEF w
<1>5. CASE text # "bad"
  <2>1. /\ f = [k \in DOMAIN f |-> f[k]] /\ DOMAIN f = DOMAIN of \cup {key} /\ f[key] = c
        /\ \A k \in DOMAIN of : f[k] = of[k]
    BY <1>3
  <2>2. /\ c \in Components /\ c.scriptID = id /\ ~c.isStarted
    BY <1>2, ScriptAssumption DEF Component, Components
  <2> HIDE DEF c, id
  <2>3. Distinct(order, ScriptKeys) /\ ToSet(order) = DOMAIN of \cup {key}
    BY <1>3, Hosted, AppendDistinct
  <2>4. hosted' = [of |-> f, order |-> order]
    BY <1>1, <1>5 DEF c
  <2> HIDE DEF f, order
  <2>5. \A k \in DOMAIN of : /\ of[k] \in Components /\ of[k].scriptID \in DOMAIN lua.scripts
                             /\ of[k].scriptID # id
    BY <1>2, Hosted DEF Hosting
  <2>6. Hosting(w, f)
    <3>1. \A k \in DOMAIN f : f[k] \in Components /\ f[k].scriptID \in DOMAIN w.scripts
      BY <1>2, <1>5, <2>1, <2>2, <2>5
    <3>2. \A k, other \in DOMAIN f : f[k].scriptID = f[other].scriptID => k = other
      BY <2>1, <2>2, <2>5, Hosted DEF Hosting
    <3>3. \A i \in DOMAIN w.scripts : \E k \in DOMAIN f : f[k].scriptID = i
      BY <1>2, <1>5, <2>1, <2>2, Hosted DEF Hosting
    <3>4. QED
      BY <2>1, <3>1, <3>2, <3>3, Hosted DEF Hosting
  <2>7. StartedFirst(w, f)
    <3> SUFFICES ASSUME ~w.staleRef, NEW k \in DOMAIN f, ~w.scripts[f[k].scriptID].reloaded
                 PROVE  /\ f[k].isStarted => "OnStart" \in Ran(w, f[k].scriptID)
                        /\ f[k].config.autoStart /\ "OnUpdate" \in Ran(w, f[k].scriptID)
                             => "OnStart" \in Ran(w, f[k].scriptID)
      BY DEF StartedFirst
    <3>1. CASE k = key
      BY <1>2, <1>5, <2>1, <2>2, <3>1
    <3>2. CASE k # key
      BY <1>2, <2>1, <2>5, <3>2, Hosted DEF StartedFirst
    <3>3. QED
      BY <3>1, <3>2
  <2>8. QED
    BY <1>1, <1>2, <1>3, <2>1, <2>3, <2>4, <2>6, <2>7, WrittenKeeps DEF w
<1>6. QED
  BY <1>4, <1>5

\* RemoveScriptComponent: OnDestroy, and then the script is unloaded.
LEMMA RemoveKeeps ==
  ASSUME ScriptInv, NEW key, RemoveScriptComponent(key)
  PROVE  ScriptInv'
<1> DEFINE destroy == "OnDestroy"
           S(end) == CallScriptCallback(Now, key, destroy, end)
<1>1. PICK end : /\ lua' = Unloaded(S(end).vm, S(end).of[key].scriptID)
                 /\ hosted' = [of |-> [k \in DOMAIN S(end).of \ {key} |-> S(end).of[k]],
                               order |-> RemoveFirst(hosted.order, key)]
  BY DEF RemoveScriptComponent
<1> DEFINE s == S(end)
           lv == s.vm
           of == s.of
           id == of[key].scriptID
           w == Unloaded(lv, id)
           f == [k \in DOMAIN of \ {key} |-> of[k]]
           order == RemoveFirst(hosted.order, key)
<1>2. /\ System(Now) /\ key \in DOMAIN Now.of /\ Idle /\ UNCHANGED visits /\ Now.of = hosted.of /\ Now.vm = lua
      /\ lua.registry[Slot(lua, Now.of[key].scriptID)] # Released
      /\ Now.of[key].scriptID \in DOMAIN lua.scripts
  BY DEF RemoveScriptComponent, ScriptInv, HostInv, System, Hosting, Now, Slot
<1>3. destroy # "OnUpdate"
  OBVIOUS
<1> HIDE DEF destroy
<1>4. Alike(Now, s)
  BY <1>2, <1>3, CallbackIsSound
<1> HIDE DEF s
<1>5. /\ DOMAIN of = DOMAIN hosted.of /\ key \in DOMAIN of
      /\ SoundVm(lv) /\ Hosting(lv, of) /\ StartedFirst(lv, of)
      /\ id \in DOMAIN lv.scripts /\ lv.registry[Slot(lv, id)] # Released
  BY <1>2, <1>4 DEF Alike, System
<1>6. lua' = w /\ hosted' = [of |-> f, order |-> order]
  BY <1>1 DEF s
<1> HIDE DEF lv, of, id
<1>7. /\ SoundVm(w) /\ w.staleRef = lv.staleRef
      /\ DOMAIN w.scripts = DOMAIN lv.scripts \ {id}
      /\ \A other \in DOMAIN w.scripts :
           w.scripts[other] = lv.scripts[other] /\ (~lv.staleRef => Ran(w, other) = Ran(lv, other))
  BY <1>5, UnloadedIsSound
<1>8. /\ f = [k \in DOMAIN f |-> f[k]] /\ DOMAIN f = DOMAIN of \ {key}
      /\ \A k \in DOMAIN f : f[k] = of[k]
  OBVIOUS
<1>9. Distinct(order, ScriptKeys) /\ ToSet(order) = DOMAIN f
  BY <1>5, Hosted, RemoveFirstDistinct
<1> HIDE DEF w, f, order
<1>10. \A k \in DOMAIN f : of[k].scriptID # id /\ of[k].scriptID \in DOMAIN w.scripts
  BY <1>5, <1>7, <1>8 DEF Hosting, id
<1>11. Hosting(w, f)
  <2>1. \A i \in DOMAIN w.scripts : \E k \in DOMAIN f : f[k].scriptID = i
    BY <1>5, <1>7, <1>8 DEF Hosting, id
  <2>2. QED
    BY <1>5, <1>8, <1>10, <2>1 DEF Hosting
<1>12. StartedFirst(w, f)
  BY <1>5, <1>7, <1>8, <1>10 DEF StartedFirst
<1>13. QED
  BY <1>2, <1>6, <1>7, <1>9, <1>11, <1>12, WrittenKeeps

\* Before anything is loaded.
LEMMA ScriptsStart ==
  ASSUME ScriptInit
  PROVE  ScriptInv
<1>1. /\ lua = [scripts |-> << >>, next |-> 1, registry |-> << >>, unused |-> << >>, staleRef |-> FALSE]
      /\ hosted = [of |-> << >>, order |-> << >>] /\ visits = [starting |-> << >>, updating |-> << >>]
  BY DEF ScriptInit, NoVisits
<1>2. /\ lua.scripts = << >> /\ lua.next = 1 /\ lua.registry = << >> /\ lua.unused = << >> /\ lua.staleRef = FALSE
      /\ hosted.of = << >> /\ hosted.order = << >> /\ visits.starting = << >> /\ visits.updating = << >>
  BY <1>1
<1>3. /\ DOMAIN << >> = {} /\ << >> = [k \in DOMAIN << >> |-> << >>[k]]
      /\ << >> \in Seq(Table \cup {Released}) /\ Len(<< >>) = 0 /\ 1..0 = {}
  BY EmptySeq
<1>4. Distinct(<< >>, 1..0) /\ Distinct(<< >>, ScriptKeys) /\ ToSet(<< >>) = {}
  BY EmptyDistinct
<1>5. lua.next \in Nat \ {0} /\ lua.staleRef \in BOOLEAN
  <2>1. lua.next \in Nat \ {0}
    BY <1>2
  <2>2. lua.staleRef \in BOOLEAN
    BY <1>2, Zenon
  <2>3. QED
    BY <2>1, <2>2
<1>6. VmTypes(lua)
  BY <1>1, <1>2, <1>3, <1>4, <1>5 DEF VmTypes
<1>7. SoundVm(lua)
  BY <1>2, <1>3, <1>6 DEF SoundVm, Owned
<1>8. Hosting(lua, hosted.of)
  BY <1>2, <1>3 DEF Hosting
<1>9. StartedFirst(lua, hosted.of)
  BY <1>2, <1>3 DEF StartedFirst
<1>10. System(Now)
  BY <1>7, <1>8, <1>9 DEF System, Now
<1>11. QED
  BY <1>1, <1>2, <1>3, <1>4, <1>10 DEF ScriptInv, HostInv, Visited

\* As many scripts as components.
LEMMA OneScriptEach ==
  ASSUME ScriptInv
  PROVE  Cardinality(DOMAIN lua.scripts) = Cardinality(DOMAIN hosted.of)
<1> DEFINE A == DOMAIN hosted.of
           B == DOMAIN lua.scripts
           g == [key \in A |-> hosted.of[key].scriptID]
<1>1. SoundVm(lua) /\ Hosting(lua, hosted.of) /\ ToSet(hosted.order) = A /\ Distinct(hosted.order, ScriptKeys)
  BY Hosted
<1>2. g \in [A -> B] /\ (\A k, l \in A : g[k] = g[l] => k = l) /\ \A b \in B : \E k \in A : g[k] = b
  BY <1>1 DEF Hosting
<1> HIDE DEF g
<1>3. g \in Injection(A, B) /\ g \in Surjection(A, B)
  BY <1>2 DEF Injection, Surjection, IsInjective
<1>4. lua.next \in Nat /\ \A b \in B : b \in 0..lua.next
  BY <1>1 DEF SoundVm, VmTypes
<1>5. IsFiniteSet(B)
  <2>1. B \in SUBSET (0..lua.next)
    BY <1>4
  <2>2. IsFiniteSet(0..lua.next)
    BY <1>4, FS_Interval
  <2>3. QED
    BY <2>1, <2>2, FS_Subset
<1>6. QED
  BY <1>3, <1>5, FS_Injection

\* The steps.
LEMMA ScriptsStep ==
  ASSUME ScriptInv, [ScriptNext]_scriptVars
  PROVE  ScriptInv'
<1>1. CASE UNCHANGED scriptVars
  BY <1>1 DEF scriptVars, ScriptInv, HostInv, Now, Visited
<1>2. CASE ScriptNext
  BY <1>2, UpdateKeeps, InitializeKeeps, ReloadKeeps, AddKeeps, RemoveKeeps, CallKeeps, SwitchKeeps DEF ScriptNext
<1>3. QED
  BY <1>1, <1>2

(* Whatever the scripts do when they are loaded and called, and however    *)
(* components are added, started, updated, enabled, disabled, called,      *)
(* reloaded and removed: each script loaded is on one entity, once in the  *)
(* order of updates; as long as no reload failed its environment is its    *)
(* own and no slot of the registry is leaked; and OnUpdate never comes     *)
(* before OnStart (ScriptSystem, LuaVM::LoadScriptFromString, UnloadScript).*)
THEOREM ScriptsAreSound == ScriptSpec => []ScriptsSound
<1>1. ScriptInit => ScriptInv
  BY ScriptsStart
<1>2. ScriptInv /\ [ScriptNext]_scriptVars => ScriptInv'
  BY ScriptsStep
<1>3. ScriptInv => ScriptsSound
  <2> SUFFICES ASSUME ScriptInv
               PROVE  ScriptsSound
    OBVIOUS
  <2>1. /\ SoundVm(lua) /\ Hosting(lua, hosted.of) /\ StartedFirst(lua, hosted.of)
        /\ Distinct(hosted.order, ScriptKeys) /\ ToSet(hosted.order) = DOMAIN hosted.of
    BY Hosted
  <2>2. ToSet(hosted.order) = DOMAIN hosted.of /\ IsInjective(hosted.order)
    BY <2>1 DEF Distinct
  <2>3. DOMAIN lua.scripts = {hosted.of[key].scriptID : key \in DOMAIN hosted.of}
    BY <2>1 DEF Hosting
  <2>4. ASSUME ~lua.staleRef
        PROVE  /\ \A id \in DOMAIN lua.scripts : TableOf(id) # Released /\ TableOf(id).script = id
               /\ {slot \in DOMAIN lua.registry : lua.registry[slot] # Released} =
                    {lua.scripts[id].environmentRef : id \in DOMAIN lua.scripts}
    <3>1. Owned(lua, DOMAIN lua.scripts) /\ VmTypes(lua)
      BY <2>1, <2>4 DEF SoundVm
    <3>2. DOMAIN lua.registry = 1..Len(lua.registry)
      BY <3>1, LenProperties DEF VmTypes
    <3>3. \A id \in DOMAIN lua.scripts : lua.scripts[id].environmentRef \in 1..Len(lua.registry)
      BY <3>1 DEF VmTypes
    <3>4. QED
      BY <3>1, <3>2, <3>3 DEF Owned, Slot, TableOf
  <2>5. ASSUME ~lua.staleRef, NEW key \in DOMAIN hosted.of
        PROVE  LET id == hosted.of[key].scriptID IN
               (hosted.of[key].config.autoStart /\ ~lua.scripts[id].reloaded /\ "OnUpdate" \in TableOf(id).ran)
                 => "OnStart" \in TableOf(id).ran
    BY <2>1, <2>5 DEF StartedFirst, Ran, Slot, TableOf
  <2>6. QED
    BY <2>2, <2>3, <2>4, <2>5, OneScriptEach DEF ScriptsSound
<1>4. QED
  BY <1>1, <1>2, <1>3, PTL DEF ScriptSpec

-----------------------------------------------------------------------------
(* The inductive invariant.                                                *)
PartsOfMessages == [kind : {"answer", "redraw"}, id : Nat, error : BOOLEAN, part : 1..2]

CallState ==
  [op : {"none", "Start", "Shutdown", "Command", "SendInput"},
   stage : {"none", "quit", "main", "boot", "attach", "redraw", "settle", "undo", "drain"},
   at : {"idle", "send", "wait", "pump", "done", "failed", "boot"}, id : Nat, ids : SUBSET Nat]

SurfaceType ==
  /\ editor \in {"none", "up", "exited"} /\ asked \in Seq(Nat)
  /\ pipe \in Seq(PartsOfMessages) /\ readBuffer \in Seq(PartsOfMessages)
  /\ DOMAIN responses \subseteq Nat /\ responses \in [DOMAIN responses -> BOOLEAN]
  /\ nextMsgId \in Nat /\ call \in CallState /\ returned \in [ok : BOOLEAN, ids : SUBSET Nat]
  /\ shown \in Nat /\ redraws \in Nat /\ good \in SUBSET Nat /\ garbled \in BOOLEAN

(* What was sent by the editor and is not handled yet.                     *)
Stream == readBuffer \o pipe

MessagesOf(s) == 1 .. (Len(s) \div 2)

RedrawsIn(s) == {i \in MessagesOf(s) : s[2 * i].kind = "redraw"}

AnswersIn(s) == {i \in MessagesOf(s) : s[2 * i].kind = "answer"}

InStep ==
  /\ ~garbled /\ InTurn(Stream) /\ Len(readBuffer) <= 1
  /\ editor = "up" => Len(Stream) % 2 = 0

NothingLeft == editor = "none" => readBuffer = <<>> /\ responses = <<>> /\ pipe = <<>> /\ asked = <<>>

RedrawsCounted == shown + Cardinality(RedrawsIn(Stream)) <= redraws

Numbered ==
  /\ \A i \in DOMAIN asked : asked[i] < nextMsgId
  /\ \A i \in AnswersIn(Stream) : Stream[2 * i].id < nextMsgId
  /\ \A id \in DOMAIN responses : id < nextMsgId
  /\ \A id \in call.ids : id < nextMsgId

(* An answer without an error to a request of the call in progress is known *)
(* to be one.                                                              *)
Truthful ==
  /\ \A i \in AnswersIn(Stream) : ~Stream[2 * i].error /\ Stream[2 * i].id \in call.ids => Stream[2 * i].id \in good
  /\ \A id \in DOMAIN responses : ~responses[id] /\ id \in call.ids => id \in good

Earned ==
  /\ call.at \in {"send", "done"} /\ ~Quitting => call.ids \subseteq good
  /\ call.stage \in {"settle", "drain"} => call.ids \subseteq good
  /\ call.at = "wait" => call.ids \ {call.id} \subseteq good
  /\ call.at = "pump" => call.stage \in {"quit", "undo", "settle", "drain"}
  /\ call.at = "send" => call.stage \in {"quit", "undo", "main", "attach", "redraw"}
  /\ call.at = "boot" => call.stage = "boot"
  /\ call.stage = "quit" \/ call.at = "boot" => call.ids = {}
  /\ call.op = "Shutdown" => call.stage = "quit"
  /\ call.at = "boot" => editor = "none"
  /\ returned.ok => returned.ids \subseteq good

SurfaceInv == SurfaceType /\ InStep /\ NothingLeft /\ RedrawsCounted /\ Numbered /\ Truthful /\ Earned

(* What is left of a sequence, of which the first j elements are gone.     *)
Behind(t, s, j) == Len(t) = Len(s) - j /\ \A i \in 1 .. Len(s) - j : t[i] = s[i + j]

(* What is left of a stream, of which the first k messages are gone.       *)
Handled(t, s, k) == 2 * k <= Len(s) /\ Behind(t, s, 2 * k)

-----------------------------------------------------------------------------
\* A message is two parts.
LEMMA MessageType ==
  ASSUME NEW kind \in {"answer", "redraw"}, NEW id \in Nat, NEW error \in BOOLEAN
  PROVE  /\ Message(kind, id, error) \in Seq(PartsOfMessages) /\ Len(Message(kind, id, error)) = 2
         /\ Message(kind, id, error)[1].part = 1
         /\ Message(kind, id, error)[2] = [kind |-> kind, id |-> id, error |-> error, part |-> 2]
<1> DEFINE half(part) == [kind |-> kind, id |-> id, error |-> error, part |-> part]
<1>1. Message(kind, id, error) = <<half(1), half(2)>>
  BY DEF Message
<1>2. half(1) \in PartsOfMessages /\ half(2) \in PartsOfMessages /\ half(1).part = 1
  BY DEF PartsOfMessages
<1>3. QED
  BY <1>1, <1>2

\* A stream of whole messages stays one with a message more.
LEMMA StreamGrows ==
  ASSUME NEW s \in Seq(PartsOfMessages), NEW t \in Seq(PartsOfMessages), NEW last \in Nat,
         Len(s) = 2 * (last - 1), Len(t) = 2 * last, \A i \in 1 .. Len(s) : t[i] = s[i],
         t[2 * last - 1].part = 1, t[2 * last].part = 2
  PROVE  /\ InTurn(s) => InTurn(t)
         /\ MessagesOf(t) = MessagesOf(s) \cup {last} /\ last \notin MessagesOf(s)
         /\ \A i \in MessagesOf(s) : t[2 * i] = s[2 * i]
<1>1. Len(s) \in Nat /\ DOMAIN s = 1 .. Len(s) /\ DOMAIN t = 1 .. Len(t)
  BY LenProperties
<1>2. last \in Nat \ {0} /\ last - 1 \in Nat
  BY <1>1
<1>3. Len(s) \div 2 = last - 1 /\ Len(t) \div 2 = last
  <2>1. PICK n \in Nat : n = last - 1
    BY <1>2
  <2>2. (2 * n) \div 2 = n /\ (2 * last) \div 2 = last
    BY <2>1
  <2>3. QED
    BY <2>1, <2>2
<1>4. InTurn(s) => InTurn(t)
  <2> SUFFICES ASSUME InTurn(s), NEW i \in 1 .. Len(t)
               PROVE  t[i].part = 2 - (i % 2)
    BY <1>1 DEF InTurn
  <2>1. CASE i <= Len(s)
    <3>1. i \in 1 .. Len(s) /\ t[i] = s[i]
      BY <1>1, <2>1
    <3>2. s[i].part = 2 - (i % 2)
      BY <1>1, <3>1 DEF InTurn
    <3>3. QED
      BY <3>1, <3>2
  <2>2. CASE i = 2 * last - 1
    <3>1. i % 2 = 1
      BY <1>2, <2>2
    <3>2. QED
      BY <2>2, <3>1
  <2>3. CASE i = 2 * last
    <3>1. i % 2 = 0
      BY <1>2, <2>3
    <3>2. QED
      BY <2>3, <3>1
  <2>4. i <= Len(s) \/ i = 2 * last - 1 \/ i = 2 * last
    BY <1>1, <1>2
  <2>5. QED
    BY <2>1, <2>2, <2>3, <2>4
<1>5. MessagesOf(s) = 1 .. (last - 1) /\ MessagesOf(t) = 1 .. last
  BY <1>3 DEF MessagesOf
<1>6. MessagesOf(t) = MessagesOf(s) \cup {last} /\ last \notin MessagesOf(s)
  <2>1. 1 .. last = (1 .. (last - 1)) \cup {last} /\ last \notin 1 .. (last - 1)
    BY <1>2
  <2>2. QED
    BY <1>5, <2>1
<1>7. \A i \in MessagesOf(s) : 2 * i \in 1 .. Len(s)
  BY <1>2, <1>5
<1>8. QED
  BY <1>4, <1>6, <1>7

\* A stream of which the last part is gone.
LEMMA StreamCut ==
  ASSUME NEW s \in Seq(PartsOfMessages), NEW t \in Seq(PartsOfMessages), Len(t) <= Len(s),
         \A i \in 1 .. Len(t) : t[i] = s[i], InTurn(s)
  PROVE  /\ InTurn(t) /\ MessagesOf(t) \subseteq MessagesOf(s)
         /\ \A i \in MessagesOf(t) : t[2 * i] = s[2 * i]
<1>1. Len(s) \in Nat /\ Len(t) \in Nat /\ DOMAIN s = 1 .. Len(s) /\ DOMAIN t = 1 .. Len(t)
  BY LenProperties
<1>2. InTurn(t)
  BY <1>1 DEF InTurn
<1>3. MessagesOf(t) \subseteq MessagesOf(s)
  BY <1>1 DEF MessagesOf
<1>4. \A i \in MessagesOf(t) : 2 * i \in 1 .. Len(t)
  BY <1>1 DEF MessagesOf
<1>5. QED
  BY <1>2, <1>3, <1>4

\* A number, in twos.
LEMMA Halves ==
  ASSUME NEW n \in Nat
  PROVE  \E h \in Nat, odd \in 0 .. 1 : n = 2 * h + odd /\ n \div 2 = h /\ n % 2 = odd
<1> DEFINE h == n \div 2
           odd == n % 2
<1>1. h \in Nat /\ odd \in 0 .. 1 /\ n = 2 * h + odd
  OBVIOUS
<1> HIDE DEF h, odd
<1>2. n \div 2 = h /\ n % 2 = odd
  BY DEF h, odd
<1>3. QED
  BY <1>1, <1>2

\* A stream of which the first k messages are gone.
LEMMA StreamDrops ==
  ASSUME NEW s \in Seq(PartsOfMessages), NEW t \in Seq(PartsOfMessages), NEW k \in Nat,
         Handled(t, s, k), InTurn(s)
  PROVE  /\ InTurn(t) /\ Len(t) % 2 = Len(s) % 2
         /\ \A i \in Nat \ {0} : i \in MessagesOf(t) <=> i + k \in MessagesOf(s)
         /\ \A i \in MessagesOf(t) : i \in Nat \ {0} /\ t[2 * i] = s[2 * (i + k)]
         /\ 1 .. k \subseteq MessagesOf(s)
<1>1. /\ Len(s) \in Nat /\ Len(t) \in Nat /\ DOMAIN s = 1 .. Len(s) /\ DOMAIN t = 1 .. Len(t)
      /\ Len(t) = Len(s) - 2 * k /\ 2 * k <= Len(s)
  BY LenProperties DEF Behind, Handled
<1>2. \A i \in 1 .. Len(t) : t[i] = s[i + 2 * k]
  BY <1>1 DEF Behind, Handled
<1>3. \A i \in 1 .. Len(t) : i + 2 * k \in 1 .. Len(s) /\ (i + 2 * k) % 2 = i % 2
  BY <1>1
<1>4. InTurn(t)
  <2> SUFFICES ASSUME NEW i \in 1 .. Len(t)
               PROVE  t[i].part = 2 - (i % 2)
    BY <1>1 DEF InTurn
  <2>1. PICK j \in 1 .. Len(s) : j = i + 2 * k
    BY <1>3
  <2>2. s[j].part = 2 - (j % 2)
    BY <1>1 DEF InTurn
  <2>3. t[i] = s[j]
    BY <1>2, <2>1
  <2>4. 2 - (j % 2) = 2 - (i % 2)
    BY <1>3, <2>1
  <2>5. QED
    BY <2>2, <2>3, <2>4
<1>5. Len(t) % 2 = Len(s) % 2 /\ Len(t) \div 2 = (Len(s) \div 2) - k /\ k <= Len(s) \div 2
  <2>1. PICK h \in Nat, odd \in 0 .. 1 : Len(s) = 2 * h + odd /\ Len(s) \div 2 = h /\ Len(s) % 2 = odd
    BY <1>1, Halves
  <2>2. PICK i \in Nat, even \in 0 .. 1 : Len(t) = 2 * i + even /\ Len(t) \div 2 = i /\ Len(t) % 2 = even
    BY <1>1, Halves
  <2>3. i = h - k /\ even = odd /\ k <= h
    BY <1>1, <2>1, <2>2
  <2>4. QED
    BY <2>1, <2>2, <2>3
<1>6. \A i \in Nat \ {0} : i \in MessagesOf(t) <=> i + k \in MessagesOf(s)
  <2>1. Len(s) \div 2 \in Int
    BY <1>1
  <2>2. QED
    BY <1>5, <2>1 DEF MessagesOf
<1>7. \A i \in MessagesOf(t) : i \in Nat \ {0} /\ 2 * i \in 1 .. Len(t) /\ 2 * i + 2 * k = 2 * (i + k)
  BY <1>1 DEF MessagesOf
<1>8. 1 .. k \subseteq MessagesOf(s)
  BY <1>1, <1>5 DEF MessagesOf
<1>9. ASSUME NEW i \in MessagesOf(t)
      PROVE  i \in Nat \ {0} /\ t[2 * i] = s[2 * (i + k)]
  <2>1. i \in Nat \ {0} /\ 2 * i \in 1 .. Len(t) /\ 2 * i + 2 * k = 2 * (i + k)
    BY <1>7
  <2>2. t[2 * i] = s[2 * i + 2 * k]
    BY <1>2, <2>1
  <2>3. QED
    BY <2>1, <2>2
<1>10. QED
  BY <1>4, <1>5, <1>6, <1>8, <1>9

\* A stream holds finitely many redraws.
LEMMA RedrawsFinite ==
  ASSUME NEW s \in Seq(PartsOfMessages)
  PROVE  IsFiniteSet(RedrawsIn(s)) /\ Cardinality(RedrawsIn(s)) \in Nat
<1>1. Len(s) \in Nat
  BY LenProperties
<1>2. Len(s) \div 2 \in Nat
  BY <1>1
<1>3. IsFiniteSet(1 .. (Len(s) \div 2))
  BY <1>2, FS_Interval
<1>4. RedrawsIn(s) \in SUBSET (1 .. (Len(s) \div 2))
  BY DEF RedrawsIn, MessagesOf
<1>5. QED
  BY <1>3, <1>4, FS_Subset, FS_CardinalityType

\* What is gone and what is left of the redraws add up.
LEMMA RedrawsDrop ==
  ASSUME NEW s \in Seq(PartsOfMessages), NEW t \in Seq(PartsOfMessages), NEW k \in Nat,
         \A i \in Nat \ {0} : i \in MessagesOf(t) <=> i + k \in MessagesOf(s),
         \A i \in MessagesOf(t) : i \in Nat \ {0} /\ t[2 * i] = s[2 * (i + k)]
  PROVE  Cardinality(RedrawsIn(t)) + Cardinality({i \in RedrawsIn(s) : i <= k}) = Cardinality(RedrawsIn(s))
<1> DEFINE before == {i \in RedrawsIn(s) : i <= k}
           after == {i \in RedrawsIn(s) : i > k}
           f == [i \in RedrawsIn(t) |-> i + k]
<1>1. RedrawsIn(s) \subseteq Nat \ {0} /\ RedrawsIn(t) \subseteq Nat \ {0}
  BY DEF RedrawsIn, MessagesOf
<1>2. IsFiniteSet(RedrawsIn(s)) /\ IsFiniteSet(RedrawsIn(t)) /\ Cardinality(RedrawsIn(t)) \in Nat
  BY RedrawsFinite
<1>3. before \cup after = RedrawsIn(s) /\ before \cap after = {}
  BY <1>1
<1>4. before \in SUBSET RedrawsIn(s) /\ after \in SUBSET RedrawsIn(s)
  OBVIOUS
<1> HIDE DEF before, after
<1>5. IsFiniteSet(before) /\ IsFiniteSet(after)
  BY <1>2, <1>4, FS_Subset
<1>6. Cardinality(before) \in Nat /\ Cardinality(after) \in Nat
  BY <1>5, FS_CardinalityType
<1>7. Cardinality(before \cup after) = Cardinality(before) + Cardinality(after) - Cardinality(before \cap after)
  BY <1>5, FS_Union
<1>8. Cardinality(before \cap after) = 0
  <2>1. Cardinality({}) = 0
    BY FS_EmptySet
  <2>2. QED
    BY <1>3, <2>1
<1>9. ASSUME NEW i \in RedrawsIn(t)
      PROVE  i + k \in after
  <2>1. i \in MessagesOf(t) /\ t[2 * i].kind = "redraw" /\ i \in Nat \ {0}
    BY <1>1 DEF RedrawsIn
  <2>2. i + k \in MessagesOf(s) /\ s[2 * (i + k)].kind = "redraw"
    BY <2>1
  <2>3. i + k > k
    BY <2>1
  <2>4. QED
    BY <2>2, <2>3 DEF RedrawsIn, after
<1>10. ASSUME NEW j \in after
       PROVE  j - k \in RedrawsIn(t) /\ (j - k) + k = j
  <2>1. j \in MessagesOf(s) /\ s[2 * j].kind = "redraw" /\ j \in Nat /\ j > k
    <3>1. j \in RedrawsIn(s) /\ j > k
      BY DEF after
    <3>2. QED
      BY <1>1, <3>1 DEF RedrawsIn
  <2>6. k \in Nat
    OBVIOUS
  <2>2. j - k \in Nat \ {0} /\ (j - k) + k = j
    BY ONLY <2>1, <2>6
  <2>3. j - k \in MessagesOf(t)
    BY <2>1, <2>2
  <2>4. t[2 * (j - k)] = s[2 * j]
    BY <2>2, <2>3
  <2>5. QED
    BY <2>1, <2>2, <2>3, <2>4 DEF RedrawsIn
<1>11. f \in Surjection(RedrawsIn(t), after) /\ f \in Injection(RedrawsIn(t), after)
  <2>1. f \in [RedrawsIn(t) -> after]
    BY <1>9
  <2>2. \A j \in after : \E i \in RedrawsIn(t) : f[i] = j
    BY <1>10
  <2>3. \A i, j \in RedrawsIn(t) : i \in Nat /\ j \in Nat /\ (f[i] = f[j] => i + k = j + k)
    BY <1>1
  <2>5. \A i, j \in RedrawsIn(t) : f[i] = f[j] => i = j
    BY <2>3
  <2>4. QED
    BY <2>1, <2>2, <2>5 DEF Surjection, Injection, IsInjective
<1> HIDE DEF f
<1>12. Cardinality(after) = Cardinality(RedrawsIn(t))
  BY <1>2, <1>11, FS_Surjection
<1>13. Cardinality(RedrawsIn(s)) = Cardinality(before) + Cardinality(after)
  <2>1. Cardinality(before \cup after) = Cardinality(RedrawsIn(s))
    BY <1>3
  <2>2. QED
    BY <1>6, <1>7, <1>8, <2>1
<1>14. Cardinality(RedrawsIn(s)) = Cardinality(before) + Cardinality(RedrawsIn(t))
  BY <1>12, <1>13
<1>15. QED
  BY <1>2, <1>6, <1>14 DEF before
-----------------------------------------------------------------------------
(* The steps, by what they do to the stream.                               *)
LEMMA StreamType ==
  ASSUME SurfaceType
  PROVE  /\ Stream \in Seq(PartsOfMessages) /\ Len(Stream) = Len(readBuffer) + Len(pipe)
         /\ Len(readBuffer) \in Nat /\ Len(pipe) \in Nat
         /\ \A i \in 1 .. Len(readBuffer) + Len(pipe) :
              Stream[i] = IF i <= Len(readBuffer) THEN readBuffer[i] ELSE pipe[i - Len(readBuffer)]
BY ConcatProperties, LenProperties DEF SurfaceType, Stream

\* The invariant, of a stream that stays.
LEMMA StreamStays ==
  ASSUME SurfaceInv, UNCHANGED <<readBuffer, pipe>>
  PROVE  /\ Stream' = Stream
         /\ RedrawsIn(Stream)' = RedrawsIn(Stream) /\ AnswersIn(Stream)' = AnswersIn(Stream)
<1>1. Stream' = Stream
  BY DEF Stream
<1>2. QED
  BY <1>1 DEF RedrawsIn, AnswersIn, MessagesOf

\* What the editor writes.
LEMMA EditorWrites ==
  ASSUME SurfaceInv, editor = "up", NEW kind \in {"answer", "redraw"}, NEW id \in Nat, NEW error \in BOOLEAN,
         pipe' = pipe \o Message(kind, id, error), UNCHANGED readBuffer
  PROVE  /\ pipe' \in Seq(PartsOfMessages)
         /\ InTurn(Stream)' /\ Len(Stream)' % 2 = 0
         /\ \A i \in AnswersIn(Stream)' :
              \/ i \in AnswersIn(Stream) /\ Stream'[2 * i] = Stream[2 * i]
              \/ kind = "answer" /\ Stream'[2 * i].id = id /\ Stream'[2 * i].error = error
         /\ Cardinality(RedrawsIn(Stream)') = Cardinality(RedrawsIn(Stream)) + IF kind = "redraw" THEN 1 ELSE 0
<1> DEFINE s == Stream
           t == Stream'
           m == Message(kind, id, error)
           last == Len(s) \div 2 + 1
<1>1. s \in Seq(PartsOfMessages) /\ Len(s) % 2 = 0 /\ InTurn(s) /\ Len(s) \in Nat
  BY StreamType, LenProperties DEF SurfaceInv, InStep
<1>2. /\ m \in Seq(PartsOfMessages) /\ Len(m) = 2
      /\ m[1].part = 1 /\ m[2] = [kind |-> kind, id |-> id, error |-> error, part |-> 2]
  BY MessageType
<1>3. pipe \in Seq(PartsOfMessages) /\ readBuffer \in Seq(PartsOfMessages)
  BY DEF SurfaceInv, SurfaceType
<1>4. t = s \o m
  <2>1. (readBuffer \o pipe) \o m = readBuffer \o (pipe \o m)
    <3>1. PICK x : x = m
      OBVIOUS
    <3>2. x \in Seq(PartsOfMessages)
      BY <1>2, <3>1
    <3>3. (readBuffer \o pipe) \o x = readBuffer \o (pipe \o x)
      BY ONLY <1>3, <3>2, ConcatAssociative
    <3>4. QED
      BY <3>1, <3>3
  <2>2. t = readBuffer' \o pipe'
    BY DEF Stream
  <2>3. t = readBuffer \o (pipe \o m)
    BY <2>2
  <2>4. s \o m = readBuffer \o (pipe \o m)
    BY <2>1 DEF Stream
  <2>5. QED
    BY ONLY <2>3, <2>4
<1>5. pipe' \in Seq(PartsOfMessages)
  BY <1>2, <1>3, ConcatProperties
<1> HIDE DEF s, t, m
<1>12. last \in Nat /\ Len(s) = 2 * (last - 1)
  BY <1>1
<1> HIDE DEF last
<1>13. /\ t \in Seq(PartsOfMessages) /\ Len(t) = Len(s) + 2
       /\ \A i \in 1 .. Len(s) + 2 : t[i] = IF i <= Len(s) THEN s[i] ELSE m[i - Len(s)]
  <2>1. /\ s \o m \in Seq(PartsOfMessages) /\ Len(s \o m) = Len(s) + Len(m)
        /\ \A i \in 1 .. Len(s) + Len(m) : (s \o m)[i] = IF i <= Len(s) THEN s[i] ELSE m[i - Len(s)]
    BY <1>1, <1>2, ConcatProperties
  <2>2. QED
    BY <1>2, <1>4, <2>1
<1>14. Len(t) = 2 * last /\ Len(t) % 2 = 0
  BY <1>12, <1>13
<1>15. \A i \in 1 .. Len(s) : t[i] = s[i]
  BY <1>1, <1>13
<1>16. t[2 * last - 1] = m[1] /\ t[2 * last] = m[2]
  <2>1. /\ 2 * last - 1 = Len(s) + 1 /\ 2 * last = Len(s) + 2
        /\ Len(s) + 1 \in 1 .. Len(s) + 2 /\ Len(s) + 2 \in 1 .. Len(s) + 2
        /\ ~(Len(s) + 1 <= Len(s)) /\ ~(Len(s) + 2 <= Len(s))
        /\ (Len(s) + 1) - Len(s) = 1 /\ (Len(s) + 2) - Len(s) = 2
    BY <1>1, <1>12
  <2>2. t[Len(s) + 1] = m[1] /\ t[Len(s) + 2] = m[2]
    BY <1>13, <2>1
  <2>3. QED
    BY <2>1, <2>2
<1>17. t[2 * last - 1].part = 1 /\ t[2 * last].part = 2 /\ t[2 * last] = [kind |-> kind, id |-> id, error |-> error, part |-> 2]
  BY <1>2, <1>16
<1>18. s \in Seq(PartsOfMessages) /\ t \in Seq(PartsOfMessages) /\ last \in Nat
  BY <1>1, <1>12, <1>13
<1>19. Len(s) = 2 * (last - 1) /\ Len(t) = 2 * last /\ t[2 * last - 1].part = 1 /\ t[2 * last].part = 2
  BY <1>12, <1>14, <1>17
<1>20. /\ InTurn(s) => InTurn(t)
       /\ MessagesOf(t) = MessagesOf(s) \cup {last} /\ last \notin MessagesOf(s)
       /\ \A i \in MessagesOf(s) : t[2 * i] = s[2 * i]
  BY <1>15, <1>18, <1>19, StreamGrows
<1>6. /\ t \in Seq(PartsOfMessages) /\ Len(t) % 2 = 0 /\ InTurn(t)
      /\ MessagesOf(t) = MessagesOf(s) \cup {last} /\ last \notin MessagesOf(s)
      /\ \A i \in MessagesOf(s) : t[2 * i] = s[2 * i]
      /\ t[2 * last] = [kind |-> kind, id |-> id, error |-> error, part |-> 2]
  BY <1>1, <1>14, <1>17, <1>18, <1>20
<1>7. ASSUME NEW i \in AnswersIn(t)
      PROVE  \/ i \in AnswersIn(s) /\ t[2 * i] = s[2 * i]
             \/ kind = "answer" /\ t[2 * i].id = id /\ t[2 * i].error = error
  <2>1. CASE i = last
    BY <1>6, <2>1 DEF AnswersIn
  <2>2. CASE i # last
    BY <1>6, <2>2 DEF AnswersIn
  <2>3. QED
    BY <2>1, <2>2
<1>8. IsFiniteSet(RedrawsIn(s))
  BY <1>1, RedrawsFinite
<1>9. last \notin RedrawsIn(s)
  BY <1>6 DEF RedrawsIn
<1>10. Cardinality(RedrawsIn(t)) = Cardinality(RedrawsIn(s)) + IF kind = "redraw" THEN 1 ELSE 0
  <2>1. CASE kind = "redraw"
    <3>1. RedrawsIn(t) = RedrawsIn(s) \cup {last}
      BY <1>6, <2>1 DEF RedrawsIn
    <3>2. QED
      BY <1>8, <1>9, <2>1, <3>1, FS_AddElement
  <2>2. CASE kind # "redraw"
    <3>1. RedrawsIn(t) = RedrawsIn(s)
      BY <1>6, <2>2 DEF RedrawsIn
    <3>2. Cardinality(RedrawsIn(s)) \in Nat
      BY <1>1, RedrawsFinite
    <3>3. QED
      BY <2>2, <3>1, <3>2
  <2>3. QED
    BY <2>1, <2>2
<1>11. QED
  BY <1>5, <1>6, <1>7, <1>10 DEF s, t

\* What is lost when the editor stops in the middle of a message.
LEMMA EditorStops ==
  ASSUME SurfaceInv, pipe' \in {pipe, SubSeq(pipe, 1, Len(pipe) - 1)}, UNCHANGED readBuffer
  PROVE  /\ pipe' \in Seq(PartsOfMessages) /\ InTurn(Stream)'
         /\ \A i \in AnswersIn(Stream)' : i \in AnswersIn(Stream) /\ Stream'[2 * i] = Stream[2 * i]
         /\ Cardinality(RedrawsIn(Stream)') \in Nat
         /\ Cardinality(RedrawsIn(Stream)') <= Cardinality(RedrawsIn(Stream))
<1> DEFINE s == Stream
           t == Stream'
<1>1. /\ s \in Seq(PartsOfMessages) /\ InTurn(s) /\ Len(s) = Len(readBuffer) + Len(pipe)
      /\ Len(readBuffer) \in Nat /\ Len(pipe) \in Nat
      /\ \A i \in 1 .. Len(readBuffer) + Len(pipe) :
           s[i] = IF i <= Len(readBuffer) THEN readBuffer[i] ELSE pipe[i - Len(readBuffer)]
  BY StreamType DEF SurfaceInv, InStep
<1>2. pipe \in Seq(PartsOfMessages) /\ readBuffer \in Seq(PartsOfMessages)
  BY DEF SurfaceInv, SurfaceType
<1>3. pipe' \in Seq(PartsOfMessages) /\ Len(pipe') <= Len(pipe) /\ \A i \in 1 .. Len(pipe') : pipe'[i] = pipe[i]
  <2>1. CASE pipe' = pipe
    BY <1>1, <1>2, <2>1
  <2>2. CASE pipe' = SubSeq(pipe, 1, Len(pipe) - 1)
    <3> DEFINE n == Len(pipe) - 1
    <3>1. n \in Int /\ n - 1 + 1 = n
      BY <1>1
    <3>2. \A i \in 1 .. n : pipe[i] \in PartsOfMessages
      BY <1>1, <1>2, ElementOfSeq
    <3> HIDE DEF n
    <3>3. /\ SubSeq(pipe, 1, n) \in Seq(PartsOfMessages) /\ Len(SubSeq(pipe, 1, n)) = IF 1 <= n THEN n - 1 + 1 ELSE 0
          /\ \A i \in 1 .. n - 1 + 1 : SubSeq(pipe, 1, n)[i] = pipe[1 + i - 1]
      BY <3>1, <3>2, SubSeqProperties
    <3>4. pipe' = SubSeq(pipe, 1, n)
      BY <2>2 DEF n
    <3>5. Len(pipe') <= n \/ Len(pipe') = 0
      BY <3>1, <3>3, <3>4
    <3>6. \A i \in 1 .. n : pipe'[i] = pipe[i]
      BY <3>1, <3>3, <3>4
    <3>7. QED
      BY <1>1, <3>1, <3>3, <3>4, <3>5, <3>6 DEF n
  <2>3. QED
    BY <2>1, <2>2
<1>4. Len(pipe') \in Nat
  BY <1>3, LenProperties
<1>5. /\ t \in Seq(PartsOfMessages) /\ Len(t) = Len(readBuffer) + Len(pipe')
      /\ \A i \in 1 .. Len(readBuffer) + Len(pipe') :
           t[i] = IF i <= Len(readBuffer) THEN readBuffer[i] ELSE pipe'[i - Len(readBuffer)]
  <2>1. t = readBuffer \o pipe'
    BY DEF Stream
  <2>2. QED
    BY <1>2, <1>3, <2>1, ConcatProperties
<1> HIDE DEF s, t
<1>6. Len(t) <= Len(s)
  BY <1>1, <1>3, <1>4, <1>5
<1>7. ASSUME NEW i \in 1 .. Len(t)
      PROVE  t[i] = s[i]
  <2>1. CASE i <= Len(readBuffer)
    BY <1>1, <1>4, <1>5, <1>6, <2>1
  <2>2. CASE i > Len(readBuffer)
    <3>1. i - Len(readBuffer) \in 1 .. Len(pipe') /\ i \in 1 .. Len(readBuffer) + Len(pipe)
      BY <1>1, <1>3, <1>4, <1>5, <2>2
    <3>2. QED
      BY <1>1, <1>3, <1>5, <2>2, <3>1
  <2>3. QED
    BY <1>1, <1>5, <2>1, <2>2
<1>8. InTurn(t) /\ MessagesOf(t) \subseteq MessagesOf(s) /\ \A i \in MessagesOf(t) : t[2 * i] = s[2 * i]
  BY <1>1, <1>5, <1>6, <1>7, StreamCut
<1>9. RedrawsIn(t) \in SUBSET RedrawsIn(s) /\ \A i \in AnswersIn(t) : i \in AnswersIn(s) /\ t[2 * i] = s[2 * i]
  BY <1>8 DEF RedrawsIn, AnswersIn
<1>10. IsFiniteSet(RedrawsIn(s)) /\ Cardinality(RedrawsIn(t)) \in Nat
  BY <1>1, <1>5, RedrawsFinite
<1>11. Cardinality(RedrawsIn(t)) <= Cardinality(RedrawsIn(s))
  BY <1>9, <1>10, FS_Subset
<1>12. QED
  BY <1>3, <1>8, <1>9, <1>10, <1>11 DEF s, t

\* What a read takes from the pipe, of which it had n parts.
LEMMA ReadTakes ==
  ASSUME SurfaceInv, NEW n \in 0 .. Len(pipe), NEW parts, parts = readBuffer \o SubSeq(pipe, 1, n)
  PROVE  /\ parts \in Seq(PartsOfMessages) /\ Len(parts) \in Nat /\ Len(parts) = Len(readBuffer) + n
         /\ \A i \in 1 .. Len(parts) : i \in 1 .. Len(Stream) /\ parts[i] = Stream[i]
         /\ Len(parts) <= Len(Stream)
<1> DEFINE taken == SubSeq(pipe, 1, n)
<1>1. /\ Stream \in Seq(PartsOfMessages) /\ Len(Stream) = Len(readBuffer) + Len(pipe)
      /\ Len(readBuffer) \in Nat /\ Len(pipe) \in Nat
      /\ \A i \in 1 .. Len(readBuffer) + Len(pipe) :
           Stream[i] = IF i <= Len(readBuffer) THEN readBuffer[i] ELSE pipe[i - Len(readBuffer)]
  BY StreamType DEF SurfaceInv
<1>2. pipe \in Seq(PartsOfMessages) /\ readBuffer \in Seq(PartsOfMessages)
  BY DEF SurfaceInv, SurfaceType
<1>3. n \in Nat /\ n <= Len(pipe) /\ n - 1 + 1 = n
  BY <1>1
<1>4. \A i \in 1 .. n : pipe[i] \in PartsOfMessages
  BY <1>1, <1>2, <1>3, ElementOfSeq
<1>5. /\ taken \in Seq(PartsOfMessages) /\ Len(taken) = n
      /\ \A i \in 1 .. n : taken[i] = pipe[i]
  <2>1. /\ taken \in Seq(PartsOfMessages) /\ Len(taken) = IF 1 <= n THEN n - 1 + 1 ELSE 0
        /\ \A i \in 1 .. n - 1 + 1 : taken[i] = pipe[1 + i - 1]
    BY <1>3, <1>4, SubSeqProperties
  <2>2. QED
    BY <1>3, <2>1
<1>6. parts = readBuffer \o taken
  OBVIOUS
<1> HIDE DEF taken
<1>7. /\ parts \in Seq(PartsOfMessages) /\ Len(parts) = Len(readBuffer) + n
      /\ \A i \in 1 .. Len(readBuffer) + n :
           parts[i] = IF i <= Len(readBuffer) THEN readBuffer[i] ELSE taken[i - Len(readBuffer)]
  <2>1. /\ readBuffer \o taken \in Seq(PartsOfMessages) /\ Len(readBuffer \o taken) = Len(readBuffer) + Len(taken)
        /\ \A i \in 1 .. Len(readBuffer) + Len(taken) :
             (readBuffer \o taken)[i] = IF i <= Len(readBuffer) THEN readBuffer[i] ELSE taken[i - Len(readBuffer)]
    BY <1>2, <1>5, ConcatProperties
  <2>2. QED
    BY <1>5, <1>6, <2>1
<1>8. ASSUME NEW i \in 1 .. Len(parts)
      PROVE  i \in 1 .. Len(Stream) /\ parts[i] = Stream[i]
  <2>1. i \in 1 .. Len(readBuffer) + n /\ i \in 1 .. Len(readBuffer) + Len(pipe)
    BY <1>1, <1>3, <1>7
  <2>2. CASE i <= Len(readBuffer)
    BY <1>1, <1>7, <2>1, <2>2
  <2>3. CASE ~(i <= Len(readBuffer))
    <3>1. i - Len(readBuffer) \in 1 .. n
      BY <1>1, <1>3, <2>1, <2>3
    <3>2. parts[i] = taken[i - Len(readBuffer)] /\ Stream[i] = pipe[i - Len(readBuffer)]
      BY <1>1, <1>7, <2>1, <2>3
    <3>3. QED
      BY <1>1, <1>5, <2>1, <3>1, <3>2
  <2>4. QED
    BY <2>2, <2>3
<1>9. QED
  BY <1>1, <1>3, <1>7, <1>8

\* The whole messages among the parts.
LEMMA WholeMessages ==
  ASSUME NEW parts \in Seq(PartsOfMessages)
  PROVE  \E k \in Nat : /\ Whole(parts) = 2 * k /\ Whole(parts) \div 2 = k
                        /\ 2 * k <= Len(parts) /\ Len(parts) - 2 * k \in 0 .. 1
                        /\ MessagesIn(parts) = [i \in 1 .. k |-> parts[2 * i]]
<1>1. Len(parts) \in Nat
  BY LenProperties
<1>2. PICK k \in Nat, odd \in 0 .. 1 : Len(parts) = 2 * k + odd
  <2>1. Len(parts) \div 2 \in Nat /\ Len(parts) % 2 \in 0 .. 1 /\ Len(parts) = 2 * (Len(parts) \div 2) + (Len(parts) % 2)
    BY <1>1
  <2>2. QED
    BY <2>1
<1>3. Len(parts) % 2 = odd
  BY <1>2
<1>4. Whole(parts) = 2 * k
  BY <1>2, <1>3 DEF Whole
<1>5. (2 * k) \div 2 = k
  BY <1>2
<1>6. Whole(parts) \div 2 = k
  BY <1>4, <1>5
<1>7. MessagesIn(parts) = [i \in 1 .. k |-> parts[2 * i]]
  BY <1>6 DEF MessagesIn
<1>8. 2 * k <= Len(parts) /\ Len(parts) - 2 * k \in 0 .. 1
  BY <1>2
<1>9. QED
  BY <1>4, <1>6, <1>7, <1>8

\* The end of a sequence.
LEMMA Suffix ==
  ASSUME NEW S, NEW s \in Seq(S), NEW j \in Nat, j <= Len(s)
  PROVE  SubSeq(s, j + 1, Len(s)) \in Seq(S) /\ Behind(SubSeq(s, j + 1, Len(s)), s, j)
<1> DEFINE a == j + 1
           b == Len(s)
           rest == SubSeq(s, a, b)
<1>1. b \in Nat
  BY LenProperties
<1>2. a \in Int /\ b \in Int /\ b - a + 1 = b - j /\ (a <= b <=> b - j >= 1) /\ b - j \in Nat
  BY <1>1
<1>3. \A i \in a .. b : s[i] \in S
  BY <1>1, ElementOfSeq
<1>4. \A i \in Nat : a + i - 1 = i + j
  OBVIOUS
<1> HIDE DEF a, b
<1>5. /\ rest \in Seq(S) /\ Len(rest) = IF a <= b THEN b - a + 1 ELSE 0
      /\ \A i \in 1 .. b - a + 1 : rest[i] = s[a + i - 1]
  BY <1>2, <1>3, SubSeqProperties
<1> HIDE DEF rest
<1>6. Len(rest) = b - j
  BY <1>2, <1>5
<1>7. ASSUME NEW i \in 1 .. b - j
      PROVE  rest[i] = s[i + j]
  <2>1. i \in 1 .. b - a + 1 /\ a + i - 1 = i + j
    BY <1>2, <1>4
  <2>2. QED
    BY <1>5, <2>1
<1>8. QED
  BY <1>5, <1>6, <1>7 DEF rest, a, b, Behind

\* What a read leaves of the stream: all but the messages that were whole.
LEMMA ReadLeaves ==
  ASSUME SurfaceInv, NEW n \in 0 .. Len(pipe), NEW parts \in Seq(PartsOfMessages),
         Len(parts) = Len(readBuffer) + n,
         \A i \in 1 .. Len(parts) : parts[i] = Stream[i],
         NEW gone \in Nat, gone <= Len(parts), Len(parts) - gone \in 0 .. 1,
         NEW rest \in Seq(PartsOfMessages), Behind(rest, parts, gone),
         NEW later \in Seq(PartsOfMessages), Behind(later, pipe, n)
  PROVE  rest \o later \in Seq(PartsOfMessages) /\ Len(rest) <= 1 /\ Behind(rest \o later, Stream, gone)
<1>0. /\ Len(rest) = Len(parts) - gone /\ \A i \in 1 .. Len(parts) - gone : rest[i] = parts[i + gone]
      /\ Len(later) = Len(pipe) - n /\ \A i \in 1 .. Len(pipe) - n : later[i] = pipe[i + n]
  BY DEF Behind
<1> DEFINE t == rest \o later
<1>1. /\ Len(Stream) = Len(readBuffer) + Len(pipe) /\ Len(readBuffer) \in Nat /\ Len(pipe) \in Nat
      /\ \A i \in 1 .. Len(readBuffer) + Len(pipe) :
           Stream[i] = IF i <= Len(readBuffer) THEN readBuffer[i] ELSE pipe[i - Len(readBuffer)]
  BY StreamType DEF SurfaceInv
<1>2. n \in Nat /\ n <= Len(pipe)
  BY <1>1
<1>3. /\ t \in Seq(PartsOfMessages) /\ Len(t) = Len(rest) + Len(later)
      /\ \A i \in 1 .. Len(rest) + Len(later) : t[i] = IF i <= Len(rest) THEN rest[i] ELSE later[i - Len(rest)]
  BY ConcatProperties
<1> HIDE DEF t
<1>4. Len(t) = Len(Stream) - gone /\ Len(rest) + Len(later) = Len(Stream) - gone
  BY <1>0, <1>1, <1>2, <1>3
<1>5. ASSUME NEW i \in 1 .. Len(Stream) - gone
      PROVE  t[i] = Stream[i + gone]
  <2>1. i \in 1 .. Len(rest) + Len(later) /\ i \in Nat /\ i > 0
    BY <1>1, <1>2, <1>4
  <2>2. CASE i <= Len(parts) - gone
    <3>1. t[i] = rest[i] /\ i \in 1 .. Len(parts) - gone
      BY <1>0, <1>1, <1>2, <1>3, <2>1, <2>2
    <3>2. i + gone \in 1 .. Len(parts)
      BY <1>1, <1>2, <2>1, <2>2
    <3>3. QED
      BY <1>0, <3>1, <3>2
  <2>3. CASE ~(i <= Len(parts) - gone)
    <3> DEFINE j == i - Len(rest)
    <3>1. t[i] = later[j]
      BY <1>0, <1>3, <2>1, <2>3
    <3>2. /\ j \in 1 .. Len(pipe) - n /\ i + gone \in 1 .. Len(readBuffer) + Len(pipe)
          /\ ~(i + gone <= Len(readBuffer)) /\ j + n = (i + gone) - Len(readBuffer)
      BY <1>0, <1>1, <1>2, <2>1, <2>3
    <3> HIDE DEF j
    <3>3. later[j] = pipe[j + n]
      BY <1>0, <3>2
    <3>4. Stream[i + gone] = pipe[(i + gone) - Len(readBuffer)]
      BY <1>1, <3>2
    <3>5. QED
      BY <3>1, <3>2, <3>3, <3>4
  <2>4. QED
    BY <2>2, <2>3
<1>6. Len(rest) <= 1
  BY <1>0
<1>7. QED
  BY <1>3, <1>4, <1>5, <1>6 DEF t, Behind

\* What was known of the answers to requests and what the call makes of it.
Heard(known) ==
  \A id \in DOMAIN known :
    \/ \E j \in AnswersIn(Stream) : Stream[2 * j].id = id /\ (~known[id] => ~Stream[2 * j].error)
    \/ id \in DOMAIN responses /\ known[id] = responses[id]

Taken(known) ==
  LET mine == IF call.at = "wait" THEN OwnAnswer(known) ELSE 0
  IN  /\ responses' = [id \in DOMAIN known \ {mine} |-> known[id]]
      /\ IF mine = 0 THEN UNCHANGED call ELSE At(IF known[mine] THEN "failed" ELSE "done")

\* A read that does not wait any more ends the call or goes on.
LEMMA ReadReturns ==
  ASSUME SurfaceInv, ReadAndHandle
  PROVE  /\ pipe' \in Seq(PartsOfMessages) /\ readBuffer' \in Seq(PartsOfMessages) /\ Len(readBuffer)' <= 1
         /\ garbled' \in BOOLEAN /\ ~garbled' /\ InTurn(Stream)' /\ Len(Stream)' % 2 = Len(Stream) % 2
         /\ shown' \in Nat /\ shown' + Cardinality(RedrawsIn(Stream)') = shown + Cardinality(RedrawsIn(Stream))
         /\ \A i \in AnswersIn(Stream)' : \E j \in AnswersIn(Stream) : Stream'[2 * i] = Stream[2 * j]
         /\ \E known : /\ DOMAIN known \subseteq Nat /\ known \in [DOMAIN known -> BOOLEAN]
                       /\ Heard(known) /\ Taken(known)
<1>1. PICK n \in {Len(pipe) - 1, Len(pipe)} \cap Nat :
        /\ pipe' = SubSeq(pipe, n + 1, Len(pipe))
        /\ LET parts == readBuffer \o SubSeq(pipe, 1, n)
               messages == MessagesIn(parts)
               arrived == Replies(messages)
               ids == {messages[i].id : i \in arrived}
               known == [id \in ids \cup DOMAIN responses |->
                           IF id \in ids THEN \E i \in arrived : messages[i].id = id /\ messages[i].error ELSE responses[id]]
           IN  /\ readBuffer' = SubSeq(parts, Whole(parts) + 1, Len(parts))
               /\ garbled' = (garbled \/ ~InTurn(parts))
               /\ shown' = shown + Cardinality(DOMAIN messages \ arrived)
               /\ Taken(known)
  BY DEF ReadAndHandle, Taken
<1> DEFINE parts == readBuffer \o SubSeq(pipe, 1, n)
           messages == MessagesIn(parts)
           arrived == Replies(messages)
           ids == {messages[i].id : i \in arrived}
           known == [id \in ids \cup DOMAIN responses |->
                       IF id \in ids THEN \E i \in arrived : messages[i].id = id /\ messages[i].error ELSE responses[id]]
           later == SubSeq(pipe, n + 1, Len(pipe))
           s == Stream
           t == Stream'
<1>2. /\ pipe' = later /\ readBuffer' = SubSeq(parts, Whole(parts) + 1, Len(parts))
      /\ garbled' = (garbled \/ ~InTurn(parts)) /\ shown' = shown + Cardinality(DOMAIN messages \ arrived)
      /\ Taken(known)
  BY <1>1
<1>3. /\ s \in Seq(PartsOfMessages) /\ InTurn(s) /\ Len(s) = Len(readBuffer) + Len(pipe)
      /\ Len(readBuffer) \in Nat /\ Len(pipe) \in Nat
  BY StreamType DEF SurfaceInv, InStep
<1>4. pipe \in Seq(PartsOfMessages) /\ ~garbled /\ shown \in Nat /\ n \in 0 .. Len(pipe)
  BY <1>1, <1>3 DEF SurfaceInv, SurfaceType, InStep
<1>5. n \in Nat /\ n <= Len(pipe)
  BY <1>3, <1>4
<1>6. /\ parts \in Seq(PartsOfMessages) /\ Len(parts) \in Nat /\ Len(parts) = Len(readBuffer) + n
      /\ \A i \in 1 .. Len(parts) : i \in 1 .. Len(s) /\ parts[i] = s[i]
      /\ Len(parts) <= Len(s)
  BY <1>4, ReadTakes
<1>7. later \in Seq(PartsOfMessages) /\ Behind(later, pipe, n)
  BY <1>4, <1>5, Suffix
<1> HIDE DEF parts, later
<1>8. PICK k \in Nat : /\ Whole(parts) = 2 * k /\ Whole(parts) \div 2 = k
                       /\ 2 * k <= Len(parts) /\ Len(parts) - 2 * k \in 0 .. 1
                       /\ MessagesIn(parts) = [i \in 1 .. k |-> parts[2 * i]]
  BY <1>6, WholeMessages
<1> DEFINE gone == 2 * k
           rest == SubSeq(parts, gone + 1, Len(parts))
<1>9. gone \in Nat /\ gone <= Len(parts)
  BY <1>8
<1> HIDE DEF gone
<1>10. rest \in Seq(PartsOfMessages) /\ Behind(rest, parts, gone)
  BY <1>6, <1>9, Suffix
<1>11. readBuffer' = rest
  BY <1>2, <1>8 DEF gone
<1>12. t = rest \o later
  BY <1>2, <1>11 DEF Stream
<1> HIDE DEF rest
<1>13. gone = 2 * k /\ Len(parts) - gone \in 0 .. 1
  BY <1>8 DEF gone
<1>14. t \in Seq(PartsOfMessages) /\ Len(rest) <= 1 /\ Behind(t, s, gone)
  <2>1. parts \in Seq(PartsOfMessages) /\ Len(parts) = Len(readBuffer) + n /\ \A i \in 1 .. Len(parts) : parts[i] = Stream[i]
    BY <1>6
  <2>2. rest \o later \in Seq(PartsOfMessages) /\ Len(rest) <= 1 /\ Behind(rest \o later, Stream, gone)
    BY <1>4, <1>7, <1>9, <1>10, <1>13, <2>1, ReadLeaves
  <2>3. QED
    BY <1>12, <2>2
<1> HIDE DEF s, t
<1>15. gone <= Len(s) /\ 2 * k <= Len(s)
  BY <1>3, <1>5, <1>6, <1>8, <1>13
<1>16. /\ InTurn(t) /\ Len(t) % 2 = Len(s) % 2
       /\ \A i \in Nat \ {0} : i \in MessagesOf(t) <=> i + k \in MessagesOf(s)
       /\ \A i \in MessagesOf(t) : i \in Nat \ {0} /\ t[2 * i] = s[2 * (i + k)]
       /\ 1 .. k \subseteq MessagesOf(s)
  <2>1. s \in Seq(PartsOfMessages) /\ t \in Seq(PartsOfMessages) /\ InTurn(s)
    BY <1>3, <1>14
  <2>2. Handled(t, s, k)
    BY <1>13, <1>14, <1>15 DEF Handled
  <2>3. QED
    BY <1>8, <2>1, <2>2, StreamDrops
<1>17. DOMAIN messages = 1 .. k /\ \A i \in 1 .. k : messages[i] = s[2 * i]
  <2>1. \A i \in 1 .. k : 2 * i \in 1 .. Len(parts)
    BY <1>6, <1>8
  <2>2. \A i \in 1 .. k : messages[i] = parts[2 * i]
    BY <1>8
  <2>3. QED
    BY <1>6, <1>8, <2>1, <2>2
<1>18. arrived = {i \in 1 .. k : s[2 * i].kind = "answer"}
  BY <1>17 DEF Replies
<1>19. garbled' \in BOOLEAN /\ ~garbled'
  <2>1. InTurn(parts)
    BY <1>3, <1>6, LenProperties DEF InTurn
  <2>2. garbled' = (garbled \/ ~InTurn(parts))
    BY <1>2
  <2>3. QED
    BY <1>4, <2>1, <2>2
<1> DEFINE before == {i \in RedrawsIn(s) : i <= k}
<1>20. DOMAIN messages \ arrived = before
  <2>1. \A i \in 1 .. k : i \in MessagesOf(s) /\ s[2 * i].kind \in {"answer", "redraw"}
    <3>1. \A i \in 1 .. k : 2 * i \in 1 .. Len(s)
      BY <1>3, <1>15
    <3>2. \A i \in 1 .. Len(s) : s[i] \in PartsOfMessages
      BY <1>3, ElementOfSeq
    <3>3. QED
      BY <1>16, <3>1, <3>2 DEF PartsOfMessages
  <2>2. before \subseteq 1 .. k
    BY DEF RedrawsIn, MessagesOf
  <2>3. QED
    BY <1>17, <1>18, <2>1, <2>2 DEF RedrawsIn
<1>21. Cardinality(RedrawsIn(t)) + Cardinality(before) = Cardinality(RedrawsIn(s))
  BY <1>3, <1>14, <1>16, RedrawsDrop
<1>22. Cardinality(before) \in Nat /\ Cardinality(RedrawsIn(t)) \in Nat
  <2>1. IsFiniteSet(RedrawsIn(s)) /\ Cardinality(RedrawsIn(t)) \in Nat
    BY <1>3, <1>14, RedrawsFinite
  <2>2. before \in SUBSET RedrawsIn(s)
    OBVIOUS
  <2>3. QED
    BY <2>1, <2>2, FS_Subset, FS_CardinalityType
<1>23. shown' \in Nat /\ shown' + Cardinality(RedrawsIn(t)) = shown + Cardinality(RedrawsIn(s))
  <2>1. shown' = shown + Cardinality(before)
    BY <1>2, <1>20
  <2> HIDE DEF before
  <2>2. QED
    BY <1>4, <1>21, <1>22, <2>1
<1>24. ASSUME NEW i \in AnswersIn(t)
       PROVE  \E j \in AnswersIn(s) : t[2 * i] = s[2 * j]
  <2>1. i \in MessagesOf(t) /\ t[2 * i].kind = "answer" /\ i + k \in MessagesOf(s)
    BY <1>16 DEF AnswersIn
  <2>2. t[2 * i] = s[2 * (i + k)]
    BY <1>16, <2>1
  <2>3. i + k \in AnswersIn(s)
    BY <2>1, <2>2 DEF AnswersIn
  <2>4. QED
    BY <2>2, <2>3
<1>25. \A i \in arrived : i \in AnswersIn(s) /\ messages[i] = s[2 * i] /\ s[2 * i].id \in Nat /\ s[2 * i].error \in BOOLEAN
  <2>1. \A i \in 1 .. k : 2 * i \in 1 .. Len(s)
    BY <1>3, <1>15
  <2>2. \A i \in 1 .. Len(s) : s[i] \in PartsOfMessages
    BY <1>3, ElementOfSeq
  <2>3. QED
    BY <1>16, <1>17, <1>18, <2>1, <2>2 DEF PartsOfMessages, AnswersIn
<1>26. DOMAIN known \subseteq Nat /\ known \in [DOMAIN known -> BOOLEAN] /\ Heard(known)
  <2>1. DOMAIN responses \subseteq Nat /\ responses \in [DOMAIN responses -> BOOLEAN]
    BY DEF SurfaceInv, SurfaceType
  <2>2. ids \subseteq Nat /\ DOMAIN known = ids \cup DOMAIN responses
    BY <1>25
  <2>3. \A id \in DOMAIN known : known[id] \in BOOLEAN
    BY <2>1, <2>2
  <2>4. known \in [DOMAIN known -> BOOLEAN]
    BY <2>3
  <2>5. ASSUME NEW id \in DOMAIN known
        PROVE  \/ \E j \in AnswersIn(s) : s[2 * j].id = id /\ (~known[id] => ~s[2 * j].error)
               \/ id \in DOMAIN responses /\ known[id] = responses[id]
    <3>1. CASE id \in ids
      <4>1. PICK i \in arrived : messages[i].id = id
        BY <3>1
      <4>2. ~known[id] => ~messages[i].error
        BY <3>1, <4>1
      <4>3. QED
        BY <1>25, <4>1, <4>2
    <3>2. CASE id \notin ids
      BY <2>2, <3>2
    <3>3. QED
      BY <3>1, <3>2
  <2>6. Heard(known)
    BY <2>5 DEF Heard, s
  <2>7. QED
    BY <2>1, <2>2, <2>4, <2>6
<1>27. Len(readBuffer)' <= 1 /\ readBuffer' \in Seq(PartsOfMessages) /\ pipe' \in Seq(PartsOfMessages)
  BY <1>2, <1>7, <1>10, <1>11, <1>14
<1> HIDE DEF known
<1>28. \E kn : /\ DOMAIN kn \subseteq Nat /\ kn \in [DOMAIN kn -> BOOLEAN]
               /\ Heard(kn) /\ Taken(kn)
  BY <1>2, <1>26
<1>29. QED
  BY <1>16, <1>19, <1>23, <1>24, <1>27, <1>28 DEF s, t

-----------------------------------------------------------------------------
(* Each step.                                                              *)
LEMMA IdleType == idle \in CallState
BY DEF idle, CallState

\* What was earned stays so while the call and the editor stay and more is good.
LEMMA EarnedStays ==
  ASSUME Earned, UNCHANGED <<call, returned>>, good \subseteq good', call.at = "boot" => editor' = editor
  PROVE  Earned'
BY DEF Earned, Quitting

\* An answer goes to the end of the stream, in turn.
LEMMA AnswerRequestStep ==
  ASSUME SurfaceInv, AnswerRequest
  PROVE  SurfaceInv'
<1>1. PICK error \in BOOLEAN :
        /\ editor = "up" /\ asked # <<>>
        /\ pipe' = pipe \o Message("answer", asked[1], error)
        /\ asked' = Tail(asked)
        /\ good' = good \cup (IF error THEN {} ELSE {asked[1]} \cap call.ids)
        /\ UNCHANGED <<editor, readBuffer, responses, nextMsgId, call, returned, shown, redraws, garbled, surfaceCalls>>
  BY DEF AnswerRequest
<1>2. SurfaceType /\ InStep /\ RedrawsCounted /\ Numbered /\ Truthful /\ Earned
  BY DEF SurfaceInv
<1> DEFINE id == asked[1]
           kind == "answer"
<1>3. asked \in Seq(Nat) /\ Len(asked) \in Nat \ {0} /\ id \in Nat /\ id < nextMsgId
  <2>1. asked \in Seq(Nat)
    BY <1>2 DEF SurfaceType
  <2>2. Len(asked) \in Nat \ {0} /\ DOMAIN asked = 1 .. Len(asked)
    BY <1>1, <2>1, EmptySeq, LenProperties
  <2>3. 1 \in DOMAIN asked
    BY <2>2
  <2>4. QED
    BY <1>2, <2>1, <2>2, <2>3, ElementOfSeq DEF Numbered
<1>4. /\ Tail(asked) \in Seq(Nat) /\ Len(Tail(asked)) = Len(asked) - 1
      /\ \A i \in 1 .. Len(Tail(asked)) : Tail(asked)[i] = asked[i + 1]
  BY <1>1, <1>3, HeadTailProperties
<1>5. kind \in {"answer", "redraw"} /\ kind = "answer" /\ kind # "redraw" /\ pipe' = pipe \o Message(kind, id, error)
  BY <1>1
<1> HIDE DEF id, kind
<1>6. /\ pipe' \in Seq(PartsOfMessages)
      /\ InTurn(Stream)' /\ Len(Stream)' % 2 = 0
      /\ \A i \in AnswersIn(Stream)' :
           \/ i \in AnswersIn(Stream) /\ Stream'[2 * i] = Stream[2 * i]
           \/ kind = "answer" /\ Stream'[2 * i].id = id /\ Stream'[2 * i].error = error
      /\ Cardinality(RedrawsIn(Stream)') = Cardinality(RedrawsIn(Stream)) + IF kind = "redraw" THEN 1 ELSE 0
  BY <1>1, <1>3, <1>5, EditorWrites
<1>7. good \subseteq good' /\ good' \in SUBSET Nat /\ (~error /\ id \in call.ids => id \in good')
  BY <1>1, <1>2, <1>3 DEF SurfaceType, id
<1>8. SurfaceType'
  BY <1>1, <1>2, <1>4, <1>6, <1>7 DEF SurfaceType
<1>9. InStep'
  BY <1>1, <1>2, <1>6 DEF InStep
<1>10. NothingLeft'
  BY <1>1 DEF NothingLeft
<1>11. RedrawsCounted'
  <2>1. Cardinality(RedrawsIn(Stream)) \in Nat
    BY <1>2, StreamType, RedrawsFinite
  <2>2. Cardinality(RedrawsIn(Stream)') = Cardinality(RedrawsIn(Stream))
    BY <1>5, <1>6, <2>1
  <2>3. QED
    BY <1>1, <1>2, <2>2 DEF RedrawsCounted
<1>12. Numbered'
  <2>1. \A i \in DOMAIN asked' : asked'[i] < nextMsgId
    <3>1. \A i \in 1 .. Len(Tail(asked)) : i + 1 \in 1 .. Len(asked)
      BY <1>3, <1>4
    <3>2. DOMAIN asked = 1 .. Len(asked) /\ DOMAIN Tail(asked) = 1 .. Len(Tail(asked))
      BY <1>3, <1>4, LenProperties
    <3>3. QED
      BY <1>1, <1>2, <1>4, <3>1, <3>2 DEF Numbered
  <2>2. \A i \in AnswersIn(Stream)' : Stream'[2 * i].id < nextMsgId
    BY <1>2, <1>3, <1>6 DEF Numbered
  <2>3. QED
    BY <1>1, <1>2, <2>1, <2>2 DEF Numbered
<1>13. Truthful'
  <2>1. ASSUME NEW i \in AnswersIn(Stream)', ~Stream'[2 * i].error, Stream'[2 * i].id \in call.ids
        PROVE  Stream'[2 * i].id \in good'
    <3>1. CASE i \in AnswersIn(Stream) /\ Stream'[2 * i] = Stream[2 * i]
      BY <1>2, <1>7, <2>1, <3>1 DEF Truthful
    <3>2. CASE Stream'[2 * i].id = id /\ Stream'[2 * i].error = error
      BY <1>7, <2>1, <3>2
    <3>3. QED
      BY <1>6, <3>1, <3>2
  <2>2. QED
    BY <1>1, <1>2, <1>7, <2>1 DEF Truthful
<1>14. Earned'
  BY <1>1, <1>2, <1>7, EarnedStays
<1>15. QED
  BY <1>8, <1>9, <1>10, <1>11, <1>12, <1>13, <1>14 DEF SurfaceInv

\* A redraw is counted when it is sent.
LEMMA SendRedrawStep ==
  ASSUME SurfaceInv, SendRedraw
  PROVE  SurfaceInv'
<1> DEFINE id == redraws + 1
           kind == "redraw"
           error == FALSE
<1>1. /\ editor = "up" /\ redraws' = redraws + 1 /\ pipe' = pipe \o Message(kind, id, error)
      /\ UNCHANGED <<editor, asked, readBuffer, responses, nextMsgId, call, returned, shown, good, garbled, surfaceCalls>>
  BY DEF SendRedraw
<1>2. SurfaceType /\ InStep /\ RedrawsCounted /\ Numbered /\ Truthful /\ Earned
  BY DEF SurfaceInv
<1>3. id \in Nat
  BY <1>2 DEF SurfaceType
<1>4. error \in BOOLEAN
  BY Zenon
<1>5. kind \in {"answer", "redraw"} /\ kind # "answer" /\ kind = "redraw"
  OBVIOUS
<1> HIDE DEF id, kind, error
<1>6. /\ pipe' \in Seq(PartsOfMessages)
      /\ InTurn(Stream)' /\ Len(Stream)' % 2 = 0
      /\ \A i \in AnswersIn(Stream)' :
           \/ i \in AnswersIn(Stream) /\ Stream'[2 * i] = Stream[2 * i]
           \/ kind = "answer" /\ Stream'[2 * i].id = id /\ Stream'[2 * i].error = error
      /\ Cardinality(RedrawsIn(Stream)') = Cardinality(RedrawsIn(Stream)) + IF kind = "redraw" THEN 1 ELSE 0
  BY <1>1, <1>3, <1>4, <1>5, EditorWrites
<1>7. \A i \in AnswersIn(Stream)' : i \in AnswersIn(Stream) /\ Stream'[2 * i] = Stream[2 * i]
  BY <1>5, <1>6
<1>8. SurfaceType'
  BY <1>1, <1>2, <1>6 DEF SurfaceType
<1>9. InStep'
  BY <1>1, <1>2, <1>6 DEF InStep
<1>10. NothingLeft'
  BY <1>1 DEF NothingLeft
<1>11. RedrawsCounted'
  <2>1. Cardinality(RedrawsIn(Stream)) \in Nat
    BY <1>2, StreamType, RedrawsFinite
  <2>2. Cardinality(RedrawsIn(Stream)') = Cardinality(RedrawsIn(Stream)) + 1
    BY <1>5, <1>6
  <2>3. shown \in Nat /\ redraws \in Nat /\ shown + Cardinality(RedrawsIn(Stream)) <= redraws
    BY <1>2 DEF SurfaceType, RedrawsCounted
  <2>4. QED
    BY <1>1, <2>1, <2>2, <2>3 DEF RedrawsCounted
<1>12. Numbered'
  BY <1>1, <1>2, <1>7 DEF Numbered
<1>13. Truthful'
  BY <1>1, <1>2, <1>7 DEF Truthful
<1>14. Earned'
  BY <1>1, <1>2, EarnedStays
<1>15. QED
  BY <1>8, <1>9, <1>10, <1>11, <1>12, <1>13, <1>14 DEF SurfaceInv

\* An editor that ends leaves what it has written.
LEMMA ExitEditorStep ==
  ASSUME SurfaceInv, ExitEditor
  PROVE  SurfaceInv'
<1>1. /\ editor = "up" /\ editor' = "exited" /\ asked' = <<>>
      /\ pipe' \in {pipe, SubSeq(pipe, 1, Len(pipe) - 1)}
      /\ UNCHANGED <<readBuffer, responses, nextMsgId, call, returned, shown, redraws, good, garbled, surfaceCalls>>
  BY DEF ExitEditor
<1>2. SurfaceType /\ InStep /\ RedrawsCounted /\ Numbered /\ Truthful /\ Earned
  BY DEF SurfaceInv
<1>3. /\ pipe' \in Seq(PartsOfMessages) /\ InTurn(Stream)'
      /\ \A i \in AnswersIn(Stream)' : i \in AnswersIn(Stream) /\ Stream'[2 * i] = Stream[2 * i]
      /\ Cardinality(RedrawsIn(Stream)') \in Nat
      /\ Cardinality(RedrawsIn(Stream)') <= Cardinality(RedrawsIn(Stream))
  BY <1>1, EditorStops
<1>4. SurfaceType'
  <2>1. asked' \in Seq(Nat)
    BY <1>1
  <2>2. QED
    BY <1>1, <1>2, <1>3, <2>1 DEF SurfaceType
<1>5. InStep'
  BY <1>1, <1>2, <1>3 DEF InStep
<1>6. NothingLeft'
  BY <1>1 DEF NothingLeft
<1>7. RedrawsCounted'
  <2>1. Cardinality(RedrawsIn(Stream)) \in Nat
    BY <1>2, StreamType, RedrawsFinite
  <2>2. shown \in Nat /\ redraws \in Nat /\ shown + Cardinality(RedrawsIn(Stream)) <= redraws
    BY <1>2 DEF SurfaceType, RedrawsCounted
  <2>3. QED
    BY <1>1, <1>3, <2>1, <2>2 DEF RedrawsCounted
<1>8. Numbered'
  <2>1. \A i \in DOMAIN asked' : asked'[i] < nextMsgId
    BY <1>1
  <2>2. QED
    BY <1>1, <1>2, <1>3, <2>1 DEF Numbered
<1>9. Truthful'
  BY <1>1, <1>2, <1>3 DEF Truthful
<1>10. Earned'
  BY <1>1, <1>2 DEF Earned, Quitting
<1>11. QED
  BY <1>4, <1>5, <1>6, <1>7, <1>8, <1>9, <1>10 DEF SurfaceInv

\* A step that leaves the stream, the answers and the editor alone: what is left to show of it.
LEMMA QuietStep ==
  ASSUME SurfaceInv, UNCHANGED <<editor, pipe, readBuffer, responses, shown, redraws, garbled>>,
         asked' \in Seq(Nat), editor = "none" => asked' = asked, \A i \in DOMAIN asked' : asked'[i] < nextMsgId',
         nextMsgId' \in Nat, nextMsgId <= nextMsgId', call' \in CallState,
         \A id \in call'.ids : id < nextMsgId',
         \A id \in call'.ids : (id \in call.ids /\ (id \in good => id \in good')) \/ ~(id < nextMsgId),
         returned' \in [ok : BOOLEAN, ids : SUBSET Nat], good' \in SUBSET Nat, Earned'
  PROVE  SurfaceInv'
<1>1. SurfaceType /\ InStep /\ RedrawsCounted /\ Numbered /\ Truthful /\ NothingLeft
  BY DEF SurfaceInv
<1>2. Stream' = Stream /\ RedrawsIn(Stream)' = RedrawsIn(Stream) /\ AnswersIn(Stream)' = AnswersIn(Stream)
  BY StreamStays
<1>3. SurfaceType'
  BY <1>1 DEF SurfaceType
<1>4. InStep'
  BY <1>1, <1>2 DEF InStep, InTurn
<1>5. NothingLeft'
  BY <1>1 DEF NothingLeft
<1>6. RedrawsCounted'
  BY <1>1, <1>2 DEF RedrawsCounted
<1>7. \A i \in AnswersIn(Stream) : Stream[2 * i].id \in Nat
  <2>1. Stream \in Seq(PartsOfMessages) /\ Len(Stream) \in Nat
    BY <1>1, StreamType, LenProperties
  <2>2. \A i \in AnswersIn(Stream) : 2 * i \in 1 .. Len(Stream)
    BY <2>1 DEF AnswersIn, MessagesOf
  <2>3. \A i \in 1 .. Len(Stream) : Stream[i] \in PartsOfMessages
    BY <2>1, ElementOfSeq
  <2>4. QED
    BY <2>2, <2>3 DEF PartsOfMessages
<1>8. nextMsgId \in Nat /\ DOMAIN responses \subseteq Nat /\ \A id \in call'.ids : id \in Nat
  BY <1>1 DEF SurfaceType, CallState
<1>9. Numbered'
  <2>1. \A i \in AnswersIn(Stream) : Stream[2 * i].id < nextMsgId'
    BY <1>1, <1>7, <1>8 DEF Numbered
  <2>2. \A id \in DOMAIN responses : id < nextMsgId'
    BY <1>1, <1>8 DEF Numbered
  <2>3. QED
    BY <1>2, <2>1, <2>2 DEF Numbered
<1>10. Truthful'
  <2>1. \A i \in AnswersIn(Stream) : ~Stream[2 * i].error /\ Stream[2 * i].id \in call'.ids => Stream[2 * i].id \in good'
    BY <1>1 DEF Numbered, Truthful
  <2>2. \A id \in DOMAIN responses : ~responses[id] /\ id \in call'.ids => id \in good'
    BY <1>1 DEF Numbered, Truthful
  <2>3. QED
    BY <1>2, <2>1, <2>2 DEF Truthful
<1>11. QED
  BY <1>3, <1>4, <1>5, <1>6, <1>9, <1>10 DEF SurfaceInv

\* A call begins with no request of its own.
LEMMA BeginCallStep ==
  ASSUME SurfaceInv, BeginCall
  PROVE  SurfaceInv'
<1>1. PICK op \in {"Start", "Shutdown", "Command", "SendInput"} :
        /\ call = idle
        /\ call' = [op |-> op, stage |-> IF op \in {"Start", "Shutdown"} THEN "quit" ELSE "main", at |-> "send", id |-> 0, ids |-> {}]
        /\ returned' = [ok |-> FALSE, ids |-> {}] /\ good' = {}
        /\ UNCHANGED <<editor, asked, pipe, readBuffer, responses, nextMsgId, shown, redraws, garbled>>
  BY DEF BeginCall
<1>2. SurfaceType /\ Numbered
  BY DEF SurfaceInv
<1>3. call' \in CallState /\ call'.ids = {} /\ call'.at = "send" /\ call'.stage \in {"quit", "main"}
  BY <1>1 DEF CallState
<1>4. returned' \in [ok : BOOLEAN, ids : SUBSET Nat] /\ good' \in SUBSET Nat
  BY <1>1
<1>5. call'.op = "Shutdown" => call'.stage = "quit"
  BY <1>1
<1>6. Earned'
  BY <1>1, <1>3, <1>5 DEF Earned, Quitting
<1>7. asked' \in Seq(Nat) /\ nextMsgId' \in Nat /\ nextMsgId <= nextMsgId' /\ \A i \in DOMAIN asked' : asked'[i] < nextMsgId'
  BY <1>1, <1>2 DEF SurfaceType, Numbered
<1>8. QED
  BY <1>1, <1>3, <1>4, <1>6, <1>7, QuietStep

\* A request has a number that no other had.
LEMMA SendRequestStep ==
  ASSUME SurfaceInv, SendRequest
  PROVE  SurfaceInv'
<1>1. /\ call.at = "send"
      /\ UNCHANGED <<editor, pipe, readBuffer, responses, returned, shown, redraws, good, garbled>>
  BY DEF SendRequest
<1>2. SurfaceType /\ Numbered /\ Earned
  BY DEF SurfaceInv
<1>3. /\ call \in CallState /\ call.stage \in {"quit", "undo", "main", "attach", "redraw"} /\ nextMsgId \in Nat
      /\ asked \in Seq(Nat) /\ good \in SUBSET Nat /\ returned \in [ok : BOOLEAN, ids : SUBSET Nat]
      /\ \A i \in DOMAIN asked : asked[i] < nextMsgId
      /\ \A id \in call.ids : id < nextMsgId
  BY <1>1, <1>2 DEF SurfaceType, Earned, Numbered
<1>4. CASE call' = [call EXCEPT !.at = "done"] /\ Quitting /\ UNCHANGED <<asked, nextMsgId>>
  <2>1. call' \in CallState /\ call'.ids = call.ids /\ call'.stage = call.stage /\ call'.at = "done" /\ call'.op = call.op
    BY <1>3, <1>4 DEF CallState
  <2>2. Earned'
    BY <1>1, <1>2, <1>3, <1>4, <2>1 DEF Earned, Quitting
  <2>3. QED
    BY <1>1, <1>3, <1>4, <2>1, <2>2, QuietStep
<1>5. CASE call' = [call EXCEPT !.at = "failed"] /\ nextMsgId' = nextMsgId + 1 /\ UNCHANGED asked
  <2>1. call' \in CallState /\ call'.ids = call.ids /\ call'.stage = call.stage /\ call'.at = "failed" /\ call'.op = call.op
    BY <1>3, <1>5 DEF CallState
  <2>2. Earned'
    BY <1>1, <1>2, <1>3, <1>5, <2>1 DEF Earned, Quitting
  <2>3. nextMsgId' \in Nat /\ nextMsgId <= nextMsgId'
    BY <1>3, <1>5
  <2>4. (\A i \in DOMAIN asked' : asked'[i] < nextMsgId') /\ \A id \in call'.ids : id < nextMsgId'
    <3>1. (\A i \in DOMAIN asked : asked[i] \in Nat) /\ \A id \in call.ids : id \in Nat
      BY <1>3, ElementOfSeq, LenProperties DEF CallState
    <3>2. QED
      BY <1>3, <1>5, <2>1, <3>1
  <2>5. QED
    BY <1>1, <1>3, <1>5, <2>1, <2>2, <2>3, <2>4, QuietStep
<1>6. CASE /\ editor = "up" /\ nextMsgId' = nextMsgId + 1 /\ asked' = Append(asked, nextMsgId)
           /\ call' = [call EXCEPT !.at = IF Quitting THEN "pump" ELSE "wait", !.id = nextMsgId,
                                   !.ids = IF Quitting THEN @ ELSE @ \cup {nextMsgId}]
  <2>1. /\ call' \in CallState /\ call'.stage = call.stage /\ call'.op = call.op /\ call'.id = nextMsgId
        /\ call'.ids = (IF Quitting THEN call.ids ELSE call.ids \cup {nextMsgId})
        /\ call'.at = (IF Quitting THEN "pump" ELSE "wait")
    BY <1>3, <1>6 DEF CallState
  <2>2. Earned'
    BY <1>1, <1>2, <1>3, <1>6, <2>1 DEF Earned, Quitting
  <2>3. nextMsgId' \in Nat /\ nextMsgId <= nextMsgId'
    BY <1>3, <1>6
  <2>4. /\ asked' \in Seq(Nat) /\ DOMAIN asked' = 1 .. Len(asked) + 1 /\ asked'[Len(asked) + 1] = nextMsgId
        /\ \A i \in 1 .. Len(asked) : asked'[i] = asked[i]
    BY <1>3, <1>6, AppendProperties, LenProperties
  <2>5. \A i \in DOMAIN asked' : asked'[i] < nextMsgId'
    <3>1. Len(asked) \in Nat /\ DOMAIN asked = 1 .. Len(asked) /\ \A i \in DOMAIN asked : asked[i] \in Nat
      BY <1>3, ElementOfSeq, LenProperties
    <3>2. ASSUME NEW i \in DOMAIN asked'
          PROVE  asked'[i] < nextMsgId'
      <4>1. i \in 1 .. Len(asked) \/ i = Len(asked) + 1
        BY <2>4, <3>1
      <4>2. CASE i \in 1 .. Len(asked)
        <5>1. asked'[i] = asked[i] /\ asked[i] \in Nat /\ asked[i] < nextMsgId
          BY <1>3, <2>4, <3>1, <4>2
        <5>2. QED
          BY <1>3, <1>6, <5>1
      <4>3. CASE i = Len(asked) + 1
        BY <1>3, <1>6, <2>4, <4>3
      <4>4. QED
        BY <4>1, <4>2, <4>3
    <3>3. QED
      BY <3>2
  <2>6. \A id \in call'.ids : id < nextMsgId'
    <3>1. \A id \in call.ids : id \in Nat
      BY <1>3 DEF CallState
    <3>2. QED
      BY <1>3, <1>6, <2>1, <3>1
  <2>7. \A id \in call'.ids : id \in call.ids \/ ~(id < nextMsgId)
    BY <1>3, <2>1
  <2>8. editor = "none" => asked' = asked
    BY <1>6
  <2>9. QED
    BY <1>1, <1>3, <2>1, <2>2, <2>3, <2>4, <2>5, <2>6, <2>7, <2>8, QuietStep
<1>7. QED
  <2>1. CASE Quitting /\ editor = "none"
    BY <1>4, <2>1 DEF SendRequest, At, Stage, CallState
  <2>2. CASE ~(Quitting /\ editor = "none") /\ editor = "up"
    BY <1>6, <2>2 DEF SendRequest
  <2>3. CASE ~(Quitting /\ editor = "none") /\ editor # "up"
    BY <1>5, <2>3 DEF SendRequest, At, Stage
  <2>4. QED
    BY <2>1, <2>2, <2>3

\* What is read is handled message by message; half a message waits.
LEMMA ReadAndHandleStep ==
  ASSUME SurfaceInv, ReadAndHandle
  PROVE  SurfaceInv'
<1>1. call.at \in {"wait", "pump"} /\ UNCHANGED <<editor, asked, nextMsgId, returned, redraws, good>>
  BY DEF ReadAndHandle
<1>2. SurfaceType /\ InStep /\ RedrawsCounted /\ Numbered /\ Truthful /\ Earned
  BY DEF SurfaceInv
<1>3. /\ pipe' \in Seq(PartsOfMessages) /\ readBuffer' \in Seq(PartsOfMessages) /\ Len(readBuffer)' <= 1
      /\ garbled' \in BOOLEAN /\ ~garbled' /\ InTurn(Stream)' /\ Len(Stream)' % 2 = Len(Stream) % 2
      /\ shown' \in Nat /\ shown' + Cardinality(RedrawsIn(Stream)') = shown + Cardinality(RedrawsIn(Stream))
      /\ \A i \in AnswersIn(Stream)' : \E j \in AnswersIn(Stream) : Stream'[2 * i] = Stream[2 * j]
  BY ReadReturns
<1>4. PICK known : DOMAIN known \subseteq Nat /\ known \in [DOMAIN known -> BOOLEAN] /\ Heard(known) /\ Taken(known)
  BY ReadReturns
<1> DEFINE mine == IF call.at = "wait" THEN OwnAnswer(known) ELSE 0
<1>5. /\ responses' = [id \in DOMAIN known \ {mine} |-> known[id]]
      /\ IF mine = 0 THEN UNCHANGED call ELSE At(IF known[mine] THEN "failed" ELSE "done")
  BY <1>4 DEF Taken
<1>6. mine # 0 => mine = call.id /\ mine \in DOMAIN known /\ call.at = "wait"
  BY DEF OwnAnswer
<1> HIDE DEF mine
<1>7. call \in CallState
  BY <1>2 DEF SurfaceType
<1>8. \A id \in DOMAIN known : id < nextMsgId /\ (~known[id] /\ id \in call.ids => id \in good)
  BY <1>2, <1>4 DEF Heard, Numbered, Truthful
<1>9. call' \in CallState /\ call'.ids = call.ids /\ call'.stage = call.stage /\ call'.op = call.op /\ call'.id = call.id
      /\ \/ call'.at = call.at
         \/ call'.at = "failed"
         \/ call'.at = "done" /\ call.at = "wait" /\ call.id \in DOMAIN known /\ ~known[call.id]
  <2>1. CASE mine = 0
    BY <1>5, <1>7, <2>1
  <2>2. CASE mine # 0
    BY <1>5, <1>6, <1>7, <2>2 DEF At, Stage, CallState
  <2>3. QED
    BY <2>1, <2>2
<1>10. SurfaceType'
  <2>1. DOMAIN responses' \subseteq Nat /\ responses' \in [DOMAIN responses' -> BOOLEAN]
    <3>1. DOMAIN responses' = DOMAIN known \ {mine}
      BY <1>5
    <3>2. \A id \in DOMAIN known \ {mine} : known[id] \in BOOLEAN
      BY <1>4
    <3>3. responses' \in [DOMAIN known \ {mine} -> BOOLEAN]
      BY <1>5, <3>2
    <3>4. DOMAIN known \subseteq Nat
      BY <1>4
    <3>5. DOMAIN responses' \subseteq Nat
      BY <3>1, <3>4
    <3>6. responses' \in [DOMAIN responses' -> BOOLEAN]
      BY <3>1, <3>3
    <3>7. QED
      BY <3>5, <3>6
  <2>2. garbled' \in BOOLEAN
    BY <1>3
  <2>3. QED
    BY <1>1, <1>2, <1>3, <1>9, <2>1, <2>2 DEF SurfaceType
<1>11. InStep'
  BY <1>1, <1>2, <1>3 DEF InStep
<1>12. NothingLeft'
  <2>1. CASE editor = "none"
    <3>1. pipe = <<>> /\ readBuffer = <<>> /\ asked = <<>> /\ responses = <<>>
      BY <2>1 DEF SurfaceInv, NothingLeft
    <3>2. Len(pipe) = 0 /\ Stream = <<>>
      BY <3>1 DEF Stream
    <3>3. AnswersIn(Stream) = {}
      BY <3>2 DEF AnswersIn, MessagesOf
    <3>4. DOMAIN known = {}
      BY <1>4, <3>1, <3>3 DEF Heard
    <3>5. responses' = <<>>
      BY <1>5, <3>4
    <3>6. pipe' = <<>> /\ readBuffer' = <<>>
      BY <3>1, <3>2 DEF ReadAndHandle
    <3>7. QED
      BY <1>1, <3>1, <3>5, <3>6 DEF NothingLeft
  <2>2. CASE editor # "none"
    BY <1>1, <2>2 DEF NothingLeft
  <2>3. QED
    BY <2>1, <2>2
<1>13. RedrawsCounted'
  BY <1>1, <1>2, <1>3 DEF RedrawsCounted
<1>14. Numbered'
  <2>1. \A i \in AnswersIn(Stream)' : Stream'[2 * i].id < nextMsgId
    BY <1>2, <1>3 DEF Numbered
  <2>2. \A id \in DOMAIN responses' : id < nextMsgId
    BY <1>5, <1>8
  <2>3. QED
    BY <1>1, <1>2, <1>9, <2>1, <2>2 DEF Numbered
<1>15. Truthful'
  <2>1. \A i \in AnswersIn(Stream)' : ~Stream'[2 * i].error /\ Stream'[2 * i].id \in call.ids => Stream'[2 * i].id \in good
    BY <1>2, <1>3 DEF Truthful
  <2>2. \A id \in DOMAIN responses' : ~responses'[id] /\ id \in call.ids => id \in good
    BY <1>5, <1>8
  <2>3. QED
    BY <1>1, <1>9, <2>1, <2>2 DEF Truthful
<1>16. Earned'
  <2>1. call.at = "wait" => call.ids \ {call.id} \subseteq good
    BY <1>2 DEF Earned
  <2>2. call'.at = "done" => call.ids \subseteq good
    <3>1. CASE call'.at = call.at
      BY <1>1, <3>1
    <3>2. CASE call'.at = "done" /\ call.at = "wait" /\ call.id \in DOMAIN known /\ ~known[call.id]
      BY <1>8, <2>1, <3>2
    <3>3. QED
      BY <1>9, <3>1, <3>2
  <2>3. QED
    BY <1>1, <1>2, <1>9, <2>1, <2>2 DEF Earned, Quitting
<1>17. QED
  BY <1>10, <1>11, <1>12, <1>13, <1>14, <1>15, <1>16 DEF SurfaceInv

\* A step of the call alone, to a place with the same requests or to none.
LEMMA CallStep ==
  ASSUME SurfaceInv, UNCHANGED <<editor, asked, pipe, readBuffer, responses, nextMsgId, shown, redraws, good, garbled>>,
         call' \in CallState, call'.ids \subseteq call.ids, returned' \in [ok : BOOLEAN, ids : SUBSET Nat], Earned'
  PROVE  SurfaceInv'
<1>1. SurfaceType /\ Numbered
  BY DEF SurfaceInv
<1>2. /\ asked' \in Seq(Nat) /\ nextMsgId' \in Nat /\ nextMsgId <= nextMsgId' /\ good' \in SUBSET Nat
      /\ (\A i \in DOMAIN asked' : asked'[i] < nextMsgId') /\ \A id \in call'.ids : id < nextMsgId'
  BY <1>1 DEF SurfaceType, Numbered
<1>3. \A id \in call'.ids : id \in call.ids /\ (id \in good => id \in good')
  OBVIOUS
<1>4. QED
  BY <1>2, <1>3, QuietStep

\* A call that runs out of time asks for nothing more.
LEMMA DeadlineStep ==
  ASSUME SurfaceInv, DeadlinePasses \/ ReadFails
  PROVE  SurfaceInv'
<1>1. /\ call.at \in {"wait", "pump"} /\ (At("failed") \/ (call.at = "pump" /\ At("done")))
      /\ UNCHANGED <<editor, asked, pipe, readBuffer, responses, nextMsgId, returned, shown, redraws, good, garbled>>
  <2>1. CASE ReadFails
    BY <2>1 DEF ReadFails
  <2>2. CASE DeadlinePasses /\ call.at = "wait"
    BY <2>2 DEF DeadlinePasses
  <2>3. CASE DeadlinePasses /\ call.at # "wait"
    BY <2>3 DEF DeadlinePasses
  <2>4. QED
    BY <2>1, <2>2, <2>3
<1>2. call \in CallState /\ Earned /\ returned \in [ok : BOOLEAN, ids : SUBSET Nat]
  BY DEF SurfaceInv, SurfaceType
<1>3. /\ call' \in CallState /\ call'.ids = call.ids /\ call'.stage = call.stage /\ call'.op = call.op
      /\ call'.at = "failed" \/ (call.at = "pump" /\ call'.at = "done")
  BY <1>1, <1>2 DEF At, Stage, CallState
<1>4. Earned'
  BY <1>1, <1>2, <1>3 DEF Earned, Quitting
<1>5. QED
  BY <1>1, <1>2, <1>3, <1>4, CallStep

\* How a call ends.
LEMMA ReturnType ==
  ASSUME call \in CallState, NEW ok \in BOOLEAN, Return(ok)
  PROVE  /\ call' \in CallState /\ call'.ids = {} /\ call'.at = "idle" /\ call'.stage = "none" /\ call'.op = "none"
         /\ returned' \in [ok : BOOLEAN, ids : SUBSET Nat] /\ returned'.ok = ok /\ returned'.ids = call.ids
BY DEF Return, idle, CallState

\* How a call goes on.
LEMMA StageType ==
  ASSUME call \in CallState, NEW stage \in {"boot", "attach", "redraw", "settle", "undo", "drain"},
         NEW at \in {"send", "pump", "boot"}, Stage(stage, at)
  PROVE  call' \in CallState /\ call'.ids = call.ids /\ call'.at = at /\ call'.stage = stage /\ call'.op = call.op
BY DEF Stage, CallState

\* With the editor go the stream, the answers and the questions.
LEMMA TerminateStep ==
  ASSUME SurfaceInv, Terminate
  PROVE  SurfaceInv'
<1>1. /\ Quitting /\ call.at \in {"done", "failed"}
      /\ editor' = "none" /\ asked' = <<>> /\ pipe' = <<>> /\ responses' = <<>> /\ readBuffer' = <<>>
      /\ IF call.op = "Start" /\ call.stage = "quit" THEN Stage("boot", "boot") /\ UNCHANGED returned
         ELSE Return(call.op = "Shutdown")
      /\ UNCHANGED <<nextMsgId, shown, redraws, good, garbled>>
  BY DEF Terminate, Forget
<1>2. SurfaceType /\ InStep /\ RedrawsCounted /\ Numbered /\ Truthful /\ Earned
  BY DEF SurfaceInv
<1>3. call \in CallState /\ returned \in [ok : BOOLEAN, ids : SUBSET Nat] /\ shown \in Nat /\ redraws \in Nat
  BY <1>2 DEF SurfaceType
<1>4. /\ call' \in CallState /\ call'.ids \subseteq call.ids /\ returned' \in [ok : BOOLEAN, ids : SUBSET Nat] /\ Earned'
  <2>1. CASE call.op = "Start" /\ call.stage = "quit"
    <3>1. call' \in CallState /\ call'.ids = call.ids /\ call'.at = "boot" /\ call'.stage = "boot" /\ call'.op = call.op
      BY <1>1, <1>3, <2>1, StageType
    <3>2. returned' = returned /\ call.ids = {}
      BY <1>1, <1>2, <2>1 DEF Earned
    <3>3. Earned'
      BY <1>1, <1>2, <2>1, <3>1, <3>2 DEF Earned, Quitting
    <3>4. QED
      BY <1>3, <3>1, <3>2, <3>3
  <2>2. CASE ~(call.op = "Start" /\ call.stage = "quit")
    <3> DEFINE ok == call.op = "Shutdown"
    <3>1. ok \in BOOLEAN /\ Return(ok)
      BY <1>1, <2>2
    <3> HIDE DEF ok
    <3>2. /\ call' \in CallState /\ call'.ids = {} /\ call'.at = "idle" /\ call'.stage = "none" /\ call'.op = "none"
          /\ returned' \in [ok : BOOLEAN, ids : SUBSET Nat] /\ returned'.ok = ok /\ returned'.ids = call.ids
      BY <1>3, <3>1, ReturnType
    <3>3. ok => call.ids = {}
      BY <1>2 DEF ok, Earned
    <3>4. Earned'
      BY <3>2, <3>3 DEF Earned, Quitting
    <3>5. QED
      BY <3>2, <3>4
  <2>3. QED
    BY <2>1, <2>2
<1>5. Stream' = <<>>
  BY <1>1 DEF Stream
<1>6. AnswersIn(Stream)' = {} /\ RedrawsIn(Stream)' = {}
  BY <1>5 DEF AnswersIn, RedrawsIn, MessagesOf
<1>7. SurfaceType'
  BY <1>1, <1>2, <1>4 DEF SurfaceType
<1>8. InStep'
  BY <1>1, <1>2, <1>5 DEF InStep, InTurn
<1>9. NothingLeft'
  BY <1>1 DEF NothingLeft
<1>10. RedrawsCounted'
  <2>1. Cardinality(RedrawsIn(Stream)) \in Nat
    BY <1>2, StreamType, RedrawsFinite
  <2>2. Cardinality(RedrawsIn(Stream)') = 0
    BY <1>6, FS_EmptySet
  <2>3. QED
    BY <1>1, <1>2, <1>3, <2>1, <2>2 DEF RedrawsCounted
<1>11. Numbered'
  BY <1>1, <1>2, <1>4, <1>6 DEF Numbered
<1>12. Truthful'
  BY <1>1, <1>6 DEF Truthful
<1>13. QED
  BY <1>4, <1>7, <1>8, <1>9, <1>10, <1>11, <1>12 DEF SurfaceInv

\* A new editor finds an empty stream.
LEMMA StartProcessStep ==
  ASSUME SurfaceInv, StartProcess
  PROVE  SurfaceInv'
<1>1. /\ call.at = "boot" /\ shown' = 0 /\ redraws' = 0
      /\ \/ editor' = "up" /\ Stage("attach", "send") /\ UNCHANGED returned
         \/ Return(FALSE) /\ UNCHANGED editor
      /\ UNCHANGED <<asked, pipe, readBuffer, responses, nextMsgId, good, garbled>>
  BY DEF StartProcess
<1>2. SurfaceType /\ InStep /\ NothingLeft /\ Numbered /\ Truthful /\ Earned
  BY DEF SurfaceInv
<1>3. call \in CallState /\ returned \in [ok : BOOLEAN, ids : SUBSET Nat]
  BY <1>2 DEF SurfaceType
<1>4. editor = "none" /\ call.ids = {} /\ pipe = <<>> /\ readBuffer = <<>> /\ asked = <<>> /\ responses = <<>>
  BY <1>1, <1>2 DEF Earned, NothingLeft
<1>5. call' \in CallState /\ call'.ids = {} /\ returned' \in [ok : BOOLEAN, ids : SUBSET Nat] /\ Earned'
  <2>1. CASE editor' = "up" /\ Stage("attach", "send") /\ UNCHANGED returned
    <3>1. call' \in CallState /\ call'.ids = call.ids /\ call'.at = "send" /\ call'.stage = "attach" /\ call'.op = call.op
      BY <1>3, <2>1, StageType
    <3>2. call.op # "Shutdown"
      BY <1>1, <1>2 DEF Earned
    <3>3. Earned'
      BY <1>1, <1>2, <1>4, <2>1, <3>1, <3>2 DEF Earned, Quitting
    <3>4. QED
      BY <1>3, <1>4, <2>1, <3>1, <3>3
  <2>2. CASE Return(FALSE) /\ UNCHANGED editor
    <3> DEFINE ok == FALSE
    <3>1. ok \in BOOLEAN /\ ~ok
      BY Zenon
    <3>2. Return(ok)
      BY <2>2
    <3> HIDE DEF ok
    <3>3. /\ call' \in CallState /\ call'.ids = {} /\ call'.at = "idle" /\ call'.stage = "none" /\ call'.op = "none"
          /\ returned' \in [ok : BOOLEAN, ids : SUBSET Nat] /\ returned'.ok = ok /\ returned'.ids = call.ids
      BY <1>3, <3>1, <3>2, ReturnType
    <3>4. Earned'
      BY <3>1, <3>3 DEF Earned, Quitting
    <3>5. QED
      BY <3>3, <3>4
  <2>3. QED
    BY <1>1, <2>1, <2>2
<1>6. Stream' = <<>>
  BY <1>1, <1>4 DEF Stream
<1>7. AnswersIn(Stream)' = {} /\ RedrawsIn(Stream)' = {}
  BY <1>6 DEF AnswersIn, RedrawsIn, MessagesOf
<1>8. SurfaceType'
  BY <1>1, <1>2, <1>5 DEF SurfaceType
<1>9. InStep'
  BY <1>1, <1>2, <1>6 DEF InStep, InTurn
<1>10. NothingLeft'
  BY <1>1, <1>4 DEF NothingLeft
<1>11. RedrawsCounted'
  <2>1. Cardinality(RedrawsIn(Stream)') = 0
    BY <1>7, FS_EmptySet
  <2>2. QED
    BY <1>1, <2>1 DEF RedrawsCounted
<1>12. Numbered'
  BY <1>1, <1>2, <1>5, <1>7 DEF Numbered
<1>13. Truthful'
  BY <1>5, <1>7 DEF Truthful
<1>14. QED
  BY <1>5, <1>8, <1>9, <1>10, <1>11, <1>12, <1>13 DEF SurfaceInv

\* A call that goes on has earned what it asked for.
LEMMA ProceedStep ==
  ASSUME SurfaceInv, Proceed
  PROVE  SurfaceInv'
<1>1. /\ ~Quitting /\ call.at \in {"done", "failed"}
      /\ UNCHANGED <<editor, asked, pipe, readBuffer, responses, nextMsgId, shown, redraws, good, garbled>>
  BY DEF Proceed
<1>2. Earned /\ call \in CallState /\ returned \in [ok : BOOLEAN, ids : SUBSET Nat]
  BY DEF SurfaceInv, SurfaceType
<1>3. /\ call.at = "done" => call.ids \subseteq good
      /\ call.stage \in {"settle", "drain"} => call.ids \subseteq good
      /\ call.op = "Shutdown" => call.stage = "quit"
      /\ call.stage # "quit" /\ call.stage # "undo"
  BY <1>1, <1>2 DEF Earned, Quitting
<1>4. CASE \E stage \in {"redraw", "settle", "undo", "drain"}, at \in {"send", "pump"} :
             /\ Stage(stage, at) /\ UNCHANGED returned
             /\ (at = "pump" => stage \in {"settle", "drain"} /\ call.at = "done")
             /\ (at = "send" => stage = "undo" \/ (stage = "redraw" /\ call.at = "done"))
  <2>1. PICK stage \in {"redraw", "settle", "undo", "drain"}, at \in {"send", "pump"} :
          /\ Stage(stage, at) /\ UNCHANGED returned
          /\ (at = "pump" => stage \in {"settle", "drain"} /\ call.at = "done")
          /\ (at = "send" => stage = "undo" \/ (stage = "redraw" /\ call.at = "done"))
    BY <1>4
  <2>2. call' \in CallState /\ call'.ids = call.ids /\ call'.at = at /\ call'.stage = stage /\ call'.op = call.op
    BY <1>2, <2>1, StageType
  <2>3. Earned'
    BY <1>1, <1>2, <1>3, <2>1, <2>2 DEF Earned, Quitting
  <2>4. QED
    BY <1>1, <1>2, <2>1, <2>2, <2>3, CallStep
<1>5. CASE \E ok \in BOOLEAN : Return(ok) /\ (ok => call.ids \subseteq good)
  <2>1. PICK ok \in BOOLEAN : Return(ok) /\ (ok => call.ids \subseteq good)
    BY <1>5
  <2>2. /\ call' \in CallState /\ call'.ids = {} /\ call'.at = "idle" /\ call'.stage = "none" /\ call'.op = "none"
        /\ returned' \in [ok : BOOLEAN, ids : SUBSET Nat] /\ returned'.ok = ok /\ returned'.ids = call.ids
    BY <1>2, <2>1, ReturnType
  <2>3. Earned'
    BY <1>1, <2>1, <2>2 DEF Earned, Quitting
  <2>4. QED
    BY <1>1, <2>2, <2>3, CallStep
<1>6. QED
  <2> DEFINE ok == call.at = "done"
             yes == TRUE
  <2>1. ok \in BOOLEAN /\ yes \in BOOLEAN /\ yes
    BY Zenon
  <2>2. \/ call.stage = "attach" /\ ok /\ Stage("redraw", "send") /\ UNCHANGED returned
        \/ call.stage = "redraw" /\ ok /\ Stage("settle", "pump") /\ UNCHANGED returned
        \/ call.stage \in {"attach", "redraw"} /\ ~ok /\ Stage("undo", "send") /\ UNCHANGED returned
        \/ call.stage = "settle" /\ Return(yes)
        \/ call.stage = "main" /\ ok /\ call.op # "Command" /\ Stage("drain", "pump") /\ UNCHANGED returned
        \/ call.stage = "main" /\ (~ok \/ call.op = "Command") /\ Return(ok)
        \/ call.stage = "drain" /\ Return(ok)
    BY Zenon DEF Proceed
  <2> HIDE DEF yes
  <2>3. CASE call.stage = "attach" /\ ok /\ Stage("redraw", "send") /\ UNCHANGED returned
    BY <1>4, <2>3
  <2>4. CASE call.stage = "redraw" /\ ok /\ Stage("settle", "pump") /\ UNCHANGED returned
    BY <1>4, <2>4
  <2>5. CASE call.stage \in {"attach", "redraw"} /\ ~ok /\ Stage("undo", "send") /\ UNCHANGED returned
    BY <1>4, <2>5
  <2>6. CASE call.stage = "main" /\ ok /\ call.op # "Command" /\ Stage("drain", "pump") /\ UNCHANGED returned
    BY <1>4, <2>6
  <2>7. CASE call.stage = "settle" /\ Return(yes)
    BY <1>3, <1>5, <2>1, <2>7
  <2>8. CASE Return(ok)
    <3>1. ok => call.ids \subseteq good
      BY <1>3
    <3> HIDE DEF ok
    <3>2. QED
      BY <1>5, <2>1, <2>8, <3>1
  <2>9. QED
    BY <2>2, <2>3, <2>4, <2>5, <2>6, <2>7, <2>8

\* Nothing happens.
LEMMA SurfaceStutters ==
  ASSUME SurfaceInv, UNCHANGED surfaceVars
  PROVE  SurfaceInv'
<1>1. UNCHANGED <<editor, asked, pipe, readBuffer, responses, nextMsgId, call, returned, shown, redraws, good, garbled>>
  BY DEF surfaceVars
<1>2. call \in CallState /\ returned \in [ok : BOOLEAN, ids : SUBSET Nat] /\ Earned
  BY DEF SurfaceInv, SurfaceType
<1>3. Earned'
  BY <1>1, <1>2, EarnedStays
<1>4. QED
  BY <1>1, <1>2, <1>3, CallStep

\* At first there is no editor.
LEMMA SurfaceStarts ==
  ASSUME SurfaceInit
  PROVE  SurfaceInv
<1>1. /\ editor = "none" /\ asked = <<>> /\ pipe = <<>> /\ readBuffer = <<>> /\ responses = <<>>
      /\ nextMsgId = 1 /\ call = idle /\ returned = [ok |-> FALSE, ids |-> {}]
      /\ shown = 0 /\ redraws = 0 /\ good = {} /\ garbled = FALSE
  BY DEF SurfaceInit
<1>2. SurfaceType
  <2>1. call \in CallState
    BY <1>1, IdleType
  <2>2. returned \in [ok : BOOLEAN, ids : SUBSET Nat] /\ garbled \in BOOLEAN
    BY <1>1
  <2>3. DOMAIN responses \subseteq Nat /\ responses \in [DOMAIN responses -> BOOLEAN]
    BY <1>1
  <2>4. QED
    BY <1>1, <2>1, <2>2, <2>3 DEF SurfaceType
<1>3. Stream = <<>> /\ Len(readBuffer) = 0
  BY <1>1 DEF Stream
<1>4. AnswersIn(Stream) = {} /\ RedrawsIn(Stream) = {}
  BY <1>3 DEF AnswersIn, RedrawsIn, MessagesOf
<1>5. InStep
  BY <1>1, <1>3 DEF InStep, InTurn
<1>6. RedrawsCounted
  <2>1. Cardinality(RedrawsIn(Stream)) = 0
    BY <1>4, FS_EmptySet
  <2>2. QED
    BY <1>1, <2>1 DEF RedrawsCounted
<1>7. NothingLeft /\ Numbered /\ Truthful /\ Earned
  BY <1>1, <1>4 DEF NothingLeft, Numbered, Truthful, Earned, Quitting, idle
<1>8. QED
  BY <1>2, <1>5, <1>6, <1>7 DEF SurfaceInv

\* Every step keeps the invariant.
LEMMA SurfaceKeeps ==
  ASSUME SurfaceInv, [SurfaceNext]_surfaceVars
  PROVE  SurfaceInv'
BY AnswerRequestStep, SendRedrawStep, ExitEditorStep, BeginCallStep, SendRequestStep, ReadAndHandleStep, DeadlineStep,
   TerminateStep, StartProcessStep, ProceedStep, SurfaceStutters DEF SurfaceNext, EditorMoves

\* The invariant says that the surface is sound.
LEMMA SurfaceInvSound ==
  ASSUME SurfaceInv
  PROVE  SurfaceSound
<1>1. SurfaceType /\ InStep /\ NothingLeft /\ RedrawsCounted /\ Earned
  BY DEF SurfaceInv
<1>2. Cardinality(RedrawsIn(Stream)) \in Nat
  BY <1>1, StreamType, RedrawsFinite
<1>3. shown <= redraws
  BY <1>1, <1>2 DEF SurfaceType, RedrawsCounted
<1>4. QED
  BY <1>1, <1>3 DEF SurfaceSound, InStep, NothingLeft, Earned

(* However the stream is cut, whenever the editor answers, redraws or      *)
(* exits, and whichever calls run out of time, the messages that are       *)
(* handled are whole and in turn, a call succeeds only if the editor did   *)
(* all that it asked, no redraw is shown that was not sent, and nothing is *)
(* left of an editor that is gone (NvimSurface: Start, Shutdown, Command,  *)
(* SendInput, ReadAndHandle and Terminate).                                *)
THEOREM SurfaceIsSound == SurfaceInit /\ [][SurfaceNext]_surfaceVars => []SurfaceSound
<1>1. SurfaceInit => SurfaceInv
  BY SurfaceStarts
<1>2. SurfaceInv /\ [SurfaceNext]_surfaceVars => SurfaceInv'
  BY SurfaceKeeps
<1>3. SurfaceInv => SurfaceSound
  BY SurfaceInvSound
<1>4. QED
  BY <1>1, <1>2, <1>3, PTL
=============================================================================
