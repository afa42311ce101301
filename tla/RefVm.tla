------------------------------- MODULE RefVm --------------------------------
(***************************************************************************)
(* engine/sandbox, RefVm: a run of the caller's code on the reference      *)
(* machine, with the gateway and the dispatcher its host calls go through  *)
(* to the game API.                                                        *)
(*                                                                         *)
(* The code is arbitrary: any instruction may come next, with any operands *)
(* and any values on the stack.  Of the stack only the height is kept, of  *)
(* a frame that it is there, of the memory its size.  Words of 64 and 32   *)
(* bits have WordSize and HalfSize values.                                 *)
(***************************************************************************)
EXTENDS GameApi

CONSTANTS
  PolicyCaps, Fuel, MemoryBytes, StackSlots, CallDepth, MaxRunHostCalls, \* the policy of a run
  HostCallFuel,            \* kHostCallFuel
  WordSize, HalfSize,
  EntityListHeader, EntityIdSize, \* sizes of the parts of an entity list
  ArgsSize, ResultSize,    \* by call: sizes of the blocks it takes and returns
  Windows,                 \* bound: the offsets and lengths that calls are given
  MaxRuns                  \* bound: the runs

ASSUME RefVmAssumption ==
  /\ {Fuel, MemoryBytes, StackSlots, CallDepth, MaxRunHostCalls, HostCallFuel, MaxRuns} \subseteq Nat
  /\ {EntityListHeader, EntityIdSize, HalfSize} \subseteq Nat \ {0}
  /\ MemoryBytes < HalfSize /\ HalfSize <= WordSize
  /\ ArgsSize \in [CallId -> Nat] /\ ResultSize \in [CallId -> Nat] /\ ArgsSize["Log"] > 0
  /\ Windows \subseteq [off : 0 .. WordSize - 1, len : 0 .. WordSize - 1]

VARIABLES
  vm,      \* a run under way
  result,  \* the result of the last run
  inside,  \* history: whether all accesses to memory were inside what they were given
  work,    \* history: the fuel of the instructions fetched, and the calls made, in the last run
  runs     \* bound: the runs so far

vmVars == <<vm, result, inside, work, runs>>

Stopped == [on |-> FALSE, fuel |-> 0, stack |-> 0, frames |-> 0, hostCalls |-> 0]

NoResult == [trap |-> "None", fuelUsed |-> 0, hostCalls |-> 0]

NoWork == [fuel |-> 0, hostCalls |-> 0]

VmInit ==
  /\ GameInit
  /\ vm = Stopped /\ result = NoResult
  /\ inside = TRUE /\ work = NoWork /\ runs = 0

(* The instructions that stay inside the machine, by how much of the stack *)
(* they take and leave, and how else they may trap: before they take it    *)
(* (an operand that is cut off or out of range), or after.                 *)
Row(takes, leaves, before, after) == [takes |-> takes, leaves |-> leaves, before |-> before, after |-> after]

Moves ==
  {Row(0, 0, {}, {}), Row(1, 0, {}, {}), Row(1, 2, {}, {}), Row(2, 2, {}, {}), \* Nop, Pop, Dup, Swap
   Row(0, 1, {"IllegalInstruction"}, {}), Row(1, 0, {"IllegalInstruction"}, {})} \* Push, LdLoc; StLoc

Arithmetic == {Row(1, 1, {}, {}), Row(2, 1, {}, {}), Row(2, 1, {}, {"DivideByZero"})}

(* Comparisons and jumps; an unknown opcode is as a jump without operand.  *)
Branches ==
  {Row(2, 1, {}, {}), Row(0, 0, {"IllegalInstruction"}, {}),
   Row(1, 0, {"IllegalInstruction"}, {"IllegalInstruction"})}

-----------------------------------------------------------------------------
(* Every way out of Run.                                                   *)
Finish(trap, fuel, hostCalls) ==
  /\ vm' = Stopped
  /\ result' = [trap |-> trap, fuelUsed |-> Fuel - fuel, hostCalls |-> hostCalls]

(* The arena may be refused, allocating it may fail, or there may be no    *)
(* room for the argument.                                                  *)
Run ==
  /\ tick.open /\ ~vm.on /\ runs < MaxRuns
  /\ runs' = runs + 1 /\ work' = NoWork
  /\ \/ Finish("OutOfMemory", Fuel, 0)
     \/ StackSlots = 0 /\ Finish("StackOverflow", Fuel, 0)
     \/ /\ StackSlots > 0
        /\ vm' = [on |-> TRUE, fuel |-> Fuel, stack |-> 1, frames |-> 1, hostCalls |-> 0]
        /\ result' = NoResult
  /\ UNCHANGED <<inside, gameVars>>

(* Fetching an instruction charges it.                                     *)
Fetch(cost) ==
  /\ vm.on /\ vm.fuel >= cost
  /\ work' = [work EXCEPT !.fuel = @ + cost]

Trap(reason) == Finish(reason, vm.fuel - 1, vm.hostCalls)

RunsOut ==
  /\ vm.on
  /\ \/ vm.fuel < HostCallFuel /\ Finish("FuelExhausted", vm.fuel, vm.hostCalls)
     \/ Finish("IllegalInstruction", vm.fuel, vm.hostCalls)  \* pc is past the code
  /\ UNCHANGED <<inside, work, runs, gameVars>>

Execute(i) ==
  /\ Fetch(1)
  /\ \/ \E reason \in i.before : Trap(reason)
     \/ vm.stack < i.takes /\ Trap("StackUnderflow")
     \/ /\ vm.stack >= i.takes
        /\ \/ \E reason \in i.after : Trap(reason)
           \/ vm.stack - i.takes + i.leaves > StackSlots /\ Trap("StackOverflow")
           \/ i.leaves > 0 /\ Trap("OutOfMemory")  \* growing the stack throws
           \/ /\ vm.stack - i.takes + i.leaves <= StackSlots
              /\ vm' = [vm EXCEPT !.fuel = @ - 1, !.stack = @ - i.takes + i.leaves]
              /\ UNCHANGED result
  /\ UNCHANGED <<inside, runs, gameVars>>

Outside(address, length) == length > MemoryBytes \/ address > MemoryBytes - length

(* An access in the part of the memory that starts at off.                 *)
Access(from, length, off, len) ==
  off <= from /\ from + length <= off + len /\ off + len <= MemoryBytes

(* Ld8 to Ld64 and St8 to St64.                                            *)
LoadStore(width, stores, address) ==
  LET takes == IF stores THEN 2 ELSE 1 IN
  /\ Fetch(1)
  /\ \/ vm.stack < takes /\ Trap("StackUnderflow") /\ UNCHANGED inside
     \/ vm.stack >= takes /\ Outside(address, width) /\ Trap("BadMemoryAccess") /\ UNCHANGED inside
     \/ /\ vm.stack >= takes /\ ~Outside(address, width)
        /\ inside' = (inside /\ Access(address, width, 0, MemoryBytes))
        /\ vm' = [vm EXCEPT !.fuel = @ - 1, !.stack = IF stores THEN @ - 2 ELSE @]
        /\ UNCHANGED result
  /\ UNCHANGED <<runs, gameVars>>

Call ==
  /\ Fetch(1)
  /\ \/ Trap("IllegalInstruction")
     \/ vm.frames >= CallDepth /\ Trap("StackOverflow")
     \/ Trap("OutOfMemory")
     \/ /\ vm.frames < CallDepth
        /\ vm' = [vm EXCEPT !.fuel = @ - 1, !.frames = @ + 1]
        /\ UNCHANGED result
  /\ UNCHANGED <<inside, runs, gameVars>>

(* Ret, from the entry frame as Halt.                                      *)
Ret ==
  /\ Fetch(1)
  /\ \/ vm.frames = 1 /\ Trap("None")
     \/ vm.frames > 1 /\ vm' = [vm EXCEPT !.fuel = @ - 1, !.frames = @ - 1] /\ UNCHANGED result
     \/ Trap("None")  \* Halt
  /\ UNCHANGED <<inside, runs, gameVars>>

-----------------------------------------------------------------------------
(* AbiDispatch reads a block from the arguments, Log also what it says     *)
(* follows; it returns a block, or for the entity lists a header and as    *)
(* many ids as fit.                                                        *)
Lists == {"QueryByTag", "SenseRadius"}

Low(w) == [off |-> w.off % HalfSize, len |-> w.len % HalfSize]

EntityListCapacity(retLen) ==
  IF retLen < EntityListHeader THEN 0 ELSE (retLen - EntityListHeader) \div EntityIdSize

ReadArg(id, a) ==
  IF id = "Log" THEN \A n \in 0 .. a.len - ArgsSize[id] : Access(a.off, ArgsSize[id] + n, a.off, a.len)
  ELSE ArgsSize[id] = 0 \/ Access(a.off, ArgsSize[id], a.off, a.len)

WriteRet(id, r) ==
  IF id \in Lists
  THEN r.len < EntityListHeader \/ Access(r.off, EntityListHeader + EntityListCapacity(r.len) * EntityIdSize, r.off, r.len)
  ELSE ResultSize[id] = 0 \/ r.len < ResultSize[id] \/ Access(r.off, ResultSize[id], r.off, r.len)

(* The calls of the machine, the gateway and the dispatcher, in order: the *)
(* policy's capabilities, the size of the arguments, the call, and room    *)
(* for its result.  Whatever the status, the caller's code gets it.        *)
Invoke(id, a, r) ==
  \/ CapabilityFor[id] \notin PolicyCaps /\ UNCHANGED <<inside, apiVars>>
  \/ CapabilityFor[id] \in PolicyCaps /\ ArgsSize[id] > a.len /\ UNCHANGED <<inside, apiVars>>
  \/ /\ CapabilityFor[id] \in PolicyCaps /\ ArgsSize[id] <= a.len
     /\ \E status \in {"Ok", "PermissionDenied", "RateLimited", "Refused", "NotFound"} :
          /\ GameCall(id, status)
          /\ inside' = (inside /\ ReadArg(id, a) /\ (status = "Ok" => WriteRet(id, r)))

HostCall(a, r) ==
  LET bad == \E w \in {a, r} : w.len > 0 /\ Outside(w.off, w.len)
      fuel == vm.fuel - HostCallFuel
  IN  /\ vm.on /\ vm.fuel >= HostCallFuel
      /\ UNCHANGED <<runs, tick, worldVars>>
      /\ \/ /\ \/ Finish("IllegalInstruction", fuel, vm.hostCalls)
               \/ vm.stack < 4 /\ Finish("StackUnderflow", fuel, vm.hostCalls)
               \/ vm.stack >= 4 /\ vm.hostCalls >= MaxRunHostCalls
                    /\ Finish("HostCallDenied", fuel, vm.hostCalls)
               \/ vm.stack >= 4 /\ vm.hostCalls < MaxRunHostCalls /\ bad
                    /\ Finish("BadMemoryAccess", fuel, vm.hostCalls)
            /\ work' = [work EXCEPT !.fuel = @ + HostCallFuel]
            /\ UNCHANGED <<inside, apiVars>>
         \/ /\ vm.stack >= 4 /\ vm.hostCalls < MaxRunHostCalls /\ ~bad
            /\ work' = [fuel |-> work.fuel + HostCallFuel, hostCalls |-> work.hostCalls + 1]
            /\ \E id \in CallId :
                 \/ /\ Invoke(id, Low(a), Low(r))
                    /\ vm' = [vm EXCEPT !.fuel = fuel, !.stack = @ - 3, !.hostCalls = @ + 1]
                    /\ UNCHANGED result
                 \/ /\ CapabilityFor[id] \in PolicyCaps /\ Enter(id) /\ Throw(id)
                    /\ \E trap \in {"OutOfMemory", "HostCallError"} : Finish(trap, fuel, vm.hostCalls + 1)
                    /\ UNCHANGED inside

-----------------------------------------------------------------------------
Game ==
  /\ ~vm.on /\ UNCHANGED vmVars
  /\ (BeginTick \/ ApplyIntents \/ StepKinematics \/ DestroySelf)

VmNext ==
  \/ Game \/ Run \/ RunsOut \/ Call \/ Ret
  \/ \E i \in Moves \cup Arithmetic \cup Branches : Execute(i)
  \/ \E width \in {1, 2}, stores \in BOOLEAN, address \in {w.off : w \in Windows} : LoadStore(width, stores, address)
  \/ \E a, r \in Windows : HostCall(a, r)

VmSpec == VmInit /\ [][VmNext]_<<gameVars, vmVars>>

-----------------------------------------------------------------------------
(* What a run reports is what it used: the fuel of every instruction       *)
(* fetched and every call made, whether it halts, traps or throws.         *)
Accounted ==
  /\ ~vm.on => result.fuelUsed = work.fuel /\ result.hostCalls = work.hostCalls
  /\ work.fuel <= Fuel /\ work.hostCalls <= MaxRunHostCalls

(* No instruction reaches outside the memory, and no call outside the part *)
(* of it that it was given, for any addresses and lengths.                 *)
AccessInside == inside

(* The three things a host promises about a guest.                         *)
GuestContained == Accounted /\ AccessInside /\ AnsweredIsRecorded
=============================================================================
