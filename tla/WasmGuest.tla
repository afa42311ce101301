------------------------------ MODULE WasmGuest ------------------------------
(* engine/sandbox, the WebAssembly backend: a module is rewritten when it is *)
(* loaded so that it charges a fuel global, and run with wasm3 (external).   *)
(* Bytes are numbers; a body is its local declarations and instructions, an  *)
(* instruction its opcode and immediates.                                    *)
EXTENDS Integers, Sequences, FiniteSets, SequencesExt, FiniteSetsExt

CONSTANTS
  Images,          \* the images that are loaded, in a sequence; they export functions they have
  GuestPolicies,   \* [fuel, memory, slots, depth, hostCalls]
  PageSize, FrameBytes,  \* of wasm3
  MaxArenaBytes,   \* kMaxArenaBytes
  HostWindows,     \* [off, len] of the calls
  Operands,        \* what an image may leave for the fuel global or the gas function
  MaxLoads, MaxGuestRuns \* bounds

ASSUME WasmAssumption ==
  {PageSize, FrameBytes} \subseteq Nat \ {0} /\ {MaxArenaBytes, MaxLoads, MaxGuestRuns} \subseteq Nat

VARIABLES
  guestCode,       \* Wasm3Sandbox::code_: the metered module, <<>> if there is none
  guestImage,     \* history: the image code_ was made from
  machine,    \* a run under way
  guestResult,
  paid,       \* history: the charges made in the last run, their sum, the instructions and calls;
              \* own: the image's own code stored to the fuel global or called the gas function
  loads, guestRuns

wasmVars == <<guestCode, guestImage, machine, guestResult, paid, loads, guestRuns>>

Still ==
  [on |-> FALSE, policy |-> [fuel |-> 0, hostCalls |-> 0], fuel |-> 0, frames |-> <<>>, memory |-> 0, hostCalls |-> 0,
   structural |-> "None"]

NotRun == [budget |-> 0, charges |-> 0, sum |-> 0, steps |-> 0, hostCalls |-> 0, own |-> FALSE]

Ran(trap, fuelUsed, hostCalls) == [trap |-> trap, fuelUsed |-> fuelUsed, hostCalls |-> hostCalls]

WasmInit ==
  /\ guestCode = <<>> /\ guestImage = <<>> /\ machine = Still
  /\ guestResult = Ran("None", 0, 0) /\ paid = NotRun /\ loads = 0 /\ guestRuns = 0

-----------------------------------------------------------------------------
(* The immediates of an instruction: from p, k numbers that end with a byte  *)
(* below 128, or k bytes; the position past them, 0 if they are cut off.     *)
SkipLEB(d, p, k) ==
  LET ends == {q \in p..Len(d) : d[q] < 128}
  IN  CASE k = 0 -> p
        [] Cardinality(ends) < k -> 0
        [] OTHER -> 1 + CHOOSE q \in ends : Cardinality({r \in ends : r <= q}) = k

SkipBytes(d, p, k) == IF p + k - 1 <= Len(d) THEN p + k ELSE 0

\* Mutant: a copy of memory names one memory, as a fill does.
SkipBulkShort(sub, d, p) ==
  CASE sub \in 0..7 -> p
    [] sub \in {9, 13, 15, 16, 17} -> SkipLEB(d, p, 1)
    [] sub \in {8, 12, 14} -> SkipLEB(d, p, 2)
    [] sub \in {10, 11} -> SkipBytes(d, p, 1)
    [] OTHER -> 0

SkipBulk(sub, d, p) ==
  CASE sub \in 0..7 -> p
    [] sub = 8 -> (LET q == SkipLEB(d, p, 1) IN IF q = 0 THEN 0 ELSE SkipBytes(d, q, 1))
    [] sub \in {9, 13, 15, 16, 17} -> SkipLEB(d, p, 1)
    [] sub \in {12, 14} -> SkipLEB(d, p, 2)
    [] sub = 10 -> SkipBytes(d, p, 2)
    [] sub = 11 -> SkipBytes(d, p, 1)
    [] OTHER -> 0

SkipImmediates(op, d, p) ==
  CASE op \in {\h00, \h01, \h05, \h0B, \h0F, \h1A, \h1B, \hD1} \cup \h45..\hC4 -> p
    [] op \in {\h02, \h03, \h04, \h0C, \h0D, \h10, \h41, \h42, \hD2} \cup \h20..\h26 -> SkipLEB(d, p, 1)
    [] op = \h11 \/ op \in \h28..\h3E -> SkipLEB(d, p, 2)
    [] op \in {\hD0, \h3F, \h40} -> SkipBytes(d, p, 1)
    [] op = \h43 -> SkipBytes(d, p, 4)
    [] op = \h44 -> SkipBytes(d, p, 8)
    [] op \in {\h0E, \h1C, \hFC} /\ p > Len(d) -> 0
    [] op = \h0E -> SkipLEB(d, p, d[p] + 2)
    [] op = \h1C -> SkipBytes(d, p + 1, d[p])
    [] op = \hFC -> SkipBulk(d[p], d, p + 1)
    [] OTHER -> 0

(* The instructions are walked in straight runs, each charged where it       *)
(* starts: at the entry and after the header of a block, loop, if and else.  *)
\* Mutant: a loop is charged once, before it.
HeadsButLoops == {\h02, \h04, \h05}

Heads == {\h02, \h03, \h04, \h05}

IsBoundary(op) == op \in Heads \cup {\h0B, \h0C, \h0D, \h0E, \h0F}

Closed(w) ==
  IF w.open THEN [w EXCEPT !.charges = Append(@, [at |-> w.start, cost |-> Max({1, w.count})])] ELSE w

RECURSIVE Walk(_, _, _)
Walk(d, p, w) ==
  IF p > Len(d) THEN Closed(w)
  ELSE LET q == SkipImmediates(d[p], d, p + 1)
       IN  CASE q = 0 -> [w EXCEPT !.ok = FALSE]
             [] IsBoundary(d[p]) -> Walk(d, q, [Closed(w) EXCEPT !.open = d[p] \in Heads, !.start = q, !.count = 0])
             [] OTHER -> Walk(d, q, [w EXCEPT !.count = @ + 1])

LocalsEnd(d) ==
  LET group(p, i) == LET q == IF p = 0 THEN 0 ELSE SkipLEB(d, p, 1)
                     IN  IF q = 0 \/ q > Len(d) THEN 0 ELSE q + 1
  IN  IF d = <<>> THEN 0 ELSE FoldLeft(group, 2, [i \in 1..d[1] |-> i])

BodyBytes(b) == b.locals \o FlattenSeq(b.instrs)

StraightRuns(d) ==
  LET p == LocalsEnd(d)
      w == [ok |-> p # 0, open |-> TRUE, start |-> p, count |-> 0, charges |-> <<>>]
  IN  IF w.ok THEN Walk(d, p, w) ELSE w

Splice(d, charges, gas) ==
  LET sequence(c) == <<\h41, c.cost, \h10, gas>>
      before(i) == FlattenSeq([j \in DOMAIN charges |-> IF charges[j].at = i THEN sequence(charges[j]) ELSE <<>>])
  IN  FlattenSeq([i \in 1..Len(d) + 1 |-> before(i) \o (IF i <= Len(d) THEN <<d[i]>> ELSE <<>>)])

(* What wasm3 reads in a metered body: a charge is one instruction here.     *)
StartOf(b, i) == 1 + Len(b.locals) + Len(FlattenSeq(SubSeq(b.instrs, 1, i - 1)))

Metered(b, charges, gas) ==
  LET before(i) == {c \in Range(charges) : c.at = StartOf(b, i)}
      cost(i) == (CHOOSE c \in before(i) : TRUE).cost
      charged(i) == IF before(i) = {} THEN <<>> ELSE <<<<\h41, cost(i), \h10, gas>>>>
  IN  [b EXCEPT !.instrs = FlattenSeq([i \in DOMAIN b.instrs |-> charged(i) \o <<b.instrs[i]>>])]

InstrumentBody(b, gas) ==
  LET charges == StraightRuns(BodyBytes(b)).charges
  IN  [locals |-> b.locals, instrs |-> Metered(b, charges, gas).instrs, bytes |-> Splice(BodyBytes(b), charges, gas)]

(* __gas(i32 cost): fuel -= cost; if (fuel < 0) unreachable.                 *)
GasBody(g) ==
  [locals |-> <<0>>, instrs |-> <<>>,
   bytes |-> <<0, \h23, g, \h20, 0, \hAC, \h7D, \h24, g, \h23, g, \h42, 0, \h53, \h04, \h40, \h00, \h0B, \h0B>>]

-----------------------------------------------------------------------------
(* InstrumentWasmForFuel.  An image lists its sections, and what is in them: *)
(* the number of types, the kinds of the imports, a type for each function,  *)
(* the globals, the exports, the pages of memory, the bodies, and the        *)
(* functions that a table has elements for.                                  *)
Required == {1, 3, 6, 7, 10}

Imported(image, kind) == Len(SelectSeq(image.imports, LAMBDA k : k = kind))

Meterable(image) ==
  /\ ~image.cut /\ Required \subseteq Range(image.order)
  /\ Len(image.bodies) = Len(image.functions)
  /\ Range(image.imports) \subseteq {"func", "table", "mem", "global"}
  /\ \A b \in Range(image.bodies) : StraightRuns(BodyBytes(b)).ok

\* Mutant: every import has an index among the functions.
InstrumentAfterImports(image) ==
  LET gas == Len(image.imports) + Len(image.functions)
      fuel == Imported(image, "global") + Len(image.globals)
  IN  [image EXCEPT !.types = @ + 1, !.functions = Append(@, image.types), !.globals = Append(@, "fuel"),
                    !.exports = Append(@, [name |-> "__fuel", kind |-> "global", index |-> fuel]),
                    !.bodies = [i \in DOMAIN @ |-> InstrumentBody(@[i], gas)] \o <<GasBody(fuel)>>]

Instrument(image) ==
  LET gas == Imported(image, "func") + Len(image.functions)
      fuel == Imported(image, "global") + Len(image.globals)
  IN  [image EXCEPT !.types = @ + 1, !.functions = Append(@, image.types), !.globals = Append(@, "fuel"),
                    !.exports = Append(@, [name |-> "__fuel", kind |-> "global", index |-> fuel]),
                    !.bodies = [i \in DOMAIN @ |-> InstrumentBody(@[i], gas)] \o <<GasBody(fuel)>>]

(* A bad header leaves the module that was loaded before.                    *)
LoadModule(image) ==
  /\ ~machine.on /\ loads < MaxLoads /\ loads' = loads + 1
  /\ CASE image.header # "wasm 1" -> UNCHANGED <<guestCode, guestImage>>
       [] image.header = "wasm 1" /\ Meterable(image) -> guestCode' = Instrument(image) /\ guestImage' = image
       [] OTHER -> guestCode' = <<>> /\ guestImage' = <<>>
  /\ UNCHANGED <<machine, guestResult, paid, guestRuns>>

-----------------------------------------------------------------------------
(* Run.  The stack is bounded by both knobs of the policy.                   *)
StackBudget(policy) ==
  LET slots == IF policy.slots > 1024 THEN policy.slots * 16 ELSE 16 * 1024
      frames == Max({1, policy.depth}) * 2048
  IN  Min({Max({Min({slots, frames}), 4096}), 8 * 1024 * 1024})

RunExports == {e \in Range(guestCode.exports) : e.name = "run" /\ e.kind = "func"}

FrameOf(index) == [f |-> index - Imported(guestCode, "func") + 1, pc |-> 1, lap |-> 0]

Refuse(trap) == guestResult' = Ran(trap, 0, 0) /\ machine' = Still

StartGuest(policy) ==
  LET entry == CHOOSE e \in RunExports : TRUE
  IN  /\ ~machine.on /\ guestRuns < MaxGuestRuns /\ guestRuns' = guestRuns + 1
      /\ paid' = [NotRun EXCEPT !.budget = policy.fuel]
      /\ \/ guestCode = <<>> /\ Refuse("IllegalInstruction")
         \/ guestCode # <<>> /\ policy.memory > MaxArenaBytes /\ Refuse("OutOfMemory")
         \/ /\ guestCode # <<>> /\ policy.memory <= MaxArenaBytes
            /\ \/ Refuse("OutOfMemory")         \* no environment, no runtime
               \/ Refuse("HostCallError")       \* the host call is not linked
               \/ Refuse("IllegalInstruction")  \* wasm3 does not take the module
               \/ guestCode.pages * PageSize > policy.memory /\ Refuse("OutOfMemory")
               \/ RunExports = {} /\ guestCode.pages * PageSize <= policy.memory /\ Refuse("IllegalInstruction")
               \/ /\ guestCode.pages * PageSize <= policy.memory /\ RunExports # {}
                  /\ machine' = [Still EXCEPT !.on = TRUE, !.policy = policy, !.fuel = policy.fuel,
                                              !.memory = guestCode.pages * PageSize, !.frames = <<FrameOf(entry.index)>>]
                  /\ UNCHANGED guestResult
      /\ UNCHANGED <<guestCode, guestImage, loads>>

MapM3Error(error) ==
  CASE error = "none" -> "None" [] error = "out of bounds" -> "BadMemoryAccess"
    [] error = "division by zero" -> "DivideByZero" [] error = "stack overflow" -> "StackOverflow"
    [] OTHER -> "IllegalInstruction"

\* Mutant: what was charged past the fuel is reported too.
UsedBelowZero(m) == m.policy.fuel - m.fuel

Used(m) == m.policy.fuel - Min({m.policy.fuel, Max({0, m.fuel})})

(* m3_CallV returned: the global tells what was used.                        *)
Ended(m, error) ==
  LET trap == CASE error = "none" -> "None" [] m.fuel <= 0 -> "FuelExhausted"
                [] m.structural # "None" -> m.structural [] OTHER -> MapM3Error(error)
  IN  machine' = Still /\ guestResult' = Ran(trap, Used(m), m.hostCalls)

Goes(m) == machine' = m /\ UNCHANGED guestResult

-----------------------------------------------------------------------------
(* wasm3 executes the metered module (external).  lap: the instructions of a *)
(* frame since its last charge.                                              *)
Opens(i) == i[1] \in {\h02, \h03, \h04}

Nesting(I, i, j) == Cardinality({k \in i..j : Opens(I[k])}) - Cardinality({k \in i..j : I[k][1] = \h0B})

EndOf(I, i) == Min({j \in i + 1..Len(I) : Nesting(I, i, j) = 0})

ElseOf(I, i) == {j \in i + 1..EndOf(I, i) : I[j][1] = \h05 /\ Nesting(I, i, j) = 1}

Enclosing(I, pc) == {i \in 1..pc - 1 : Opens(I[i]) /\ EndOf(I, i) > pc}

BranchTo(I, pc, label) ==
  LET around == Enclosing(I, pc)
      to == CHOOSE i \in around : Cardinality({j \in around : j > i}) = label
  IN  CASE label >= Cardinality(around) -> Len(I) [] I[to][1] = \h03 -> to + 1 [] OTHER -> EndOf(I, to) + 1

Successors(I, pc) ==
  CASE I[pc][1] = \h0C -> {BranchTo(I, pc, I[pc][2])}
    [] I[pc][1] = \h0D -> {BranchTo(I, pc, I[pc][2]), pc + 1}
    [] I[pc][1] = \h0E -> {BranchTo(I, pc, I[pc][k]) : k \in 3..Len(I[pc])}
    [] I[pc][1] = \h0F -> {Len(I)}
    [] I[pc][1] = \h04 -> {pc + 1, 1 + IF ElseOf(I, pc) = {} THEN EndOf(I, pc) ELSE Min(ElseOf(I, pc))}
    [] I[pc][1] = \h05 -> {EndOf(I, Max(Enclosing(I, pc)))}
    [] OTHER -> {pc + 1}

TopFrame == machine.frames[Len(machine.frames)]

TopBody == guestCode.bodies[TopFrame.f].instrs

Instr == TopBody[TopFrame.pc]

IsCharge(i) == Len(i) = 4 /\ i[1] = \h41 /\ i[3] = \h10

Onward(pc, lap) == [machine EXCEPT !.frames[Len(machine.frames)] = [@ EXCEPT !.pc = pc, !.lap = lap]]

Executing ==
  /\ machine.on /\ UNCHANGED <<guestCode, guestImage, loads, guestRuns>>

Charged ==
  /\ Executing /\ IsCharge(Instr)
  /\ paid' = [paid EXCEPT !.charges = @ + 1, !.sum = @ + Instr[2], !.steps = @ + 1]
  /\ LET m == [Onward(TopFrame.pc + 1, 0) EXCEPT !.fuel = @ - Instr[2]]
     IN  IF m.fuel < 0 THEN Ended(m, "unreachable") ELSE Goes(m)

Stepped == Executing /\ ~IsCharge(Instr) /\ paid' = [paid EXCEPT !.steps = @ + 1]

Grown(m) ==
  IF Instr[1] # \h40 THEN {m}
  ELSE {m, [m EXCEPT !.memory = Min({m.memory + PageSize, Max({1, m.policy.memory})})]}

(* The indices that the appended function and global have.                   *)
GasIndex == Imported(guestCode, "func") + Len(guestCode.functions) - 1

FuelIndex == Imported(guestCode, "global") + Len(guestCode.globals) - 1

StoresFuel == Instr[1] = \h24 /\ Instr[2] = FuelIndex

(* What a call, direct or through a table, may enter.                        *)
Callees ==
  CASE Instr[1] = \h10 -> {Instr[2]} [] Instr[1] = \h11 -> guestCode.elements [] OTHER -> {}

Straight ==
  /\ Stepped /\ Instr[1] \notin {\h00, \h10, \h11} /\ ~StoresFuel /\ TopFrame.pc < Len(TopBody)
  /\ \E pc \in Successors(TopBody, TopFrame.pc) : \E m \in Grown(Onward(pc, TopFrame.lap + 1)) : Goes(m)

Faults ==
  /\ Stepped
  /\ \/ Instr[1] = \h00 /\ Ended(machine, "unreachable")
     \/ Instr[1] = \h6D /\ Ended(machine, "division by zero")
     \/ Instr[1] \in \h28..\h3E /\ Ended(machine, "out of bounds")
     \/ Instr[1] = \h11 /\ Ended(machine, "undefined element")

(* No index is looked at when an image is metered: its own code may set the  *)
(* fuel global, and charge itself by a call of the gas function.             *)
OnItsOwn == Executing /\ ~IsCharge(Instr) /\ paid' = [paid EXCEPT !.steps = @ + 1, !.own = TRUE]

SetsFuel ==
  /\ OnItsOwn /\ StoresFuel
  /\ \E v \in Operands : Goes([Onward(TopFrame.pc + 1, TopFrame.lap + 1) EXCEPT !.fuel = v])

ChargesItself ==
  /\ OnItsOwn /\ GasIndex \in Callees
  /\ \E cost \in Operands :
       LET m == [Onward(TopFrame.pc + 1, TopFrame.lap + 1) EXCEPT !.fuel = @ - cost]
       IN  IF m.fuel < 0 THEN Ended(m, "unreachable") ELSE Goes(m)

Leaves ==
  /\ Stepped /\ TopFrame.pc = Len(TopBody)
  /\ IF Len(machine.frames) = 1 THEN Ended(machine, "none") ELSE Goes([machine EXCEPT !.frames = Front(@)])

Enters ==
  /\ Stepped
  /\ \E f \in Callees \ {GasIndex} :
       /\ f >= Imported(guestCode, "func")
       /\ IF (Len(machine.frames) + 1) * FrameBytes > StackBudget(machine.policy) THEN Ended(machine, "stack overflow")
          ELSE Goes([Onward(TopFrame.pc + 1, TopFrame.lap + 1) EXCEPT !.frames = Append(@, FrameOf(f))])

(* HostCallTrampoline; the gateway answers, or throws out of Run.            *)
InMemory(w) == w.len = 0 \/ (w.len <= machine.memory /\ w.off <= machine.memory - w.len)

Trampoline(a, r) ==
  /\ Executing /\ ~IsCharge(Instr) /\ \E f \in Callees : f < Imported(guestCode, "func")
  /\ \/ /\ machine.memory = 0 \/ ~InMemory(a) \/ ~InMemory(r)
        /\ paid' = [paid EXCEPT !.steps = @ + 1]
        /\ Ended([machine EXCEPT !.structural = "BadMemoryAccess"], "out of bounds")
     \/ /\ InMemory(a) /\ InMemory(r) /\ machine.hostCalls >= machine.policy.hostCalls
        /\ paid' = [paid EXCEPT !.steps = @ + 1]
        /\ Ended([machine EXCEPT !.structural = "HostCallDenied"], "abort")
     \/ /\ InMemory(a) /\ InMemory(r) /\ machine.hostCalls < machine.policy.hostCalls
        /\ paid' = [paid EXCEPT !.steps = @ + 1, !.hostCalls = @ + 1]
        /\ \/ Goes([Onward(TopFrame.pc + 1, TopFrame.lap + 1) EXCEPT !.hostCalls = @ + 1])
           \/ machine' = Still /\ guestResult' = Ran("HostCallError", 0, 0)

WasmNext ==
  \/ \E i \in DOMAIN Images : LoadModule(Images[i])
  \/ \E policy \in GuestPolicies : StartGuest(policy)
  \/ Charged \/ Straight \/ Faults \/ Leaves \/ Enters \/ SetsFuel \/ ChargesItself
  \/ \E a, r \in HostWindows : Trampoline(a, r)

-----------------------------------------------------------------------------
(* The metered module is the image with what it needs to charge itself: no   *)
(* instruction is cut in two or lost, the entry and each header is followed  *)
(* by a charge that is worth the straight run it begins, each charge calls   *)
(* the gas function, and that one and the export name the fuel global        *)
(* wherever the imports put them.  (InstrumentWasmForFuel)                   *)
MeterFits ==
  LET last(kind) ==
        Imported(guestCode, kind) + Len(IF kind = "func" THEN guestCode.functions ELSE guestCode.globals) - 1
      run(I, i) == {j \in i + 1..Len(I) : \A k \in i + 1..j : ~IsBoundary(I[k][1])}
      worth(I, i) == IsCharge(I[i]) /\ I[i][2] = Max({1, Cardinality(run(I, i))}) /\ I[i][4] = last("func")
      fits(was, is) ==
        /\ is.bytes = BodyBytes(is) /\ is.locals = was.locals
        /\ was.instrs = SelectSeq(is.instrs, LAMBDA i : ~IsCharge(i))
        /\ \A i \in 0..Len(is.instrs) - 1 : (i = 0 \/ is.instrs[i][1] \in {\h03, \h04, \h05}) => worth(is.instrs, i + 1)
  IN  guestCode # <<>> /\ ~machine.on =>
        /\ Len(guestCode.bodies) = Len(guestCode.functions) /\ Last(guestCode.functions) = guestCode.types - 1
        /\ Last(guestCode.bodies) = GasBody(last("global"))
        /\ \E e \in Range(guestCode.exports) : e.name = "__fuel" /\ e.kind = "global" /\ e.index = last("global")
        /\ \A i \in DOMAIN guestImage.bodies : fits(guestImage.bodies[i], guestCode.bodies[i])

(* Fuel bounds the work of a run whose image has not touched the meter       *)
(* itself: nothing is executed twice in a frame without a charge between,    *)
(* whatever branches are taken, so that it executes at most as many times    *)
(* the longest body as it was charged, and every charge costs something.     *)
(* ADR-0012 and wasm_meter.h say so of every module; but a store to the fuel *)
(* global, or a call of the gas function, by an image's own code is metered  *)
(* like any instruction, and nothing bounds the work after it.               *)
WorkBounded ==
  machine.on /\ ~paid.own =>
    LET longest == Max({Len(b.instrs) : b \in Range(guestCode.bodies)})
    IN  /\ \A f \in Range(machine.frames) : f.lap < Len(guestCode.bodies[f.f].instrs)
        /\ paid.steps <= paid.charges * longest /\ paid.charges <= machine.policy.fuel

(* The memory, calls and frames of a run stay within the policy, whatever    *)
(* its image does, and it reports its calls and no more fuel than it had.    *)
(* Unless the image touched the meter itself, it reports what it was         *)
(* charged, up to its fuel, and that it ran out if it was charged more.  A   *)
(* host that throws leaves nothing to report.  (Wasm3Sandbox::Run)           *)
RunReported ==
  /\ machine.on =>
       /\ machine.memory <= machine.policy.memory
       /\ paid.hostCalls = machine.hostCalls /\ machine.hostCalls <= machine.policy.hostCalls
       /\ Len(machine.frames) * FrameBytes <= Max({FrameBytes, StackBudget(machine.policy)})
       /\ ~paid.own => machine.fuel = machine.policy.fuel - paid.sum /\ machine.fuel >= 0
  /\ ~machine.on /\ guestResult.trap # "HostCallError" =>
       /\ guestResult.hostCalls = paid.hostCalls
       /\ guestResult.fuelUsed \in 0..paid.budget
       /\ ~paid.own =>
            /\ guestResult.fuelUsed = Min({paid.budget, paid.sum})
            /\ paid.sum > paid.budget => guestResult.trap = "FuelExhausted"

MeterSound == MeterFits /\ WorkBounded /\ RunReported
=============================================================================
