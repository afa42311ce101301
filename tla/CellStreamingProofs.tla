------------------------- MODULE CellStreamingProofs ------------------------
(***************************************************************************)
(* A package that is in use is not released and the buffer of a layer's    *)
(* read outlives the read, for any cells, any number of requests, any      *)
(* limits per frame and any number of calls, evictions and failures.       *)
(*                                                                         *)
(* The argument for the packages: three things own a reference of a cell's *)
(* package, whatever the order in which jobs end and cells are loaded and  *)
(* unloaded again: each completion of a load that waits for its commit,    *)
(* the unload that has still to release, and the cell itself.  The cell    *)
(* owns one while it is loaded, and also when it is not loaded any more    *)
(* but its name is still mapped and no unload has taken it over: it was    *)
(* asked for again while it was loaded (Covered).                          *)
(*                                                                         *)
(* After these, the rules of the parts that StreamingManager owns beside   *)
(* the cells, each with its own argument, and all of them together         *)
(* (TheWorldKeepsItsRules): bundles have numbers that go up, so that the   *)
(* newest is the greatest; a cell is used when it is loaded and never      *)
(* again, so that the least recently used is the oldest; points and        *)
(* handles have numbers that are never given twice.                        *)
(***************************************************************************)
EXTENDS CellStreaming, MemoryBudget, QueueLemmas, FiniteSetTheorems, SequenceTheorems, WellFoundedInduction, TLAPS

-----------------------------------------------------------------------------
(* The completions that say one thing.                                     *)
Places(s, x) == {i \in DOMAIN s : s[i] = x}

Count(s, x) == Cardinality(Places(s, x))

\* There are finitely many.
LEMMA CountType ==
  ASSUME NEW S, NEW s \in Seq(S), NEW x
  PROVE  IsFiniteSet(Places(s, x)) /\ Count(s, x) \in Nat
<1>1. DOMAIN s = 1 .. Len(s) /\ Len(s) \in Nat
  BY LenProperties
<1>2. IsFiniteSet(1 .. Len(s))
  BY <1>1, FS_Interval
<1>3. Places(s, x) \subseteq 1 .. Len(s)
  BY <1>1 DEF Places
<1>4. IsFiniteSet(Places(s, x))
  BY <1>2, <1>3, FS_Subset
<1>5. QED
  BY <1>4, FS_CardinalityType DEF Count

\* One more at the end.
LEMMA CountAppend ==
  ASSUME NEW S, NEW s \in Seq(S), NEW y \in S, NEW x
  PROVE  Count(Append(s, y), x) = Count(s, x) + (IF x = y THEN 1 ELSE 0)
<1>1. PICK n \in Nat : n = Len(s)
  BY LenProperties
<1>2. DOMAIN s = 1 .. n /\ DOMAIN Append(s, y) = 1 .. n + 1
  BY <1>1, LenProperties, AppendProperties
<1>3. (\A i \in 1 .. n : Append(s, y)[i] = s[i]) /\ Append(s, y)[n + 1] = y
  BY <1>1, AppendProperties
<1>4. CASE x = y
  <2>1. Places(Append(s, y), x) = Places(s, x) \cup {n + 1} /\ n + 1 \notin Places(s, x)
    BY <1>2, <1>3, <1>4 DEF Places
  <2>2. QED
    BY <1>4, <2>1, CountType, FS_AddElement DEF Count
<1>5. CASE x # y
  <2>1. Places(Append(s, y), x) = Places(s, x)
    BY <1>2, <1>3, <1>5 DEF Places
  <2>2. QED
    BY <1>5, <2>1, CountType DEF Count
<1>6. QED
  BY <1>4, <1>5

\* One less at the front.
LEMMA CountTail ==
  ASSUME NEW S, NEW s \in Seq(S), s # << >>, NEW x
  PROVE  Count(s, x) = Count(Tail(s), x) + (IF x = Head(s) THEN 1 ELSE 0)
<1>1. PICK n \in Nat \ {0} : n = Len(s)
  BY LenProperties, EmptySeq
<1>2. /\ DOMAIN s = 1 .. n /\ Tail(s) \in Seq(S) /\ DOMAIN Tail(s) = 1 .. n - 1
      /\ \A i \in 1 .. n - 1 : Tail(s)[i] = s[i + 1]
      /\ Head(s) = s[1]
  BY <1>1, LenProperties, HeadTailProperties
<1> DEFINE P == Places(Tail(s), x)
           Q == Places(s, x) \ {1}
           f == [i \in P |-> i + 1]
<1>3. P \subseteq 1 .. n - 1 /\ Q \subseteq 2 .. n
  BY <1>2 DEF Places
<1>4. \A i \in 1 .. n - 1 : i \in P <=> i + 1 \in Q
  BY <1>2 DEF Places
<1>5. IsFiniteSet(P) /\ IsFiniteSet(Places(s, x))
  BY <1>2, CountType
<1>6. IsFiniteSet(Q)
  BY <1>5, FS_Subset
<1> HIDE DEF P, Q
<1>7. f \in Bijection(P, Q)
  <2>1. f \in [P -> Q] /\ \A i, j \in P : f[i] = f[j] => i = j
    BY <1>3, <1>4
  <2>2. \A j \in Q : j - 1 \in P /\ f[j - 1] = j
    BY <1>3, <1>4
  <2>3. QED
    BY <2>1, <2>2 DEF Bijection, Injection, Surjection, IsInjective
<1>8. Cardinality(P) = Cardinality(Q)
  BY <1>5, <1>6, <1>7, FS_SameCardinalityBij, FS_Bijection DEF ExistsBijection
<1>9. CASE x = Head(s)
  <2>1. 1 \in Places(s, x)
    BY <1>2, <1>9 DEF Places
  <2>2. Cardinality(Q) = Cardinality(Places(s, x)) - 1
    BY <1>5, <2>1, FS_RemoveElement DEF Q
  <2>3. QED
    BY <1>8, <1>9, <2>2, <1>2, CountType DEF Count, P
<1>10. CASE x # Head(s)
  <2>1. Q = Places(s, x)
    BY <1>2, <1>10 DEF Places, Q
  <2>2. QED
    BY <1>8, <1>10, <2>1, <1>2, CountType DEF Count, P
<1>11. QED
  BY <1>9, <1>10

-----------------------------------------------------------------------------
(* The layers.                                                             *)
LayerTypes == DOMAIN layerRead = Cell /\ DOMAIN layerOp = Cell /\ DOMAIN entry = Cell

Layers == LayerTypes /\ LayerReadsOwned

\* The steps that leave the layers alone.
LayersStand ==
  \/ CameraMoves \/ UnloadAll \/ BeginFrame \/ CallbacksEnd \/ UpdateStreaming \/ LoadsEnd \/ UnloadsEnd
  \/ \E c \in Cell : LoadCell(c) \/ UnloadCell(c) \/ ReloadCell(c) \/ ProcessCellLoad(c)
                       \/ TakeUnload(c) \/ UnloadPackage(c)
  \/ \E r \in Request : CellCallback(r) \/ Take(r) \/ LoadPackage(r) \/ Answer(r)
  \/ CommitFailure \/ CommitLoad \/ CommitEnds \/ Evict \/ UNCHANGED vars

LEMMA NextLayers ==
  ASSUME Layers, [Next]_vars
  PROVE  Layers'
<1> USE DEF Layers, LayerTypes, LayerReadsOwned
<1>1. CASE LayersStand
  <2>1. UNCHANGED layers
    BY <1>1 DEF LayersStand, CameraMoves, UnloadAll, BeginFrame, CallbacksEnd, UpdateStreaming, LoadsEnd,
         UnloadsEnd, LoadCell, UnloadCell, ReloadCell, ProcessCellLoad, TakeUnload, UnloadPackage,
         CellCallback, Take, LoadPackage, Answer, CommitFailure, CommitLoad, CommitEnds, Evict, vars
  <2>2. QED
    BY <2>1 DEF layers
<1>2. ASSUME NEW c \in Cell, LoadCellLayer(c)
      PROVE  Layers'
  BY <1>2 DEF LoadCellLayer, layers
<1>3. ASSUME NEW c \in Cell, UnloadCellLayer(c)
      PROVE  Layers'
  BY <1>3 DEF UnloadCellLayer, Abandon
<1>4. ASSUME NEW c \in Cell, FinishLayerLoad(c)
      PROVE  Layers'
  BY <1>4 DEF FinishLayerLoad
<1>5. ASSUME NEW c \in Cell, ReadLayer(c)
      PROVE  Layers'
  BY <1>5 DEF ReadLayer
<1>6. CASE CommitUnwanted \/ CommitUnload
  <2>1. \E c : Release(c)
    BY <1>6 DEF CommitUnwanted, CommitUnload
  <2>2. QED
    BY <2>1 DEF Release
<1>7. CASE ProcessCellUnload
  <2>1. UNCHANGED <<entry, layerRead>> /\ (UNCHANGED layerOp \/ \E c : layerOp' = Abandon(c))
    BY <1>7 DEF ProcessCellUnload
  <2>2. QED
    BY <2>1 DEF Abandon
<1>8. QED
  BY <1>1, <1>2, <1>3, <1>4, <1>5, <1>6, <1>7 DEF Next, Call, Frame, Work, LayersStand

\* A layer's read has its operation, and so its buffer, until its callback has
\* run, and an entry that says Loading has a read that will answer for it.
THEOREM ReadsAreOwned == Spec => []LayerReadsOwned
<1>1. Init => Layers
  BY DEF Init, Layers, LayerTypes, LayerReadsOwned
<1>2. Layers /\ [Next]_vars => Layers'
  BY NextLayers
<1>3. Layers => LayerReadsOwned
  BY DEF Layers
<1>4. QED
  BY <1>1, <1>2, <1>3, PTL DEF Spec

-----------------------------------------------------------------------------
(* The packages.                                                           *)
Completion == [cell : Cell, what : {"load", "fail", "unload"}]

RequestState ==
  [cell : Cell \cup {None}, live : BOOLEAN, unpack : BOOLEAN, ok : BOOLEAN,
   stage : {"free", "queued", "running", "answered"}]

Requests ==
  /\ request \in [Request -> RequestState]
  /\ \A r \in Request : request[r].stage # "free" =>
       /\ request[r].cell \in Cell
       /\ request[r].stage = "answered" => kind[request[r].cell] # "package"

Types ==
  /\ DOMAIN kind = Cell /\ DOMAIN state = Cell
  /\ DOMAIN active = Cell
  /\ completions \in Seq(Completion)
  /\ refs \in [Cell -> Nat]
  /\ unload \in [Cell -> [stage : {"none", "queued", "running", "done"}, package : BOOLEAN]]
  /\ Requests

\* The cell has a reference of its own, and the unload has one to release.
Owns(c) == state[c] = "Loaded" \/ (c \in mapped /\ unload[c] = NoUnload)

Releasing(c) == unload[c].package /\ unload[c].stage \in {"queued", "running"}

One(b) == IF b THEN 1 ELSE 0

Covered ==
  \A c \in Cell : kind[c] = "package" =>
    refs[c] >= Occurrences(c, "load") + One(Owns(c)) + One(Releasing(c))

CellInv == Types /\ Covered

\* A request that is not in use.
LEMMA FreeState == Free \in RequestState /\ Free.stage = "free"
BY DEF Free, RequestState

\* The number of completions that say so.
LEMMA OccurrencesCount ==
  \A c, what : Occurrences(c, what) = Count(completions, [cell |-> c, what |-> what])
BY DEF Occurrences, Count, Places

LEMMA OccurrencesType ==
  ASSUME Types
  PROVE  \A c, what : Occurrences(c, what) \in Nat
BY OccurrencesCount, CountType DEF Types

LEMMA OccurrencesNext ==
  ASSUME Types'
  PROVE  \A c \in Cell : Occurrences(c, "load")' \in Nat
<1>1. completions' \in Seq(Completion)
  BY DEF Types, Completion
<1>2. \A c : Count(completions', [cell |-> c, what |-> "load"]) \in Nat
  BY <1>1, CountType
<1>3. \A c : Occurrences(c, "load")' = Count(completions', [cell |-> c, what |-> "load"])
  BY DEF Occurrences, Count, Places
<1>4. QED
  BY <1>2, <1>3

\* A completion that comes.
LEMMA CompletionComes ==
  ASSUME Types, NEW c \in Cell, NEW what \in {"load", "fail", "unload"}, completions' = Complete(c, what)
  PROVE  /\ completions' \in Seq(Completion)
         /\ \A d \in Cell : Occurrences(d, "load")' = Occurrences(d, "load") + One(d = c /\ what = "load")
<1>1. PICK y \in Completion : y = [cell |-> c, what |-> what]
  BY DEF Completion
<1>2. completions' = Append(completions, y)
  BY <1>1 DEF Complete
<1>3. completions' \in Seq(Completion)
  BY <1>1, <1>2, AppendProperties DEF Types
<1>4. ASSUME NEW d \in Cell
      PROVE  Occurrences(d, "load")' = Occurrences(d, "load") + One(d = c /\ what = "load")
  <2>1. PICK x : x = [cell |-> d, what |-> "load"]
    OBVIOUS
  <2>2. x = y <=> d = c /\ what = "load"
    BY <1>1, <2>1
  <2>3. Count(Append(completions, y), x) = Count(completions, x) + (IF x = y THEN 1 ELSE 0)
    BY <1>1, CountAppend DEF Types
  <2>4. Occurrences(d, "load")' = Count(completions', x)
    BY <2>1 DEF Occurrences, Count, Places
  <2>5. Occurrences(d, "load") = Count(completions, x)
    BY <2>1, OccurrencesCount
  <2>6. QED
    BY <1>2, <2>2, <2>3, <2>4, <2>5 DEF One
<1>5. QED
  BY <1>3, <1>4

\* The completion that is committed.
LEMMA CompletionGoes ==
  ASSUME Types, NEW what, Committing(what), NEW c, c = Head(completions).cell
  PROVE  /\ completions' \in Seq(Completion)
         /\ c \in Cell
         /\ \A d \in Cell : Occurrences(d, "load") = Occurrences(d, "load")' + One(d = c /\ what = "load")
         /\ UNCHANGED <<kind, request>>
<1>1. completions # << >> /\ completions' = Tail(completions) /\ Head(completions).what = what
  BY DEF Committing
<1>2. completions' \in Seq(Completion) /\ Head(completions) \in Completion
  BY <1>1, HeadTailProperties DEF Types
<1>3. c \in Cell /\ Head(completions) = [cell |-> c, what |-> what]
  BY <1>1, <1>2 DEF Completion
<1>4. ASSUME NEW d \in Cell
      PROVE  Occurrences(d, "load") = Occurrences(d, "load")' + One(d = c /\ what = "load")
  <2>1. PICK x : x = [cell |-> d, what |-> "load"]
    OBVIOUS
  <2>2. x = Head(completions) <=> d = c /\ what = "load"
    BY <1>3, <2>1
  <2>3. Count(completions, x) = Count(Tail(completions), x) + (IF x = Head(completions) THEN 1 ELSE 0)
    BY <1>1, CountTail DEF Types
  <2>4. Occurrences(d, "load")' = Count(completions', x)
    BY <2>1 DEF Occurrences, Count, Places
  <2>5. Occurrences(d, "load") = Count(completions, x)
    BY <2>1, OccurrencesCount
  <2>6. QED
    BY <1>1, <2>2, <2>3, <2>4, <2>5 DEF One
<1>5. QED
  BY <1>2, <1>3, <1>4 DEF Committing, files

\* The steps that leave all of it alone.
PackagesStand ==
  \/ CameraMoves \/ UnloadAll \/ BeginFrame \/ CallbacksEnd \/ UpdateStreaming \/ LoadsEnd \/ UnloadsEnd
  \/ \E c \in Cell : LoadCell(c) \/ UnloadCell(c) \/ ReloadCell(c) \/ LoadCellLayer(c)
                       \/ UnloadCellLayer(c) \/ FinishLayerLoad(c) \/ ReadLayer(c)
  \/ CommitEnds \/ Evict \/ UNCHANGED vars

LEMMA StandInv ==
  ASSUME CellInv, PackagesStand
  PROVE  CellInv'
<1>1. UNCHANGED <<kind, state, active, completions, refs, unload, request, mapped>>
  BY DEF PackagesStand, CameraMoves, UnloadAll, BeginFrame, CallbacksEnd, UpdateStreaming, LoadsEnd,
       UnloadsEnd, LoadCell, UnloadCell, ReloadCell, LoadCellLayer, UnloadCellLayer, FinishLayerLoad,
       ReadLayer, CommitEnds, Evict, vars, files, packages
<1>2. QED
  BY <1>1 DEF CellInv, Types, Requests, Covered, Owns, Releasing, Occurrences

\* A callback answers for a cell that has no package.
LEMMA CallbackInv ==
  ASSUME CellInv, NEW r \in Request, CellCallback(r)
  PROVE  CellInv'
<1>1. PICK c : c = request[r].cell
  OBVIOUS
<1>2. c \in Cell /\ kind[c] # "package"
  BY <1>1 DEF CellCallback, CellInv, Types, Requests
<1>3. UNCHANGED <<kind, unload, mapped, refs>>
  BY DEF CellCallback, files, packages
<1>4. DOMAIN state' = Cell /\ DOMAIN active' = Cell /\ \A d \in Cell : d # c => state'[d] = state[d]
  BY <1>1 DEF CellCallback, CellInv, Types
<1>5. completions' \in Seq(Completion)
      /\ \A d \in Cell : d # c => Occurrences(d, "load")' = Occurrences(d, "load")
  <2>1. CASE UNCHANGED completions
    BY <2>1 DEF CellInv, Types, Occurrences
  <2>2. CASE \E what \in {"load", "fail"} : completions' = Complete(c, what)
    <3>1. PICK what \in {"load", "fail"} : completions' = Complete(c, what)
      BY <2>2
    <3>2. /\ completions' \in Seq(Completion)
          /\ \A d \in Cell :
               Occurrences(d, "load")' = Occurrences(d, "load") + One(d = c /\ what = "load")
      BY <1>2, <3>1, CompletionComes DEF CellInv
    <3>3. \A d \in Cell : Occurrences(d, "load") \in Nat
      BY OccurrencesType DEF CellInv
    <3>4. QED
      BY <3>2, <3>3 DEF One
  <2>3. QED
    BY <1>1, <2>1, <2>2 DEF CellCallback
<1>6. Requests'
  <2>1. \/ request' = [request EXCEPT ![r] = Free]
        \/ request' = [request EXCEPT ![r] = [@ EXCEPT !.stage = "queued", !.unpack = TRUE]]
    BY DEF CellCallback
  <2>2. CASE request' = [request EXCEPT ![r] = Free]
    BY <1>3, <2>2 DEF CellInv, Types, Requests, RequestState, Free
  <2>3. CASE request' = [request EXCEPT ![r] = [@ EXCEPT !.stage = "queued", !.unpack = TRUE]]
    <3>1. DOMAIN request' = Request /\ \A q \in Request : q # r => request'[q] = request[q]
      BY <2>3 DEF CellInv, Types, Requests
    <3>2. request'[r] = [request[r] EXCEPT !.stage = "queued", !.unpack = TRUE]
          /\ request[r] \in RequestState
      BY <2>3 DEF CellInv, Types, Requests
    <3>3. /\ request'[r] \in RequestState
          /\ request'[r].cell = request[r].cell /\ request'[r].stage # "answered"
      BY <3>2 DEF RequestState
    <3>4. \A q \in Request : request'[q] \in RequestState
      BY <3>1, <3>3 DEF CellInv, Types, Requests
    <3>5. request' \in [Request -> RequestState]
      BY <2>3, <3>4 DEF CellInv, Types, Requests
    <3>6. QED
      BY <1>1, <1>2, <1>3, <3>1, <3>3, <3>5 DEF CellInv, Types, Requests, RequestState
  <2>4. QED
    BY <2>1, <2>2, <2>3
<1>7. Types'
  BY <1>3, <1>4, <1>5, <1>6 DEF CellInv, Types
<1>8. ASSUME NEW d \in Cell, kind[d] = "package"
      PROVE  /\ refs'[d] = refs[d] /\ Occurrences(d, "load")' = Occurrences(d, "load")
             /\ Owns(d)' = Owns(d) /\ Releasing(d)' = Releasing(d)
  BY <1>2, <1>3, <1>4, <1>5, <1>8 DEF Owns, Releasing
<1>9. Covered'
  BY <1>3, <1>8 DEF CellInv, Covered, One
<1>10. QED
  BY <1>7, <1>9 DEF CellInv

\* What a commit leaves alone.
LEMMA CommitTypes ==
  ASSUME CellInv, NEW what, Committing(what),
         DOMAIN state' = Cell, DOMAIN active' = Cell, refs' \in [Cell -> Nat],
         unload' \in [Cell -> [stage : {"none", "queued", "running", "done"}, package : BOOLEAN]]
  PROVE  Types' /\ UNCHANGED kind
<1>1. completions' \in Seq(Completion) /\ UNCHANGED <<kind, request>>
  BY CompletionGoes DEF CellInv
<1>2. QED
  BY <1>1 DEF CellInv, Types, Requests

\* A load that failed.
LEMMA FailureInv ==
  ASSUME CellInv, CommitFailure
  PROVE  CellInv'
<1>1. PICK c : c = Head(completions).cell
  OBVIOUS
<1>2. /\ Committing("fail") /\ UNCHANGED <<unload, mapped, refs>>
      /\ active' = [active EXCEPT ![c] = None] /\ state' = [state EXCEPT ![c] = "Error"]
  BY <1>1 DEF CommitFailure, packages
<1>3. Types' /\ UNCHANGED kind
  BY <1>2, CommitTypes DEF CellInv, Types
<1>4. \A d \in Cell : Occurrences(d, "load") = Occurrences(d, "load")'
  <2>1. \A d \in Cell : Occurrences(d, "load") = Occurrences(d, "load")' + One(d = c /\ "fail" = "load")
    BY <1>1, <1>2, CompletionGoes DEF CellInv
  <2>2. \A d \in Cell : Occurrences(d, "load")' \in Nat
    BY <1>3, OccurrencesNext
  <2>3. QED
    BY <2>1, <2>2 DEF One
<1>5. \A d \in Cell : Owns(d)' => Owns(d)
  BY <1>2 DEF Owns, CellInv, Types
<1>6. \A d \in Cell : Releasing(d)' = Releasing(d)
  BY <1>2 DEF Releasing
<1>7. Covered'
  BY <1>2, <1>3, <1>4, <1>5, <1>6, OccurrencesType DEF CellInv, Types, Covered, One
<1>8. QED
  BY <1>3, <1>7 DEF CellInv

\* A load that comes too late gives back what it took.
LEMMA UnwantedInv ==
  ASSUME CellInv, CommitUnwanted
  PROVE  CellInv'
<1>1. PICK c : c = Head(completions).cell
  OBVIOUS
<1>2. /\ Committing("load") /\ UNCHANGED <<unload, mapped>>
      /\ active' = [active EXCEPT ![c] = None] /\ state' = [state EXCEPT ![c] = "Unloaded"]
      /\ refs' = [refs EXCEPT ![c] = IF kind[c] = "package" /\ @ > 0 THEN @ - 1 ELSE @]
  BY <1>1 DEF CommitUnwanted, Release
<1>3. /\ c \in Cell /\ UNCHANGED kind
      /\ \A d \in Cell : Occurrences(d, "load") = Occurrences(d, "load")' + One(d = c)
  <2>1. /\ c \in Cell /\ UNCHANGED kind
        /\ \A d \in Cell : Occurrences(d, "load") = Occurrences(d, "load")' + One(d = c /\ "load" = "load")
    BY <1>1, <1>2, CompletionGoes DEF CellInv
  <2>2. QED
    BY <2>1 DEF One
<1>4. refs' \in [Cell -> Nat]
  <2>1. refs \in [Cell -> Nat] /\ refs[c] \in Nat
    BY <1>3 DEF CellInv, Types
  <2>2. (IF kind[c] = "package" /\ refs[c] > 0 THEN refs[c] - 1 ELSE refs[c]) \in Nat
    BY <2>1
  <2>3. QED
    BY <1>2, <2>1, <2>2
<1>5. Types'
  BY <1>2, <1>4, CommitTypes DEF CellInv, Types
<1>6. \A d \in Cell : Occurrences(d, "load")' \in Nat
  BY <1>5, OccurrencesNext
<1>7. \A d \in Cell : Owns(d)' => Owns(d)
  BY <1>2 DEF Owns, CellInv, Types
<1>8. \A d \in Cell : Releasing(d)' = Releasing(d)
  BY <1>2 DEF Releasing
<1>9. \A d \in Cell : refs'[d] >= refs[d] - One(d = c) /\ refs[d] \in Nat /\ refs'[d] \in Nat
  BY <1>2, <1>3, <1>4 DEF CellInv, Types, One
<1>10. Covered'
  BY <1>3, <1>6, <1>7, <1>8, <1>9 DEF CellInv, Covered, One
<1>11. QED
  BY <1>5, <1>10 DEF CellInv

\* A cell that is loaded owns the reference its completion stood for.
LEMMA LoadInv ==
  ASSUME CellInv, CommitLoad
  PROVE  CellInv'
<1>1. PICK c : c = Head(completions).cell
  OBVIOUS
<1>2. /\ Committing("load") /\ UNCHANGED <<unload, refs>>
      /\ active' = [active EXCEPT ![c] = None]
      /\ mapped' = IF kind[c] = "package" THEN mapped \cup {c} ELSE mapped \ {c}
      /\ \E s : state' = [state EXCEPT ![c] = s]
  BY <1>1 DEF CommitLoad
<1>3. /\ c \in Cell /\ UNCHANGED kind
      /\ \A d \in Cell : Occurrences(d, "load") = Occurrences(d, "load")' + One(d = c)
  <2>1. /\ c \in Cell /\ UNCHANGED kind
        /\ \A d \in Cell : Occurrences(d, "load") = Occurrences(d, "load")' + One(d = c /\ "load" = "load")
    BY <1>1, <1>2, CompletionGoes DEF CellInv
  <2>2. QED
    BY <2>1 DEF One
<1>4. Types'
  BY <1>2, CommitTypes DEF CellInv, Types
<1>5. \A d \in Cell : Occurrences(d, "load")' \in Nat
  BY <1>4, OccurrencesNext
<1>6. \A d \in Cell : d # c => Owns(d)' = Owns(d)
  BY <1>2 DEF Owns, CellInv, Types
<1>7. \A d \in Cell : Releasing(d)' = Releasing(d) /\ refs'[d] = refs[d] /\ refs[d] \in Nat
  BY <1>2 DEF Releasing, CellInv, Types
<1>8. Covered'
  BY <1>3, <1>5, <1>6, <1>7 DEF CellInv, Covered, One
<1>9. QED
  BY <1>4, <1>8 DEF CellInv

\* The end of an unload.
LEMMA UnloadInv ==
  ASSUME CellInv, CommitUnload
  PROVE  CellInv'
<1>1. PICK c : c = Head(completions).cell
  OBVIOUS
<1>2. /\ Committing("unload") /\ UNCHANGED <<active, refs>>
      /\ unload' = [unload EXCEPT ![c] = NoUnload] /\ mapped' = mapped \ {c}
      /\ state' = [state EXCEPT ![c] = "Unloaded"]
  BY <1>1 DEF CommitUnload, Release
<1>3. /\ c \in Cell
      /\ \A d \in Cell : Occurrences(d, "load") = Occurrences(d, "load")' + One(d = c /\ "unload" = "load")
  BY <1>1, <1>2, CompletionGoes DEF CellInv
<1>4. Types' /\ UNCHANGED kind
  BY <1>2, <1>3, CommitTypes DEF CellInv, Types, NoUnload
<1>5. \A d \in Cell : Occurrences(d, "load")' \in Nat
  BY <1>4, OccurrencesNext
<1>6. \A d \in Cell : (Owns(d)' => Owns(d)) /\ (Releasing(d)' => Releasing(d))
  BY <1>2, <1>3 DEF Owns, Releasing, CellInv, Types, NoUnload
<1>7. \A d \in Cell : refs'[d] = refs[d] /\ refs[d] \in Nat
  BY <1>2 DEF CellInv, Types
<1>8. Covered'
  BY <1>3, <1>4, <1>5, <1>6, <1>7 DEF CellInv, Covered, One
<1>9. QED
  BY <1>4, <1>8 DEF CellInv

\* A load that starts.
LEMMA StartInv ==
  ASSUME CellInv, NEW c \in Cell, ProcessCellLoad(c)
  PROVE  CellInv'
<1>1. UNCHANGED <<kind, completions, refs, unload, mapped>>
  BY DEF ProcessCellLoad, files, packages
<1>2. PICK s : state' = [state EXCEPT ![c] = s] /\ (s = "Loaded" => kind[c] = "missing")
  BY DEF ProcessCellLoad
<1>3. DOMAIN active' = Cell
  BY DEF ProcessCellLoad, CellInv, Types
<1>4. Requests'
  <2>1. \/ UNCHANGED request
        \/ \E r \in Request :
             request' = [request EXCEPT ![r] = [Free EXCEPT !.cell = c, !.stage = "queued", !.live = TRUE]]
    <3>1. (CHOOSE r \in FreeRequests : TRUE) \in FreeRequests \/ FreeRequests = {}
      OBVIOUS
    <3>2. FreeRequests \subseteq Request
      BY DEF FreeRequests
    <3>3. QED
      BY <3>1, <3>2 DEF ProcessCellLoad
  <2>2. CASE UNCHANGED request
    BY <1>1, <2>2 DEF CellInv, Types, Requests
  <2>3. ASSUME NEW r \in Request,
               request' = [request EXCEPT ![r] = [Free EXCEPT !.cell = c, !.stage = "queued", !.live = TRUE]]
        PROVE  Requests'
    BY <1>1, <2>3 DEF CellInv, Types, Requests, RequestState, Free
  <2>4. QED
    BY <2>1, <2>2, <2>3
<1>5. Types'
  BY <1>1, <1>2, <1>3, <1>4 DEF CellInv, Types
<1>6. \A d \in Cell : kind[d] = "package" => (Owns(d)' => Owns(d))
  BY <1>1, <1>2 DEF Owns, CellInv, Types
<1>7. \A d \in Cell : Releasing(d)' = Releasing(d) /\ Occurrences(d, "load")' = Occurrences(d, "load")
  BY <1>1 DEF Releasing, Occurrences
<1>8. Covered'
  BY <1>1, <1>5, <1>6, <1>7, OccurrencesType DEF CellInv, Types, Covered, One
<1>9. QED
  BY <1>5, <1>8 DEF CellInv

\* The unload that starts is not under way yet.
LEMMA FirstIsOver ==
  ASSUME FirstUnload # 0
  PROVE  unload[unloadQueue[FirstUnload]] = NoUnload
<1> DEFINE I == {i \in 1 .. Len(unloadQueue) : unload[unloadQueue[i]] = NoUnload}
<1>1. FirstUnload = IF I # {} THEN Min(I) ELSE 0
  BY DEF FirstUnload, SelectInSeq
<1>2. I # {} /\ I \subseteq Nat
  BY <1>1
<1>3. \E m \in I : \A i \in I : ~ (<<i, m>> \in OpToRel(<, Nat))
  BY <1>2, WFMin, NatLessThanWellFounded
<1>4. PICK m \in I : \A i \in I : ~ (i < m)
  BY <1>2, <1>3 DEF OpToRel
<1>5. \A i \in I : m <= i
  BY <1>2, <1>4
<1>6. Min(I) \in I
  BY <1>5 DEF Min
<1>7. QED
  BY <1>1, <1>2, <1>6

\* An unload that starts takes the cell's reference over.
LEMMA StopInv ==
  ASSUME CellInv, ProcessCellUnload
  PROVE  CellInv'
<1>1. PICK c : c = unloadQueue[FirstUnload]
  OBVIOUS
<1>2. UNCHANGED <<kind, completions, refs, mapped>>
  BY DEF ProcessCellUnload, packages, files
<1>3. CASE UNCHANGED <<state, active, unload, request>>
  BY <1>2, <1>3 DEF CellInv, Types, Requests, Covered, Owns, Releasing, Occurrences
<1>4. ASSUME /\ active' = [active EXCEPT ![c] = None]
             /\ request' = [r \in Request |-> IF active[c] = r THEN Cancelled(r) ELSE request[r]]
             /\ state' = [state EXCEPT ![c] = IF @ = "Loaded" THEN "Unloading" ELSE @]
             /\ unload' = [unload EXCEPT ![c] = [stage |-> "queued", package |-> c \in mapped]]
      PROVE  CellInv'
  <2>1. Requests'
    <3>1. DOMAIN request' = Request
      BY <1>4
    <3>2. \A r \in Request : \/ request'[r] = request[r] \/ request'[r] = Free
                             \/ request'[r] = [request[r] EXCEPT !.live = FALSE]
      BY <1>4 DEF Cancelled
    <3>3. \A r \in Request : request[r] \in RequestState
      BY DEF CellInv, Types, Requests
    <3>4. ASSUME NEW r \in Request
          PROVE  /\ request'[r] \in RequestState
                 /\ request'[r].stage # "free" =>
                      request'[r].stage = request[r].stage /\ request'[r].cell = request[r].cell
      <4>1. CASE request'[r] = [request[r] EXCEPT !.live = FALSE]
        BY <3>3, <4>1 DEF RequestState
      <4>2. CASE request'[r] = request[r] \/ request'[r] = Free
        BY <3>3, <4>2, FreeState
      <4>3. QED
        BY <3>2, <4>1, <4>2
    <3>5. request' \in [Request -> RequestState]
      BY <1>4, <3>1, <3>4
    <3>6. QED
      BY <1>2, <3>4, <3>5 DEF CellInv, Types, Requests, RequestState
  <2>2. unload' \in [Cell -> [stage : {"none", "queued", "running", "done"}, package : BOOLEAN]]
    <3>1. PICK b \in BOOLEAN : b <=> c \in mapped
      <4>1. CASE c \in mapped
        <5>1. TRUE \in BOOLEAN /\ (TRUE <=> c \in mapped)
          BY <4>1
        <5>2. QED
          BY <5>1
      <4>2. CASE c \notin mapped
        <5>1. FALSE \in BOOLEAN /\ (FALSE <=> c \in mapped)
          BY <4>2
        <5>2. QED
          BY <5>1
      <4>3. QED
        BY <4>1, <4>2
    <3>2. unload' = [unload EXCEPT ![c] = [stage |-> "queued", package |-> b]]
      BY <1>4, <3>1
    <3>3. QED
      BY <3>2 DEF CellInv, Types
  <2>3. DOMAIN state' = Cell /\ DOMAIN active' = Cell
    BY <1>4 DEF CellInv, Types
  <2>4. Types'
    BY <1>2, <2>1, <2>2, <2>3 DEF CellInv, Types
  <2>5. \A d \in Cell : Occurrences(d, "load")' = Occurrences(d, "load")
    BY <1>2 DEF Occurrences
  <2>6. \A d \in Cell : d # c => Owns(d)' = Owns(d) /\ Releasing(d)' = Releasing(d)
    BY <1>2, <1>4 DEF Owns, Releasing, CellInv, Types
  <2>7. c \in Cell => ~ Owns(c)'
    BY <1>4 DEF Owns, CellInv, Types, NoUnload
  <2>8. unload[c] = NoUnload => (c \in Cell => (Releasing(c)' => Owns(c)))
    BY <1>4 DEF Owns, Releasing, CellInv, Types
  <2>9. unload[c] = NoUnload
    BY <1>1, FirstIsOver DEF ProcessCellUnload, UnloadsOpen
  <2>10. QED
    BY <1>2, <2>4, <2>5, <2>6, <2>7, <2>8, <2>9, OccurrencesType DEF CellInv, Types, Covered, One
<1>5. QED
  BY <1>1, <1>3, <1>4 DEF ProcessCellUnload

\* A worker takes a job or a request.
LEMMA TakeInv ==
  ASSUME CellInv, NEW r \in Request, Take(r)
  PROVE  CellInv'
<1>1. /\ request[r].stage = "queued"
      /\ request' = [request EXCEPT ![r].stage = "running"]
      /\ UNCHANGED <<kind, state, active, completions, refs, unload, mapped>>
  BY DEF Take, files, packages
<1>2. /\ request' \in [Request -> RequestState]
      /\ \A q \in Request : q # r => request'[q] = request[q]
      /\ request'[r].cell = request[r].cell /\ request'[r].stage = "running"
  BY <1>1 DEF CellInv, Types, Requests, RequestState
<1>3. Requests'
  BY <1>1, <1>2 DEF CellInv, Types, Requests, RequestState
<1>4. QED
  BY <1>1, <1>3 DEF CellInv, Types, Covered, Owns, Releasing, Occurrences

\* A read or a decompression ends.
LEMMA AnswerInv ==
  ASSUME CellInv, NEW r \in Request, Answer(r)
  PROVE  CellInv'
<1>1. /\ request[r].stage = "running" /\ kind[request[r].cell] # "package"
      /\ UNCHANGED <<kind, state, active, completions, refs, unload, mapped>>
  BY DEF Answer, files, packages
<1>2. PICK fault \in BOOLEAN :
        request' = [request EXCEPT ![r] =
          IF @.live THEN [@ EXCEPT !.stage = "answered", !.ok = ~fault] ELSE Free]
  BY DEF Answer
<1>3. /\ request' \in [Request -> RequestState]
      /\ \A q \in Request : q # r => request'[q] = request[q]
      /\ request'[r].stage # "free" => request'[r].cell = request[r].cell
  <2>1. PICK ok \in BOOLEAN : ok = ~fault
    OBVIOUS
  <2>2. PICK y : y = IF request[r].live THEN [request[r] EXCEPT !.stage = "answered", !.ok = ok] ELSE Free
    OBVIOUS
  <2>3. request' = [request EXCEPT ![r] = y]
    BY <1>2, <2>1, <2>2
  <2>4. request[r] \in RequestState
    BY DEF CellInv, Types, Requests
  <2>5. y \in RequestState /\ (y.stage # "free" => y.cell = request[r].cell)
    BY <2>2, <2>4, FreeState DEF RequestState
  <2>6. QED
    BY <2>3, <2>5 DEF CellInv, Types, Requests
<1>4. Requests'
  BY <1>1, <1>3 DEF CellInv, Types, Requests, RequestState
<1>5. QED
  BY <1>1, <1>4 DEF CellInv, Types, Covered, Owns, Releasing, Occurrences

\* A package that is loaded has a completion that stands for its reference.
LEMMA LoadPackageInv ==
  ASSUME CellInv, NEW r \in Request, LoadPackage(r)
  PROVE  CellInv'
<1>1. PICK c : c = request[r].cell
  OBVIOUS
<1>2. PICK fault \in BOOLEAN :
        /\ refs' = [refs EXCEPT ![c] = IF fault THEN @ ELSE @ + 1]
        /\ completions' = Complete(c, IF fault THEN "fail" ELSE "load")
  BY <1>1 DEF LoadPackage
<1>3. /\ c \in Cell
      /\ request' = [request EXCEPT ![r] = Free]
      /\ UNCHANGED <<kind, state, unload, mapped>> /\ DOMAIN active' = Cell
  BY <1>1 DEF LoadPackage, files, CellInv, Types, Requests
<1>4. Requests'
  BY <1>3 DEF CellInv, Types, Requests, RequestState, Free
<1>5. PICK what \in {"load", "fail", "unload"} : what = IF fault THEN "fail" ELSE "load"
  OBVIOUS
<1>6. /\ completions' \in Seq(Completion)
      /\ \A d \in Cell : Occurrences(d, "load")' = Occurrences(d, "load") + One(d = c /\ what = "load")
  BY <1>2, <1>3, <1>5, CompletionComes DEF CellInv
<1>7. \A d \in Cell : refs[d] \in Nat /\ refs'[d] = refs[d] + One(d = c /\ what = "load")
  BY <1>2, <1>3, <1>5 DEF CellInv, Types, One
<1>8. refs' \in [Cell -> Nat]
  BY <1>2, <1>3 DEF CellInv, Types
<1>9. Types'
  BY <1>3, <1>4, <1>6, <1>8 DEF CellInv, Types
<1>10. \A d \in Cell : Owns(d)' = Owns(d) /\ Releasing(d)' = Releasing(d)
  BY <1>3 DEF Owns, Releasing
<1>11. Covered'
  BY <1>3, <1>6, <1>7, <1>10, OccurrencesType DEF CellInv, Covered, One
<1>12. QED
  BY <1>9, <1>11 DEF CellInv

\* An unload job starts.
LEMMA TakeUnloadInv ==
  ASSUME CellInv, NEW c \in Cell, TakeUnload(c)
  PROVE  CellInv'
<1>1. /\ unload[c].stage = "queued"
      /\ unload' = [unload EXCEPT ![c].stage = "running"]
      /\ UNCHANGED <<kind, state, active, completions, refs, request, mapped>>
  BY DEF TakeUnload, files, packages
<1>2. /\ unload' \in [Cell -> [stage : {"none", "queued", "running", "done"}, package : BOOLEAN]]
      /\ unload'[c].package = unload[c].package /\ unload'[c].stage = "running"
      /\ \A d \in Cell : d # c => unload'[d] = unload[d]
  BY <1>1 DEF CellInv, Types
<1>3. \A d \in Cell : Owns(d)' = Owns(d) /\ Releasing(d)' = Releasing(d)
                      /\ Occurrences(d, "load")' = Occurrences(d, "load")
  <2>1. unload[c] # NoUnload /\ unload'[c] # NoUnload
    BY <1>1, <1>2 DEF NoUnload
  <2>2. QED
    BY <1>1, <1>2, <2>1 DEF Owns, Releasing, Occurrences
<1>4. QED
  BY <1>1, <1>2, <1>3 DEF CellInv, Types, Requests, Covered, One

\* An unload job releases what it took over.
LEMMA UnloadPackageInv ==
  ASSUME CellInv, NEW c \in Cell, UnloadPackage(c)
  PROVE  CellInv'
<1>1. /\ unload[c].stage = "running"
      /\ refs' = [refs EXCEPT ![c] = IF unload[c].package /\ @ > 0 THEN @ - 1 ELSE @]
      /\ unload' = [unload EXCEPT ![c].stage = "done"]
      /\ completions' = Complete(c, "unload")
      /\ UNCHANGED <<kind, state, active, request, mapped>>
  BY DEF UnloadPackage, files
<1>2. /\ unload' \in [Cell -> [stage : {"none", "queued", "running", "done"}, package : BOOLEAN]]
      /\ unload'[c].stage = "done" /\ unload'[c] # NoUnload /\ unload[c] # NoUnload
      /\ \A d \in Cell : d # c => unload'[d] = unload[d]
  BY <1>1 DEF CellInv, Types, NoUnload
<1>3. /\ completions' \in Seq(Completion)
      /\ \A d \in Cell : Occurrences(d, "load")' = Occurrences(d, "load") + One(d = c /\ "unload" = "load")
  BY <1>1, CompletionComes DEF CellInv
<1>4. refs' \in [Cell -> Nat]
  <2>1. refs \in [Cell -> Nat] /\ refs[c] \in Nat
    BY DEF CellInv, Types
  <2>2. (IF unload[c].package /\ refs[c] > 0 THEN refs[c] - 1 ELSE refs[c]) \in Nat
    BY <2>1
  <2>3. QED
    BY <1>1, <2>1, <2>2
<1>5. Types'
  BY <1>1, <1>2, <1>3, <1>4 DEF CellInv, Types, Requests
<1>6. \A d \in Cell : Owns(d)' = Owns(d)
  BY <1>1, <1>2 DEF Owns
<1>7. \A d \in Cell : d # c => Releasing(d)' = Releasing(d) /\ refs'[d] = refs[d]
  BY <1>1, <1>2 DEF Releasing, CellInv, Types
<1>8. /\ ~ Releasing(c)' /\ refs[c] \in Nat
      /\ refs'[c] + One(Releasing(c)) >= refs[c]
  BY <1>1, <1>2 DEF Releasing, CellInv, Types, One
<1>9. Covered'
  BY <1>1, <1>3, <1>4, <1>6, <1>7, <1>8, OccurrencesType DEF CellInv, Types, Covered, One
<1>10. QED
  BY <1>5, <1>9 DEF CellInv

-----------------------------------------------------------------------------
LEMMA NextInv ==
  ASSUME CellInv, [Next]_vars
  PROVE  CellInv'
<1>1. CASE PackagesStand
  BY <1>1, StandInv
<1>2. ASSUME NEW r \in Request, CellCallback(r) \/ Take(r) \/ LoadPackage(r) \/ Answer(r)
      PROVE  CellInv'
  BY <1>2, CallbackInv, TakeInv, LoadPackageInv, AnswerInv
<1>3. ASSUME NEW c \in Cell, ProcessCellLoad(c) \/ TakeUnload(c) \/ UnloadPackage(c)
      PROVE  CellInv'
  BY <1>3, StartInv, TakeUnloadInv, UnloadPackageInv
<1>4. CASE CommitFailure \/ CommitUnwanted \/ CommitLoad \/ CommitUnload \/ ProcessCellUnload
  BY <1>4, FailureInv, UnwantedInv, LoadInv, UnloadInv, StopInv
<1>5. QED
  BY <1>1, <1>2, <1>3, <1>4 DEF Next, Call, Frame, Work, PackagesStand

\* Nothing is loaded at first.
LEMMA InitInv == Init => CellInv
<1> SUFFICES ASSUME Init
             PROVE  CellInv
  OBVIOUS
<1>1. Types
  BY EmptySeq DEF Init, Types, Requests, RequestState, Free, NoUnload
<1>2. \A c \in Cell : Occurrences(c, "load") = 0
  <2>1. completions = << >> /\ DOMAIN << >> = {}
    BY EmptySeq DEF Init
  <2>2. \A c : {i \in DOMAIN completions : completions[i] = [cell |-> c, what |-> "load"]} = {}
    BY <2>1
  <2>3. QED
    BY <2>2, FS_EmptySet DEF Occurrences
<1>3. \A c \in Cell : ~ Owns(c) /\ ~ Releasing(c) /\ refs[c] = 0
  BY DEF Init, Owns, Releasing, NoUnload
<1>4. QED
  BY <1>1, <1>2, <1>3 DEF CellInv, Covered, One

\* A loaded cell, a finished load that waits for its commit, and an unload that
\* has still to release each have a reference of their own: no order in which
\* jobs end, calls are made and cells are evicted releases a package in use.
THEOREM PackagesAreCovered == Spec => []ReferencesCovered
<1>1. CellInv => ReferencesCovered
  <2> SUFFICES ASSUME CellInv, NEW c \in Cell, kind[c] = "package"
               PROVE  refs[c] >= Occurrences(c, "load") + (IF state[c] = "Loaded" THEN 1 ELSE 0)
                        + (IF unload[c].package /\ unload[c].stage \in {"queued", "running"}
                           THEN 1 ELSE 0)
    BY DEF ReferencesCovered
  <2>1. refs[c] \in Nat /\ Occurrences(c, "load") \in Nat
    BY OccurrencesType DEF CellInv, Types
  <2>2. QED
    BY <2>1 DEF CellInv, Covered, Owns, Releasing, One
<1>2. CellInv /\ [Next]_vars => CellInv'
  BY NextInv
<1>3. QED
  BY <1>1, <1>2, InitInv, PTL DEF Spec

-----------------------------------------------------------------------------
(* Bundles.  Numbers go up, so a bundle that is loaded is the newest.      *)
BundleInv == nextBundleId \in Nat \ {0} /\ DOMAIN assetBundles \subseteq 1 .. nextBundleId - 1 /\ NewestServes

\* Of numbers under a bound one is the greatest.
LEMMA GreatestNumber ==
  ASSUME NEW n \in Nat, NEW S \in SUBSET (0 .. n), S # {}
  PROVE  Max(S) \in S /\ \A i \in S : i <= Max(S)
<1> DEFINE Below == {k \in 0 .. n : n - k \in S}
<1>1. Below \subseteq Nat /\ Below # {}
  <2>1. PICK s \in S : TRUE
    OBVIOUS
  <2>2. n - s \in 0 .. n /\ n - (n - s) = s
    BY <2>1
  <2>3. n - s \in Below
    BY <2>1, <2>2
  <2>4. QED
    BY <2>3
<1>2. \E k \in Below : \A l \in Below : ~ (<<l, k>> \in OpToRel(<, Nat))
  BY <1>1, NatLessThanWellFounded, WFMin
<1>3. PICK k \in Below : \A l \in Below : ~ (l < k)
  BY <1>1, <1>2 DEF OpToRel
<1>4. n - k \in S /\ k \in 0 .. n
  BY <1>3
<1>5. \A i \in S : i <= n - k
  <2>1. SUFFICES ASSUME NEW i \in S PROVE i <= n - k
    OBVIOUS
  <2>2. n - i \in 0 .. n /\ n - (n - i) = i
    OBVIOUS
  <2>3. n - i \in Below
    BY <2>2
  <2>4. ~ (n - i < k)
    BY <1>3, <2>3
  <2>5. QED
    BY <1>4, <2>2, <2>4
<1>6. \E x \in S : \A y \in S : x >= y
  BY <1>4, <1>5
<1>7. Max(S) \in S /\ \A y \in S : Max(S) >= y
  BY <1>6 DEF Max
<1>8. QED
  BY <1>7

\* The one that no other exceeds is the greatest.
LEMMA GreatestIs ==
  ASSUME NEW n \in Nat, NEW S \in SUBSET (0 .. n), NEW m \in S, \A i \in S : i <= m
  PROVE  Max(S) = m
<1>1. Max(S) \in S /\ \A i \in S : i <= Max(S)
  BY GreatestNumber
<1>2. Max(S) <= m /\ m <= Max(S)
  BY <1>1
<1>3. Max(S) \in Nat /\ m \in Nat
  <2>1. \A i \in S : i \in Nat
    OBVIOUS
  <2>2. QED
    BY <1>1, <2>1
<1>4. QED
  BY ONLY <1>2, <1>3

\* At first there are no bundles.
LEMMA BundleInitInv == BundleInit => BundleInv
<1> SUFFICES ASSUME BundleInit PROVE BundleInv
  OBVIOUS
<1>1. DOMAIN assetBundles = {}
  BY DEF BundleInit
<1>2. \A cell : HoldersOf(cell) = {}
  BY <1>1 DEF HoldersOf
<1>3. NewestServes
  BY <1>2 DEF NewestServes, BundleInit, Nowhere
<1>4. QED
  BY <1>1, <1>3 DEF BundleInv, BundleInit

\* A shutdown forgets every bundle.
LEMMA ShutdownBundlesKeeps == ASSUME BundleInv, ShutdownManager PROVE BundleInv'
<1>1. DOMAIN assetBundles' = {}
  BY DEF ShutdownManager
<1>2. \A cell : HoldersOf(cell)' = {}
  BY <1>1 DEF HoldersOf
<1>3. NewestServes'
  BY <1>2 DEF NewestServes, ShutdownManager, Nowhere
<1>4. QED
  BY <1>1, <1>3 DEF BundleInv, ShutdownManager

\* Only bundles and what is kept of them count.
LEMMA BundlesUnchanged ==
  ASSUME BundleInv, UNCHANGED <<assetBundles, nextBundleId, cellToBundle, bundleCellPathOwners, bundleCellPaths,
                                bundleAvailableCells, requested>>
  PROVE  BundleInv'
<1>1. \A cell : HoldersOf(cell)' = HoldersOf(cell)
  BY DEF HoldersOf
<1>2. QED
  BY <1>1 DEF BundleInv, NewestServes

\* The bundle that is loaded now is newer than all others, and takes its cells over.
LEMMA LoadBundleKeeps == ASSUME BundleInv, LoadAssetBundle PROVE BundleInv'
<1> DEFINE new == nextBundleId
<1>1. PICK content \in BundlePaths : \E walk \in SetToSeqs(content) :
        LET paths == Discovered(walk)
            cells == CellsOf(paths)
            bundle == [paths |-> paths, totalSize |-> TotalSize(walk), content |-> content]
        IN  /\ assetBundles' = [b \in DOMAIN assetBundles \cup {new} |-> IF b = new THEN bundle ELSE assetBundles[b]]
            /\ cellToBundle' = [c \in BundledCell |-> IF c \in cells THEN new ELSE cellToBundle[c]]
            /\ bundleCellPathOwners' = [c \in BundledCell |-> IF c \in cells THEN new ELSE bundleCellPathOwners[c]]
            /\ bundleCellPaths' = [c \in BundledCell |-> IF c \in cells THEN paths[c] ELSE bundleCellPaths[c]]
            /\ bundleAvailableCells' = bundleAvailableCells \cup cells
            /\ requested' = [c \in BundledCell |-> IF c \in cells THEN "load" ELSE requested[c]]
  BY DEF LoadAssetBundle
<1>2. PICK paths, bundle :
        LET cells == CellsOf(paths) IN
        /\ bundle.paths = paths
        /\ assetBundles' = [b \in DOMAIN assetBundles \cup {new} |-> IF b = new THEN bundle ELSE assetBundles[b]]
        /\ cellToBundle' = [c \in BundledCell |-> IF c \in cells THEN new ELSE cellToBundle[c]]
        /\ bundleCellPathOwners' = [c \in BundledCell |-> IF c \in cells THEN new ELSE bundleCellPathOwners[c]]
        /\ bundleCellPaths' = [c \in BundledCell |-> IF c \in cells THEN paths[c] ELSE bundleCellPaths[c]]
        /\ bundleAvailableCells' = bundleAvailableCells \cup cells
        /\ requested' = [c \in BundledCell |-> IF c \in cells THEN "load" ELSE requested[c]]
  BY <1>1
<1> DEFINE cells == CellsOf(paths)
<1>3. new \in Nat \ {0} /\ DOMAIN assetBundles \subseteq 1 .. new - 1 /\ nextBundleId' = new + 1
  BY DEF BundleInv, LoadAssetBundle
<1>4. new \notin DOMAIN assetBundles /\ DOMAIN assetBundles \subseteq 0 .. new
  BY <1>3
<1>5. /\ DOMAIN assetBundles' = DOMAIN assetBundles \cup {new} /\ assetBundles'[new].paths = paths
      /\ \A b \in DOMAIN assetBundles : assetBundles'[b] = assetBundles[b]
  BY <1>2, <1>4
<1>6. DOMAIN assetBundles' \subseteq 1 .. nextBundleId' - 1
  BY <1>3, <1>5
<1>7. SUFFICES ASSUME NEW cell \in BundledCell
               PROVE  IF HoldersOf(cell)' # {}
                      THEN LET newest == Max(HoldersOf(cell)') IN
                           /\ cellToBundle'[cell] = newest /\ bundleCellPathOwners'[cell] = newest
                           /\ bundleCellPaths'[cell] = assetBundles'[newest].paths[cell]
                           /\ cell \in bundleAvailableCells' /\ requested'[cell] = "load"
                      ELSE /\ cellToBundle'[cell] = 0 /\ bundleCellPathOwners'[cell] = 0
                           /\ bundleCellPaths'[cell] = NoPath
                           /\ cell \notin bundleAvailableCells' /\ requested'[cell] # "load"
  BY <1>3, <1>6 DEF BundleInv, NewestServes
<1>8. HoldersOf(cell)' = HoldersOf(cell) \cup (IF cell \in cells THEN {new} ELSE {})
  <2>1. cell \in cells <=> paths[cell] # NoPath
    BY DEF CellsOf
  <2>2. QED
    BY <1>4, <1>5, <2>1 DEF HoldersOf
<1>9. CASE cell \in cells
  <2>1. HoldersOf(cell)' \in SUBSET (0 .. new) /\ new \in HoldersOf(cell)' /\ \A i \in HoldersOf(cell)' : i <= new
    BY <1>3, <1>4, <1>8, <1>9 DEF HoldersOf
  <2>2. Max(HoldersOf(cell)') = new
    BY <1>3, <2>1, GreatestIs
  <2>3. QED
    BY <1>2, <1>5, <1>9, <2>1, <2>2
<1>10. CASE cell \notin cells
  <2>1. HoldersOf(cell)' = HoldersOf(cell)
    BY <1>8, <1>10
  <2>2. /\ cellToBundle'[cell] = cellToBundle[cell] /\ bundleCellPathOwners'[cell] = bundleCellPathOwners[cell]
        /\ bundleCellPaths'[cell] = bundleCellPaths[cell] /\ requested'[cell] = requested[cell]
        /\ (cell \in bundleAvailableCells') = (cell \in bundleAvailableCells)
    BY <1>2, <1>10
  <2>3. HoldersOf(cell) # {} => Max(HoldersOf(cell)) \in DOMAIN assetBundles
    <3>1. HoldersOf(cell) \in SUBSET (0 .. new) /\ HoldersOf(cell) \subseteq DOMAIN assetBundles
      BY <1>4 DEF HoldersOf
    <3>2. QED
      BY <1>3, <3>1, GreatestNumber
  <2>4. QED
    BY <1>5, <2>1, <2>2, <2>3 DEF BundleInv, NewestServes
<1>11. QED
  BY <1>9, <1>10

\* A bundle that is unloaded hands its cells over to the newest of the others that hold them.
LEMMA UnloadBundleKeeps == ASSUME BundleInv, NEW id, UnloadAssetBundle(id) PROVE BundleInv'
<1> DEFINE cells == CellsOf(assetBundles[id].paths)
           next(c) == FindReplacementBundle(id, c)
           path(c) == IF next(c) = 0 THEN NoPath ELSE assetBundles[next(c)].paths[c]
           owned == {c \in cells : bundleCellPathOwners[c] \in {id} \cup (IF next(c) # 0 THEN {0} ELSE {})}
           n == nextBundleId
<1>1. /\ id \in DOMAIN assetBundles
      /\ cellToBundle' = [c \in BundledCell |-> IF c \in cells /\ cellToBundle[c] = id THEN next(c) ELSE cellToBundle[c]]
      /\ bundleCellPathOwners' = [c \in BundledCell |-> IF c \in owned THEN next(c) ELSE bundleCellPathOwners[c]]
      /\ bundleCellPaths' = [c \in BundledCell |-> IF c \in owned THEN path(c) ELSE bundleCellPaths[c]]
      /\ bundleAvailableCells' = (bundleAvailableCells \ owned) \cup {c \in owned : path(c) # NoPath}
      /\ requested' = [c \in BundledCell |-> IF c \in cells /\ next(c) = 0 THEN "unload" ELSE requested[c]]
      /\ assetBundles' = [b \in DOMAIN assetBundles \ {id} |-> assetBundles[b]] /\ nextBundleId' = n
  BY DEF UnloadAssetBundle
<1>2. n \in Nat \ {0} /\ DOMAIN assetBundles \subseteq 1 .. n - 1 /\ DOMAIN assetBundles \subseteq 0 .. n
  BY DEF BundleInv
<1>3. /\ DOMAIN assetBundles' = DOMAIN assetBundles \ {id}
      /\ \A b \in DOMAIN assetBundles \ {id} : assetBundles'[b] = assetBundles[b]
  BY <1>1
<1>4. SUFFICES ASSUME NEW cell \in BundledCell
               PROVE  IF HoldersOf(cell)' # {}
                      THEN LET newest == Max(HoldersOf(cell)') IN
                           /\ cellToBundle'[cell] = newest /\ bundleCellPathOwners'[cell] = newest
                           /\ bundleCellPaths'[cell] = assetBundles'[newest].paths[cell]
                           /\ cell \in bundleAvailableCells' /\ requested'[cell] = "load"
                      ELSE /\ cellToBundle'[cell] = 0 /\ bundleCellPathOwners'[cell] = 0
                           /\ bundleCellPaths'[cell] = NoPath
                           /\ cell \notin bundleAvailableCells' /\ requested'[cell] # "load"
  BY <1>1, <1>2, <1>3 DEF BundleInv, NewestServes
<1> DEFINE H == HoldersOf(cell)
           G == OthersWith(id, cell)
<1>5. H \in SUBSET (0 .. n) /\ G \in SUBSET (0 .. n) /\ H \subseteq DOMAIN assetBundles /\ G = H \ {id}
  BY <1>2 DEF HoldersOf, OthersWith
<1>6. HoldersOf(cell)' = G
  BY <1>3 DEF HoldersOf, OthersWith
<1>7. cell \in cells <=> id \in H
  BY <1>1 DEF CellsOf, HoldersOf
<1>8. next(cell) = IF G = {} THEN 0 ELSE Max(G)
  BY DEF FindReplacementBundle
<1>9. /\ H # {} => Max(H) \in H /\ \A i \in H : i <= Max(H)
      /\ G # {} => Max(G) \in G /\ \A i \in G : i <= Max(G)
  BY <1>2, <1>5, GreatestNumber
<1>10. \A i \in DOMAIN assetBundles : i # 0
  BY <1>2
<1>11. IF H # {}
       THEN /\ cellToBundle[cell] = Max(H) /\ bundleCellPathOwners[cell] = Max(H)
            /\ bundleCellPaths[cell] = assetBundles[Max(H)].paths[cell]
            /\ cell \in bundleAvailableCells /\ requested[cell] = "load"
       ELSE /\ cellToBundle[cell] = 0 /\ bundleCellPathOwners[cell] = 0 /\ bundleCellPaths[cell] = NoPath
            /\ cell \notin bundleAvailableCells /\ requested[cell] # "load"
  BY DEF BundleInv, NewestServes
<1>12. CASE cell \notin cells
  <2>1. G = H
    BY <1>5, <1>7, <1>12
  <2>2. /\ cellToBundle'[cell] = cellToBundle[cell] /\ bundleCellPathOwners'[cell] = bundleCellPathOwners[cell]
        /\ bundleCellPaths'[cell] = bundleCellPaths[cell] /\ requested'[cell] = requested[cell]
        /\ (cell \in bundleAvailableCells') = (cell \in bundleAvailableCells)
    BY <1>1, <1>12
  <2>3. H # {} => assetBundles'[Max(H)] = assetBundles[Max(H)]
    BY <1>3, <1>5, <1>9, <2>1
  <2>4. QED
    BY <1>6, <1>11, <2>1, <2>2, <2>3
<1>13. CASE cell \in cells /\ Max(H) # id
  <2>1. H # {} /\ Max(H) \in G /\ G # {}
    BY <1>5, <1>7, <1>9, <1>13
  <2>2. Max(G) = Max(H)
    BY <1>2, <1>5, <1>9, <2>1, GreatestIs
  <2>3. cellToBundle[cell] # id /\ bundleCellPathOwners[cell] # id /\ bundleCellPathOwners[cell] # 0
    BY <1>5, <1>9, <1>10, <1>11, <1>13, <2>1
  <2>4. cell \notin owned
    BY <2>3
  <2>5. next(cell) # 0
    BY <1>5, <1>8, <1>9, <1>10, <2>1
  <2>6. /\ cellToBundle'[cell] = cellToBundle[cell] /\ bundleCellPathOwners'[cell] = bundleCellPathOwners[cell]
        /\ bundleCellPaths'[cell] = bundleCellPaths[cell] /\ requested'[cell] = requested[cell]
        /\ (cell \in bundleAvailableCells') = (cell \in bundleAvailableCells)
    BY <1>1, <2>3, <2>4, <2>5
  <2>7. assetBundles'[Max(H)] = assetBundles[Max(H)]
    BY <1>3, <1>5, <2>1
  <2>8. QED
    BY <1>6, <1>11, <2>1, <2>2, <2>6, <2>7
<1>14. CASE cell \in cells /\ Max(H) = id
  <2>1. cellToBundle[cell] = id /\ bundleCellPathOwners[cell] = id
    BY <1>7, <1>11, <1>14
  <2>2. cell \in owned
    BY <1>14, <2>1
  <2>3. cellToBundle'[cell] = next(cell) /\ bundleCellPathOwners'[cell] = next(cell) /\ bundleCellPaths'[cell] = path(cell)
    BY <1>1, <1>14, <2>1, <2>2
  <2>4. CASE G = {}
    <3>1. next(cell) = 0 /\ path(cell) = NoPath
      BY <1>8, <2>4
    <3>2. cell \notin bundleAvailableCells' /\ requested'[cell] = "unload"
      BY <1>1, <1>14, <2>2, <3>1
    <3>3. QED
      BY <1>6, <2>3, <2>4, <3>1, <3>2
  <2>5. CASE G # {}
    <3>1. next(cell) = Max(G) /\ next(cell) # 0 /\ Max(G) \in G
      BY <1>5, <1>8, <1>9, <1>10, <2>5
    <3>2. path(cell) = assetBundles[Max(G)].paths[cell] /\ path(cell) # NoPath
      BY <3>1 DEF OthersWith
    <3>3. cell \in bundleAvailableCells' /\ requested'[cell] = requested[cell]
      BY <1>1, <1>14, <2>2, <3>1, <3>2
    <3>4. assetBundles'[Max(G)] = assetBundles[Max(G)]
      BY <1>3, <1>5, <3>1
    <3>5. requested[cell] = "load"
      BY <1>7, <1>11, <1>14
    <3>6. QED
      BY <1>6, <2>3, <2>5, <3>1, <3>2, <3>3, <3>4, <3>5
  <2>6. QED
    BY <2>4, <2>5
<1>15. QED
  BY <1>12, <1>13, <1>14

\* Every step keeps the invariant.
LEMMA BundleStepInv == ASSUME BundleInv, [BundleNext]_bundleVars PROVE BundleInv'
<1>1. CASE InitializeOrSetConfig
  BY <1>1, BundlesUnchanged DEF InitializeOrSetConfig
<1>2. CASE UNCHANGED bundleVars
  BY <1>2, BundlesUnchanged DEF bundleVars
<1>3. QED
  BY <1>1, <1>2, ShutdownBundlesKeeps, LoadBundleKeeps, UnloadBundleKeeps DEF BundleNext

(* For any cells and bundles, loaded and unloaded in any order and any     *)
(* number of times, each cell is served by the newest bundle that holds    *)
(* it, by all five tables alike (StreamingManager::LoadAssetBundle and     *)
(* UnloadAssetBundle).                                                     *)
THEOREM NewestBundleServes == BundleInit /\ [][BundleNext]_bundleVars => []NewestServes
<1>1. BundleInit => BundleInv
  BY BundleInitInv
<1>2. BundleInv /\ [BundleNext]_bundleVars => BundleInv'
  BY BundleStepInv
<1>3. BundleInv => NewestServes
  BY DEF BundleInv
<1>4. QED
  BY <1>1, <1>2, <1>3, PTL

-----------------------------------------------------------------------------
(* The memory budget.  A cell is used when it is loaded, and never again;  *)
(* no cell is loaded while it is unloaded; and no more are than there are  *)
(* slots.                                                                  *)
BudgetType ==
  /\ loadedCells \subseteq HeldCell /\ wantedCells \subseteq HeldCell /\ unloadsUnderWay \subseteq HeldCell
  /\ unloadRequests \in Seq(HeldCell) /\ accessInfo \in [HeldCell -> Nat] /\ currentFrame \in Nat
  /\ priorities \in [HeldCell -> Nat]

UsedWhenLoaded == accessInfo = since

LeavingApart == loadedCells \cap unloadsUnderWay = {}

SlotsKept == Cardinality(unloadsUnderWay) <= UnloadSlots

BudgetInv == BudgetType /\ UsedWhenLoaded /\ LeavingApart /\ SlotsKept /\ BudgetKept

-----------------------------------------------------------------------------
\* There are finitely many cells.
LEMMA CellsFinite == ASSUME NEW cells \in SUBSET HeldCell PROVE IsFiniteSet(cells) /\ Cardinality(cells) \in Nat
<1>1. IsFiniteSet(cells)
  BY BudgetAssumption, FS_Subset
<1>2. QED
  BY <1>1, FS_CardinalityType

\* The least of two numbers.
LEMMA LeastOfTwo ==
  ASSUME NEW a \in Int, NEW b \in Int
  PROVE  Min({a, b}) = IF a <= b THEN a ELSE b
<1>1. \E x \in {a, b} : \A y \in {a, b} : x <= y
  OBVIOUS
<1>2. Min({a, b}) \in {a, b} /\ \A y \in {a, b} : Min({a, b}) <= y
  BY <1>1 DEF Min
<1>3. QED
  BY <1>2

\* What cells take is a number of bytes.
LEMMA BytesCounted == ASSUME NEW cells \in SUBSET HeldCell PROVE GetMemoryUsage(cells) \in Nat
<1> DEFINE T(c) == {c} \X (1 .. CellBytes[c])
           f == [c \in cells |-> T(c)]
           R == {T(c) : c \in cells}
<1>1. IsFiniteSet(cells)
  BY CellsFinite
<1>2. \A c \in cells : IsFiniteSet(T(c))
  <2>1. SUFFICES ASSUME NEW c \in cells PROVE IsFiniteSet(T(c))
    OBVIOUS
  <2>2. CellBytes[c] \in Nat
    BY BudgetAssumption
  <2>3. IsFiniteSet(1 .. CellBytes[c])
    BY <2>2, FS_Interval
  <2>4. IsFiniteSet({c})
    BY FS_Singleton
  <2>5. QED
    BY <2>3, <2>4, FS_Product
<1>3. IsFiniteSet(R)
  <2>1. f \in Surjection(cells, R)
    BY DEF Surjection
  <2> HIDE DEF f, R
  <2>2. QED
    BY <1>1, <2>1, FS_Surjection
<1>4. \A U \in R : IsFiniteSet(U)
  BY <1>2
<1>5. BytesHeld(cells) = UNION R
  BY DEF BytesHeld
<1> HIDE DEF R
<1>6. IsFiniteSet(UNION R)
  BY <1>3, <1>4, FS_UNION
<1>7. QED
  BY <1>5, <1>6, FS_CardinalityType DEF GetMemoryUsage

\* An order of cells is a sequence of all of them.
LEMMA CellsOrdered ==
  ASSUME NEW cells \in SUBSET HeldCell, NEW order \in SetToSeqs(cells)
  PROVE  order \in Seq(HeldCell) /\ ToSet(order) = cells
<1>1. order \in Seq(cells) /\ ToSet(order) = cells
  BY CellsFinite, OrderHolds DEF Distinct
<1>2. QED
  BY <1>1

\* What is put into line behind others.
LEMMA JoinedHolds ==
  ASSUME NEW s \in Seq(HeldCell), NEW t \in Seq(HeldCell)
  PROVE  s \o t \in Seq(HeldCell) /\ ToSet(s \o t) = ToSet(s) \cup ToSet(t) /\ ToSet(s \o t) \subseteq HeldCell
<1>1. s \o t \in Seq(HeldCell) /\ Len(s \o t) = Len(s) + Len(t) /\ Len(s) \in Nat /\ Len(t) \in Nat
  OBVIOUS
<1>2. \A i \in 1 .. Len(s) + Len(t) : (s \o t)[i] = IF i <= Len(s) THEN s[i] ELSE t[i - Len(s)]
  OBVIOUS
<1> DEFINE u == s \o t
<1>3. DOMAIN u = 1 .. Len(s) + Len(t) /\ DOMAIN s = 1 .. Len(s) /\ DOMAIN t = 1 .. Len(t)
  BY <1>1
<1>4. \A i \in DOMAIN u : u[i] = IF i <= Len(s) THEN s[i] ELSE t[i - Len(s)]
  BY <1>2, <1>3
<1> HIDE DEF u
<1>5. ToSet(u) \subseteq ToSet(s) \cup ToSet(t)
  <2>1. ASSUME NEW i \in DOMAIN u PROVE u[i] \in ToSet(s) \cup ToSet(t)
    <3>1. i \in DOMAIN s \/ (i - Len(s) \in DOMAIN t /\ ~(i <= Len(s)))
      BY <1>1, <1>3
    <3>2. i \in DOMAIN s => i <= Len(s)
      BY <1>3
    <3>3. QED
      BY <1>4, <3>1, <3>2 DEF ToSet
  <2>2. QED
    BY <2>1 DEF ToSet
<1>6. ToSet(s) \subseteq ToSet(u)
  <2>1. ASSUME NEW i \in DOMAIN s PROVE s[i] \in ToSet(u)
    <3>1. i \in DOMAIN u /\ i <= Len(s)
      BY <1>1, <1>3
    <3>2. QED
      BY <1>4, <3>1 DEF ToSet
  <2>2. QED
    BY <2>1 DEF ToSet
<1>7. ToSet(t) \subseteq ToSet(u)
  <2>1. ASSUME NEW i \in DOMAIN t PROVE t[i] \in ToSet(u)
    <3> DEFINE j == i + Len(s)
    <3>1. j \in DOMAIN u /\ ~(j <= Len(s)) /\ j - Len(s) = i
      BY <1>1, <1>3
    <3>2. u[j] = t[i]
      BY <1>4, <3>1
    <3>3. QED
      BY <3>1, <3>2 DEF ToSet
  <2>2. QED
    BY <2>1 DEF ToSet
<1>8. ToSet(s) \subseteq HeldCell /\ ToSet(t) \subseteq HeldCell
  BY DEF ToSet
<1>9. QED
  BY <1>1, <1>5, <1>6, <1>7, <1>8 DEF u

\* What is started takes slots that are free, all of them or for all that waits.
LEMMA StartedFills ==
  ASSUME NEW queue \in Seq(HeldCell), NEW busy \in SUBSET HeldCell, Cardinality(busy) <= UnloadSlots,
         NEW started \in Started(queue, busy)
  PROVE  /\ started \subseteq ToSet(queue) \ busy /\ started \subseteq HeldCell
         /\ Cardinality(busy \cup started) <= UnloadSlots
         /\ Cardinality(busy \cup started) = UnloadSlots \/ started = ToSet(queue) \ busy
<1> DEFINE open == ToSet(queue) \ busy
           b == Cardinality(busy)
           n == Cardinality(open)
           k == Cardinality(started)
<1>1. open \subseteq HeldCell
  BY DEF ToSet
<1>2. started \subseteq open /\ started \subseteq HeldCell /\ k = Min({UnloadSlots - b, n})
  BY <1>1 DEF Started
<1>3. b \in Nat /\ n \in Nat /\ k \in Nat /\ UnloadSlots \in Nat /\ IsFiniteSet(open) /\ IsFiniteSet(busy) /\ IsFiniteSet(started)
  BY <1>1, <1>2, CellsFinite, BudgetAssumption
<1> HIDE DEF open
<1>4. k = IF UnloadSlots - b <= n THEN UnloadSlots - b ELSE n
  <2>1. UnloadSlots - b \in Int /\ n \in Int
    BY <1>3
  <2> HIDE DEF b, n, k
  <2>2. QED
    BY <1>2, <2>1, LeastOfTwo
<1>5. Cardinality(busy \cup started) = b + k
  <2>1. busy \cap started = {}
    BY <1>2 DEF open
  <2>2. Cardinality(busy \cap started) = 0
    BY <2>1, FS_EmptySet
  <2>3. Cardinality(busy \cup started) = b + k - Cardinality(busy \cap started)
    BY <1>3, FS_Union
  <2>4. QED
    BY <1>3, <2>2, <2>3
<1>6. k = n => started = open
  BY <1>2, <1>3, FS_Subset
<1>7. b + k <= UnloadSlots /\ (b + k = UnloadSlots \/ k = n)
  BY <1>3, <1>4
<1>8. QED
  BY <1>2, <1>5, <1>6, <1>7 DEF open

-----------------------------------------------------------------------------
\* At first nothing is loaded.
LEMMA BudgetInitInv == BudgetInit => BudgetInv
<1> SUFFICES ASSUME BudgetInit PROVE BudgetInv
  OBVIOUS
<1>1. BudgetType /\ UsedWhenLoaded /\ LeavingApart
  BY DEF BudgetInit, BudgetType, UsedWhenLoaded, LeavingApart
<1>2. Cardinality({}) = 0
  BY FS_EmptySet
<1>3. SlotsKept
  BY <1>2, BudgetAssumption DEF BudgetInit, SlotsKept
<1>4. BytesHeld({}) = {}
  <2>1. \A b : b \notin BytesHeld({})
    BY DEF BytesHeld
  <2>2. QED
    BY <2>1
<1>5. ~(GetMemoryUsage(loadedCells) > MemoryLimit)
  <2>1. GetMemoryUsage(loadedCells) = 0 /\ MemoryLimit \in Nat
    BY <1>2, <1>4, BudgetAssumption DEF BudgetInit, GetMemoryUsage
  <2>2. QED
    BY <2>1
<1>6. batch.out = {}
  BY DEF BudgetInit
<1>7. BudgetKept
  <2>1. Leaving = {}
    BY EmptyDistinct DEF BudgetInit, Leaving
  <2>2. QED
    BY <1>5, <1>6, <2>1 DEF BudgetKept, QueuedWhenDue, OldestChosen, ExcessGoes
<1>8. QED
  BY <1>1, <1>3, <1>7 DEF BudgetInv

\* A cell that is pinned stays out of what may go.
LEMMA PinKeeps == ASSUME BudgetInv, SetCellPriority PROVE BudgetInv'
<1>1. PICK c \in HeldCell : priorities' = [priorities EXCEPT ![c] = HighPriority + 1]
  BY DEF SetCellPriority
<1>2. /\ UNCHANGED <<currentFrame, band, loadedCells, wantedCells, unloadRequests, unloadsUnderWay, accessInfo, since, queuedAs>>
      /\ batch' = [out |-> {}, kept |-> {}]
  BY DEF SetCellPriority
<1>3. BudgetType'
  BY <1>1, <1>2 DEF BudgetInv, BudgetType, HighPriority
<1>4. UsedWhenLoaded' /\ LeavingApart' /\ SlotsKept'
  BY <1>2 DEF BudgetInv, UsedWhenLoaded, LeavingApart, SlotsKept
<1>5. \A d \in HeldCell : priorities[d] > HighPriority => priorities'[d] > HighPriority
  BY <1>1 DEF BudgetInv, BudgetType, HighPriority
<1>6. batch'.out = {}
  BY <1>2
<1>7. BudgetKept'
  BY <1>2, <1>5, <1>6 DEF BudgetInv, BudgetType, BudgetKept, QueuedWhenDue, OldestChosen, ExcessGoes, Leaving
<1>8. QED
  BY <1>3, <1>4, <1>7 DEF BudgetInv

\* The budget is enforced: what may not go is kept, and what could go is going, or has to wait for a slot.
LEMMA BudgetEnforced ==
  ASSUME NEW cells \in SUBSET HeldCell, NEW queue \in Seq(HeldCell), NEW busy \in SUBSET HeldCell,
         cells \cap busy = {}, Cardinality(busy) <= UnloadSlots, accessInfo' = since',
         priorities' \in [HeldCell -> Nat], EnforceMemoryBudget(cells, queue, busy)
  PROVE  /\ loadedCells' \subseteq HeldCell /\ unloadsUnderWay' \subseteq HeldCell /\ unloadRequests' \in Seq(HeldCell)
         /\ LeavingApart' /\ SlotsKept' /\ OldestChosen' /\ ExcessGoes'
         /\ \A c \in Leaving' : c \in ToSet(queue) \cup busy \/ ~IsCellProtected(c)
<1>1. CASE CheckMemoryBudget(cells) \/ GetMemoryUsage(cells) <= MemoryLimit
  <2>1. loadedCells' = cells /\ unloadRequests' = queue /\ unloadsUnderWay' = busy /\ batch' = [out |-> {}, kept |-> {}]
    BY <1>1 DEF EnforceMemoryBudget
  <2> DEFINE used == GetMemoryUsage(cells)
  <2>2. used \in Nat /\ MemoryLimit \in Nat /\ EvictionPercent \in 1..100
    BY BytesCounted, BudgetAssumption
  <2> HIDE DEF used
  <2>3. EvictionPercent * MemoryLimit <= 100 * MemoryLimit /\ EvictionPercent * MemoryLimit \in Nat
    BY <2>2
  <2>4. used * 100 < EvictionPercent * MemoryLimit => used <= MemoryLimit
    BY <2>2, <2>3
  <2>5. ~(used > MemoryLimit)
    BY <1>1, <2>2, <2>4 DEF CheckMemoryBudget, used
  <2>6. ~(GetMemoryUsage(loadedCells)' > MemoryLimit)
    BY <2>1, <2>5 DEF used, GetMemoryUsage, BytesHeld
  <2>7. batch'.out = {}
    BY <2>1
  <2>8. OldestChosen' /\ ExcessGoes'
    BY <2>6, <2>7 DEF OldestChosen, ExcessGoes
  <2>9. Leaving' = ToSet(queue) \cup busy
    BY <2>1 DEF Leaving
  <2>10. QED
    BY <2>1, <2>8, <2>9 DEF LeavingApart, SlotsKept
<1>2. CASE ~(CheckMemoryBudget(cells) \/ GetMemoryUsage(cells) <= MemoryLimit)
  <2> DEFINE free == {c \in cells : ~IsCellProtected(c)}
  <2>1. PICK candidates \in SelectEvictionCandidates(cells) : \E more \in LeastUsedFirst(candidates \ ToSet(queue)) :
          \E started \in Started(queue \o more, busy) :
            /\ unloadRequests' \in Without(queue \o more, started)
            /\ loadedCells' = cells \ started /\ unloadsUnderWay' = busy \cup started
            /\ batch' = [out |-> candidates, kept |-> cells \ candidates]
    BY <1>2 DEF EnforceMemoryBudget
  <2>2. PICK more \in LeastUsedFirst(candidates \ ToSet(queue)) : \E started \in Started(queue \o more, busy) :
            /\ unloadRequests' \in Without(queue \o more, started)
            /\ loadedCells' = cells \ started /\ unloadsUnderWay' = busy \cup started
            /\ batch' = [out |-> candidates, kept |-> cells \ candidates]
    BY <2>1
  <2>3. PICK started \in Started(queue \o more, busy) :
            /\ unloadRequests' \in Without(queue \o more, started)
            /\ loadedCells' = cells \ started /\ unloadsUnderWay' = busy \cup started
            /\ batch' = [out |-> candidates, kept |-> cells \ candidates]
    BY <2>2
  <2>4. /\ candidates \subseteq free /\ Cardinality(candidates) = Min({UnloadSlots, Cardinality(free)})
        /\ \A c \in candidates, d \in free \ candidates : accessInfo'[c] <= accessInfo'[d]
    BY DEF SelectEvictionCandidates
  <2>5. candidates \ ToSet(queue) \subseteq HeldCell /\ more \in SetToSeqs(candidates \ ToSet(queue))
    BY <2>4 DEF LeastUsedFirst
  <2>6. more \in Seq(HeldCell) /\ ToSet(more) = candidates \ ToSet(queue)
    BY <2>5, CellsOrdered
  <2> DEFINE line == queue \o more
  <2>7. line \in Seq(HeldCell) /\ ToSet(line) \subseteq HeldCell /\ candidates \subseteq ToSet(line)
    BY <2>6, JoinedHolds
  <2>14. ToSet(line) \subseteq ToSet(queue) \cup candidates
    BY <2>6, JoinedHolds
  <2>8. started \in Started(line, busy)
    OBVIOUS
  <2> HIDE DEF line
  <2>9. /\ started \subseteq ToSet(line) \ busy /\ started \subseteq HeldCell
        /\ Cardinality(busy \cup started) <= UnloadSlots
        /\ Cardinality(busy \cup started) = UnloadSlots \/ started = ToSet(line) \ busy
    BY <2>7, <2>8, StartedFills
  <2>10. unloadRequests' \in Seq(HeldCell) /\ ToSet(unloadRequests') = ToSet(line) \ started
    <3>1. unloadRequests' \in SetToSeqs(ToSet(line) \ started) /\ ToSet(line) \ started \subseteq HeldCell
      BY <2>3, <2>7 DEF Without, line
    <3>2. QED
      BY <3>1, CellsOrdered
  <2>11. loadedCells' \subseteq HeldCell /\ unloadsUnderWay' \subseteq HeldCell
    BY <2>3, <2>9
  <2>12. LeavingApart' /\ SlotsKept'
    BY <2>3, <2>9 DEF LeavingApart, SlotsKept
  <2>13. \A c \in Leaving' : c \in ToSet(queue) \cup busy \/ ~IsCellProtected(c)
    <3>1. Leaving' = ToSet(unloadRequests') \cup unloadsUnderWay'
      BY DEF Leaving
    <3>2. Leaving' \subseteq ToSet(queue) \cup candidates \cup busy
      BY <2>3, <2>9, <2>10, <2>14, <3>1
    <3>3. QED
      BY <2>4, <3>2
  <2>15. Cardinality(unloadsUnderWay') >= UnloadSlots \/ \A c \in loadedCells' : IsCellProtected(c)
    <3>1. CASE Cardinality(busy \cup started) = UnloadSlots
      BY <2>3, <3>1, BudgetAssumption
    <3>2. CASE started = ToSet(line) \ busy
      <4> DEFINE f == Cardinality(free)
                 k == Cardinality(candidates)
      <4>1. candidates \subseteq started
        BY <2>4, <2>7, <3>2
      <4>2. /\ IsFiniteSet(free) /\ f \in Nat /\ k \in Nat /\ UnloadSlots \in Nat
            /\ IsFiniteSet(busy \cup started) /\ Cardinality(busy \cup started) \in Nat
        <5>1. free \subseteq HeldCell /\ candidates \subseteq HeldCell /\ busy \cup started \subseteq HeldCell
          BY <2>4, <2>9
        <5>2. QED
          BY <5>1, CellsFinite, BudgetAssumption
      <4>3. k = f \/ k = UnloadSlots
        <5>1. k = Min({UnloadSlots, f}) /\ f \in Int /\ UnloadSlots \in Int
          BY <2>4, <4>2
        <5> HIDE DEF k, f
        <5>2. QED
          BY <5>1, LeastOfTwo
      <4>4. CASE k = f
        <5>1. candidates = free
          BY <2>4, <4>2, <4>4, FS_Subset
        <5>2. QED
          BY <2>3, <4>1, <5>1
      <4>5. CASE k = UnloadSlots
        <5>1. candidates \in SUBSET (busy \cup started)
          BY <4>1
        <5>2. k <= Cardinality(busy \cup started)
          BY <4>2, <5>1, FS_Subset
        <5>3. QED
          BY <2>3, <4>2, <4>5, <5>2
      <4>6. QED
        BY <4>3, <4>4, <4>5
    <3>3. QED
      BY <2>9, <3>1, <3>2
  <2>16. OldestChosen' /\ ExcessGoes'
    <3>1. batch'.out = candidates /\ batch'.kept = cells \ candidates
      BY <2>3
    <3>0. /\ candidates \subseteq HeldCell /\ \A c \in candidates : ~IsCellProtected(c)
          /\ cells \subseteq HeldCell /\ \A d \in cells \ candidates : ~IsCellProtected(d) => d \in free \ candidates
      BY <2>4
    <3>3. \A c \in batch'.out, d \in batch'.kept :
            band'[d] # "protected" /\ priorities'[d] <= HighPriority => since'[c] <= since'[d]
      <4>1. SUFFICES ASSUME NEW c \in candidates, NEW d \in cells \ candidates,
                            band'[d] # "protected", priorities'[d] <= HighPriority
                     PROVE  since'[c] <= since'[d]
        BY <3>1
      <4>2. d \in free \ candidates
        <5>1. d \in HeldCell /\ priorities'[d] \in Nat
          OBVIOUS
        <5>2. ~IsCellProtected(d)
          BY <4>1, <5>1 DEF IsCellProtected, HighPriority
        <5>3. QED
          BY <3>0, <5>2
      <4>3. accessInfo'[c] <= accessInfo'[d]
        BY <2>4, <4>2
      <4>4. QED
        BY <4>3
    <3>4. \/ Cardinality(unloadsUnderWay') >= UnloadSlots
          \/ \A c \in loadedCells' : band'[c] = "protected" \/ priorities'[c] > HighPriority
      <4>1. CASE Cardinality(unloadsUnderWay') >= UnloadSlots
        BY <4>1
      <4>2. CASE \A c \in loadedCells' : IsCellProtected(c)
        <5>1. SUFFICES ASSUME NEW c \in loadedCells' PROVE band'[c] = "protected" \/ priorities'[c] > HighPriority
          OBVIOUS
        <5>2. QED
          BY <4>2 DEF IsCellProtected
      <4>3. QED
        BY <2>15, <4>1, <4>2
    <3>5. QED
      BY <3>3, <3>4 DEF OldestChosen, ExcessGoes
  <2>17. QED
    BY <2>10, <2>11, <2>12, <2>13, <2>16
<1>3. QED
  BY <1>1, <1>2

\* A frame loads, unloads and evicts, and the rules of the budget hold at its end.
LEMMA FrameKeeps == ASSUME BudgetInv, BudgetFrame PROVE BudgetInv'
<1>1. PICK arrived \in SUBSET (wantedCells \ unloadsUnderWay), busy \in SUBSET unloadsUnderWay :
        LET cells == loadedCells \cup arrived IN
        /\ RecordAccess(arrived)
        /\ since' = [c \in HeldCell |-> IF c \in arrived THEN currentFrame' ELSE since[c]]
        /\ priorities' = [c \in HeldCell |-> IF c \in Asked(cells) THEN 1 ELSE priorities[c]]
        /\ wantedCells' = (wantedCells \ arrived) \cup Asked(cells)
        /\ \E more \in SetToSeqs(Beyond(cells) \ ToSet(unloadRequests)) :
             LET queue == unloadRequests \o more IN
             \E started \in Started(queue, busy) : \E rest \in Without(queue, started) :
               EnforceMemoryBudget(cells \ started, rest, busy \cup started)
  BY DEF BudgetFrame
<1> DEFINE cells == loadedCells \cup arrived
<1>2. PICK more \in SetToSeqs(Beyond(cells) \ ToSet(unloadRequests)) :
             \E started \in Started(unloadRequests \o more, busy) : \E rest \in Without(unloadRequests \o more, started) :
               EnforceMemoryBudget(cells \ started, rest, busy \cup started)
  BY <1>1
<1> DEFINE queue == unloadRequests \o more
<1>3. PICK started \in Started(queue, busy) : \E rest \in Without(queue, started) :
               EnforceMemoryBudget(cells \ started, rest, busy \cup started)
  BY <1>2
<1>4. PICK rest \in Without(queue, started) : EnforceMemoryBudget(cells \ started, rest, busy \cup started)
  BY <1>3
<1>5. BudgetType /\ cells \subseteq HeldCell /\ busy \subseteq HeldCell /\ cells \cap busy = {}
  BY DEF BudgetInv, BudgetType, LeavingApart
<1>6. Asked(cells) \subseteq HeldCell /\ Beyond(cells) \subseteq HeldCell
  BY <1>5 DEF Asked, Beyond
<1>7. accessInfo' = since' /\ accessInfo' \in [HeldCell -> Nat] /\ currentFrame' \in Nat
  <2>1. currentFrame' \in Nat
    BY <1>5 DEF BudgetFrame, BudgetType
  <2>2. accessInfo' = [c \in HeldCell |-> IF c \in arrived THEN currentFrame' ELSE accessInfo[c]]
    BY <1>1 DEF RecordAccess
  <2>3. QED
    BY <1>1, <1>5, <2>1, <2>2 DEF BudgetInv, BudgetType, UsedWhenLoaded
<1>8. queue \in Seq(HeldCell) /\ ToSet(queue) \subseteq HeldCell
  <2>1. more \in Seq(HeldCell)
    BY <1>6, CellsOrdered
  <2>2. QED
    BY <1>5, <2>1, JoinedHolds DEF BudgetType
<1>19. ToSet(queue) = ToSet(unloadRequests) \cup (Beyond(cells) \ ToSet(unloadRequests))
  <2>1. more \in Seq(HeldCell) /\ ToSet(more) = Beyond(cells) \ ToSet(unloadRequests)
    BY <1>6, CellsOrdered
  <2>2. QED
    BY <1>5, <2>1, JoinedHolds DEF BudgetType
<1>9. Cardinality(busy) <= UnloadSlots
  <2>1. IsFiniteSet(unloadsUnderWay) /\ Cardinality(unloadsUnderWay) \in Nat /\ Cardinality(busy) \in Nat
    BY <1>5, CellsFinite DEF BudgetType
  <2>2. Cardinality(busy) <= Cardinality(unloadsUnderWay)
    BY <2>1, FS_Subset
  <2>3. QED
    BY <2>1, <2>2, BudgetAssumption DEF BudgetInv, SlotsKept
<1>18. priorities' \in [HeldCell -> Nat]
  BY <1>1, <1>5 DEF BudgetType
<1> HIDE DEF queue, cells
<1>10. /\ started \subseteq HeldCell /\ Cardinality(busy \cup started) <= UnloadSlots
       /\ started \subseteq ToSet(queue)
  BY <1>5, <1>8, <1>9, StartedFills
<1>11. rest \in Seq(HeldCell) /\ ToSet(rest) \subseteq ToSet(queue)
  <2>1. rest \in SetToSeqs(ToSet(queue) \ started) /\ ToSet(queue) \ started \subseteq HeldCell
    BY <1>8 DEF Without
  <2>2. QED
    BY <2>1, CellsOrdered
<1> DEFINE left == cells \ started
           leaving == busy \cup started
<1>12. left \subseteq HeldCell /\ leaving \subseteq HeldCell /\ left \cap leaving = {} /\ Cardinality(leaving) <= UnloadSlots
  BY <1>5, <1>10
<1>13. EnforceMemoryBudget(left, rest, leaving)
  BY <1>4
<1> HIDE DEF left, leaving
<1>14. /\ loadedCells' \subseteq HeldCell /\ unloadsUnderWay' \subseteq HeldCell /\ unloadRequests' \in Seq(HeldCell)
       /\ LeavingApart' /\ SlotsKept' /\ OldestChosen' /\ ExcessGoes'
       /\ \A c \in Leaving' : c \in ToSet(rest) \cup leaving \/ ~IsCellProtected(c)
  BY <1>7, <1>11, <1>12, <1>13, <1>18, BudgetEnforced
<1>15. BudgetType'
  <2>1. priorities' \in [HeldCell -> Nat] /\ wantedCells' \subseteq HeldCell
    BY <1>1, <1>5, <1>6, <1>18 DEF BudgetType, cells
  <2>2. QED
    BY <1>7, <1>14, <2>1 DEF BudgetType
<1>16. UsedWhenLoaded'
  BY <1>7 DEF UsedWhenLoaded
<1>20. QueuedWhenDue'
  <2> SUFFICES ASSUME NEW c \in Leaving' PROVE queuedAs'[c] # "protected"
    BY DEF QueuedWhenDue
  <2>1. c \in HeldCell
    BY <1>14, <1>15 DEF Leaving, BudgetType, ToSet
  <2>2. queuedAs'[c] = IF c \in Leaving THEN queuedAs[c] ELSE Standing(c)
    BY <2>1 DEF BudgetFrame
  <2>3. CASE c \in Leaving
    BY <2>2, <2>3 DEF BudgetInv, BudgetKept, QueuedWhenDue
  <2>4. CASE c \notin Leaving
    <3>1. c \in Beyond(cells) \/ ~IsCellProtected(c)
      BY <1>10, <1>11, <1>14, <1>19, <2>4 DEF Leaving, leaving
    <3>2. Standing(c) # "protected"
      BY <3>1 DEF Standing, Beyond, IsCellProtected
    <3>3. QED
      BY <2>2, <2>4, <3>2
  <2>5. QED
    BY <2>3, <2>4
<1>17. QED
  BY <1>14, <1>15, <1>16, <1>20 DEF BudgetInv, BudgetKept

\* Every step keeps the invariant.
LEMMA BudgetStepInv == ASSUME BudgetInv, [BudgetNext]_budgetVars PROVE BudgetInv'
<1>1. CASE UNCHANGED budgetVars
  <2>1. BudgetType' /\ UsedWhenLoaded' /\ LeavingApart' /\ SlotsKept'
    BY <1>1 DEF BudgetInv, BudgetType, UsedWhenLoaded, LeavingApart, SlotsKept, budgetVars
  <2>2. BudgetKept'
    BY <1>1
       DEF BudgetInv, BudgetKept, QueuedWhenDue, OldestChosen, ExcessGoes, Leaving, budgetVars, GetMemoryUsage, BytesHeld
  <2>3. QED
    BY <2>1, <2>2 DEF BudgetInv
<1>2. QED
  BY <1>1, PinKeeps, FrameKeeps DEF BudgetNext

(* For any cells of any size, any budget and threshold and any number of   *)
(* slots for unloads, whatever moves, arrives and leaves: what is queued   *)
(* to go is then far away, or neither beside the camera nor pinned; what   *)
(* is chosen is no younger than what could have been; and too much is      *)
(* loaded only while the slots are taken or nothing may go                 *)
(* (SelectEvictionCandidates, UpdateStreaming, EnforceMemoryBudget).       *)
THEOREM MemoryBudgetKept == BudgetInit /\ [][BudgetNext]_budgetVars => []BudgetKept
<1>1. BudgetInit => BudgetInv
  BY BudgetInitInv
<1>2. BudgetInv /\ [BudgetNext]_budgetVars => BudgetInv'
  BY BudgetStepInv
<1>3. BudgetInv => BudgetKept
  BY DEF BudgetInv
<1>4. QED
  BY <1>1, <1>2, <1>3, PTL

-----------------------------------------------------------------------------
(* The points of interest.  No number is given twice, so a point that went *)
(* does not come back; the regions were made at the last refresh, of       *)
(* points that went later than that, if they went.                         *)
PointRecord == [made : {"owner", "cinematic"} \cup Actor, duration : Nat, remaining : Int]

InterestType ==
  /\ interestRuns \in BOOLEAN /\ nextInterestPointId \in Nat \ {0}
  /\ Live \subseteq Nat \ {0} /\ IsFiniteSet(Live) /\ interestPoints \in [Live -> PointRecord]
  /\ actorPoint \in [Actor -> Nat] /\ cinematicPaths \subseteq Nat /\ interestRegions \subseteq Nat
  /\ lastRegionUpdate \in Nat /\ interestFrame \in Nat /\ lastRegionUpdate <= interestFrame
  /\ DOMAIN erased \subseteq Nat /\ erased \in [DOMAIN erased -> Nat]

NumbersFresh == \A id \in Live : id < nextInterestPointId

ActorsFollowed == \A actor \in Actor, id \in Live : interestPoints[id].made = actor => actorPoint[actor] = id

PathsHeld == \A id \in Live : interestPoints[id].made = "cinematic" => id \in cinematicPaths

RoomKept == Cardinality(Live) <= MaxInterestPoints

RegionsRecent ==
  /\ interestRegions # {} => interestFrame - lastRegionUpdate < RefreshEvery
  /\ \A id \in interestRegions \ Live :
       id \in DOMAIN erased /\ lastRegionUpdate <= erased[id] /\ erased[id] <= interestFrame

InterestInv == InterestType /\ NumbersFresh /\ ActorsFollowed /\ PathsHeld /\ RoomKept /\ RegionsRecent

-----------------------------------------------------------------------------
\* What is added, if there is room, is one point more, under a number never used.
LEMMA PointAdded ==
  ASSUME InterestInv, NEW made \in {"owner", "cinematic"} \cup Actor, NEW d \in Nat, AddInterestPoint(made, d),
         UNCHANGED interestRuns
  PROVE  /\ Live' = Live \cup ({NewId} \ {0}) /\ NewId \in Nat /\ NewId \notin Live
         /\ IsFiniteSet(Live') /\ interestPoints' \in [Live' -> PointRecord]
         /\ \A id \in Live : interestPoints'[id] = interestPoints[id]
         /\ NewId # 0 => interestPoints'[NewId].made = made
         /\ nextInterestPointId' \in Nat \ {0} /\ \A id \in Live' : id < nextInterestPointId'
         /\ Cardinality(Live') <= MaxInterestPoints
<1>1. /\ nextInterestPointId \in Nat \ {0} /\ Live \subseteq Nat \ {0} /\ IsFiniteSet(Live)
      /\ interestPoints \in [Live -> PointRecord] /\ \A id \in Live : id < nextInterestPointId
      /\ Cardinality(Live) <= MaxInterestPoints
  BY DEF InterestInv, InterestType, NumbersFresh, RoomKept
<1>2. CASE NoRoom
  <2>1. NewId = 0 /\ interestPoints' = interestPoints /\ nextInterestPointId' = nextInterestPointId
    BY <1>2 DEF NewId, AddInterestPoint
  <2>2. Live' = Live
    BY <2>1 DEF Live
  <2>3. QED
    BY <1>1, <2>1, <2>2
<1>3. CASE ~NoRoom
  <2> DEFINE new == nextInterestPointId
             point == [made |-> made, duration |-> d, remaining |-> d]
  <2>1. NewId = new /\ interestPoints' = With(interestPoints, new, point) /\ nextInterestPointId' = new + 1
    BY <1>3 DEF NewId, AddInterestPoint
  <2>2. interestPoints' = [i \in Live \cup {new} |-> IF i = new THEN point ELSE interestPoints[i]]
    BY <2>1 DEF With, Live
  <2>3. Live' = Live \cup {new}
    BY <2>2 DEF Live
  <2>4. point \in PointRecord
    BY DEF PointRecord
  <2>5. new \notin Live
    BY <1>1
  <2>6. interestPoints' \in [Live' -> PointRecord]
    BY <1>1, <2>2, <2>3, <2>4
  <2>7. IsFiniteSet(Live') /\ Cardinality(Live') = Cardinality(Live) + 1
    BY <1>1, <2>3, <2>5, FS_AddElement
  <2>8. Cardinality(Live) \in Nat /\ Cardinality(Live) < MaxInterestPoints
    <3>1. Cardinality(Live) \in Nat
      BY <1>1, FS_CardinalityType
    <3>2. ~(Cardinality(Live) >= MaxInterestPoints)
      BY <1>3 DEF NoRoom
    <3>3. QED
      BY <3>1, <3>2, InterestAssumption
  <2>9. Cardinality(Live') <= MaxInterestPoints
    BY <2>7, <2>8, InterestAssumption
  <2>10. \A id \in Live' : id < new + 1
    BY <1>1, <2>3
  <2>11. (\A id \in Live : interestPoints'[id] = interestPoints[id]) /\ interestPoints'[new].made = made
    BY <2>2, <2>5
  <2>12. new + 1 \in Nat \ {0} /\ Live' = Live \cup ({new} \ {0})
    BY <1>1, <2>3
  <2>13. QED
    BY <1>1, <2>1, <2>5, <2>6, <2>7, <2>9, <2>10, <2>11, <2>12
<1>4. QED
  BY <1>2, <1>3

\* What is erased is gone, and when is known.
LEMMA PointsErased ==
  ASSUME InterestInv, NEW ids, Erase(ids), interestFrame' = interestFrame
  PROVE  /\ Live' = Live \ ids /\ IsFiniteSet(Live') /\ interestPoints' \in [Live' -> PointRecord]
         /\ \A id \in Live' : interestPoints'[id] = interestPoints[id]
         /\ Cardinality(Live') <= MaxInterestPoints
         /\ DOMAIN erased' \subseteq Nat /\ erased' \in [DOMAIN erased' -> Nat]
         /\ DOMAIN erased' = DOMAIN erased \cup (Live \ Live')
         /\ \A id \in DOMAIN erased' : erased'[id] = IF id \in Live \ Live' THEN interestFrame ELSE erased[id]
<1>1. /\ Live \subseteq Nat \ {0} /\ IsFiniteSet(Live) /\ interestPoints \in [Live -> PointRecord]
      /\ Cardinality(Live) <= MaxInterestPoints /\ interestFrame \in Nat
      /\ DOMAIN erased \subseteq Nat /\ erased \in [DOMAIN erased -> Nat]
  BY DEF InterestInv, InterestType, RoomKept
<1>2. interestPoints' = [id \in Live \ ids |-> interestPoints[id]]
  BY DEF Erase, Restrict
<1>3. Live' = Live \ ids
  BY <1>2 DEF Live
<1>4. Live' \in SUBSET Live /\ Live \ Live' = ids \cap Live
  BY <1>3
<1>5. IsFiniteSet(Live') /\ Cardinality(Live') <= Cardinality(Live) /\ Cardinality(Live) \in Nat /\ Cardinality(Live') \in Nat
  BY <1>1, <1>4, FS_Subset, FS_CardinalityType
<1>6. Cardinality(Live') <= MaxInterestPoints
  BY <1>1, <1>5, InterestAssumption
<1>7. erased' = [i \in DOMAIN erased \cup (Live \ Live') |-> IF i \in Live \ Live' THEN interestFrame ELSE erased[i]]
  BY <1>4 DEF Erase
<1>8. DOMAIN erased' \subseteq Nat /\ erased' \in [DOMAIN erased' -> Nat]
  BY <1>1, <1>7
<1>9. interestPoints' \in [Live' -> PointRecord] /\ \A id \in Live' : interestPoints'[id] = interestPoints[id]
  BY <1>1, <1>2, <1>3
<1>10. QED
  BY <1>3, <1>5, <1>6, <1>7, <1>8, <1>9

-----------------------------------------------------------------------------
(* Each step.                                                              *)

\* A step that adds a point at most.
LEMMA AddingStep ==
  ASSUME InterestInv, NEW made \in {"owner", "cinematic"} \cup Actor, NEW d \in Nat, AddInterestPoint(made, d),
         UNCHANGED <<interestRuns, interestRegions, lastRegionUpdate, interestFrame, erased>>,
         actorPoint' \in [Actor -> Nat], cinematicPaths' \subseteq Nat, cinematicPaths \subseteq cinematicPaths',
         made = "cinematic" => NewId \in cinematicPaths' \cup {0},
         \A actor \in Actor : IF actor = made THEN actorPoint'[actor] = NewId /\ actorPoint[actor] \notin Live
                              ELSE actorPoint'[actor] = actorPoint[actor]
  PROVE  InterestInv'
<1>1. /\ Live' = Live \cup ({NewId} \ {0}) /\ NewId \in Nat /\ NewId \notin Live
      /\ IsFiniteSet(Live') /\ interestPoints' \in [Live' -> PointRecord]
      /\ \A id \in Live : interestPoints'[id] = interestPoints[id]
      /\ NewId # 0 => interestPoints'[NewId].made = made
      /\ nextInterestPointId' \in Nat \ {0} /\ \A id \in Live' : id < nextInterestPointId'
      /\ Cardinality(Live') <= MaxInterestPoints
  BY PointAdded
<1>2. InterestType /\ ActorsFollowed /\ PathsHeld /\ RegionsRecent
  BY DEF InterestInv
<1>3. Live' \subseteq Nat \ {0}
  BY <1>1, <1>2 DEF InterestType
<1>4. InterestType'
  BY <1>1, <1>2, <1>3 DEF InterestType
<1>5. ActorsFollowed'
  <2> SUFFICES ASSUME NEW actor \in Actor, NEW id \in Live', interestPoints'[id].made = actor
               PROVE  actorPoint'[actor] = id
    BY DEF ActorsFollowed
  <2>1. CASE id \in Live
    <3>1. actorPoint[actor] = id
      BY <1>1, <1>2, <2>1 DEF ActorsFollowed
    <3>2. QED
      BY <2>1, <3>1
  <2>2. CASE id \notin Live
    <3>1. id = NewId /\ actor = made
      BY <1>1, <2>2
    <3>2. QED
      BY <3>1
  <2>3. QED
    BY <2>1, <2>2
<1>6. PathsHeld'
  <2> SUFFICES ASSUME NEW id \in Live', interestPoints'[id].made = "cinematic"
               PROVE  id \in cinematicPaths'
    BY DEF PathsHeld
  <2>1. CASE id \in Live
    BY <1>1, <1>2, <2>1 DEF PathsHeld
  <2>2. CASE id \notin Live
    BY <1>1, <2>2
  <2>3. QED
    BY <2>1, <2>2
<1>7. RegionsRecent'
  BY <1>1, <1>2 DEF RegionsRecent
<1>8. QED
  BY <1>1, <1>4, <1>5, <1>6, <1>7 DEF InterestInv, NumbersFresh, RoomKept

\* The owner adds a point.
LEMMA AddOwnPointStep ==
  ASSUME InterestInv, AddOwnPoint
  PROVE  InterestInv'
<1>1. PICK d \in Durations : AddInterestPoint("owner", d)
  BY DEF AddOwnPoint
<1>2. UNCHANGED <<interestRuns, actorPoint, cinematicPaths, interestRegions, lastRegionUpdate, interestFrame, erased>>
  BY DEF AddOwnPoint
<1> DEFINE made == "owner"
<1>3. made \in {"owner", "cinematic"} \cup Actor /\ made # "cinematic" /\ made \notin Actor /\ AddInterestPoint(made, d)
  BY <1>1 DEF Actor
<1>4. d \in Nat
  BY InterestAssumption
<1>5. actorPoint \in [Actor -> Nat] /\ cinematicPaths \subseteq Nat
  BY DEF InterestInv, InterestType
<1> HIDE DEF made
<1>6. QED
  BY <1>2, <1>3, <1>4, <1>5, AddingStep

\* A path adds a point, and has its number.
LEMMA AddCinematicPathStep ==
  ASSUME InterestInv, AddCinematicPath
  PROVE  InterestInv'
<1>1. PICK d \in Durations : AddInterestPoint("cinematic", d)
  BY DEF AddCinematicPath
<1>2. /\ cinematicPaths' = cinematicPaths \cup ({NewId} \ {0})
      /\ UNCHANGED <<interestRuns, actorPoint, interestRegions, lastRegionUpdate, interestFrame, erased>>
  BY DEF AddCinematicPath
<1> DEFINE made == "cinematic"
<1>3. made \in {"owner", "cinematic"} \cup Actor /\ made \notin Actor /\ AddInterestPoint(made, d)
  BY <1>1 DEF Actor
<1>4. d \in Nat
  BY InterestAssumption
<1>5. actorPoint \in [Actor -> Nat] /\ cinematicPaths \subseteq Nat
  BY DEF InterestInv, InterestType
<1> HIDE DEF made
<1>6. NewId \in Nat
  BY <1>2, <1>3, <1>4, PointAdded
<1>7. cinematicPaths' \subseteq Nat /\ cinematicPaths \subseteq cinematicPaths' /\ NewId \in cinematicPaths' \cup {0}
  BY <1>2, <1>5, <1>6
<1>8. QED
  BY <1>2, <1>3, <1>4, <1>5, <1>7, AddingStep

\* A step that rewrites one point and leaves it to who made it.
LEMMA RewritingStep ==
  ASSUME InterestInv, NEW id \in Live, NEW point \in PointRecord, point.made = interestPoints[id].made,
         interestPoints' = [interestPoints EXCEPT ![id] = point],
         UNCHANGED <<interestRuns, nextInterestPointId, actorPoint, cinematicPaths, interestRegions, lastRegionUpdate,
                     interestFrame, erased>>
  PROVE  InterestInv'
<1>1. InterestType /\ NumbersFresh /\ ActorsFollowed /\ PathsHeld /\ RoomKept /\ RegionsRecent
  BY DEF InterestInv
<1>2. interestPoints \in [Live -> PointRecord]
  BY <1>1 DEF InterestType
<1>3. Live' = Live
  BY <1>2 DEF Live
<1>4. /\ interestPoints' \in [Live -> PointRecord]
      /\ \A i \in Live : interestPoints'[i].made = interestPoints[i].made
  BY <1>2
<1>5. InterestType'
  BY <1>1, <1>3, <1>4 DEF InterestType
<1>6. NumbersFresh' /\ ActorsFollowed' /\ PathsHeld' /\ RoomKept' /\ RegionsRecent'
  BY <1>1, <1>3, <1>4 DEF NumbersFresh, ActorsFollowed, PathsHeld, RoomKept, RegionsRecent
<1>7. QED
  BY <1>5, <1>6 DEF InterestInv

\* A point is given another duration.
LEMMA UpdateInterestPointStep ==
  ASSUME InterestInv, UpdateInterestPoint
  PROVE  InterestInv'
<1>1. PICK id \in Live, d \in Durations, left \in Durations :
        interestPoints' = [interestPoints EXCEPT ![id] = [@ EXCEPT !.duration = d, !.remaining = left]]
  BY DEF UpdateInterestPoint
<1>2. UNCHANGED <<interestRuns, nextInterestPointId, actorPoint, cinematicPaths, interestRegions, lastRegionUpdate,
                  interestFrame, erased>>
  BY DEF UpdateInterestPoint
<1> DEFINE point == [interestPoints[id] EXCEPT !.duration = d, !.remaining = left]
<1>3. interestPoints \in [Live -> PointRecord]
  BY DEF InterestInv, InterestType
<1>4. interestPoints[id] \in PointRecord /\ d \in Nat /\ left \in Int
  BY <1>3, InterestAssumption
<1>5. point \in PointRecord /\ point.made = interestPoints[id].made
  BY <1>4 DEF PointRecord
<1>6. interestPoints' = [interestPoints EXCEPT ![id] = point]
  BY <1>1
<1> HIDE DEF point
<1>7. QED
  BY <1>2, <1>5, <1>6, RewritingStep

\* The camera or the player moves, with its point or a new one.
LEMMA SetPositionStep ==
  ASSUME InterestInv, SetPosition
  PROVE  InterestInv'
<1>1. PICK actor \in Actor : SetActorPosition(actor)
  BY DEF SetPosition
<1>2. UNCHANGED <<interestRuns, cinematicPaths, interestRegions, lastRegionUpdate, interestFrame, erased>>
  BY DEF SetPosition
<1>3. actorPoint \in [Actor -> Nat] /\ cinematicPaths \subseteq Nat /\ interestPoints \in [Live -> PointRecord]
  BY DEF InterestInv, InterestType
<1>4. CASE actorPoint[actor] \in Live
  <2> DEFINE id == actorPoint[actor]
             point == [interestPoints[id] EXCEPT !.duration = 0]
  <2>1. interestPoints' = [interestPoints EXCEPT ![id].duration = 0] /\ UNCHANGED <<nextInterestPointId, actorPoint>>
    BY <1>1, <1>4 DEF SetActorPosition
  <2>2. interestPoints[id] \in PointRecord
    BY <1>3, <1>4
  <2>3. point \in PointRecord /\ point.made = interestPoints[id].made
    BY <2>2 DEF PointRecord
  <2>4. interestPoints' = [interestPoints EXCEPT ![id] = point]
    BY <1>3, <1>4, <2>1
  <2> HIDE DEF point, id
  <2>5. id \in Live
    BY <1>4 DEF id
  <2>6. QED
    BY <1>2, <2>1, <2>3, <2>4, <2>5, RewritingStep
<1>5. CASE actorPoint[actor] \notin Live
  <2> DEFINE d == 0
  <2>1. AddInterestPoint(actor, d) /\ actorPoint' = [actorPoint EXCEPT ![actor] = NewId]
    BY <1>1, <1>5 DEF SetActorPosition
  <2>2. actor # "cinematic" /\ actor \in {"owner", "cinematic"} \cup Actor /\ d \in Nat
    BY DEF Actor
  <2> HIDE DEF d
  <2>3. NewId \in Nat
    BY <1>2, <2>1, <2>2, PointAdded
  <2>4. /\ actorPoint' \in [Actor -> Nat]
        /\ \A a \in Actor : IF a = actor THEN actorPoint'[a] = NewId /\ actorPoint[a] \notin Live
                            ELSE actorPoint'[a] = actorPoint[a]
    BY <1>3, <1>5, <2>1, <2>3
  <2>5. QED
    BY <1>2, <1>3, <2>1, <2>2, <2>4, AddingStep
<1>6. QED
  BY <1>4, <1>5

\* A point is removed by hand.
LEMMA RemoveInterestPointStep ==
  ASSUME InterestInv, RemoveInterestPoint
  PROVE  InterestInv'
<1>1. PICK id \in 1 .. nextInterestPointId : Erase({id})
  BY DEF RemoveInterestPoint
<1>2. /\ interestFrame' = interestFrame
      /\ UNCHANGED <<interestRuns, nextInterestPointId, actorPoint, cinematicPaths, interestRegions, lastRegionUpdate>>
  BY DEF RemoveInterestPoint
<1>3. InterestType /\ NumbersFresh /\ ActorsFollowed /\ PathsHeld /\ RegionsRecent
  BY DEF InterestInv
<1> DEFINE ids == {id}
<1>4. Erase(ids)
  BY <1>1
<1> HIDE DEF ids
<1>5. /\ Live' = Live \ ids /\ IsFiniteSet(Live') /\ interestPoints' \in [Live' -> PointRecord]
      /\ \A i \in Live' : interestPoints'[i] = interestPoints[i]
      /\ Cardinality(Live') <= MaxInterestPoints
      /\ DOMAIN erased' \subseteq Nat /\ erased' \in [DOMAIN erased' -> Nat]
      /\ DOMAIN erased' = DOMAIN erased \cup (Live \ Live')
      /\ \A i \in DOMAIN erased' : erased'[i] = IF i \in Live \ Live' THEN interestFrame ELSE erased[i]
  BY <1>2, <1>4, PointsErased
<1>6. InterestType'
  BY <1>2, <1>3, <1>5 DEF InterestType
<1>7. NumbersFresh' /\ ActorsFollowed' /\ PathsHeld' /\ RoomKept'
  BY <1>2, <1>3, <1>5 DEF NumbersFresh, ActorsFollowed, PathsHeld, RoomKept
<1>8. RegionsRecent'
  <2>1. interestRegions' # {} => interestFrame' - lastRegionUpdate' < RefreshEvery
    BY <1>2, <1>3 DEF RegionsRecent
  <2>2. ASSUME NEW i \in interestRegions \ Live'
        PROVE  i \in DOMAIN erased' /\ lastRegionUpdate <= erased'[i] /\ erased'[i] <= interestFrame
    <3>1. CASE i \in Live
      <4>1. i \in DOMAIN erased' /\ erased'[i] = interestFrame
        BY <1>5, <3>1
      <4>2. QED
        BY <1>3, <4>1 DEF InterestType
    <3>2. CASE i \notin Live
      BY <1>3, <1>5, <3>2 DEF RegionsRecent
    <3>3. QED
      BY <3>1, <3>2
  <2>3. QED
    BY <1>2, <2>1, <2>2 DEF RegionsRecent
<1>9. QED
  BY <1>6, <1>7, <1>8 DEF InterestInv

\* The manager starts.
LEMMA InitializeInterestStep ==
  ASSUME InterestInv, InitializeInterest
  PROVE  InterestInv'
<1>1. interestRuns' = TRUE /\ UNCHANGED <<interestPoints, nextInterestPointId, actorPoint, cinematicPaths, interestRegions,
                                          lastRegionUpdate, interestFrame, erased>>
  BY DEF InitializeInterest
<1>2. Live' = Live
  BY <1>1 DEF Live
<1>3. interestRuns' \in BOOLEAN
  BY <1>1
<1>4. QED
  BY <1>1, <1>2, <1>3 DEF InterestInv, InterestType, NumbersFresh, ActorsFollowed, PathsHeld, RoomKept, RegionsRecent

\* The manager stops and forgets every point.
LEMMA ShutdownInterestStep ==
  ASSUME InterestInv, ShutdownInterest
  PROVE  InterestInv'
<1>1. /\ interestRuns' = FALSE /\ interestFrame' = interestFrame
      /\ Erase(Live) /\ cinematicPaths' = {} /\ interestRegions' = {}
      /\ UNCHANGED <<nextInterestPointId, actorPoint, lastRegionUpdate>>
  BY DEF ShutdownInterest
<1>2. InterestType
  BY DEF InterestInv
<1> DEFINE ids == Live
<1>3. Erase(ids) /\ Live \ ids = {}
  BY <1>1
<1> HIDE DEF ids
<1>4. /\ Live' = Live \ ids /\ IsFiniteSet(Live') /\ interestPoints' \in [Live' -> PointRecord]
      /\ Cardinality(Live') <= MaxInterestPoints
      /\ DOMAIN erased' \subseteq Nat /\ erased' \in [DOMAIN erased' -> Nat]
  BY <1>1, <1>3, PointsErased
<1>5. Live' = {}
  BY <1>3, <1>4
<1>6. InterestType'
  <2>1. interestRuns' \in BOOLEAN
    BY <1>1
  <2>2. QED
    BY <1>1, <1>2, <1>4, <1>5, <2>1 DEF InterestType
<1>7. NumbersFresh' /\ ActorsFollowed' /\ PathsHeld' /\ RoomKept' /\ RegionsRecent'
  BY <1>1, <1>4, <1>5 DEF NumbersFresh, ActorsFollowed, PathsHeld, RoomKept, RegionsRecent
<1>8. QED
  BY <1>6, <1>7 DEF InterestInv

\* An update drops what has expired, and makes regions when they are due.
LEMMA UpdateInterestStep ==
  ASSUME InterestInv, UpdateInterest
  PROVE  InterestInv'
<1> DEFINE left(id) == interestPoints[id].remaining - 1
           expired == {id \in Live : interestPoints[id].duration > 0 /\ left(id) <= 0}
           kept == Live \ expired
           refresh == interestRegions = {} \/ interestFrame' - lastRegionUpdate >= RefreshEvery
<1>1. /\ interestFrame' = interestFrame + 1
      /\ interestPoints' = [id \in kept |-> IF interestPoints[id].duration > 0
                                            THEN [interestPoints[id] EXCEPT !.remaining = left(id)] ELSE interestPoints[id]]
      /\ erased' = [i \in DOMAIN erased \cup expired |-> IF i \in expired THEN interestFrame' ELSE erased[i]]
      /\ actorPoint' = [a \in Actor |-> IF actorPoint[a] \in expired THEN 0 ELSE actorPoint[a]]
      /\ cinematicPaths' = cinematicPaths \ expired
      /\ interestRegions' = IF refresh THEN kept ELSE interestRegions
      /\ lastRegionUpdate' = IF refresh THEN interestFrame' ELSE lastRegionUpdate
      /\ UNCHANGED <<interestRuns, nextInterestPointId>>
  BY DEF UpdateInterest
<1>2. InterestType /\ NumbersFresh /\ ActorsFollowed /\ PathsHeld /\ RoomKept /\ RegionsRecent
  BY DEF InterestInv
<1>3. /\ nextInterestPointId \in Nat \ {0} /\ Live \subseteq Nat \ {0} /\ IsFiniteSet(Live)
      /\ interestPoints \in [Live -> PointRecord] /\ actorPoint \in [Actor -> Nat]
      /\ cinematicPaths \subseteq Nat /\ interestRegions \subseteq Nat
      /\ lastRegionUpdate \in Nat /\ interestFrame \in Nat /\ lastRegionUpdate <= interestFrame
      /\ DOMAIN erased \subseteq Nat /\ erased \in [DOMAIN erased -> Nat]
  BY <1>2 DEF InterestType
<1>4. expired \in SUBSET Live /\ kept \in SUBSET Live
  OBVIOUS
<1>5. Live' = kept
  BY <1>1 DEF Live
<1>6. ASSUME NEW id \in kept
      PROVE  interestPoints'[id] \in PointRecord /\ interestPoints'[id].made = interestPoints[id].made
  <2>1. interestPoints[id] \in PointRecord
    BY <1>3
  <2>2. CASE interestPoints[id].duration > 0
    <3>1. interestPoints'[id] = [interestPoints[id] EXCEPT !.remaining = left(id)]
      BY <1>1, <2>2
    <3>2. QED
      BY <2>1, <3>1 DEF PointRecord
  <2>3. CASE ~(interestPoints[id].duration > 0)
    BY <1>1, <2>1, <2>3
  <2>4. QED
    BY <2>2, <2>3
<1>7. interestPoints' \in [kept -> PointRecord]
  BY <1>1, <1>6
<1> HIDE DEF expired
<1>8. IsFiniteSet(kept) /\ Cardinality(kept) <= Cardinality(Live) /\ Cardinality(Live) \in Nat /\ Cardinality(kept) \in Nat
  BY <1>3, <1>4, FS_Subset, FS_CardinalityType
<1>9. interestFrame' \in Nat /\ DOMAIN erased' \subseteq Nat /\ erased' \in [DOMAIN erased' -> Nat]
  <2>1. interestFrame' \in Nat
    BY <1>1, <1>3
  <2>2. \A i \in DOMAIN erased \cup expired : i \in Nat /\ (IF i \in expired THEN interestFrame' ELSE erased[i]) \in Nat
    BY <1>3, <1>4, <2>1
  <2>3. QED
    BY <1>1, <2>1, <2>2
<1>10. actorPoint' \in [Actor -> Nat] /\ cinematicPaths' \subseteq Nat
  BY <1>1, <1>3
<1> HIDE DEF kept, refresh
<1>11. interestRegions' \subseteq Nat /\ lastRegionUpdate' \in Nat /\ lastRegionUpdate' <= interestFrame'
  <2>1. kept \subseteq Nat
    BY <1>3, <1>4
  <2>2. CASE refresh
    BY <1>1, <1>9, <2>1, <2>2
  <2>3. CASE ~refresh
    <3>1. interestRegions' = interestRegions /\ lastRegionUpdate' = lastRegionUpdate
      BY <1>1, <2>3
    <3>2. QED
      BY <1>1, <1>3, <3>1
  <2>4. QED
    BY <2>2, <2>3
<1>12. InterestType'
  <2>1. interestRuns' \in BOOLEAN /\ nextInterestPointId' \in Nat \ {0}
    BY <1>1, <1>2 DEF InterestType
  <2>2. Live' \subseteq Nat \ {0} /\ IsFiniteSet(Live') /\ interestPoints' \in [Live' -> PointRecord]
    BY <1>3, <1>4, <1>5, <1>7, <1>8
  <2>3. QED
    BY <1>9, <1>10, <1>11, <2>1, <2>2 DEF InterestType
<1>13. NumbersFresh'
  BY <1>1, <1>2, <1>4, <1>5 DEF NumbersFresh
<1>14. ActorsFollowed'
  <2> SUFFICES ASSUME NEW actor \in Actor, NEW id \in kept, interestPoints'[id].made = actor
               PROVE  actorPoint'[actor] = id
    BY <1>5 DEF ActorsFollowed
  <2>1. actorPoint[actor] = id
    BY <1>2, <1>4, <1>6 DEF ActorsFollowed
  <2>2. id \notin expired
    BY DEF kept
  <2>3. QED
    BY <1>1, <2>1, <2>2
<1>15. PathsHeld'
  <2> SUFFICES ASSUME NEW id \in kept, interestPoints'[id].made = "cinematic"
               PROVE  id \in cinematicPaths'
    BY <1>5 DEF PathsHeld
  <2>1. id \in cinematicPaths
    BY <1>2, <1>4, <1>6 DEF PathsHeld
  <2>2. id \notin expired
    BY DEF kept
  <2>3. QED
    BY <1>1, <2>1, <2>2
<1>16. RoomKept'
  BY <1>2, <1>5, <1>8, InterestAssumption DEF RoomKept
<1>17. RegionsRecent'
  <2>1. CASE refresh
    <3>1. interestRegions' = kept /\ lastRegionUpdate' = interestFrame'
      BY <1>1, <2>1
    <3>2. interestFrame' - lastRegionUpdate' < RefreshEvery
      BY <1>9, <3>1, InterestAssumption
    <3>3. QED
      BY <1>5, <3>1, <3>2 DEF RegionsRecent
  <2>2. CASE ~refresh
    <3>1. interestRegions' = interestRegions /\ lastRegionUpdate' = lastRegionUpdate
      BY <1>1, <2>2
    <3>2. interestFrame' - lastRegionUpdate < RefreshEvery
      BY <1>3, <1>9, <2>2, InterestAssumption DEF refresh
    <3>3. ASSUME NEW i \in interestRegions \ kept
          PROVE  i \in DOMAIN erased' /\ lastRegionUpdate <= erased'[i] /\ erased'[i] <= interestFrame'
      <4>1. CASE i \in expired
        <5>1. i \in DOMAIN erased' /\ erased'[i] = interestFrame'
          BY <1>1, <4>1
        <5>2. QED
          BY <1>1, <1>3, <5>1
      <4>2. CASE i \notin expired
        <5>1. i \in interestRegions \ Live
          BY <4>2 DEF kept
        <5>2. i \in DOMAIN erased /\ lastRegionUpdate <= erased[i] /\ erased[i] <= interestFrame
          BY <1>2, <5>1 DEF RegionsRecent
        <5>3. i \in DOMAIN erased' /\ erased'[i] = erased[i] /\ erased[i] \in Nat
          BY <1>1, <1>3, <4>2, <5>2
        <5>4. QED
          BY <1>1, <1>3, <5>2, <5>3
      <4>3. QED
        BY <4>1, <4>2
    <3>4. QED
      BY <1>5, <3>1, <3>2, <3>3 DEF RegionsRecent
  <2>3. QED
    BY <2>1, <2>2
<1>18. QED
  BY <1>12, <1>13, <1>14, <1>15, <1>16, <1>17 DEF InterestInv

\* Nothing happens.
LEMMA InterestStutters ==
  ASSUME InterestInv, UNCHANGED interestVars
  PROVE  InterestInv'
<1>1. UNCHANGED <<interestRuns, interestPoints, nextInterestPointId, actorPoint, cinematicPaths, interestRegions,
                  lastRegionUpdate, interestFrame, erased>>
  BY DEF interestVars
<1>2. Live' = Live
  BY <1>1 DEF Live
<1>3. QED
  BY <1>1, <1>2 DEF InterestInv, InterestType, NumbersFresh, ActorsFollowed, PathsHeld, RoomKept, RegionsRecent

\* At first there are no points.
LEMMA InterestStarts ==
  ASSUME InterestInit
  PROVE  InterestInv
<1>1. /\ interestRuns = FALSE /\ interestPoints = <<>> /\ nextInterestPointId = 1
      /\ actorPoint = [a \in Actor |-> 0] /\ cinematicPaths = {} /\ interestRegions = {}
      /\ lastRegionUpdate = 0 /\ interestFrame = 0 /\ erased = <<>>
  BY DEF InterestInit
<1>2. Live = {}
  BY <1>1 DEF Live
<1>3. IsFiniteSet(Live) /\ Cardinality(Live) = 0
  BY <1>2, FS_EmptySet
<1>4. InterestType
  <2>1. interestRuns \in BOOLEAN
    BY <1>1
  <2>2. interestPoints \in [Live -> PointRecord] /\ erased \in [DOMAIN erased -> Nat] /\ DOMAIN erased \subseteq Nat
    BY <1>1, <1>2
  <2>3. QED
    BY <1>1, <1>2, <1>3, <2>1, <2>2 DEF InterestType
<1>5. NumbersFresh /\ ActorsFollowed /\ PathsHeld /\ RoomKept /\ RegionsRecent
  BY <1>1, <1>2, <1>3, InterestAssumption DEF NumbersFresh, ActorsFollowed, PathsHeld, RoomKept, RegionsRecent
<1>6. QED
  BY <1>4, <1>5 DEF InterestInv

\* The invariant says that the points are kept.
LEMMA InterestInvPoints ==
  ASSUME InterestInv
  PROVE  PointsKept
<1>1. InterestType /\ ActorsFollowed /\ PathsHeld /\ RoomKept /\ RegionsRecent
  BY DEF InterestInv
<1>2. ASSUME NEW id \in interestRegions \ Live
      PROVE  interestFrame - erased[id] < RefreshEvery
  <2>1. id \in DOMAIN erased /\ lastRegionUpdate <= erased[id] /\ interestFrame - lastRegionUpdate < RefreshEvery
    BY <1>1 DEF RegionsRecent
  <2>2. erased[id] \in Nat /\ lastRegionUpdate \in Nat /\ interestFrame \in Nat
    BY <1>1, <2>1 DEF InterestType
  <2>3. QED
    BY <2>1, <2>2, InterestAssumption
<1>3. QED
  BY <1>1, <1>2 DEF PointsKept, ActorsFollowed, PathsHeld, RoomKept

(* Whatever is added, moved, given another duration, removed or expires,   *)
(* and however the manager restarts, the camera's and the player's point   *)
(* are those it remembers, each cinematic point is one of a path, there    *)
(* are no more points than may be, and a region outlives its point by less *)
(* than the time between two refreshes (InterestManager).                  *)
THEOREM InterestPointsKept == InterestInit /\ [][InterestNext]_interestVars => []PointsKept
<1>1. InterestInit => InterestInv
  BY InterestStarts
<1>2. InterestInv /\ [InterestNext]_interestVars => InterestInv'
  BY AddOwnPointStep, AddCinematicPathStep, UpdateInterestPointStep, SetPositionStep, RemoveInterestPointStep,
     InitializeInterestStep, ShutdownInterestStep, UpdateInterestStep, InterestStutters DEF InterestNext
<1>3. InterestInv => PointsKept
  BY InterestInvPoints
<1>4. QED
  BY <1>1, <1>2, <1>3, PTL

-----------------------------------------------------------------------------
(* Levels of detail.  A handle of a cluster or an impostor was given by    *)
(* nextResourceHandle, which has gone on since, and 0 is none; the cell of *)
(* a cluster has its number.                                               *)
ClusterLevel == [triangles : Nat, meshHandle : Nat]

Cluster == [cell : LodCell, objects : SUBSET LodObject, mesh : Nat, levels : [1 .. HlodLevelCount -> ClusterLevel]]

Number == Nat \ {0}

LodType ==
  /\ objectLODs \in [LodObject -> ObjectLevels \cup {<<>>}] /\ DOMAIN hlodClusters \subseteq Number
  /\ hlodClusters \in [DOMAIN hlodClusters -> Cluster] /\ cellToHLOD \in [LodCell -> Nat]
  /\ impostors \in [LodObject -> {<<>>} \cup [1 .. BillboardSlots -> Number]]
  /\ nextHLODClusterId \in Number /\ nextResourceHandle \in Number
  /\ qualityScale \in MinQuality .. MaxQuality

ClustersFound ==
  \A k \in DOMAIN hlodClusters : k < nextHLODClusterId /\ cellToHLOD[hlodClusters[k].cell] = k

LevelsHalve ==
  \A k \in DOMAIN hlodClusters : \A i \in 2 .. HlodLevelCount :
    hlodClusters[k].levels[i].triangles <= hlodClusters[k].levels[i - 1].triangles

(* The handles of a cluster, but for 0.                                    *)
MeshesOf(k) == HandlesOf(hlodClusters[k]) \ {0}

HandlesGiven ==
  /\ \A k \in DOMAIN hlodClusters : \A h \in MeshesOf(k) : h \in Nat /\ h < nextResourceHandle
  /\ \A o \in LodObject : \A h \in ToSet(impostors[o]) : h \in Nat /\ h < nextResourceHandle

HandlesApart ==
  /\ \A j, k \in DOMAIN hlodClusters : j # k => MeshesOf(j) \cap MeshesOf(k) = {}
  /\ \A k \in DOMAIN hlodClusters, o \in LodObject : MeshesOf(k) \cap ToSet(impostors[o]) = {}
  /\ \A o, other \in LodObject : o # other => ToSet(impostors[o]) \cap ToSet(impostors[other]) = {}

LodInv == LodType /\ ClustersFound /\ LevelsHalve /\ HandlesGiven /\ HandlesApart

-----------------------------------------------------------------------------
\* A finite number of triangles, which a level divides.
LEMMA TrianglesCounted ==
  ASSUME LodType, NEW objects \in SUBSET LodObject
  PROVE  Triangles(objects) \in Nat
<1> DEFINE S == {x \in objects : objectLODs[x] # <<>>}
           T(o) == {o} \X (1 .. objectLODs[o][1].triangles)
           f == [o \in S |-> T(o)]
           R == {T(o) : o \in S}
<1>1. IsFiniteSet(S)
  <2>1. S \subseteq LodObject
    OBVIOUS
  <2>2. QED
    BY <2>1, LodAssumption, FS_Subset
<1>2. \A o \in S : IsFiniteSet(T(o))
  <2>1. SUFFICES ASSUME NEW o \in S PROVE IsFiniteSet(T(o))
    OBVIOUS
  <2>2. objectLODs[o] \in Seq(DetailLevel) /\ objectLODs[o] # <<>>
    BY LodAssumption DEF LodType
  <2>3. objectLODs[o][1] \in DetailLevel
    BY <2>2
  <2>4. objectLODs[o][1].triangles \in Nat
    BY <2>3 DEF DetailLevel
  <2>5. IsFiniteSet(1 .. objectLODs[o][1].triangles)
    BY <2>4, FS_Interval
  <2>6. IsFiniteSet({o})
    BY FS_Singleton
  <2>7. QED
    BY <2>5, <2>6, FS_Product
<1>3. IsFiniteSet(R)
  <2>1. f \in Surjection(S, R)
    BY DEF Surjection
  <2> HIDE DEF f, R, S
  <2>2. QED
    BY <1>1, <2>1, FS_Surjection
<1>4. \A U \in R : IsFiniteSet(U)
  BY <1>2
<1>5. FirstTriangles(objects) = UNION R
  BY DEF FirstTriangles
<1> HIDE DEF R
<1>6. IsFiniteSet(UNION R)
  BY <1>3, <1>4, FS_UNION
<1>7. QED
  BY <1>5, <1>6, FS_CardinalityType DEF Triangles

\* What is built: as many levels as there may be, none with more triangles than the one before, and no mesh.
LEMMA LevelsBuilt ==
  ASSUME LodType, NEW objects \in SUBSET LodObject
  PROVE  /\ BuildHLODCluster(objects) \in [1 .. HlodLevelCount -> ClusterLevel]
         /\ \A i \in 1 .. HlodLevelCount : BuildHLODCluster(objects)[i].meshHandle = 0
         /\ \A i \in 2 .. HlodLevelCount : BuildHLODCluster(objects)[i].triangles <= BuildHLODCluster(objects)[i - 1].triangles
<1> DEFINE t == Triangles(objects)
           share(i) == t \div Halvings[i]
<1>1. t \in Nat
  BY TrianglesCounted
<1> HIDE DEF t
<1>2. HlodLevelCount \in 0..4
  BY LodAssumption
<1>3. Halvings[1] = 1 /\ Halvings[2] = 2 /\ Halvings[3] = 4 /\ Halvings[4] = 8
  BY DEF Halvings
<1>4. /\ t \div 1 \in Nat /\ t \div 2 \in Nat /\ t \div 4 \in Nat /\ t \div 8 \in Nat
      /\ t \div 2 <= t \div 1 /\ t \div 4 <= t \div 2 /\ t \div 8 <= t \div 4
  BY <1>1
<1>5. \A i \in 1 .. HlodLevelCount : share(i) \in Nat
  <2>1. SUFFICES ASSUME NEW i \in 1 .. HlodLevelCount PROVE share(i) \in Nat
    OBVIOUS
  <2>2. i = 1 \/ i = 2 \/ i = 3 \/ i = 4
    BY <1>2
  <2>3. QED
    BY <1>3, <1>4, <2>2
<1>6. \A i \in 2 .. HlodLevelCount : share(i) <= share(i - 1)
  <2>1. SUFFICES ASSUME NEW i \in 2 .. HlodLevelCount PROVE share(i) <= share(i - 1)
    OBVIOUS
  <2>2. \/ i = 2 /\ i - 1 = 1
        \/ i = 3 /\ i - 1 = 2
        \/ i = 4 /\ i - 1 = 3
    BY <1>2
  <2>3. QED
    BY <1>3, <1>4, <2>2
<1>7. BuildHLODCluster(objects) = [i \in 1 .. HlodLevelCount |-> [triangles |-> share(i), meshHandle |-> 0]]
  BY DEF BuildHLODCluster, t
<1> HIDE DEF share
<1>8. /\ BuildHLODCluster(objects) \in [1 .. HlodLevelCount -> ClusterLevel]
      /\ \A i \in 1 .. HlodLevelCount : BuildHLODCluster(objects)[i].meshHandle = 0
  BY <1>5, <1>7 DEF ClusterLevel
<1>9. ASSUME NEW i \in 2 .. HlodLevelCount
      PROVE  BuildHLODCluster(objects)[i].triangles <= BuildHLODCluster(objects)[i - 1].triangles
  <2>1. i \in 1 .. HlodLevelCount /\ i - 1 \in 1 .. HlodLevelCount
    BY <1>2
  <2>2. BuildHLODCluster(objects)[i].triangles = share(i) /\ BuildHLODCluster(objects)[i - 1].triangles = share(i - 1)
    BY <1>7, <2>1
  <2>3. QED
    BY <1>6, <2>2
<1>10. QED
  BY <1>8, <1>9

-----------------------------------------------------------------------------
\* At first there are no clusters and no impostors.
LEMMA LodInitInv == LodInit => LodInv
<1> SUFFICES ASSUME LodInit PROVE LodInv
  OBVIOUS
<1>1. DOMAIN hlodClusters = {}
  BY DEF LodInit
<1>2. hlodClusters \in [DOMAIN hlodClusters -> Cluster]
  BY <1>1 DEF LodInit
<1>3. LodType
  BY <1>1, <1>2, LodAssumption DEF LodInit, LodType, Number
<1>4. \A o \in LodObject : ToSet(impostors[o]) = {}
  BY DEF LodInit, ToSet
<1>5. QED
  BY <1>1, <1>3, <1>4 DEF LodInv, ClustersFound, LevelsHalve, HandlesGiven, HandlesApart

\* Only what clusters and impostors are made of counts.
LEMMA LodUnchanged ==
  ASSUME LodInv, UNCHANGED <<hlodClusters, cellToHLOD, impostors, nextHLODClusterId, nextResourceHandle>>, LodType'
  PROVE  LodInv'
<1>1. \A k : MeshesOf(k)' = MeshesOf(k)
  BY DEF MeshesOf, HandlesOf
<1>2. ClustersFound' /\ LevelsHalve'
  BY DEF LodInv, ClustersFound, LevelsHalve
<1>3. HandlesGiven'
  BY <1>1 DEF LodInv, HandlesGiven
<1>4. HandlesApart'
  BY <1>1 DEF LodInv, HandlesApart
<1>5. QED
  BY <1>2, <1>3, <1>4 DEF LodInv

\* The levels of an object are registered or replaced.
LEMMA RegisterKeeps == ASSUME LodInv, RegisterLODLevels PROVE LodInv'
<1>1. LodType'
  BY DEF LodInv, LodType, RegisterLODLevels, quality
<1>2. QED
  BY <1>1, LodUnchanged DEF RegisterLODLevels, quality

\* The quality stays between its limits.
LEMMA AutoKeeps == ASSUME LodInv, UpdateAutoLOD PROVE LodInv'
<1>1. PICK times : qualityScale' = IF ShouldReduceQuality(times) THEN Max({qualityScale - 1, MinQuality})
                                   ELSE IF ShouldIncreaseQuality(times) THEN Min({qualityScale + 1, MaxQuality})
                                   ELSE qualityScale
  BY DEF UpdateAutoLOD
<1> DEFINE q == qualityScale
<1>2. q \in MinQuality .. MaxQuality /\ MinQuality \in Nat /\ MaxQuality \in Nat
  BY LodAssumption DEF LodInv, LodType
<1>3. Max({q - 1, MinQuality}) \in MinQuality .. MaxQuality
  <2>1. \E x \in {q - 1, MinQuality} : \A y \in {q - 1, MinQuality} : x >= y
    BY <1>2
  <2>2. Max({q - 1, MinQuality}) \in {q - 1, MinQuality} /\ Max({q - 1, MinQuality}) >= MinQuality
    BY <2>1 DEF Max
  <2>3. QED
    BY <1>2, <2>2
<1>4. Min({q + 1, MaxQuality}) \in MinQuality .. MaxQuality
  <2>1. \E x \in {q + 1, MaxQuality} : \A y \in {q + 1, MaxQuality} : x <= y
    BY <1>2
  <2>2. Min({q + 1, MaxQuality}) \in {q + 1, MaxQuality} /\ Min({q + 1, MaxQuality}) <= MaxQuality
    BY <2>1 DEF Min
  <2>3. QED
    BY <1>2, <2>2
<1>5. qualityScale' \in MinQuality .. MaxQuality
  BY <1>1, <1>2, <1>3, <1>4
<1>6. LodType'
  BY <1>5 DEF LodInv, LodType, UpdateAutoLOD
<1>7. QED
  BY <1>6, LodUnchanged DEF UpdateAutoLOD

\* The quality scale stays in its range.
LEMMA QualityKeeps == ASSUME LodInv, SetQualityScale PROVE LodInv'
<1>1. qualityScale' \in MinQuality .. MaxQuality
  BY LodAssumption DEF SetQualityScale
<1>2. LodType'
  BY <1>1 DEF LodInv, LodType, SetQualityScale
<1>3. QED
  BY <1>2, LodUnchanged DEF SetQualityScale

\* The system starts.
LEMMA InitializeLodKeeps == ASSUME LodInv, InitializeLod PROVE LodInv'
<1>1. LodType'
  BY LodAssumption DEF LodInv, LodType, InitializeLod
<1>2. QED
  BY <1>1, LodUnchanged DEF InitializeLod

\* The system stops.
LEMMA ShutdownLodKeeps == ASSUME LodInv, ShutdownLod PROVE LodInv'
<1>1. DOMAIN hlodClusters' = {}
  BY DEF ShutdownLod
<1>2. hlodClusters' \in [DOMAIN hlodClusters' -> Cluster]
  BY <1>1 DEF ShutdownLod
<1>3. LodType'
  BY <1>1, <1>2 DEF LodInv, ShutdownLod, LodType
<1>4. \A o \in LodObject : ToSet(impostors'[o]) = {}
  BY DEF ShutdownLod, ToSet
<1>5. QED
  BY <1>1, <1>3, <1>4 DEF LodInv, ClustersFound, LevelsHalve, HandlesGiven, HandlesApart

\* A cluster goes, and nothing else changes.
LEMMA DestroyClusterKeeps == ASSUME LodInv, DestroyHLODCluster PROVE LodInv'
<1>1. PICK gone \in DOMAIN hlodClusters : hlodClusters' = Restrict(hlodClusters, DOMAIN hlodClusters \ {gone})
  BY DEF DestroyHLODCluster
<1>2. /\ DOMAIN hlodClusters' = DOMAIN hlodClusters \ {gone}
      /\ \A k \in DOMAIN hlodClusters' : hlodClusters'[k] = hlodClusters[k]
  BY <1>1 DEF Restrict
<1>3. hlodClusters' \in [DOMAIN hlodClusters' -> Cluster]
  BY <1>1, <1>2 DEF LodInv, LodType, Restrict
<1>4. \A k \in DOMAIN hlodClusters' : MeshesOf(k)' = MeshesOf(k)
  BY <1>2 DEF MeshesOf, HandlesOf
<1>5. LodType'
  BY <1>2, <1>3 DEF LodInv, LodType, DestroyHLODCluster, quality
<1>6. ClustersFound' /\ LevelsHalve'
  BY <1>2 DEF LodInv, ClustersFound, LevelsHalve, DestroyHLODCluster
<1>7. HandlesGiven' /\ HandlesApart'
  BY <1>2, <1>4 DEF LodInv, HandlesGiven, HandlesApart, DestroyHLODCluster
<1>8. QED
  BY <1>5, <1>6, <1>7 DEF LodInv

-----------------------------------------------------------------------------
\* Handles given now are none of those given before.
LEMMA ImpostorKeeps == ASSUME LodInv, CreateImpostor PROVE LodInv'
<1> DEFINE next == nextResourceHandle
           slots == [i \in 1 .. BillboardSlots |-> next + i - 1]
<1>1. PICK made \in LodObject : impostors' = [impostors EXCEPT ![made] = slots]
  BY DEF CreateImpostor
<1>2. next \in Number /\ nextResourceHandle' = next + BillboardSlots /\ BillboardSlots \in Nat
  BY LodAssumption DEF CreateImpostor, LodInv, LodType
<1>3. /\ slots \in [1 .. BillboardSlots -> Number]
      /\ \A h \in ToSet(slots) : h \in Nat /\ next <= h /\ h < nextResourceHandle'
  BY <1>2 DEF ToSet, Number
<1> HIDE DEF slots
<1>4. impostors'[made] = slots /\ \A o \in LodObject \ {made} : impostors'[o] = impostors[o]
  BY <1>1 DEF LodInv, LodType
<1>5. LodType'
  BY <1>1, <1>2, <1>3 DEF LodInv, LodType, CreateImpostor, quality, Number
<1>6. ClustersFound' /\ LevelsHalve'
  BY DEF LodInv, ClustersFound, LevelsHalve, CreateImpostor
<1>7. \A k \in DOMAIN hlodClusters : MeshesOf(k)' = MeshesOf(k) /\ hlodClusters' = hlodClusters
  BY DEF MeshesOf, HandlesOf, CreateImpostor
<1>8. /\ \A k \in DOMAIN hlodClusters : \A h \in MeshesOf(k) : h \in Nat /\ h < next
      /\ \A o \in LodObject : \A h \in ToSet(impostors[o]) : h \in Nat /\ h < next
  BY DEF LodInv, HandlesGiven
<1>9. /\ \A k \in DOMAIN hlodClusters : MeshesOf(k) \cap ToSet(slots) = {}
      /\ \A o \in LodObject : ToSet(impostors[o]) \cap ToSet(slots) = {}
  <2>1. \A h \in ToSet(slots) : ~(h < next)
    BY <1>2, <1>3 DEF Number
  <2>2. QED
    BY <1>8, <2>1
<1>10. hlodClusters' = hlodClusters
  BY DEF CreateImpostor
<1>11. HandlesGiven'
  <2>1. \A h \in Nat : h < next => h < nextResourceHandle'
    BY <1>2 DEF Number
  <2>2. \A o \in LodObject : \A h \in ToSet(impostors'[o]) : h \in Nat /\ h < nextResourceHandle'
    BY <1>3, <1>4, <1>8, <2>1
  <2>3. \A k \in DOMAIN hlodClusters' : \A h \in MeshesOf(k)' : h \in Nat /\ h < nextResourceHandle'
    BY <1>7, <1>8, <1>10, <2>1
  <2>4. QED
    BY <2>2, <2>3 DEF HandlesGiven
<1>12. HandlesApart'
  <2>1. \A j, k \in DOMAIN hlodClusters' : j # k => MeshesOf(j)' \cap MeshesOf(k)' = {}
    BY <1>7, <1>10 DEF LodInv, HandlesApart
  <2>2. \A k \in DOMAIN hlodClusters', o \in LodObject : MeshesOf(k)' \cap ToSet(impostors'[o]) = {}
    BY <1>4, <1>7, <1>9, <1>10 DEF LodInv, HandlesApart
  <2>3. \A o, other \in LodObject : o # other => ToSet(impostors'[o]) \cap ToSet(impostors'[other]) = {}
    BY <1>4, <1>9 DEF LodInv, HandlesApart
  <2>4. QED
    BY <2>1, <2>2, <2>3 DEF HandlesApart
<1>13. QED
  BY <1>5, <1>6, <1>11, <1>12 DEF LodInv

\* An impostor goes, and nothing else changes.
LEMMA DestroyImpostorKeeps == ASSUME LodInv, DestroyImpostor PROVE LodInv'
<1>1. PICK gone \in LodObject : impostors' = [impostors EXCEPT ![gone] = <<>>]
  BY DEF DestroyImpostor
<1>2. impostors'[gone] = <<>> /\ \A o \in LodObject \ {gone} : impostors'[o] = impostors[o]
  BY <1>1 DEF LodInv, LodType
<1>3. \A o \in LodObject : ToSet(impostors'[o]) \subseteq ToSet(impostors[o])
  BY <1>2 DEF ToSet
<1>4. LodType'
  BY <1>1 DEF LodInv, LodType, DestroyImpostor, quality
<1>5. ClustersFound' /\ LevelsHalve'
  BY DEF LodInv, ClustersFound, LevelsHalve, DestroyImpostor
<1>6. hlodClusters' = hlodClusters /\ nextResourceHandle' = nextResourceHandle
  BY DEF DestroyImpostor
<1>7. \A k \in DOMAIN hlodClusters : MeshesOf(k)' = MeshesOf(k)
  BY <1>6 DEF MeshesOf, HandlesOf
<1>8. HandlesGiven'
  BY <1>3, <1>6, <1>7 DEF LodInv, HandlesGiven
<1>9. HandlesApart'
  <2>1. \A j, k \in DOMAIN hlodClusters' : j # k => MeshesOf(j)' \cap MeshesOf(k)' = {}
    BY <1>6, <1>7 DEF LodInv, HandlesApart
  <2>2. \A k \in DOMAIN hlodClusters', o \in LodObject : MeshesOf(k)' \cap ToSet(impostors'[o]) = {}
    BY <1>3, <1>6, <1>7 DEF LodInv, HandlesApart
  <2>3. \A o, other \in LodObject : o # other => ToSet(impostors'[o]) \cap ToSet(impostors'[other]) = {}
    BY <1>3 DEF LodInv, HandlesApart
  <2>4. QED
    BY <2>1, <2>2, <2>3 DEF HandlesApart
<1>10. QED
  BY <1>4, <1>5, <1>8, <1>9 DEF LodInv

-----------------------------------------------------------------------------
\* A cluster that is built again has the mesh it had, and no others.
LEMMA RebuildKeeps ==
  ASSUME LodInv, NEW cell \in LodCell, NEW objects \in SUBSET LodObject, HasCluster(cell),
         CreateHLODCluster(cell, objects), UNCHANGED <<objectLODs, impostors, quality>>
  PROVE  LodInv'
<1>0. PICK c : c = cellToHLOD[cell]
  OBVIOUS
<1> DEFINE levels == BuildHLODCluster(objects)
           rebuilt == [hlodClusters[c] EXCEPT !.objects = objects, !.levels = levels]
<1>1. LodType /\ c \in DOMAIN hlodClusters /\ hlodClusters[c] \in Cluster
  BY <1>0 DEF HasCluster, LodInv, LodType
<1>2. hlodClusters' = [hlodClusters EXCEPT ![c] = rebuilt]
  BY <1>0 DEF CreateHLODCluster
<1>3. UNCHANGED <<cellToHLOD, nextHLODClusterId, nextResourceHandle, impostors, qualityScale, objectLODs>>
  BY DEF CreateHLODCluster, quality
<1>4. /\ levels \in [1 .. HlodLevelCount -> ClusterLevel] /\ \A i \in 1 .. HlodLevelCount : levels[i].meshHandle = 0
      /\ \A i \in 2 .. HlodLevelCount : levels[i].triangles <= levels[i - 1].triangles
  BY <1>1, LevelsBuilt
<1> HIDE DEF levels
<1>5. /\ rebuilt \in Cluster /\ rebuilt.cell = hlodClusters[c].cell /\ rebuilt.levels = levels
      /\ rebuilt.mesh = hlodClusters[c].mesh
  BY <1>1, <1>4 DEF Cluster
<1> HIDE DEF rebuilt
<1>6. /\ DOMAIN hlodClusters' = DOMAIN hlodClusters /\ hlodClusters'[c] = rebuilt
      /\ \A k \in DOMAIN hlodClusters : k # c => hlodClusters'[k] = hlodClusters[k]
  BY <1>1, <1>2
<1>7. hlodClusters' \in [DOMAIN hlodClusters' -> Cluster]
  BY <1>1, <1>2, <1>5 DEF LodType
<1>8. LodType'
  BY <1>1, <1>3, <1>6, <1>7 DEF LodType
<1>9. ClustersFound'
  BY <1>3, <1>5, <1>6 DEF LodInv, ClustersFound
<1>10. LevelsHalve'
  BY <1>4, <1>5, <1>6 DEF LodInv, LevelsHalve
<1>11. \A k \in DOMAIN hlodClusters : MeshesOf(k)' \subseteq MeshesOf(k)
  <2>1. ASSUME NEW k \in DOMAIN hlodClusters, k # c PROVE MeshesOf(k)' \subseteq MeshesOf(k)
    BY <1>6, <2>1 DEF MeshesOf, HandlesOf
  <2>2. HandlesOf(rebuilt) \ {0} \subseteq {hlodClusters[c].mesh}
    BY <1>4, <1>5 DEF HandlesOf
  <2>3. MeshesOf(c)' = HandlesOf(rebuilt) \ {0}
    BY <1>6 DEF MeshesOf, HandlesOf
  <2>4. hlodClusters[c].mesh \in HandlesOf(hlodClusters[c])
    BY DEF HandlesOf
  <2>5. HandlesOf(rebuilt) \ {0} \subseteq HandlesOf(hlodClusters[c]) \ {0}
    BY <2>2, <2>4
  <2>6. MeshesOf(c)' \subseteq MeshesOf(c)
    BY <2>3, <2>5 DEF MeshesOf
  <2>7. QED
    BY <2>1, <2>6
<1>12. HandlesGiven'
  BY <1>3, <1>6, <1>11 DEF LodInv, HandlesGiven
<1>13. HandlesApart'
  <2>1. \A j, k \in DOMAIN hlodClusters' : j # k => MeshesOf(j)' \cap MeshesOf(k)' = {}
    BY <1>6, <1>11 DEF LodInv, HandlesApart
  <2>2. \A k \in DOMAIN hlodClusters', o \in LodObject : MeshesOf(k)' \cap ToSet(impostors'[o]) = {}
    BY <1>3, <1>6, <1>11 DEF LodInv, HandlesApart
  <2>3. \A o, other \in LodObject : o # other => ToSet(impostors'[o]) \cap ToSet(impostors'[other]) = {}
    BY <1>3 DEF LodInv, HandlesApart
  <2>4. QED
    BY <2>1, <2>2, <2>3 DEF HandlesApart
<1>14. QED
  BY <1>8, <1>9, <1>10, <1>12, <1>13 DEF LodInv

\* A new cluster has a number and meshes that none had, and its cell had no other.
LEMMA NewClusterKeeps ==
  ASSUME LodInv, NEW cell \in LodCell, NEW objects \in SUBSET LodObject, ~HasCluster(cell),
         CreateHLODCluster(cell, objects), UNCHANGED <<objectLODs, impostors, quality>>
  PROVE  LodInv'
<1>0. PICK n : n = nextHLODClusterId
  OBVIOUS
<1> DEFINE next == nextResourceHandle
           levels == BuildHLODCluster(objects)
           named == [i \in 1 .. HlodLevelCount |-> [levels[i] EXCEPT !.meshHandle = next + i]]
           bare == [cell |-> cell, objects |-> objects, mesh |-> 0, levels |-> levels]
           made == GenerateHLODMesh(bare)
<1>1. LodType /\ n \in Number /\ next \in Number /\ HlodLevelCount \in 0..4
  BY <1>0, LodAssumption DEF LodInv, LodType
<1>2. /\ hlodClusters' = [k \in DOMAIN hlodClusters \cup {n} |-> IF k = n THEN made ELSE hlodClusters[k]]
      /\ cellToHLOD' = [cellToHLOD EXCEPT ![cell] = n]
      /\ nextHLODClusterId' = n + 1 /\ nextResourceHandle' = next + 1 + HlodLevelCount
  BY <1>0 DEF CreateHLODCluster
<1>3. UNCHANGED <<impostors, qualityScale, objectLODs>>
  BY DEF quality
<1>4. /\ levels \in [1 .. HlodLevelCount -> ClusterLevel]
      /\ \A i \in 2 .. HlodLevelCount : levels[i].triangles <= levels[i - 1].triangles
  BY <1>1, LevelsBuilt
<1> HIDE DEF levels
<1>5. made = [cell |-> cell, objects |-> objects, mesh |-> next, levels |-> named]
  <2>1. made = [bare EXCEPT !.mesh = next,
                            !.levels = [i \in 1 .. HlodLevelCount |-> [bare.levels[i] EXCEPT !.meshHandle = next + i]]]
    BY DEF GenerateHLODMesh
  <2>2. bare.levels = levels
    OBVIOUS
  <2>3. made = [bare EXCEPT !.mesh = next, !.levels = named]
    BY <2>1, <2>2
  <2> HIDE DEF named
  <2>4. QED
    BY <2>3
<1>6. /\ named \in [1 .. HlodLevelCount -> ClusterLevel]
      /\ \A i \in 1 .. HlodLevelCount : named[i].triangles = levels[i].triangles /\ named[i].meshHandle = next + i
  <2>1. \A i \in 1 .. HlodLevelCount : levels[i] \in ClusterLevel /\ next + i \in Nat
    BY <1>1, <1>4 DEF Number
  <2>2. QED
    BY <2>1 DEF ClusterLevel
<1> HIDE DEF named
<1>7. made \in Cluster /\ made.cell = cell /\ made.levels = named /\ made.mesh = next
  BY <1>1, <1>5, <1>6 DEF Cluster, Number
<1> HIDE DEF made
<1>8. n \notin DOMAIN hlodClusters /\ \A k \in DOMAIN hlodClusters : k \in Number /\ k < n
  BY <1>0, <1>1 DEF LodInv, LodType, ClustersFound, Number
<1>9. /\ DOMAIN hlodClusters' = DOMAIN hlodClusters \cup {n} /\ hlodClusters'[n] = made
      /\ \A k \in DOMAIN hlodClusters : hlodClusters'[k] = hlodClusters[k]
  BY <1>2, <1>8
<1>10. LodType'
  <2>1. hlodClusters' \in [DOMAIN hlodClusters' -> Cluster]
    BY <1>1, <1>2, <1>7, <1>9 DEF LodType
  <2>2. nextHLODClusterId' \in Number /\ nextResourceHandle' \in Number /\ cellToHLOD' \in [LodCell -> Nat]
    BY <1>1, <1>2 DEF LodType, Number
  <2>3. DOMAIN hlodClusters' \subseteq Number
    BY <1>1, <1>9 DEF LodType
  <2>4. QED
    BY <1>1, <1>3, <2>1, <2>2, <2>3 DEF LodType
<1>11. \A k \in DOMAIN hlodClusters : hlodClusters[k].cell \in LodCell /\ hlodClusters[k].cell # cell
  <2>1. SUFFICES ASSUME NEW k \in DOMAIN hlodClusters
                 PROVE  hlodClusters[k].cell \in LodCell /\ hlodClusters[k].cell # cell
    OBVIOUS
  <2>2. hlodClusters[k] \in Cluster /\ cellToHLOD[hlodClusters[k].cell] = k
    BY DEF LodInv, LodType, ClustersFound
  <2>3. QED
    BY <2>2 DEF HasCluster, Cluster
<1>12. ClustersFound'
  <2>1. ASSUME NEW k \in DOMAIN hlodClusters PROVE k < n + 1 /\ cellToHLOD'[hlodClusters'[k].cell] = k
    <3>1. k < n /\ k \in Number /\ cellToHLOD[hlodClusters[k].cell] = k
      BY <1>0, <1>8 DEF LodInv, ClustersFound
    <3>2. k < n + 1
      BY <1>1, <3>1 DEF Number
    <3>3. QED
      BY <1>1, <1>2, <1>9, <1>11, <3>1, <3>2 DEF LodType
  <2>2. n < n + 1 /\ cellToHLOD'[hlodClusters'[n].cell] = n
    BY <1>1, <1>2, <1>7, <1>9 DEF LodType, Number
  <2>3. QED
    BY <1>2, <1>9, <2>1, <2>2 DEF ClustersFound
<1>13. LevelsHalve'
  <2>1. ASSUME NEW i \in 2 .. HlodLevelCount PROVE named[i].triangles <= named[i - 1].triangles
    <3>1. i \in 1 .. HlodLevelCount /\ i - 1 \in 1 .. HlodLevelCount
      BY <1>1
    <3>2. QED
      BY <1>4, <1>6, <3>1
  <2>2. QED
    BY <1>7, <1>9, <2>1 DEF LodInv, LevelsHalve
<1>14. \A k \in DOMAIN hlodClusters : MeshesOf(k)' = MeshesOf(k)
  BY <1>9 DEF MeshesOf, HandlesOf
<1>15. \A h \in MeshesOf(n)' : h \in Nat /\ next <= h /\ h < next + 1 + HlodLevelCount
  <2>1. MeshesOf(n)' = HandlesOf(made) \ {0}
    BY <1>2, <1>9 DEF MeshesOf, HandlesOf
  <2>2. HandlesOf(made) = {next} \cup {next + i : i \in 1 .. HlodLevelCount}
    BY <1>6, <1>7 DEF HandlesOf
  <2>3. QED
    BY <1>1, <2>1, <2>2 DEF Number
<1>16. /\ \A k \in DOMAIN hlodClusters : \A h \in MeshesOf(k) : h \in Nat /\ h < next
       /\ \A o \in LodObject : \A h \in ToSet(impostors[o]) : h \in Nat /\ h < next
  BY DEF LodInv, HandlesGiven
<1>17. HandlesGiven'
  <2>1. \A h \in Nat : h < next => h < nextResourceHandle'
    BY <1>1, <1>2 DEF Number
  <2>2. \A o \in LodObject : \A h \in ToSet(impostors'[o]) : h \in Nat /\ h < nextResourceHandle'
    BY <1>3, <1>16, <2>1
  <2>3. \A k \in DOMAIN hlodClusters' : \A h \in MeshesOf(k)' : h \in Nat /\ h < nextResourceHandle'
    BY <1>2, <1>9, <1>14, <1>15, <1>16, <2>1
  <2>4. QED
    BY <2>2, <2>3 DEF HandlesGiven
<1>18. HandlesApart'
  <2>1. \A h \in MeshesOf(n)' : ~(h < next)
    BY <1>1, <1>15 DEF Number
  <2>2. /\ \A k \in DOMAIN hlodClusters : MeshesOf(k)' \cap MeshesOf(n)' = {}
        /\ \A o \in LodObject : MeshesOf(n)' \cap ToSet(impostors'[o]) = {}
    BY <1>3, <1>14, <1>16, <2>1
  <2>3. \A j, k \in DOMAIN hlodClusters' : j # k => MeshesOf(j)' \cap MeshesOf(k)' = {}
    BY <1>9, <1>14, <2>2 DEF LodInv, HandlesApart
  <2>4. \A k \in DOMAIN hlodClusters', o \in LodObject : MeshesOf(k)' \cap ToSet(impostors'[o]) = {}
    BY <1>3, <1>9, <1>14, <2>2 DEF LodInv, HandlesApart
  <2>5. \A o, other \in LodObject : o # other => ToSet(impostors'[o]) \cap ToSet(impostors'[other]) = {}
    BY <1>3 DEF LodInv, HandlesApart
  <2>6. QED
    BY <2>3, <2>4, <2>5 DEF HandlesApart
<1>19. QED
  BY <1>10, <1>12, <1>13, <1>17, <1>18 DEF LodInv

\* Every step keeps the invariant.
LEMMA LodStepInv == ASSUME LodInv, [LodNext]_lodVars PROVE LodInv'
<1>1. CASE CreateCluster
  <2>1. PICK cell \in LodCell, objects \in SUBSET LodObject : CreateHLODCluster(cell, objects)
    BY <1>1 DEF CreateCluster
  <2>2. UNCHANGED <<objectLODs, impostors, quality>>
    BY <1>1 DEF CreateCluster
  <2>3. QED
    BY <2>1, <2>2, RebuildKeeps, NewClusterKeeps
<1>2. CASE UNCHANGED lodVars
  <2>1. LodType'
    BY <1>2 DEF LodInv, LodType, lodVars
  <2>2. QED
    BY <1>2, <2>1, LodUnchanged DEF lodVars
<1>3. QED
  BY <1>1, <1>2, RegisterKeeps, DestroyClusterKeeps, ImpostorKeeps, DestroyImpostorKeeps, AutoKeeps, QualityKeeps,
     InitializeLodKeeps, ShutdownLodKeeps DEF LodNext

-----------------------------------------------------------------------------
\* The first level that fits.
LEMMA SelectedLevel ==
  ASSUME NEW levels \in Seq(DetailLevel), NEW d \in Nat, NEW scale \in Nat
  PROVE  LET fits == {i \in DOMAIN levels : d * 100 <= levels[i].distance * scale}
             level == SelectLODLevel(levels, d, scale)
         IN  /\ fits = {} => level = Len(levels)
             /\ fits # {} => level \in fits /\ \A i \in fits : level <= i
<1> DEFINE fits == {i \in DOMAIN levels : d * 100 <= levels[i].distance * scale}
<1>1. fits \in SUBSET Nat
  OBVIOUS
<1>2. SelectLODLevel(levels, d, scale) = IF fits = {} THEN Len(levels) ELSE Min(fits)
  BY DEF SelectLODLevel
<1> HIDE DEF fits
<1>3. ASSUME fits # {} PROVE Min(fits) \in fits /\ \A i \in fits : Min(fits) <= i
  <2>1. \E x \in fits : \A y \in fits : ~ (<<y, x>> \in OpToRel(<, Nat))
    BY <1>1, <1>3, NatLessThanWellFounded, WFMin
  <2>2. PICK x \in fits : \A y \in fits : ~ (y < x)
    BY <1>1, <2>1 DEF OpToRel
  <2>3. \A y \in fits : x <= y
    BY <1>1, <2>2
  <2>4. QED
    BY <2>3 DEF Min
<1>4. QED
  BY <1>2, <1>3 DEF fits

\* What is coarser fits where the finer one did.
LEMMA SelectionCoarsens ==
  ASSUME NEW levels \in Seq(DetailLevel), NEW d \in Nat, NEW e \in Nat, NEW s \in Nat, NEW t \in Nat,
         \A i \in DOMAIN levels : e * 100 <= levels[i].distance * t => d * 100 <= levels[i].distance * s
  PROVE  SelectLODLevel(levels, d, s) <= SelectLODLevel(levels, e, t)
<1> DEFINE fine == {i \in DOMAIN levels : d * 100 <= levels[i].distance * s}
           coarse == {i \in DOMAIN levels : e * 100 <= levels[i].distance * t}
           x == SelectLODLevel(levels, d, s)
           y == SelectLODLevel(levels, e, t)
<1>1. coarse \subseteq fine /\ fine \subseteq 1 .. Len(levels) /\ Len(levels) \in Nat
  OBVIOUS
<1>2. (fine = {} => x = Len(levels)) /\ (fine # {} => x \in fine /\ \A i \in fine : x <= i)
  BY SelectedLevel
<1>3. (coarse = {} => y = Len(levels)) /\ (coarse # {} => y \in coarse /\ \A i \in coarse : y <= i)
  BY SelectedLevel
<1> HIDE DEF x, y, fine, coarse
<1>4. x <= y
  <2>1. CASE coarse # {}
    <3>1. y \in coarse /\ y \in fine /\ fine # {}
      BY <1>1, <1>3, <2>1
    <3>2. QED
      BY <1>2, <3>1
  <2>2. CASE coarse = {} /\ fine # {}
    <3>1. y = Len(levels) /\ x \in 1 .. Len(levels)
      BY <1>1, <1>2, <1>3, <2>2
    <3>2. QED
      BY <1>1, <3>1
  <2>3. CASE coarse = {} /\ fine = {}
    BY <1>1, <1>2, <1>3, <2>3
  <2>4. QED
    BY <2>1, <2>2, <2>3
<1>5. QED
  BY <1>4 DEF x, y

\* The invariant says that the detail is kept.
LEMMA LodInvIsKept == LodInv => DetailKept
<1> SUFFICES ASSUME LodInv PROVE DetailKept
  OBVIOUS
<1>1. \A k \in DOMAIN hlodClusters :
        /\ hlodClusters[k] \in Cluster /\ GetHLODMesh(hlodClusters[k].cell) = k
        /\ \A i \in 2 .. HlodLevelCount : hlodClusters[k].levels[i].triangles <= hlodClusters[k].levels[i - 1].triangles
  BY DEF LodInv, LodType, ClustersFound, LevelsHalve, GetHLODMesh
<1>2. \A k \in DOMAIN hlodClusters : Len(hlodClusters[k].levels) = HlodLevelCount
  <2>1. HlodLevelCount \in Nat
    BY LodAssumption
  <2>2. QED
    BY <1>1, <2>1 DEF Cluster
<1>3. \A k \in DOMAIN hlodClusters : \A j \in DOMAIN hlodClusters \ {k} :
        HandlesOf(hlodClusters[k]) \cap HandlesOf(hlodClusters[j]) \subseteq {0}
  BY DEF LodInv, HandlesApart, MeshesOf
<1>4. \A k \in DOMAIN hlodClusters, o \in LodObject : ToSet(impostors[o]) \cap HandlesOf(hlodClusters[k]) = {}
  <2>1. \A o \in LodObject : 0 \notin ToSet(impostors[o])
    <3>1. SUFFICES ASSUME NEW o \in LodObject PROVE \A i \in DOMAIN impostors[o] : impostors[o][i] # 0
      BY DEF ToSet
    <3>2. CASE impostors[o] = <<>>
      BY <3>2
    <3>3. CASE impostors[o] \in [1 .. BillboardSlots -> Number]
      BY <3>3 DEF Number
    <3>4. QED
      BY <3>2, <3>3 DEF LodInv, LodType
  <2>2. QED
    BY <2>1 DEF LodInv, HandlesApart, MeshesOf
<1>5. \A o, other \in LodObject : o # other => ToSet(impostors[o]) \cap ToSet(impostors[other]) = {}
  BY DEF LodInv, HandlesApart
<1>6. qualityScale \in MinQuality .. MaxQuality /\ MinQuality \in Nat /\ MaxQuality \in Nat
  BY LodAssumption DEF LodInv, LodType
<1>7. ASSUME NEW levels \in ObjectLevels, NEW near \in Nat, NEW far \in Nat, near <= far
      PROVE  /\ SelectLODLevel(levels, near, qualityScale) <= SelectLODLevel(levels, far, qualityScale)
             /\ SelectLODLevel(levels, near, qualityScale) <= SelectLODLevel(levels, near, MinQuality)
  <2>1. levels \in Seq(DetailLevel) /\ qualityScale \in Nat /\ near \in Nat /\ far \in Nat
    BY <1>6, LodAssumption
  <2>2. \A i \in DOMAIN levels : levels[i].distance \in Nat
    <3>1. \A i \in DOMAIN levels : levels[i] \in DetailLevel
      BY <2>1
    <3>2. QED
      BY <3>1 DEF DetailLevel
  <2>3. ASSUME NEW i \in DOMAIN levels
        PROVE  /\ far * 100 <= levels[i].distance * qualityScale => near * 100 <= levels[i].distance * qualityScale
               /\ near * 100 <= levels[i].distance * MinQuality => near * 100 <= levels[i].distance * qualityScale
    <3> DEFINE d == levels[i].distance
               q == qualityScale
    <3>1. d \in Nat /\ q \in Nat /\ MinQuality <= q
      BY <1>6, <2>1, <2>2
    <3> HIDE DEF d, q
    <3>2. d * MinQuality <= d * q /\ d * MinQuality \in Nat /\ d * q \in Nat
      BY <1>6, <3>1
    <3>3. near * 100 <= far * 100
      BY <1>7, <2>1
    <3>4. /\ far * 100 <= d * q => near * 100 <= d * q
          /\ near * 100 <= d * MinQuality => near * 100 <= d * q
      BY <2>1, <3>2, <3>3
    <3>5. QED
      BY <3>4 DEF d, q
  <2>4. SelectLODLevel(levels, near, qualityScale) <= SelectLODLevel(levels, far, qualityScale)
    BY <2>1, <2>3, SelectionCoarsens
  <2>5. SelectLODLevel(levels, near, qualityScale) <= SelectLODLevel(levels, near, MinQuality)
    BY <1>6, <2>1, <2>3, SelectionCoarsens
  <2>6. QED
    BY <2>4, <2>5
<1>8. \A levels \in ObjectLevels, near \in 0 .. 3 :
        /\ SelectLODLevel(levels, near, qualityScale) <= SelectLODLevel(levels, near + 1, qualityScale)
        /\ SelectLODLevel(levels, near, qualityScale) <= SelectLODLevel(levels, near, MinQuality)
  <2>1. \A near \in 0 .. 3 : near \in Nat /\ near + 1 \in Nat /\ near <= near + 1
    OBVIOUS
  <2>2. QED
    BY <1>7, <2>1
<1>9. QED
  BY <1>1, <1>2, <1>3, <1>4, <1>5, <1>6, <1>8 DEF DetailKept

(* For any objects, cells and levels of detail, and any number of calls,   *)
(* the clusters and impostors stay what DetailKept says: found by their    *)
(* cell, with resources of their own, each level with no more triangles    *)
(* than the one before it, and the quality in its range (LODSystem).       *)
THEOREM LodDetailKept == LodInit /\ [][LodNext]_lodVars => []DetailKept
<1>1. LodInit => LodInv
  BY LodInitInv
<1>2. LodInv /\ [LodNext]_lodVars => LodInv'
  BY LodStepInv
<1>3. LodInv => DetailKept
  BY LodInvIsKept
<1>4. QED
  BY <1>1, <1>2, <1>3, PTL

-----------------------------------------------------------------------------
(* The parts that StreamingManager owns keep their rules side by side,     *)
(* whichever of them moves next: a step of one leaves the others alone     *)
(* (LoadAssetBundle, EvictionPolicy, InterestManager and LODSystem).       *)
THEOREM TheWorldKeepsItsRules == WorldInit /\ [][WorldNext]_ruleVars => []WorldRulesKept
<1>1. WorldInit => BundleInit /\ BudgetInit /\ InterestInit /\ LodInit
  BY DEF WorldInit
<1>2. [WorldNext]_ruleVars => [BundleNext]_bundleVars
  BY DEF WorldNext, ruleVars
<1>3. [WorldNext]_ruleVars => [BudgetNext]_budgetVars
  BY DEF WorldNext, ruleVars
<1>4. [WorldNext]_ruleVars => [InterestNext]_interestVars
  BY DEF WorldNext, ruleVars
<1>5. [WorldNext]_ruleVars => [LodNext]_lodVars
  BY DEF WorldNext, ruleVars
<1>6. NewestServes /\ BudgetKept /\ PointsKept /\ DetailKept => WorldRulesKept
  BY DEF WorldRulesKept
<1>7. QED
  BY <1>1, <1>2, <1>3, <1>4, <1>5, <1>6, NewestBundleServes, MemoryBudgetKept, InterestPointsKept, LodDetailKept, PTL
=============================================================================
