--------------------------- MODULE RuntimeProofs ---------------------------
(***************************************************************************)
(* engine/runtime: the entity world, and after it the asset manager;       *)
(* engine/task: the executor of the tasks that entities have; and          *)
(* engine/physics: the bodies of entities.                                 *)
(*                                                                         *)
(* Entity world.  Rows, locations and indices stay exact for any set of    *)
(* component types, any number of entities and any width of the version,   *)
(* whatever stale handles are passed; and the tables implement the map of  *)
(* EntityMap.  The argument: each helper of the store is described by what *)
(* it leaves at every place of rows, columns and locations.  A removal     *)
(* moves one row, that of the last entity, which is told; so an exact      *)
(* store stays exact, and read through the locations only one entity has   *)
(* changed.                                                                *)
(*                                                                         *)
(* Asset manager.  The counts are the handles and the loads not given      *)
(* back, for any packages, names and threads: a key that keeps a handle    *)
(* is never dropped from the map, whoever releases what.                   *)
(*                                                                         *)
(* Task executor.  For any tasks, definitions, steps and events only the   *)
(* current step of a task is in progress, and a clean state is in the file.*)
(* The argument: whatever sets the current step stops the one before it    *)
(* first or comes from an instance that runs none (Resting), and a call    *)
(* only adds instances with new ids or changes those of registered tasks   *)
(* (Grown).                                                                *)
(*                                                                         *)
(* Physics.  The bodies that live are those of components, one each, and   *)
(* those that an update lost, as many at most as components were replaced. *)
(* The argument: a component whose body lives has the body of its entity,  *)
(* however late the next update comes (LiveIsOwned), so that each body it  *)
(* loses is that of a component that was replaced since (LossesCounted).   *)
(***************************************************************************)
EXTENDS EntityWorld, AssetManager, TaskExecutor, QueueLemmas, PhysicsBodies, FiniteSetTheorems

(* A store of the right shape, whose rows and locations agree.             *)
StoreType(s) ==
  /\ s = [rows |-> s.rows, column |-> s.column, location |-> s.location]
  /\ s.rows \in [Signature -> Seq(Handle)]
  /\ s.column \in [Signature -> [Type -> Seq(Value)]]
  /\ s.location = [h \in DOMAIN s.location |-> s.location[h]]
  /\ DOMAIN s.location \subseteq Handle

Located(s) ==
  \A h \in DOMAIN s.location :
    /\ s.location[h].sig \in Signature
    /\ s.location[h].row \in 1 .. Len(s.rows[s.location[h].sig])
    /\ s.rows[s.location[h].sig][s.location[h].row] = h

Told(s) ==
  \A sig \in Signature : \A row \in 1 .. Len(s.rows[sig]) :
    /\ s.rows[sig][row] \in DOMAIN s.location
    /\ s.location[s.rows[sig][row]] = [sig |-> sig, row |-> row]

Filled(s) ==
  \A sig \in Signature : \A t \in Type :
    Len(s.column[sig][t]) = IF t \in sig THEN Len(s.rows[sig]) ELSE 0

StoreInv(s) == StoreType(s) /\ Located(s) /\ Told(s) /\ Filled(s)

-----------------------------------------------------------------------------
(* Sequences.                                                              *)

\* What a swap removal leaves at every place.
LEMMA SwapPopSeq ==
  ASSUME NEW S, NEW seq \in Seq(S), NEW row \in 1 .. Len(seq)
  PROVE  /\ SwapPop(seq, row) \in Seq(S)
         /\ Len(SwapPop(seq, row)) = Len(seq) - 1
         /\ \A i \in 1 .. Len(seq) - 1 :
              SwapPop(seq, row)[i] = IF i = row THEN seq[Len(seq)] ELSE seq[i]
<1> DEFINE n == Len(seq) - 1
<1>1. n \in Nat /\ Len(seq) \in 1 .. Len(seq)
  BY LenProperties
<1>2. SwapPop(seq, row) \in [1 .. n -> S]
  BY <1>1, ElementOfSeq DEF SwapPop
<1>3. SwapPop(seq, row) \in Seq(S)
  BY <1>1, <1>2, SeqDef
<1>4. Len(SwapPop(seq, row)) = n
  BY <1>1, <1>2, <1>3, LenProperties
<1>5. QED
  BY <1>1, <1>3, <1>4 DEF SwapPop

-----------------------------------------------------------------------------
(* EnsureEntityTracked.                                                    *)

\* A new entity comes last in the table of the entities without components.
LEMMA TrackShape ==
  ASSUME NEW s, StoreType(s), NEW h \in Handle, h \notin DOMAIN s.location
  PROVE  LET r == EnsureEntityTracked(s, h) IN
         /\ StoreType(r)
         /\ DOMAIN r.location = DOMAIN s.location \cup {h}
         /\ r.rows = [s.rows EXCEPT ![{}] = Append(@, h)]
         /\ r.column = s.column
         /\ r.location[h] = [sig |-> {}, row |-> Len(s.rows[{}]) + 1]
         /\ \A g \in DOMAIN s.location : r.location[g] = s.location[g]
<1>1. {} \in Signature /\ s.rows[{}] \in Seq(Handle)
  BY DEF StoreType, Signature
<1>2. Append(s.rows[{}], h) \in Seq(Handle)
  BY <1>1, AppendProperties
<1>3. QED
  BY <1>1, <1>2 DEF EnsureEntityTracked, StoreType

\* An exact store stays exact when an entity is tracked, known or new.
LEMMA TrackInv ==
  ASSUME NEW s, StoreInv(s), NEW h \in Handle
  PROVE  /\ StoreInv(EnsureEntityTracked(s, h))
         /\ DOMAIN EnsureEntityTracked(s, h).location = DOMAIN s.location \cup {h}
<1>1. CASE h \in DOMAIN s.location
  BY <1>1 DEF EnsureEntityTracked
<1>2. CASE h \notin DOMAIN s.location
  <2> DEFINE r == EnsureEntityTracked(s, h)
             n == Len(s.rows[{}])
  <2>1. /\ StoreType(r)
        /\ DOMAIN r.location = DOMAIN s.location \cup {h}
        /\ r.rows = [s.rows EXCEPT ![{}] = Append(@, h)]
        /\ r.column = s.column
        /\ r.location[h] = [sig |-> {}, row |-> n + 1]
        /\ \A g \in DOMAIN s.location : r.location[g] = s.location[g]
    BY <1>2, TrackShape DEF StoreInv
  <2>2. {} \in Signature /\ s.rows[{}] \in Seq(Handle) /\ n \in Nat
    BY LenProperties DEF StoreInv, StoreType, Signature
  <2>3. /\ Len(r.rows[{}]) = n + 1
        /\ \A i \in 1 .. n : r.rows[{}][i] = s.rows[{}][i]
        /\ r.rows[{}][n + 1] = h
    BY <2>1, <2>2, AppendProperties DEF StoreInv, StoreType
  <2>4. \A sig \in Signature : sig # {} => r.rows[sig] = s.rows[sig]
    BY <2>1 DEF StoreInv, StoreType
  <2> HIDE DEF r, n
  <2>5. Located(r)
    <3> SUFFICES ASSUME NEW g \in DOMAIN r.location
                 PROVE  /\ r.location[g].sig \in Signature
                        /\ r.location[g].row \in 1 .. Len(r.rows[r.location[g].sig])
                        /\ r.rows[r.location[g].sig][r.location[g].row] = g
      BY DEF Located
    <3>1. CASE g = h
      BY <3>1, <2>1, <2>2, <2>3
    <3>2. CASE g # h
      <4>1. g \in DOMAIN s.location /\ r.location[g] = s.location[g]
        BY <3>2, <2>1
      <4>2. CASE s.location[g].sig = {}
        <5>1. s.location[g].row \in 1 .. n /\ s.rows[{}][s.location[g].row] = g
          BY <4>1, <4>2 DEF StoreInv, Located, n
        <5>2. s.location[g].row \in 1 .. n + 1
          BY <5>1, <2>2
        <5>3. r.rows[{}][s.location[g].row] = g
          BY <5>1, <2>3
        <5>4. QED
          BY <4>1, <4>2, <5>2, <5>3, <2>2, <2>3
      <4>3. CASE s.location[g].sig # {}
        BY <4>1, <4>3, <2>4 DEF StoreInv, Located
      <4>4. QED
        BY <4>2, <4>3
    <3>3. QED
      BY <3>1, <3>2
  <2>6. Told(r)
    <3> SUFFICES ASSUME NEW sig \in Signature, NEW row \in 1 .. Len(r.rows[sig])
                 PROVE  /\ r.rows[sig][row] \in DOMAIN r.location
                        /\ r.location[r.rows[sig][row]] = [sig |-> sig, row |-> row]
      BY DEF Told
    <3>1. CASE sig = {} /\ row = n + 1
      BY <3>1, <2>1, <2>3
    <3>2. CASE ~(sig = {} /\ row = n + 1)
      <4>1. row \in 1 .. Len(s.rows[sig]) /\ r.rows[sig][row] = s.rows[sig][row]
        <5>1. CASE sig = {}
          <6>1. row \in 1 .. n
            BY <3>2, <5>1, <2>2, <2>3
          <6>2. QED
            BY <5>1, <6>1, <2>3 DEF n
        <5>2. CASE sig # {}
          BY <5>2, <2>4
        <5>3. QED
          BY <5>1, <5>2
      <4>2. QED
        BY <4>1, <2>1 DEF StoreInv, Told
    <3>3. QED
      BY <3>1, <3>2
  <2>7. Filled(r)
    BY <2>1, <2>4 DEF StoreInv, Filled, Signature
  <2>8. QED
    BY <2>1, <2>5, <2>6, <2>7 DEF StoreInv, r
<1>3. QED
  BY <1>1, <1>2

-----------------------------------------------------------------------------
(* RemoveRow, and DestroyEntity's use of it.                               *)

\* Where entity h is: its table, its row, and the rows of that table.
SigOf(s, h) == s.location[h].sig

RowOf(s, h) == s.location[h].row

CountOf(s, h) == Len(s.rows[SigOf(s, h)])

\* The last entity of table sig, and where RemoveRow leaves entity g.
LastOf(s, sig) == s.rows[sig][Len(s.rows[sig])]

PlaceOf(s, sig, row, g) ==
  IF row # Len(s.rows[sig]) /\ g = LastOf(s, sig) THEN [sig |-> sig, row |-> row] ELSE s.location[g]

\* Store r is s without row `row` of the n rows of table sig.
RemovedAt(s, sig, row, n, r) ==
  /\ StoreType(r)
  /\ DOMAIN r.location = DOMAIN s.location
  /\ \A other \in Signature : other # sig =>
       r.rows[other] = s.rows[other] /\ r.column[other] = s.column[other]
  /\ Len(r.rows[sig]) = n - 1
  /\ \A i \in 1 .. n - 1 :
       r.rows[sig][i] = IF i = row THEN s.rows[sig][n] ELSE s.rows[sig][i]
  /\ \A t \in sig :
       /\ Len(r.column[sig][t]) = n - 1
       /\ \A i \in 1 .. n - 1 :
            r.column[sig][t][i] = IF i = row THEN s.column[sig][t][n] ELSE s.column[sig][t][i]
  /\ \A t \in Type : t \notin sig => r.column[sig][t] = s.column[sig][t]
  /\ \A g \in DOMAIN s.location : r.location[g] = PlaceOf(s, sig, row, g)

\* A removal shortens one table, moves its last row, and tells its entity.
LEMMA RemoveShape ==
  ASSUME NEW s, StoreType(s), NEW sig \in Signature, NEW row \in 1 .. Len(s.rows[sig]),
         \A t \in sig : Len(s.column[sig][t]) = Len(s.rows[sig]),
         row # Len(s.rows[sig]) =>
           /\ LastOf(s, sig) \in DOMAIN s.location
           /\ s.location[LastOf(s, sig)] = [sig |-> sig, row |-> Len(s.rows[sig])]
  PROVE  RemovedAt(s, sig, row, Len(s.rows[sig]), RemoveRow(s, sig, row))
<1> DEFINE r == RemoveRow(s, sig, row)
           n == Len(s.rows[sig])
           cols == [t \in Type |-> IF t \in sig THEN SwapPop(s.column[sig][t], row)
                                  ELSE s.column[sig][t]]
           moved == IF row = n THEN s.location
                    ELSE [s.location EXCEPT ![LastOf(s, sig)].row = row]
<1>1. r = [rows |-> [s.rows EXCEPT ![sig] = SwapPop(s.rows[sig], row)],
           column |-> [s.column EXCEPT ![sig] = cols],
           location |-> moved]
  BY DEF RemoveRow, StoreType, LastOf
<1>2. s.rows[sig] \in Seq(Handle) /\ \A t \in Type : s.column[sig][t] \in Seq(Value)
  BY DEF StoreType
<1>3. /\ SwapPop(s.rows[sig], row) \in Seq(Handle)
      /\ Len(SwapPop(s.rows[sig], row)) = n - 1
      /\ \A i \in 1 .. n - 1 :
           SwapPop(s.rows[sig], row)[i] = IF i = row THEN s.rows[sig][n] ELSE s.rows[sig][i]
  BY <1>2, SwapPopSeq
<1>4. ASSUME NEW t \in sig
      PROVE  /\ cols[t] \in Seq(Value)
             /\ Len(cols[t]) = n - 1
             /\ \A i \in 1 .. n - 1 :
                  cols[t][i] = IF i = row THEN s.column[sig][t][n] ELSE s.column[sig][t][i]
  <2>1. t \in Type /\ s.column[sig][t] \in Seq(Value) /\ Len(s.column[sig][t]) = n
    BY <1>2 DEF Signature
  <2>2. cols[t] = SwapPop(s.column[sig][t], row)
    BY <2>1
  <2> DEFINE c == s.column[sig][t]
  <2>3. c \in Seq(Value) /\ Len(c) = n /\ row \in 1 .. Len(c)
    BY <2>1
  <2> HIDE DEF cols, c
  <2>4. /\ SwapPop(c, row) \in Seq(Value)
        /\ Len(SwapPop(c, row)) = Len(c) - 1
        /\ \A i \in 1 .. Len(c) - 1 : SwapPop(c, row)[i] = IF i = row THEN c[Len(c)] ELSE c[i]
    BY <2>3, SwapPopSeq
  <2>5. cols[t] = SwapPop(c, row)
    BY <2>2 DEF c
  <2>6. /\ cols[t] \in Seq(Value)
        /\ Len(cols[t]) = n - 1
        /\ \A i \in 1 .. n - 1 : cols[t][i] = IF i = row THEN c[n] ELSE c[i]
    BY <2>3, <2>4, <2>5
  <2>7. QED
    BY <2>6 DEF c
<1>5. \A t \in Type : t \notin sig => cols[t] = s.column[sig][t]
  OBVIOUS
<1>6. cols \in [Type -> Seq(Value)]
  BY <1>2, <1>4, <1>5
<1>7. /\ DOMAIN moved = DOMAIN s.location
      /\ moved = [h \in DOMAIN moved |-> moved[h]]
      /\ \A g \in DOMAIN s.location : moved[g] = PlaceOf(s, sig, row, g)
  <2>1. CASE row = n
    BY <2>1 DEF StoreType, PlaceOf
  <2>2. CASE row # n
    <3>1. moved = [s.location EXCEPT ![LastOf(s, sig)].row = row]
      BY <2>2
    <3>2. moved[LastOf(s, sig)] = [sig |-> sig, row |-> row]
      <4>1. /\ LastOf(s, sig) \in DOMAIN s.location
            /\ s.location[LastOf(s, sig)] = [sig |-> sig, row |-> n]
        BY <2>2
      <4>2. moved[LastOf(s, sig)] = [s.location[LastOf(s, sig)] EXCEPT !.row = row]
        BY <3>1, <4>1 DEF StoreType
      <4> HIDE DEF moved
      <4>3. QED
        BY <4>1, <4>2
    <3>3. \A g \in DOMAIN s.location : g # LastOf(s, sig) => moved[g] = s.location[g]
      BY <3>1 DEF StoreType
    <3>4. DOMAIN moved = DOMAIN s.location /\ moved = [h \in DOMAIN moved |-> moved[h]]
      BY <3>1 DEF StoreType
    <3>5. QED
      BY <2>2, <3>2, <3>3, <3>4 DEF PlaceOf
  <2>3. QED
    BY <2>1, <2>2
<1> HIDE DEF cols, moved, r
<1>8. /\ r.rows = [s.rows EXCEPT ![sig] = SwapPop(s.rows[sig], row)]
      /\ r.column = [s.column EXCEPT ![sig] = cols]
      /\ r.location = moved
      /\ r = [rows |-> r.rows, column |-> r.column, location |-> r.location]
  BY <1>1
<1>9. StoreType(r)
  BY <1>3, <1>6, <1>7, <1>8 DEF StoreType
<1>10. r.rows[sig] = SwapPop(s.rows[sig], row) /\ r.column[sig] = cols
  BY <1>8 DEF StoreType
<1>11. \A other \in Signature : other # sig =>
         r.rows[other] = s.rows[other] /\ r.column[other] = s.column[other]
  BY <1>8 DEF StoreType
<1>12. QED
  BY <1>3, <1>4, <1>5, <1>7, <1>8, <1>9, <1>10, <1>11 DEF r, RemovedAt

\* What MigrateEntity and DestroyEntity do to the table h leaves ...
MovedLast(s, h, r) ==
  /\ \A i \in 1 .. CountOf(s, h) - 1 :
       r.rows[SigOf(s, h)][i] =
         IF i = RowOf(s, h) THEN s.rows[SigOf(s, h)][CountOf(s, h)] ELSE s.rows[SigOf(s, h)][i]
  /\ \A g \in DOMAIN s.location \ {h} :
       r.location[g] = PlaceOf(s, SigOf(s, h), RowOf(s, h), g)

\* ... and what becomes of the other entities.
OthersExact(s, h, r) ==
  /\ \A g \in DOMAIN s.location \ {h} :
       IF s.location[g].sig = SigOf(s, h)
       THEN /\ r.location[g].sig = SigOf(s, h)
            /\ r.location[g].row \in 1 .. CountOf(s, h) - 1
            /\ r.rows[SigOf(s, h)][r.location[g].row] = g
       ELSE r.location[g] = s.location[g]
  /\ \A i \in 1 .. CountOf(s, h) - 1 :
       /\ r.rows[SigOf(s, h)][i] \in DOMAIN s.location \ {h}
       /\ r.location[r.rows[SigOf(s, h)][i]] = [sig |-> SigOf(s, h), row |-> i]

\* In an exact store, once the row of h is removed from its table every other
\* entity is where its location says.
LEMMA RemovalExact ==
  ASSUME NEW s, StoreInv(s), NEW h \in DOMAIN s.location, NEW r,
         MovedLast(s, h, r)
  PROVE  OthersExact(s, h, r)
<1> DEFINE from == SigOf(s, h)
           row == RowOf(s, h)
           n == CountOf(s, h)
<1>1. from \in Signature /\ row \in 1 .. n /\ n \in Nat /\ s.rows[from][row] = h
  BY LenProperties DEF StoreInv, StoreType, Located, SigOf, RowOf, CountOf
<1>a. \A i \in 1 .. n - 1 :
        r.rows[from][i] = IF i = row THEN s.rows[from][n] ELSE s.rows[from][i]
  BY DEF MovedLast
<1>2. \A i \in 1 .. n : /\ s.rows[from][i] \in DOMAIN s.location
                        /\ s.location[s.rows[from][i]] = [sig |-> from, row |-> i]
                        /\ s.location[s.rows[from][i]].sig = from
                        /\ s.location[s.rows[from][i]].row = i
  <2>1. \A i \in 1 .. n : /\ s.rows[from][i] \in DOMAIN s.location
                          /\ s.location[s.rows[from][i]] = [sig |-> from, row |-> i]
    BY <1>1 DEF StoreInv, Told, CountOf
  <2>2. QED
    BY <2>1
<1>3. \A i \in 1 .. n : s.rows[from][i] = h <=> i = row
  BY <1>1, <1>2
<1>4. ASSUME NEW g \in DOMAIN s.location \ {h}
      PROVE  r.location[g] = IF row # n /\ g = s.rows[from][n]
                             THEN [sig |-> from, row |-> row] ELSE s.location[g]
  BY DEF MovedLast, PlaceOf, LastOf, CountOf
<1>5. ASSUME NEW g \in DOMAIN s.location \ {h}
      PROVE  IF s.location[g].sig = from
             THEN /\ r.location[g].sig = from
                  /\ r.location[g].row \in 1 .. n - 1
                  /\ r.rows[from][r.location[g].row] = g
             ELSE r.location[g] = s.location[g]
  <2>1. CASE row # n /\ g = s.rows[from][n]
    <3>1. n \in 1 .. n /\ row \in 1 .. n - 1
      BY <2>1, <1>1
    <3>2. s.location[g].sig = from
      BY <2>1, <3>1, <1>2
    <3>3. r.location[g] = [sig |-> from, row |-> row]
      BY <2>1, <1>4
    <3>4. r.location[g].sig = from /\ r.location[g].row = row
      BY <3>3
    <3>5. r.rows[from][row] = g
      BY <2>1, <3>1, <1>a
    <3>6. QED
      BY <3>1, <3>2, <3>4, <3>5
  <2>2. CASE ~(row # n /\ g = s.rows[from][n]) /\ s.location[g].sig = from
    <3> DEFINE i == s.location[g].row
    <3>1. r.location[g] = s.location[g]
      BY <2>2, <1>4
    <3>2. i \in 1 .. n /\ s.rows[from][i] = g
      BY <2>2 DEF StoreInv, Located, CountOf
    <3>3. i # row
      BY <3>2, <1>1
    <3>4. i # n
      BY <3>2, <3>3, <2>2
    <3>5. i \in 1 .. n - 1
      BY <3>2, <3>4, <1>1
    <3>6. r.rows[from][i] = g
      BY <3>2, <3>3, <3>5, <1>a
    <3>7. QED
      BY <2>2, <3>1, <3>5, <3>6
  <2>3. CASE s.location[g].sig # from
    <3>1. n \in 1 .. n
      BY <1>1
    <3>2. s.location[s.rows[from][n]].sig = from
      BY <3>1, <1>2
    <3>3. QED
      BY <2>3, <3>2, <1>4
  <2>4. QED
    BY <2>1, <2>2, <2>3
<1>6. ASSUME NEW i \in 1 .. n - 1
      PROVE  /\ r.rows[from][i] \in DOMAIN s.location \ {h}
             /\ r.location[r.rows[from][i]] = [sig |-> from, row |-> i]
  <2>1. i \in 1 .. n /\ n \in 1 .. n /\ i # n
    BY <1>1
  <2>2. CASE i = row
    <3>1. r.rows[from][i] = s.rows[from][n]
      BY <2>2, <1>a
    <3>2. s.rows[from][n] \in DOMAIN s.location \ {h}
      BY <2>1, <2>2, <1>2, <1>3
    <3>3. QED
      BY <2>1, <2>2, <3>1, <3>2, <1>4
  <2>3. CASE i # row
    <3> DEFINE g == s.rows[from][i]
    <3>1. r.rows[from][i] = g
      BY <2>3, <1>a
    <3>2. g \in DOMAIN s.location \ {h} /\ s.location[g] = [sig |-> from, row |-> i]
      BY <2>1, <2>3, <1>2, <1>3
    <3>3. g # s.rows[from][n]
      <4>1. s.location[s.rows[from][n]].row = n /\ s.location[g].row = i
        BY <2>1, <3>2, <1>2
      <4> HIDE DEF g
      <4>2. QED
        BY <2>1, <4>1
    <3> HIDE DEF g
    <3>4. r.location[g] = s.location[g]
      BY <3>2, <3>3, <1>4
    <3>5. QED
      BY <3>1, <3>2, <3>4
  <2>4. QED
    BY <2>2, <2>3
<1>7. QED
  BY <1>5, <1>6 DEF OthersExact

\* The row of h can be removed from an exact store.
LEMMA RemoveHere ==
  ASSUME NEW s, StoreInv(s), NEW h \in DOMAIN s.location
  PROVE  RemovedAt(s, SigOf(s, h), RowOf(s, h), CountOf(s, h),
                   RemoveRow(s, SigOf(s, h), RowOf(s, h)))
<1> DEFINE from == SigOf(s, h)
<1>1. /\ from \in Signature /\ RowOf(s, h) \in 1 .. Len(s.rows[from])
      /\ CountOf(s, h) = Len(s.rows[from]) /\ Len(s.rows[from]) \in Nat
  BY LenProperties DEF StoreInv, StoreType, Located, SigOf, RowOf, CountOf
<1>2. \A t \in from : Len(s.column[from][t]) = Len(s.rows[from])
  BY <1>1 DEF StoreInv, Filled, Signature
<1>3. LastOf(s, from) \in DOMAIN s.location
      /\ s.location[LastOf(s, from)] = [sig |-> from, row |-> Len(s.rows[from])]
  BY <1>1 DEF StoreInv, Told, LastOf
<1>4. StoreType(s)
  BY DEF StoreInv
<1>5. QED
  BY <1>1, <1>2, <1>3, <1>4, RemoveShape

\* A destroyed entity leaves an exact store without it.
LEMMA UntrackInv ==
  ASSUME NEW s, StoreInv(s), NEW h \in DOMAIN s.location
  PROVE  StoreInv(Untrack(s, h)) /\ DOMAIN Untrack(s, h).location = DOMAIN s.location \ {h}
<1> DEFINE from == SigOf(s, h)
           row == RowOf(s, h)
           n == CountOf(s, h)
           m == RemoveRow(s, from, row)
           r == Untrack(s, h)
<1>1. RemovedAt(s, from, row, n, m)
  BY RemoveHere
<1>2. r = [m EXCEPT !.location = [g \in DOMAIN s.location \ {h} |-> m.location[g]]]
  BY DEF Untrack, SigOf, RowOf
<1> HIDE DEF m, r
<1>3. from \in Signature /\ n \in Nat
  BY LenProperties DEF StoreInv, StoreType, Located, SigOf, CountOf
<1>6. /\ r.rows = m.rows
      /\ r.column = m.column
      /\ r.location = [g \in DOMAIN s.location \ {h} |-> m.location[g]]
      /\ r = [rows |-> r.rows, column |-> r.column, location |-> r.location]
  BY <1>1, <1>2 DEF RemovedAt, StoreType
<1>7. StoreType(r)
  BY <1>1, <1>6 DEF RemovedAt, StoreType
<1>8. OthersExact(s, h, r)
  <2>1. \A g \in DOMAIN s.location \ {h} : r.location[g] = PlaceOf(s, from, row, g)
    BY <1>1, <1>6 DEF RemovedAt
  <2>2. \A i \in 1 .. n - 1 :
          r.rows[from][i] = IF i = row THEN s.rows[from][n] ELSE s.rows[from][i]
    BY <1>1, <1>6 DEF RemovedAt
  <2>3. MovedLast(s, h, r)
    BY <2>1, <2>2 DEF MovedLast
  <2>4. QED
    BY <2>3, RemovalExact
<1>4. /\ \A other \in Signature : other # from =>
           r.rows[other] = s.rows[other] /\ r.column[other] = s.column[other]
      /\ Len(r.rows[from]) = n - 1
      /\ \A t \in from : Len(r.column[from][t]) = n - 1
      /\ \A t \in Type : t \notin from => r.column[from][t] = s.column[from][t]
  BY <1>1, <1>6 DEF RemovedAt
<1>9. DOMAIN r.location = DOMAIN s.location \ {h}
  BY <1>6
<1>10. Located(r)
  <2> SUFFICES ASSUME NEW g \in DOMAIN s.location \ {h}
               PROVE  /\ r.location[g].sig \in Signature
                      /\ r.location[g].row \in 1 .. Len(r.rows[r.location[g].sig])
                      /\ r.rows[r.location[g].sig][r.location[g].row] = g
    BY <1>9 DEF Located
  <2>1. CASE s.location[g].sig = from
    <3>1. r.location[g].sig = from /\ r.location[g].row \in 1 .. n - 1
          /\ r.rows[from][r.location[g].row] = g
      BY <2>1, <1>8 DEF OthersExact
    <3>2. QED
      BY <3>1, <1>3, <1>4
  <2>2. CASE s.location[g].sig # from
    <3>1. r.location[g] = s.location[g]
      BY <2>2, <1>8 DEF OthersExact
    <3>2. QED
      BY <2>2, <3>1, <1>4 DEF StoreInv, Located
  <2>3. QED
    BY <2>1, <2>2
<1>11. Told(r)
  <2> SUFFICES ASSUME NEW sig \in Signature, NEW i \in 1 .. Len(r.rows[sig])
               PROVE  /\ r.rows[sig][i] \in DOMAIN r.location
                      /\ r.location[r.rows[sig][i]] = [sig |-> sig, row |-> i]
    BY DEF Told
  <2>1. CASE sig = from
    BY <2>1, <1>4, <1>8, <1>9 DEF OthersExact
  <2>2. CASE sig # from
    <3>1. r.rows[sig] = s.rows[sig]
      BY <2>2, <1>4
    <3> DEFINE g == s.rows[sig][i]
    <3>2. g \in DOMAIN s.location /\ s.location[g] = [sig |-> sig, row |-> i]
      BY <3>1 DEF StoreInv, Told
    <3> HIDE DEF g
    <3>3. s.location[g].sig = sig
      BY <3>2
    <3>4. g # h
      BY <2>2, <3>3 DEF SigOf
    <3>5. r.location[g] = s.location[g]
      BY <2>2, <3>2, <3>3, <3>4, <1>8 DEF OthersExact
    <3>6. QED
      BY <3>1, <3>2, <3>4, <3>5, <1>9 DEF g
  <2>3. QED
    BY <2>1, <2>2
<1>12. Filled(r)
  <2> SUFFICES ASSUME NEW sig \in Signature, NEW t \in Type
               PROVE  Len(r.column[sig][t]) = IF t \in sig THEN Len(r.rows[sig]) ELSE 0
    BY DEF Filled
  <2>1. Len(s.column[sig][t]) = IF t \in sig THEN Len(s.rows[sig]) ELSE 0
    BY DEF StoreInv, Filled
  <2>2. CASE sig = from
    BY <2>1, <2>2, <1>4
  <2>3. CASE sig # from
    BY <2>1, <2>3, <1>4
  <2>4. QED
    BY <2>2, <2>3
<1>13. QED
  BY <1>7, <1>9, <1>10, <1>11, <1>12 DEF StoreInv, r

-----------------------------------------------------------------------------
(* MigrateEntity: append to one table, remove from another.                *)

\* Store r is s with one row more in table to.
AppendedAt(s, h, from, row, to, r) ==
  /\ StoreType(r)
  /\ r.location = s.location
  /\ \A other \in Signature : other # to =>
       r.rows[other] = s.rows[other] /\ r.column[other] = s.column[other]
  /\ Len(r.rows[to]) = Len(s.rows[to]) + 1
  /\ \A i \in 1 .. Len(s.rows[to]) : r.rows[to][i] = s.rows[to][i]
  /\ r.rows[to][Len(s.rows[to]) + 1] = h
  /\ \A t \in to :
       /\ Len(r.column[to][t]) = Len(s.column[to][t]) + 1
       /\ \A i \in 1 .. Len(s.column[to][t]) : r.column[to][t][i] = s.column[to][t][i]
       /\ r.column[to][t][Len(s.column[to][t]) + 1] =
            IF t \in from THEN s.column[from][t][row] ELSE Default
  /\ \A t \in Type : t \notin to => r.column[to][t] = s.column[to][t]

\* AppendMigratedRow does what AppendedAt says.
LEMMA AppendShape ==
  ASSUME NEW s, StoreType(s), NEW h \in Handle, NEW from \in Signature, NEW to \in Signature,
         NEW row, \A t \in from : row \in 1 .. Len(s.column[from][t])
  PROVE  AppendedAt(s, h, from, row, to, AppendMigratedRow(s, h, from, row, to))
<1> DEFINE val(t) == IF t \in from THEN s.column[from][t][row] ELSE Default
           cols == [t \in Type |-> IF t \in to THEN Append(s.column[to][t], val(t))
                                  ELSE s.column[to][t]]
           r == AppendMigratedRow(s, h, from, row, to)
<1>1. s.rows[to] \in Seq(Handle) /\ \A t \in Type : s.column[to][t] \in Seq(Value)
  BY DEF StoreType
<1>2. ASSUME NEW t \in Type
      PROVE  val(t) \in Value
  <2>1. CASE t \in from
    <3>1. s.column[from][t] \in Seq(Value) /\ row \in 1 .. Len(s.column[from][t])
      BY <2>1 DEF StoreType
    <3>2. s.column[from][t][row] \in Value
      BY <3>1, ElementOfSeq
    <3>3. QED
      BY <2>1, <3>2
  <2>2. CASE t \notin from
    BY <2>2, WorldAssumption
  <2>3. QED
    BY <2>1, <2>2
<1>3. r = [rows |-> [s.rows EXCEPT ![to] = Append(s.rows[to], h)],
           column |-> [s.column EXCEPT ![to] = cols],
           location |-> s.location]
  <2>1. r = [s EXCEPT !.rows[to] = Append(s.rows[to], h), !.column[to] = cols]
    BY DEF AppendMigratedRow
  <2> HIDE DEF r, cols
  <2>2. QED
    BY <2>1 DEF StoreType
<1>4. /\ Append(s.rows[to], h) \in Seq(Handle)
      /\ Len(Append(s.rows[to], h)) = Len(s.rows[to]) + 1
      /\ \A i \in 1 .. Len(s.rows[to]) : Append(s.rows[to], h)[i] = s.rows[to][i]
      /\ Append(s.rows[to], h)[Len(s.rows[to]) + 1] = h
  BY <1>1, AppendProperties
<1> HIDE DEF val
<1>5. ASSUME NEW t \in to
      PROVE  /\ cols[t] \in Seq(Value)
             /\ Len(cols[t]) = Len(s.column[to][t]) + 1
             /\ \A i \in 1 .. Len(s.column[to][t]) : cols[t][i] = s.column[to][t][i]
             /\ cols[t][Len(s.column[to][t]) + 1] = val(t)
  <2>1. t \in Type
    BY DEF Signature
  <2>2. cols[t] = Append(s.column[to][t], val(t))
    BY <2>1
  <2>3. s.column[to][t] \in Seq(Value) /\ val(t) \in Value
    BY <2>1, <1>1, <1>2
  <2> HIDE DEF cols
  <2>4. QED
    BY <2>2, <2>3, AppendProperties
<1>6. \A t \in Type : t \notin to => cols[t] = s.column[to][t]
  OBVIOUS
<1>7. cols \in [Type -> Seq(Value)]
  BY <1>1, <1>5, <1>6
<1> HIDE DEF cols, r
<1>8. /\ r.rows = [s.rows EXCEPT ![to] = Append(s.rows[to], h)]
      /\ r.column = [s.column EXCEPT ![to] = cols]
      /\ r.location = s.location
      /\ r = [rows |-> r.rows, column |-> r.column, location |-> r.location]
  BY <1>3
<1>9. StoreType(r)
  BY <1>4, <1>7, <1>8 DEF StoreType
<1>10. r.rows[to] = Append(s.rows[to], h) /\ r.column[to] = cols
  BY <1>8 DEF StoreType
<1>11. \A other \in Signature : other # to =>
         r.rows[other] = s.rows[other] /\ r.column[other] = s.column[other]
  BY <1>8 DEF StoreType
<1>12. \A t \in to : val(t) = IF t \in from THEN s.column[from][t][row] ELSE Default
  BY DEF val
<1>13. QED
  BY <1>4, <1>5, <1>6, <1>8, <1>9, <1>10, <1>11, <1>12 DEF r, AppendedAt

\* Store r is s with entity h moved to table to.
MigratedTo(s, h, to, r) ==
  /\ StoreType(r)
  /\ DOMAIN r.location = DOMAIN s.location
  /\ r.location[h] = [sig |-> to, row |-> Len(s.rows[to]) + 1]
  /\ MovedLast(s, h, r)
  /\ \A other \in Signature : other # to /\ other # SigOf(s, h) =>
       r.rows[other] = s.rows[other] /\ r.column[other] = s.column[other]
  /\ Len(r.rows[SigOf(s, h)]) = CountOf(s, h) - 1
  /\ \A t \in SigOf(s, h) :
       /\ Len(r.column[SigOf(s, h)][t]) = CountOf(s, h) - 1
       /\ \A i \in 1 .. CountOf(s, h) - 1 :
            r.column[SigOf(s, h)][t][i] =
              IF i = RowOf(s, h) THEN s.column[SigOf(s, h)][t][CountOf(s, h)]
              ELSE s.column[SigOf(s, h)][t][i]
  /\ \A t \in Type : t \notin SigOf(s, h) =>
       r.column[SigOf(s, h)][t] = s.column[SigOf(s, h)][t]
  /\ Len(r.rows[to]) = Len(s.rows[to]) + 1
  /\ \A i \in 1 .. Len(s.rows[to]) : r.rows[to][i] = s.rows[to][i]
  /\ r.rows[to][Len(s.rows[to]) + 1] = h
  /\ \A t \in to :
       /\ Len(r.column[to][t]) = Len(s.rows[to]) + 1
       /\ \A i \in 1 .. Len(s.rows[to]) : r.column[to][t][i] = s.column[to][t][i]
       /\ r.column[to][t][Len(s.rows[to]) + 1] =
            IF t \in SigOf(s, h) THEN s.column[SigOf(s, h)][t][RowOf(s, h)] ELSE Default
  /\ \A t \in Type : t \notin to => r.column[to][t] = s.column[to][t]

\* MigrateEntity does what MigratedTo says, in an exact store.
LEMMA MigrateShape ==
  ASSUME NEW s, StoreInv(s), NEW h \in DOMAIN s.location,
         NEW to \in Signature, to # SigOf(s, h)
  PROVE  MigratedTo(s, h, to, MigrateEntity(s, h, to))
<1> DEFINE from == SigOf(s, h)
           row == RowOf(s, h)
           n == CountOf(s, h)
           a == AppendMigratedRow(s, h, from, row, to)
           m == RemoveRow(a, from, row)
           r == MigrateEntity(s, h, to)
<1>1. /\ from \in Signature /\ row \in 1 .. n /\ n \in Nat /\ n = Len(s.rows[from])
      /\ h \in Handle
  BY LenProperties DEF StoreInv, StoreType, Located, SigOf, RowOf, CountOf
<1>2. \A t \in from : Len(s.column[from][t]) = n
  BY <1>1 DEF StoreInv, Filled, Signature
<1>3. \A t \in to : Len(s.column[to][t]) = Len(s.rows[to])
  BY DEF StoreInv, Filled, Signature
<1>4. AppendedAt(s, h, from, row, to, a)
  <2>1. StoreType(s) /\ \A t \in from : row \in 1 .. Len(s.column[from][t])
    BY <1>1, <1>2 DEF StoreInv
  <2>2. QED
    BY <1>1, <2>1, AppendShape
<1>5. r = [m EXCEPT !.location[h] = [sig |-> to, row |-> Len(s.rows[to]) + 1]]
  BY DEF MigrateEntity, SigOf, RowOf
<1> HIDE DEF a, r
<1>6. /\ StoreType(a) /\ a.location = s.location
      /\ a.rows[from] = s.rows[from] /\ a.column[from] = s.column[from]
  BY <1>1, <1>4 DEF AppendedAt
<1>7. LastOf(a, from) = LastOf(s, from)
  BY <1>6 DEF LastOf
<1>8. RemovedAt(a, from, row, n, m)
  <2>1. /\ row \in 1 .. Len(a.rows[from]) /\ n = Len(a.rows[from])
        /\ \A t \in from : Len(a.column[from][t]) = Len(a.rows[from])
    BY <1>1, <1>2, <1>6
  <2>2. /\ LastOf(a, from) \in DOMAIN a.location
        /\ a.location[LastOf(a, from)] = [sig |-> from, row |-> Len(a.rows[from])]
    BY <1>1, <1>6, <1>7 DEF StoreInv, Told, LastOf
  <2>3. RemovedAt(a, from, row, Len(a.rows[from]), m)
    BY <1>1, <1>6, <2>1, <2>2, RemoveShape
  <2>4. QED
    BY <2>1, <2>3
<1> HIDE DEF m
<1>9. /\ r.rows = m.rows
      /\ r.column = m.column
      /\ r.location = [m.location EXCEPT ![h] = [sig |-> to, row |-> Len(s.rows[to]) + 1]]
      /\ r = [rows |-> r.rows, column |-> r.column, location |-> r.location]
  BY <1>5, <1>8 DEF RemovedAt, StoreType
<1>10. DOMAIN m.location = DOMAIN s.location
       /\ m.location = [g \in DOMAIN m.location |-> m.location[g]]
  BY <1>6, <1>8 DEF RemovedAt, StoreType
<1>11. /\ DOMAIN r.location = DOMAIN s.location
       /\ r.location[h] = [sig |-> to, row |-> Len(s.rows[to]) + 1]
       /\ \A g \in DOMAIN s.location \ {h} : r.location[g] = m.location[g]
       /\ r.location = [g \in DOMAIN r.location |-> r.location[g]]
  BY <1>9, <1>10
<1>12. StoreType(r)
  BY <1>8, <1>9, <1>10, <1>11 DEF RemovedAt, StoreType
<1>13. MovedLast(s, h, r)
  <2>1. \A g \in DOMAIN s.location \ {h} : r.location[g] = PlaceOf(s, from, row, g)
    <3>1. ASSUME NEW g \in DOMAIN s.location
          PROVE  PlaceOf(a, from, row, g) = PlaceOf(s, from, row, g)
      BY <1>6, <1>7 DEF PlaceOf
    <3>2. \A g \in DOMAIN s.location : m.location[g] = PlaceOf(a, from, row, g)
      BY <1>6, <1>8 DEF RemovedAt
    <3>3. QED
      BY <3>1, <3>2, <1>11
  <2>2. \A i \in 1 .. n - 1 :
          r.rows[from][i] = IF i = row THEN s.rows[from][n] ELSE s.rows[from][i]
    BY <1>6, <1>8, <1>9 DEF RemovedAt
  <2>3. QED
    BY <2>1, <2>2 DEF MovedLast
<1>14. /\ \A other \in Signature : other # to /\ other # from =>
            r.rows[other] = s.rows[other] /\ r.column[other] = s.column[other]
       /\ r.rows[to] = a.rows[to] /\ r.column[to] = a.column[to]
  BY <1>4, <1>8, <1>9 DEF RemovedAt, AppendedAt
<1>15. /\ Len(r.rows[from]) = n - 1
       /\ \A t \in from :
            /\ Len(r.column[from][t]) = n - 1
            /\ \A i \in 1 .. n - 1 :
                 r.column[from][t][i] = IF i = row THEN s.column[from][t][n] ELSE s.column[from][t][i]
       /\ \A t \in Type : t \notin from => r.column[from][t] = s.column[from][t]
  BY <1>6, <1>8, <1>9 DEF RemovedAt
<1>16. /\ Len(r.rows[to]) = Len(s.rows[to]) + 1
       /\ \A i \in 1 .. Len(s.rows[to]) : r.rows[to][i] = s.rows[to][i]
       /\ r.rows[to][Len(s.rows[to]) + 1] = h
       /\ \A t \in Type : t \notin to => r.column[to][t] = s.column[to][t]
  BY <1>4, <1>14 DEF AppendedAt
<1>17. ASSUME NEW t \in to
       PROVE  /\ Len(r.column[to][t]) = Len(s.rows[to]) + 1
              /\ \A i \in 1 .. Len(s.rows[to]) : r.column[to][t][i] = s.column[to][t][i]
              /\ r.column[to][t][Len(s.rows[to]) + 1] =
                   IF t \in from THEN s.column[from][t][row] ELSE Default
  <2>1. Len(s.column[to][t]) = Len(s.rows[to])
    BY <1>3
  <2>2. /\ Len(r.column[to][t]) = Len(s.column[to][t]) + 1
        /\ \A i \in 1 .. Len(s.column[to][t]) : r.column[to][t][i] = s.column[to][t][i]
        /\ r.column[to][t][Len(s.column[to][t]) + 1] =
             IF t \in from THEN s.column[from][t][row] ELSE Default
    BY <1>4, <1>14 DEF AppendedAt
  <2>3. QED
    BY <2>1, <2>2
<1>18. QED
  BY <1>11, <1>12, <1>13, <1>14, <1>15, <1>16, <1>17 DEF MigratedTo, r

\* A migrated entity leaves an exact store.
LEMMA MigrateInv ==
  ASSUME NEW s, StoreInv(s), NEW h \in DOMAIN s.location,
         NEW to \in Signature, to # SigOf(s, h)
  PROVE  /\ StoreInv(MigrateEntity(s, h, to))
         /\ DOMAIN MigrateEntity(s, h, to).location = DOMAIN s.location
<1> DEFINE from == SigOf(s, h)
           n == CountOf(s, h)
           k == Len(s.rows[to])
           r == MigrateEntity(s, h, to)
<1>1. MigratedTo(s, h, to, r)
  BY MigrateShape
<1> HIDE DEF r
<1>2. OthersExact(s, h, r)
  BY <1>1, RemovalExact DEF MigratedTo
<1>3. from \in Signature /\ n \in Nat /\ k \in Nat /\ n = Len(s.rows[from])
  BY LenProperties DEF StoreInv, StoreType, Located, SigOf, CountOf
<1>4. /\ StoreType(r)
      /\ DOMAIN r.location = DOMAIN s.location
      /\ r.location[h] = [sig |-> to, row |-> k + 1]
      /\ \A other \in Signature : other # to /\ other # from =>
           r.rows[other] = s.rows[other] /\ r.column[other] = s.column[other]
      /\ Len(r.rows[from]) = n - 1
      /\ \A t \in from : Len(r.column[from][t]) = n - 1
      /\ \A t \in Type : t \notin from => r.column[from][t] = s.column[from][t]
      /\ Len(r.rows[to]) = k + 1
      /\ \A i \in 1 .. k : r.rows[to][i] = s.rows[to][i]
      /\ r.rows[to][k + 1] = h
      /\ \A t \in to : Len(r.column[to][t]) = k + 1
      /\ \A t \in Type : t \notin to => r.column[to][t] = s.column[to][t]
  BY <1>1 DEF MigratedTo
<1>5. Located(r)
  <2> SUFFICES ASSUME NEW g \in DOMAIN s.location
               PROVE  /\ r.location[g].sig \in Signature
                      /\ r.location[g].row \in 1 .. Len(r.rows[r.location[g].sig])
                      /\ r.rows[r.location[g].sig][r.location[g].row] = g
    BY <1>4 DEF Located
  <2>1. CASE g = h
    BY <2>1, <1>3, <1>4
  <2>2. CASE g # h /\ s.location[g].sig = from
    <3>1. r.location[g].sig = from /\ r.location[g].row \in 1 .. n - 1
          /\ r.rows[from][r.location[g].row] = g
      BY <2>2, <1>2 DEF OthersExact
    <3>2. QED
      BY <3>1, <1>3, <1>4
  <2>3. CASE g # h /\ s.location[g].sig # from
    <3> DEFINE sig == s.location[g].sig
               i == s.location[g].row
    <3>1. r.location[g] = s.location[g]
      BY <2>3, <1>2 DEF OthersExact
    <3>2. sig \in Signature /\ i \in 1 .. Len(s.rows[sig]) /\ s.rows[sig][i] = g
      BY DEF StoreInv, Located
    <3>3. i \in 1 .. Len(r.rows[sig]) /\ r.rows[sig][i] = g
      <4>1. CASE sig = to
        <5>1. i \in 1 .. k /\ s.rows[to][i] = g
          BY <4>1, <3>2
        <5> HIDE DEF i, k
        <5>2. i \in 1 .. k + 1 /\ r.rows[to][i] = g
          BY <5>1, <1>3, <1>4
        <5>3. QED
          BY <4>1, <5>2, <1>4
      <4>2. CASE sig # to
        BY <4>2, <3>2, <2>3, <1>4
      <4>3. QED
        BY <4>1, <4>2
    <3>4. QED
      BY <3>1, <3>2, <3>3
  <2>4. QED
    BY <2>1, <2>2, <2>3
<1>6. Told(r)
  <2> SUFFICES ASSUME NEW sig \in Signature, NEW i \in 1 .. Len(r.rows[sig])
               PROVE  /\ r.rows[sig][i] \in DOMAIN r.location
                      /\ r.location[r.rows[sig][i]] = [sig |-> sig, row |-> i]
    BY DEF Told
  <2>1. CASE sig = from
    BY <2>1, <1>2, <1>4 DEF OthersExact
  <2>2. CASE sig = to /\ i = k + 1
    BY <2>2, <1>4
  <2>3. CASE sig # from /\ ~(sig = to /\ i = k + 1)
    <3> DEFINE g == s.rows[sig][i]
    <3>1. i \in 1 .. Len(s.rows[sig]) /\ r.rows[sig][i] = g
      <4>1. CASE sig = to
        <5>1. i \in 1 .. k
          BY <4>1, <2>3, <1>3, <1>4
        <5>2. QED
          BY <4>1, <5>1, <1>4
      <4>2. CASE sig # to
        BY <4>2, <2>3, <1>4
      <4>3. QED
        BY <4>1, <4>2
    <3>2. g \in DOMAIN s.location /\ s.location[g] = [sig |-> sig, row |-> i]
      BY <3>1 DEF StoreInv, Told
    <3> HIDE DEF g
    <3>3. s.location[g].sig = sig
      BY <3>2
    <3>4. g # h
      BY <2>3, <3>3 DEF SigOf
    <3>5. r.location[g] = s.location[g]
      BY <2>3, <3>2, <3>3, <3>4, <1>2 DEF OthersExact
    <3>6. QED
      BY <3>1, <3>2, <3>5, <1>4
  <2>4. QED
    BY <2>1, <2>2, <2>3
<1>7. Filled(r)
  <2> SUFFICES ASSUME NEW sig \in Signature, NEW t \in Type
               PROVE  Len(r.column[sig][t]) = IF t \in sig THEN Len(r.rows[sig]) ELSE 0
    BY DEF Filled
  <2>1. Len(s.column[sig][t]) = IF t \in sig THEN Len(s.rows[sig]) ELSE 0
    BY DEF StoreInv, Filled
  <2>2. CASE sig = from
    BY <2>1, <2>2, <1>4
  <2>3. CASE sig = to
    BY <2>1, <2>3, <1>4
  <2>4. CASE sig # from /\ sig # to
    BY <2>1, <2>4, <1>4
  <2>5. QED
    BY <2>2, <2>3, <2>4
<1>8. QED
  BY <1>4, <1>5, <1>6, <1>7 DEF StoreInv, r

-----------------------------------------------------------------------------
(* SetValue.                                                               *)

\* Store r is s with value v of type t for entity h.
ValueSet(s, h, t, v, r) ==
  /\ StoreType(r)
  /\ r.rows = s.rows
  /\ r.location = s.location
  /\ \A sig \in Signature, u \in Type :
       /\ Len(r.column[sig][u]) = Len(s.column[sig][u])
       /\ \A i \in 1 .. Len(s.column[sig][u]) :
            r.column[sig][u][i] =
              IF sig = SigOf(s, h) /\ u = t /\ i = RowOf(s, h) THEN v ELSE s.column[sig][u][i]

\* SetValue does what ValueSet says, in an exact store.
LEMMA SetValueShape ==
  ASSUME NEW s, StoreInv(s), NEW h \in DOMAIN s.location, NEW t \in SigOf(s, h), NEW v \in Value
  PROVE  ValueSet(s, h, t, v, SetValue(s, h, t, v))
<1> DEFINE here == SigOf(s, h)
           row == RowOf(s, h)
           col == [s.column[here][t] EXCEPT ![row] = v]
           cols == [s.column[here] EXCEPT ![t] = col]
           r == SetValue(s, h, t, v)
<1>1. /\ here \in Signature /\ t \in Type
      /\ row \in 1 .. Len(s.column[here][t])
      /\ s.column[here] \in [Type -> Seq(Value)]
      /\ s.column[here][t] \in Seq(Value)
  <2>1. here \in Signature /\ row \in 1 .. Len(s.rows[here])
    BY DEF StoreInv, Located, SigOf, RowOf
  <2>2. t \in Type
    BY <2>1 DEF Signature
  <2>3. QED
    BY <2>1, <2>2 DEF StoreInv, StoreType, Filled
<1>2. /\ col \in Seq(Value)
      /\ Len(col) = Len(s.column[here][t])
      /\ \A i \in 1 .. Len(s.column[here][t]) :
           col[i] = IF i = row THEN v ELSE s.column[here][t][i]
  BY <1>1, ExceptSeq
<1>3. r = [s EXCEPT !.column = [s.column EXCEPT ![here] = cols]]
  BY DEF SetValue, SigOf, RowOf
<1> HIDE DEF col, r
<1>4. cols \in [Type -> Seq(Value)] /\ cols[t] = col
      /\ \A u \in Type : u # t => cols[u] = s.column[here][u]
  BY <1>1, <1>2
<1> HIDE DEF cols
<1>5. /\ r.rows = s.rows /\ r.location = s.location
      /\ r.column = [s.column EXCEPT ![here] = cols]
      /\ r = [rows |-> r.rows, column |-> r.column, location |-> r.location]
  BY <1>3 DEF StoreInv, StoreType
<1>6. /\ r.column \in [Signature -> [Type -> Seq(Value)]]
      /\ r.column[here] = cols
      /\ \A sig \in Signature : sig # here => r.column[sig] = s.column[sig]
  BY <1>1, <1>4, <1>5 DEF StoreInv, StoreType
<1>7. StoreType(r)
  BY <1>5, <1>6 DEF StoreInv, StoreType
<1>8. ASSUME NEW sig \in Signature, NEW u \in Type
      PROVE  /\ Len(r.column[sig][u]) = Len(s.column[sig][u])
             /\ \A i \in 1 .. Len(s.column[sig][u]) :
                  r.column[sig][u][i] =
                    IF sig = here /\ u = t /\ i = row THEN v ELSE s.column[sig][u][i]
  <2>1. CASE sig = here /\ u = t
    BY <2>1, <1>2, <1>4, <1>6
  <2>2. CASE ~(sig = here /\ u = t)
    BY <2>2, <1>4, <1>6
  <2>3. QED
    BY <2>1, <2>2
<1>9. QED
  BY <1>5, <1>7, <1>8 DEF ValueSet, r

\* A value set moves no row.
LEMMA SetValueInv ==
  ASSUME NEW s, StoreInv(s), NEW h \in DOMAIN s.location, NEW t \in SigOf(s, h), NEW v \in Value
  PROVE  /\ StoreInv(SetValue(s, h, t, v))
         /\ DOMAIN SetValue(s, h, t, v).location = DOMAIN s.location
<1> DEFINE r == SetValue(s, h, t, v)
<1>1. ValueSet(s, h, t, v, r)
  BY SetValueShape
<1> HIDE DEF r
<1>2. Located(r) /\ Told(r)
  BY <1>1 DEF ValueSet, StoreInv, Located, Told
<1>3. Filled(r)
  BY <1>1 DEF ValueSet, StoreInv, Filled
<1>4. QED
  BY <1>1, <1>2, <1>3 DEF ValueSet, StoreInv, r

-----------------------------------------------------------------------------
(* AddComponent.                                                           *)

\* A component added, whoever the handle names, leaves an exact store.
LEMMA AddToInv ==
  ASSUME NEW s, StoreInv(s), NEW h \in Handle, NEW t \in Type, NEW v \in Value
  PROVE  /\ StoreInv(AddTo(s, h, t, v))
         /\ DOMAIN AddTo(s, h, t, v).location = DOMAIN s.location \cup {h}
<1> DEFINE tracked == EnsureEntityTracked(s, h)
           to == SigOf(tracked, h) \cup {t}
           typed == IF Has(tracked, h, t) THEN tracked ELSE MigrateEntity(tracked, h, to)
<1>1. StoreInv(tracked) /\ h \in DOMAIN tracked.location
      /\ DOMAIN tracked.location = DOMAIN s.location \cup {h}
  BY TrackInv
<1>2. AddTo(s, h, t, v) = SetValue(typed, h, t, v)
  BY DEF AddTo, SigOf
<1> HIDE DEF tracked
<1>3. StoreInv(typed) /\ DOMAIN typed.location = DOMAIN tracked.location
      /\ t \in SigOf(typed, h)
  <2>1. CASE t \in SigOf(tracked, h)
    <3>1. typed = tracked
      BY <2>1 DEF Has, SigOf
    <3> HIDE DEF typed
    <3>2. QED
      BY <2>1, <3>1, <1>1
  <2>2. CASE t \notin SigOf(tracked, h)
    <3>1. to \in Signature /\ to # SigOf(tracked, h)
      BY <2>2, <1>1 DEF StoreInv, Located, SigOf, Signature
    <3> HIDE DEF to
    <3>2. typed = MigrateEntity(tracked, h, to)
      BY <2>2 DEF Has, SigOf
    <3>3. MigratedTo(tracked, h, to, typed)
      BY <3>1, <3>2, <1>1, MigrateShape
    <3> HIDE DEF typed
    <3>4. SigOf(typed, h) = to
      BY <3>3, SMTT(30) DEF MigratedTo, SigOf
    <3>5. StoreInv(typed) /\ DOMAIN typed.location = DOMAIN tracked.location
      BY <3>1, <3>2, <1>1, MigrateInv
    <3>6. QED
      BY <3>4, <3>5 DEF to
  <2>3. QED
    BY <2>1, <2>2
<1> HIDE DEF typed
<1>4. QED
  BY <1>1, <1>2, <1>3, SetValueInv

-----------------------------------------------------------------------------
(* The inductive invariant: the shape of the state, with locations that    *)
(* are functions, exact tables, and indices that are alive or free.        *)
IInv ==
  /\ WorldTypeOK
  /\ StoreInv(store)
  /\ IndicesExact

\* An exact store is what RowsExact says.
LEMMA StoreExact == ASSUME StoreInv(store) PROVE RowsExact
  BY DEF StoreInv, Located, Told, Filled, RowsExact

\* The first store, without rows, is exact.
LEMMA EmptyStore == ASSUME WorldInit PROVE StoreInv(store)
<1>1. /\ store.rows = [sig \in Signature |-> << >>]
      /\ store.column = [sig \in Signature |-> [t \in Type |-> << >>]]
      /\ store.location = [h \in {} |-> [sig |-> {}, row |-> 0]]
      /\ store = [rows |-> store.rows, column |-> store.column, location |-> store.location]
  BY DEF WorldInit
<1>2. DOMAIN store.location = {} /\ Len(<< >>) = 0
  BY <1>1
<1>3. store.location = [h \in DOMAIN store.location |-> store.location[h]]
  BY <1>1
<1>4. << >> \in Seq(Handle) /\ << >> \in Seq(Value)
  BY EmptySeq
<1>5. StoreType(store)
  BY <1>1, <1>2, <1>3, <1>4 DEF StoreType
<1>6. Located(store) /\ Told(store)
  BY <1>1, <1>2 DEF Located, Told
<1>7. Filled(store)
  BY <1>1, <1>2 DEF Filled
<1>8. QED
  BY <1>5, <1>6, <1>7 DEF StoreInv

\* The invariant holds at first.
LEMMA InitInv == WorldInit => IInv
<1> SUFFICES ASSUME WorldInit PROVE IInv
  OBVIOUS
<1>1. StoreInv(store)
  BY EmptyStore
<1>2. DOMAIN store.location = {}
  BY DEF WorldInit
<1>3. << >> \in Seq(Id) /\ DOMAIN << >> = {}
  BY EmptySeq
<1>4. WorldTypeOK
  BY <1>1, <1>2, <1>3, WorldAssumption DEF WorldInit, WorldTypeOK, StoreInv, StoreType, Id
<1>5. IndicesExact
  <2>1. entities = Valid
    BY DEF WorldInit, Valid
  <2>2. ToSet(freeIDs) = {}
    BY <1>3 DEF WorldInit, ToSet
  <2>3. {i \in Id : i < nextID} = {}
    BY WorldAssumption DEF WorldInit, Id
  <2>4. IsInjective(freeIDs)
    BY <1>3 DEF WorldInit, IsInjective
  <2>5. QED
    BY <2>1, <2>2, <2>3, <2>4 DEF IndicesExact
<1>6. QED
  BY <1>1, <1>4, <1>5 DEF IInv

-----------------------------------------------------------------------------
(* CreateEntity.                                                           *)

\* The handle of the next entity has a fresh or a free index, in range, and
\* a version other than 0.
LEMMA NewHandle ==
  ASSUME IInv, freeIDs # << >> \/ nextID \in Id
  PROVE  /\ NewEntity \in Handle
         /\ NewEntity.id \in Id /\ NewEntity.id \notin alive
         /\ freeIDs # << >> => NewEntity.id = Head(freeIDs) /\ NewEntity.id < nextID
         /\ freeIDs = << >> => NewEntity.id = nextID
         /\ NewEntity = [id |-> NewEntity.id, version |-> NewEntity.version]
         /\ NewEntity.version \in 1 .. VersionSize - 1
<1>1. CASE freeIDs # << >>
  <2> DEFINE i == Head(freeIDs)
             v == version[i]
  <2>1. freeIDs \in Seq(Id) /\ i \in Id
    BY <1>1, HeadTailProperties DEF IInv, WorldTypeOK
  <2>2. i = freeIDs[1] /\ 1 \in DOMAIN freeIDs
    BY <1>1, <2>1, LenProperties, EmptySeq
  <2>3. i \in ToSet(freeIDs)
    BY <2>2 DEF ToSet
  <2>4. i \notin alive /\ i < nextID
    BY <2>3 DEF IInv, IndicesExact
  <2>5. v \in 0 .. VersionSize - 1
    BY <2>1 DEF IInv, WorldTypeOK
  <2>6. NewVersion(v) \in 1 .. VersionSize - 1
    <3> HIDE DEF v
    <3>1. (v + 1) % VersionSize \in 0 .. VersionSize - 1
      <4>1. CASE v + 1 = VersionSize
        BY <4>1, <2>5, WorldAssumption
      <4>2. CASE v + 1 < VersionSize
        BY <4>2, <2>5, WorldAssumption
      <4>3. QED
        BY <4>1, <4>2, <2>5, WorldAssumption
    <3>2. QED
      BY <3>1, WorldAssumption DEF NewVersion
  <2>7. NewEntity = [id |-> i, version |-> NewVersion(v)]
    BY <1>1 DEF NewEntity
  <2> HIDE DEF i, v
  <2>8. QED
    BY <1>1, <2>1, <2>4, <2>6, <2>7 DEF Handle, i
<1>2. CASE freeIDs = << >>
  <2>1. NewEntity = [id |-> nextID, version |-> 1]
    BY <1>2 DEF NewEntity
  <2>2. nextID \in Id /\ nextID \notin alive /\ 1 \in 1 .. VersionSize - 1
    BY <1>2, WorldAssumption DEF IInv, WorldTypeOK
  <2>3. QED
    BY <1>2, <2>1, <2>2 DEF Handle
<1>3. QED
  BY <1>1, <1>2

\* Only the queue's head leaves it.
LEMMA TailExact ==
  ASSUME NEW q \in Seq(Id), q # << >>, IsInjective(q)
  PROVE  /\ Tail(q) \in Seq(Id)
         /\ IsInjective(Tail(q))
         /\ ToSet(Tail(q)) = ToSet(q) \ {Head(q)}
<1> DEFINE n == Len(q)
           r == Tail(q)
<1>1. /\ n \in Nat \ {0} /\ DOMAIN q = 1 .. n
      /\ r \in Seq(Id) /\ Len(r) = n - 1 /\ DOMAIN r = 1 .. n - 1
      /\ \A i \in 1 .. n - 1 : r[i] = q[i + 1]
      /\ Head(q) = q[1]
  BY HeadTailProperties, LenProperties, EmptySeq
<1> HIDE DEF n, r
<1>2. IsInjective(r)
  <2> SUFFICES ASSUME NEW i \in 1 .. n - 1, NEW j \in 1 .. n - 1, r[i] = r[j] PROVE i = j
    BY <1>1 DEF IsInjective
  <2>1. /\ i + 1 \in 1 .. n /\ j + 1 \in 1 .. n
        /\ q[i + 1] = q[j + 1]
    BY <1>1
  <2>2. i + 1 = j + 1
    BY <1>1, <2>1 DEF IsInjective
  <2>3. QED
    BY <2>2
<1>3. ASSUME NEW x PROVE x \in ToSet(r) <=> x \in ToSet(q) /\ x # Head(q)
  <2>1. ASSUME x \in ToSet(r) PROVE x \in ToSet(q) /\ x # Head(q)
    <3>1. PICK i \in 1 .. n - 1 : x = r[i]
      BY <1>1, <2>1 DEF ToSet
    <3>2. x = q[i + 1] /\ i + 1 \in 1 .. n /\ i + 1 # 1 /\ 1 \in 1 .. n
      BY <1>1, <3>1
    <3>3. QED
      BY <1>1, <3>2 DEF ToSet, IsInjective
  <2>2. ASSUME x \in ToSet(q), x # Head(q) PROVE x \in ToSet(r)
    <3>1. PICK i \in 1 .. n : x = q[i]
      BY <1>1, <2>2 DEF ToSet
    <3>2. i - 1 \in 1 .. n - 1 /\ r[i - 1] = x
      BY <1>1, <2>2, <3>1
    <3>3. QED
      BY <1>1, <3>2 DEF ToSet
  <2>3. QED
    BY <2>1, <2>2
<1>4. QED
  BY <1>1, <1>2, <1>3 DEF r

\* The queue gains what is appended, in one place if it was nowhere.
LEMMA AppendExact ==
  ASSUME NEW q \in Seq(Id), NEW x \in Id, x \notin ToSet(q), IsInjective(q)
  PROVE  /\ Append(q, x) \in Seq(Id)
         /\ IsInjective(Append(q, x))
         /\ ToSet(Append(q, x)) = ToSet(q) \cup {x}
<1> DEFINE n == Len(q)
           r == Append(q, x)
<1>1. /\ n \in Nat /\ DOMAIN q = 1 .. n
      /\ r \in Seq(Id) /\ Len(r) = n + 1 /\ DOMAIN r = 1 .. n + 1
      /\ \A i \in 1 .. n : r[i] = q[i]
      /\ r[n + 1] = x
  BY AppendProperties, LenProperties
<1> HIDE DEF n, r
<1>2. \A i \in 1 .. n : q[i] # x
  BY <1>1 DEF ToSet
<1>3. IsInjective(r)
  <2> SUFFICES ASSUME NEW i \in 1 .. n + 1, NEW j \in 1 .. n + 1, r[i] = r[j] PROVE i = j
    BY <1>1 DEF IsInjective
  <2>1. CASE i \in 1 .. n /\ j \in 1 .. n
    BY <1>1, <2>1 DEF IsInjective
  <2>2. CASE i \notin 1 .. n \/ j \notin 1 .. n
    BY <1>1, <1>2, <2>2
  <2>3. QED
    BY <2>1, <2>2
<1>4. ASSUME NEW y PROVE y \in ToSet(r) <=> y \in ToSet(q) \/ y = x
  <2>1. ASSUME y \in ToSet(r) PROVE y \in ToSet(q) \/ y = x
    <3>1. PICK i \in 1 .. n + 1 : y = r[i]
      BY <1>1, <2>1 DEF ToSet
    <3>2. i = n + 1 \/ i \in 1 .. n
      BY <1>1
    <3>3. QED
      BY <1>1, <3>1, <3>2 DEF ToSet
  <2>2. ASSUME y \in ToSet(q) PROVE y \in ToSet(r)
    <3>1. PICK i \in 1 .. n : y = q[i]
      BY <1>1, <2>2 DEF ToSet
    <3>2. i \in 1 .. n + 1 /\ r[i] = y
      BY <1>1, <3>1
    <3>3. QED
      BY <1>1, <3>2 DEF ToSet
  <2>3. x \in ToSet(r)
    <3>1. n + 1 \in DOMAIN r
      BY <1>1
    <3>2. QED
      BY <1>1, <3>1 DEF ToSet
  <2>4. QED
    BY <2>1, <2>2, <2>3
<1>5. QED
  BY <1>1, <1>3, <1>4 DEF r

\* A store of the right shape that tracks issued handles is what WorldTypeOK asks.
LEMMA StoreTypeOK ==
  ASSUME NEW s, StoreInv(s)
  PROVE  /\ s.rows \in [Signature -> Seq(Handle)]
         /\ s.column \in [Signature -> [Type -> Seq(Value)]]
  BY DEF StoreInv, StoreType

\* A created entity has an index of its own.
LEMMA CreateInv == ASSUME IInv, CreateEntity PROVE IInv'
<1> DEFINE e == NewEntity
<1>1. /\ e \in Handle
      /\ e.id \in Id /\ e.id \notin alive
      /\ freeIDs # << >> => e.id = Head(freeIDs) /\ e.id < nextID
      /\ freeIDs = << >> => e.id = nextID
      /\ e.version \in 1 .. VersionSize - 1
  BY NewHandle DEF CreateEntity
<1>2. \A h \in Handle : h.id = e.id /\ h.version = e.version => h = e
  BY <1>1 DEF Handle
<1> HIDE DEF e
<1>3. /\ version' = [version EXCEPT ![e.id] = e.version]
      /\ alive' = alive \cup {e.id}
      /\ entities' = entities \cup {e}
      /\ issued' = issued \cup {e}
      /\ store' = EnsureEntityTracked(store, e)
      /\ freeIDs # << >> => freeIDs' = Tail(freeIDs) /\ nextID' = nextID
      /\ freeIDs = << >> => freeIDs' = freeIDs /\ nextID' = nextID + 1
  BY DEF CreateEntity, e
<1>4. StoreInv(store') /\ DOMAIN store'.location = DOMAIN store.location \cup {e}
  BY <1>1, <1>3, TrackInv DEF IInv
<1>5. /\ freeIDs' \in Seq(Id)
      /\ IsInjective(freeIDs')
      /\ ToSet(freeIDs') = ToSet(freeIDs) \ {e.id}
  <2>1. CASE freeIDs # << >>
    BY <2>1, <1>1, <1>3, TailExact DEF IInv, WorldTypeOK, IndicesExact
  <2>2. CASE freeIDs = << >>
    <3>1. ToSet(freeIDs) = {}
      BY <2>2, EmptySeq, LenProperties DEF ToSet, IInv, WorldTypeOK
    <3>2. QED
      BY <2>2, <3>1, <1>3 DEF IInv, WorldTypeOK, IndicesExact
  <2>3. QED
    BY <2>1, <2>2
<1>6. nextID' \in 1 .. MaxIds + 1 /\ {i \in Id : i < nextID'} = {i \in Id : i < nextID} \cup {e.id}
  <2>1. nextID \in 1 .. MaxIds + 1
    BY DEF IInv, WorldTypeOK
  <2>2. CASE freeIDs # << >>
    BY <2>1, <2>2, <1>1, <1>3
  <2>3. CASE freeIDs = << >>
    BY <2>1, <2>3, <1>1, <1>3, WorldAssumption DEF Id
  <2>4. QED
    BY <2>2, <2>3
<1>7. WorldTypeOK'
  <2>1. version' \in [Id -> 0 .. VersionSize - 1]
    <3>1. e.version \in 0 .. VersionSize - 1
      BY <1>1, WorldAssumption
    <3>2. QED
      BY <1>1, <1>3, <3>1 DEF IInv, WorldTypeOK
  <2>2. alive' \subseteq {i \in Id : i < nextID'}
    BY <1>3, <1>6 DEF IInv, WorldTypeOK
  <2>3. /\ entities' \subseteq issued'
        /\ DOMAIN store'.location \subseteq issued'
        /\ issued' \subseteq Handle
    BY <1>1, <1>3, <1>4 DEF IInv, WorldTypeOK
  <2>4. QED
    BY <1>4, <1>5, <1>6, <2>1, <2>2, <2>3, StoreTypeOK DEF WorldTypeOK
<1>8. IndicesExact'
  <2>1. entities' = Valid'
    <3>1. ASSUME NEW h
          PROVE  h \in entities' <=>
                   h \in issued' /\ h.id \in alive' /\ version'[h.id] = h.version
      <4>1. CASE h \in issued /\ h.id # e.id
        <5>1. h \in Handle /\ version'[h.id] = version[h.id]
          BY <4>1, <1>3 DEF IInv, WorldTypeOK, Handle
        <5>2. h \in entities <=> h.id \in alive /\ version[h.id] = h.version
          BY <4>1 DEF IInv, IndicesExact, Valid, IsEntityValid
        <5>3. QED
          BY <4>1, <5>1, <5>2, <1>3
      <4>2. CASE h \in issued /\ h.id = e.id
        <5>1. h \in Handle /\ version'[h.id] = e.version
          BY <4>2, <1>1, <1>3 DEF IInv, WorldTypeOK
        <5>2. h \notin entities
          BY <4>2, <1>1 DEF IInv, IndicesExact, Valid, IsEntityValid
        <5>3. QED
          BY <4>2, <5>1, <5>2, <1>2, <1>3
      <4>3. CASE h \notin issued /\ h = e
        BY <4>3, <1>1, <1>3 DEF IInv, WorldTypeOK
      <4>4. CASE h \notin issued /\ h # e
        BY <4>4, <1>3 DEF IInv, WorldTypeOK
      <4>5. QED
        BY <4>1, <4>2, <4>3, <4>4
    <3>2. QED
      BY <3>1, <1>3 DEF Valid, IsEntityValid
  <2>2. ToSet(freeIDs') = {i \in Id : i < nextID'} \ alive'
    BY <1>3, <1>5, <1>6 DEF IInv, IndicesExact
  <2>3. QED
    BY <1>5, <2>1, <2>2 DEF IndicesExact, ToSet, IsInjective
<1>9. QED
  BY <1>4, <1>7, <1>8 DEF IInv, StoreInv, StoreType, Located, Told, Filled

\* A destroyed entity's index is free, once.
LEMMA DestroyInv ==
  ASSUME IInv, NEW h \in issued, DestroyEntity(h)
  PROVE  IInv'
<1>1. /\ h \in Handle /\ h.id \in Id /\ h.id < nextID
      /\ h.id \in alive /\ version[h.id] = h.version
      /\ h.id \notin ToSet(freeIDs)
  BY DEF DestroyEntity, IsEntityValid, IInv, WorldTypeOK, Handle, IndicesExact
<1>2. /\ alive' = alive \ {h.id}
      /\ freeIDs' = Append(freeIDs, h.id)
      /\ entities' = entities \ {h}
      /\ version' = version /\ nextID' = nextID /\ issued' = issued
  BY DEF DestroyEntity
<1>3. StoreInv(store') /\ DOMAIN store'.location \subseteq DOMAIN store.location
  <2>1. CASE h \in DOMAIN store.location
    BY <2>1, UntrackInv DEF DestroyEntity, IInv
  <2>2. CASE h \notin DOMAIN store.location
    BY <2>2 DEF DestroyEntity, IInv
  <2>3. QED
    BY <2>1, <2>2
<1>4. /\ freeIDs' \in Seq(Id)
      /\ IsInjective(freeIDs')
      /\ ToSet(freeIDs') = ToSet(freeIDs) \cup {h.id}
  BY <1>1, <1>2, AppendExact DEF IInv, WorldTypeOK, IndicesExact
<1>5. WorldTypeOK'
  BY <1>2, <1>3, <1>4, StoreTypeOK DEF IInv, WorldTypeOK
<1>6. IndicesExact'
  <2>1. entities' = Valid'
    <3>1. ASSUME NEW g
          PROVE  g \in entities' <=>
                   g \in issued' /\ g.id \in alive' /\ version'[g.id] = g.version
      <4>1. g \in entities <=> g \in issued /\ g.id \in alive /\ version[g.id] = g.version
        BY DEF IInv, IndicesExact, Valid, IsEntityValid
      <4>2. g \in issued /\ g.id = h.id /\ g.version = h.version => g = h
        BY <1>1 DEF IInv, WorldTypeOK, Handle
      <4>3. QED
        BY <4>1, <4>2, <1>1, <1>2
    <3>2. QED
      BY <3>1, <1>2 DEF Valid, IsEntityValid
  <2>2. ToSet(freeIDs') = {i \in Id : i < nextID'} \ alive'
    BY <1>1, <1>2, <1>4 DEF IInv, IndicesExact, WorldTypeOK
  <2>3. QED
    BY <1>4, <2>1, <2>2 DEF IndicesExact, ToSet, IsInjective
<1>7. QED
  BY <1>3, <1>5, <1>6 DEF IInv, StoreInv, StoreType, Located, Told, Filled

\* What changes the store alone, and tracks only issued handles, leaves the
\* rest of the invariant as it is.
LEMMA StoreStep ==
  ASSUME IInv, StoreInv(store'), DOMAIN store'.location \subseteq issued, UNCHANGED book
  PROVE  IInv'
<1>1. WorldTypeOK'
  BY StoreTypeOK DEF IInv, WorldTypeOK, book
<1>2. IndicesExact'
  BY DEF IInv, IndicesExact, Valid, IsEntityValid, ToSet, IsInjective, book
<1>3. QED
  BY <1>1, <1>2 DEF IInv, StoreInv, StoreType, Located, Told, Filled

\* A component can be added to any handle ever issued.
LEMMA AddInv ==
  ASSUME IInv, NEW h \in issued, NEW t \in Type, NEW v \in Value, AddComponent(h, t, v)
  PROVE  IInv'
<1>1. h \in Handle /\ DOMAIN store.location \subseteq issued
  BY DEF IInv, WorldTypeOK
<1>2. StoreInv(store') /\ DOMAIN store'.location = DOMAIN store.location \cup {h}
  BY <1>1, AddToInv DEF IInv, AddComponent
<1>3. QED
  BY <1>1, <1>2, StoreStep DEF AddComponent

\* A component is taken from an entity that has it.
LEMMA RemoveInv ==
  ASSUME IInv, NEW h \in issued, NEW t \in Type, RemoveComponent(h, t)
  PROVE  IInv'
<1> DEFINE to == SigOf(store, h) \ {t}
<1>1. h \in DOMAIN store.location /\ t \in SigOf(store, h) /\ SigOf(store, h) \in Signature
  BY DEF RemoveComponent, Has, SigOf, IInv, StoreInv, Located
<1>2. to \in Signature /\ to # SigOf(store, h)
  BY <1>1 DEF Signature
<1>3. store' = MigrateEntity(store, h, to)
  BY DEF RemoveComponent, SigOf
<1> HIDE DEF to
<1>4. StoreInv(store') /\ DOMAIN store'.location = DOMAIN store.location
  BY <1>1, <1>2, <1>3, MigrateInv DEF IInv
<1>5. QED
  BY <1>4, StoreStep DEF IInv, WorldTypeOK, RemoveComponent

\* Every step keeps the invariant.
LEMMA NextInv == IInv /\ [WorldNext]_entityVars => IInv'
<1> SUFFICES ASSUME IInv, [WorldNext]_entityVars PROVE IInv'
  OBVIOUS
<1>1. CASE CreateEntity
  BY <1>1, CreateInv
<1>2. ASSUME NEW h \in issued, DestroyEntity(h) PROVE IInv'
  BY <1>2, DestroyInv
<1>3. ASSUME NEW h \in issued, NEW t \in Type, RemoveComponent(h, t) PROVE IInv'
  BY <1>3, RemoveInv
<1>4. ASSUME NEW h \in issued, NEW t \in Type, NEW v \in Value, AddComponent(h, t, v)
      PROVE  IInv'
  BY <1>4, AddInv
<1>5. CASE UNCHANGED entityVars
  <2>1. StoreInv(store') /\ DOMAIN store'.location \subseteq issued /\ UNCHANGED book
    BY <1>5 DEF entityVars, IInv, WorldTypeOK
  <2>2. QED
    BY <2>1, StoreStep
<1>6. QED
  BY <1>1, <1>2, <1>3, <1>4, <1>5 DEF WorldNext

\* The inductive invariant holds in every reachable state.
THEOREM Invariant == WorldSpec => []IInv
  BY InitInv, NextInv, PTL DEF WorldSpec

\* Whatever handles are passed, valid or stale, indices, versions, rows and
\* columns keep their ranges; the version of an issued handle is never 0.
THEOREM TypeCorrect == WorldSpec => []WorldTypeOK
<1>1. IInv => WorldTypeOK
  BY DEF IInv
<1>2. QED
  BY <1>1, Invariant, PTL

\* Every entity is in the row its location names, every row is known to its
\* entity, and every column is as long as its table.
THEOREM Rows == WorldSpec => []RowsExact
<1>1. IInv => RowsExact
  BY StoreExact DEF IInv
<1>2. QED
  BY <1>1, Invariant, PTL

\* An index is alive or free, and free once; the entities counted are the
\* valid ones.
THEOREM Indices == WorldSpec => []IndicesExact
<1>1. IInv => IndicesExact
  BY DEF IInv
<1>2. QED
  BY <1>1, Invariant, PTL

-----------------------------------------------------------------------------
(* Read through its location, every entity but the one an operation names  *)
(* has the components it had, wherever its row went: the tables implement  *)
(* the map of EntityMap.                                                   *)

\* The components of entity g, read through its location.
ValuesOf(s, g) == [t \in SigOf(s, g) |-> s.column[SigOf(s, g)][t][RowOf(s, g)]]

\* Store r has, of every entity but h, the values s has: the last row of the
\* table h leaves has moved into its row, and other tables keep their rows.
Kept(s, h, r) ==
  /\ \A sig \in Signature : sig # SigOf(s, h) =>
       \A t \in sig : \A i \in 1 .. Len(s.rows[sig]) : r.column[sig][t][i] = s.column[sig][t][i]
  /\ \A t \in SigOf(s, h) : \A i \in 1 .. CountOf(s, h) - 1 :
       r.column[SigOf(s, h)][t][i] =
         IF i = RowOf(s, h) THEN s.column[SigOf(s, h)][t][CountOf(s, h)]
         ELSE s.column[SigOf(s, h)][t][i]
  /\ \A g \in DOMAIN s.location \ {h} :
       r.location[g] = PlaceOf(s, SigOf(s, h), RowOf(s, h), g)

\* An entity is in a row of its table, and the same row only once.
LEMMA Placed ==
  ASSUME NEW s, StoreInv(s), NEW g \in DOMAIN s.location
  PROVE  /\ SigOf(s, g) \in Signature /\ SigOf(s, g) \subseteq Type
         /\ RowOf(s, g) \in 1 .. CountOf(s, g) /\ CountOf(s, g) \in Nat
         /\ s.rows[SigOf(s, g)][RowOf(s, g)] = g
  BY LenProperties DEF StoreInv, StoreType, Located, SigOf, RowOf, CountOf, Signature

\* A swap removal changes no other entity's components.
LEMMA OthersKept ==
  ASSUME NEW s, StoreInv(s), NEW h \in DOMAIN s.location, NEW r, Kept(s, h, r),
         NEW g \in DOMAIN s.location \ {h}
  PROVE  ValuesOf(r, g) = ValuesOf(s, g)
<1> DEFINE from == SigOf(s, h)
           row == RowOf(s, h)
           n == CountOf(s, h)
           i == RowOf(s, g)
<1>1. /\ from \in Signature /\ row \in 1 .. n /\ n \in Nat /\ s.rows[from][row] = h
      /\ n = Len(s.rows[from])
  BY Placed DEF CountOf
<1>2. SigOf(s, g) \in Signature /\ i \in 1 .. CountOf(s, g) /\ s.rows[SigOf(s, g)][i] = g
  BY Placed
<1>3. /\ LastOf(s, from) \in DOMAIN s.location
      /\ SigOf(s, LastOf(s, from)) = from /\ RowOf(s, LastOf(s, from)) = n
  <2>1. s.location[LastOf(s, from)] = [sig |-> from, row |-> n]
        /\ LastOf(s, from) \in DOMAIN s.location
    BY <1>1 DEF StoreInv, Told, LastOf
  <2>2. QED
    BY <2>1 DEF SigOf, RowOf
<1>4. r.location[g] = PlaceOf(s, from, row, g)
  BY DEF Kept
<1> HIDE DEF from, row, n, i
<1>5. CASE SigOf(s, g) # from
  <2>1. r.location[g] = s.location[g]
    BY <1>3, <1>4, <1>5 DEF PlaceOf
  <2>2. SigOf(r, g) = SigOf(s, g) /\ RowOf(r, g) = RowOf(s, g)
    BY <2>1 DEF SigOf, RowOf
  <2>3. \A t \in SigOf(s, g) : r.column[SigOf(s, g)][t][i] = s.column[SigOf(s, g)][t][i]
    BY <1>2, <1>5 DEF Kept, from, CountOf
  <2>4. QED
    BY <2>2, <2>3 DEF ValuesOf, i
<1>6. CASE SigOf(s, g) = from /\ row # n /\ g = LastOf(s, from)
  <2>1. r.location[g] = [sig |-> from, row |-> row]
    BY <1>1, <1>4, <1>6 DEF PlaceOf
  <2>2. SigOf(r, g) = from /\ RowOf(r, g) = row
    BY <2>1 DEF SigOf, RowOf
  <2>3. row \in 1 .. n - 1 /\ RowOf(s, g) = n
    BY <1>1, <1>3, <1>6
  <2>4. \A t \in from : r.column[from][t][row] = s.column[from][t][n]
    BY <2>3 DEF Kept, from, row, n
  <2>5. QED
    BY <1>6, <2>2, <2>3, <2>4 DEF ValuesOf
<1>7. CASE SigOf(s, g) = from /\ ~(row # n /\ g = LastOf(s, from))
  <2>1. r.location[g] = s.location[g]
    BY <1>1, <1>4, <1>7 DEF PlaceOf
  <2>2. SigOf(r, g) = from /\ RowOf(r, g) = i
    BY <2>1, <1>7 DEF SigOf, RowOf, i
  <2>3. i # row
    BY <1>1, <1>2, <1>7
  <2>4. i # n
    BY <1>1, <1>2, <1>7, <2>3 DEF LastOf
  <2>5. i \in 1 .. n
    BY <1>1, <1>2, <1>7 DEF CountOf
  <2>6. i \in 1 .. n - 1
    BY <1>1, <2>4, <2>5
  <2>7. \A t \in from : r.column[from][t][i] = s.column[from][t][i]
    BY <2>3, <2>6 DEF Kept, from, row, n
  <2>8. QED
    BY <1>7, <2>2, <2>7 DEF ValuesOf, i
<1>8. QED
  BY <1>5, <1>6, <1>7

\* DestroyEntity changes no other entity's components.
LEMMA UntrackKept ==
  ASSUME NEW s, StoreInv(s), NEW h \in DOMAIN s.location,
         NEW g \in DOMAIN s.location \ {h}
  PROVE  ValuesOf(Untrack(s, h), g) = ValuesOf(s, g)
<1> DEFINE m == RemoveRow(s, SigOf(s, h), RowOf(s, h))
           r == Untrack(s, h)
<1>1. RemovedAt(s, SigOf(s, h), RowOf(s, h), CountOf(s, h), m)
  BY RemoveHere
<1>2. r = [m EXCEPT !.location = [k \in DOMAIN s.location \ {h} |-> m.location[k]]]
  BY DEF Untrack, SigOf, RowOf
<1> HIDE DEF m, r
<1>3. r.column = m.column /\ \A k \in DOMAIN s.location \ {h} : r.location[k] = m.location[k]
  BY <1>1, <1>2 DEF RemovedAt, StoreType
<1>4. Kept(s, h, r)
  BY <1>1, <1>3 DEF RemovedAt, Kept
<1>5. QED
  BY <1>4, OthersKept DEF r

\* A migration changes no other entity's components; the migrated one keeps
\* the values of the types it still has, and starts a new one with Default.
LEMMA MigrateKept ==
  ASSUME NEW s, StoreInv(s), NEW h \in DOMAIN s.location,
         NEW to \in Signature, to # SigOf(s, h)
  PROVE  /\ \A g \in DOMAIN s.location \ {h} :
              ValuesOf(MigrateEntity(s, h, to), g) = ValuesOf(s, g)
         /\ ValuesOf(MigrateEntity(s, h, to), h) =
              [t \in to |-> IF t \in SigOf(s, h) THEN ValuesOf(s, h)[t] ELSE Default]
<1> DEFINE r == MigrateEntity(s, h, to)
<1>1. MigratedTo(s, h, to, r)
  BY MigrateShape
<1> HIDE DEF r
<1>2. Kept(s, h, r)
  <2>1. \A g \in DOMAIN s.location \ {h} :
          r.location[g] = PlaceOf(s, SigOf(s, h), RowOf(s, h), g)
    BY <1>1 DEF MigratedTo, MovedLast
  <2>2. \A sig \in Signature : sig # SigOf(s, h) =>
          \A t \in sig : \A i \in 1 .. Len(s.rows[sig]) :
            r.column[sig][t][i] = s.column[sig][t][i]
    BY <1>1 DEF MigratedTo
  <2>3. \A t \in SigOf(s, h) : \A i \in 1 .. CountOf(s, h) - 1 :
          r.column[SigOf(s, h)][t][i] =
            IF i = RowOf(s, h) THEN s.column[SigOf(s, h)][t][CountOf(s, h)]
            ELSE s.column[SigOf(s, h)][t][i]
    BY <1>1 DEF MigratedTo
  <2>4. QED
    BY <2>1, <2>2, <2>3 DEF Kept
<1>3. SigOf(r, h) = to /\ RowOf(r, h) = Len(s.rows[to]) + 1
  <2>1. r.location[h] = [sig |-> to, row |-> Len(s.rows[to]) + 1]
    BY <1>1, SMTT(30) DEF MigratedTo
  <2>2. QED
    BY <2>1 DEF SigOf, RowOf
<1>4. \A t \in to : r.column[to][t][Len(s.rows[to]) + 1] =
                      IF t \in SigOf(s, h) THEN s.column[SigOf(s, h)][t][RowOf(s, h)] ELSE Default
  BY <1>1 DEF MigratedTo
<1>5. ValuesOf(r, h) = [t \in to |-> IF t \in SigOf(s, h) THEN ValuesOf(s, h)[t] ELSE Default]
  BY <1>3, <1>4 DEF ValuesOf
<1>6. QED
  BY <1>2, <1>5, OthersKept DEF r

\* Nor does a new entity, which has no components.
LEMMA TrackKept ==
  ASSUME NEW s, StoreInv(s), NEW h \in Handle
  PROVE  /\ \A g \in DOMAIN s.location : ValuesOf(EnsureEntityTracked(s, h), g) = ValuesOf(s, g)
         /\ h \notin DOMAIN s.location =>
              /\ ValuesOf(EnsureEntityTracked(s, h), h) = [t \in {} |-> t]
              /\ SigOf(EnsureEntityTracked(s, h), h) = {}
<1> DEFINE r == EnsureEntityTracked(s, h)
<1>1. CASE h \in DOMAIN s.location
  BY <1>1 DEF EnsureEntityTracked
<1>2. CASE h \notin DOMAIN s.location
  <2>1. /\ r.column = s.column
        /\ r.location[h] = [sig |-> {}, row |-> Len(s.rows[{}]) + 1]
        /\ \A g \in DOMAIN s.location : r.location[g] = s.location[g]
    BY <1>2, TrackShape DEF StoreInv
  <2> HIDE DEF r
  <2>2. SigOf(r, h) = {}
    BY <2>1 DEF SigOf
  <2>3. ValuesOf(r, h) = [t \in {} |-> t]
    BY <2>2 DEF ValuesOf
  <2>4. \A g \in DOMAIN s.location : ValuesOf(r, g) = ValuesOf(s, g)
    BY <2>1 DEF ValuesOf, SigOf, RowOf
  <2>5. QED
    BY <2>2, <2>3, <2>4 DEF r
<1>3. QED
  BY <1>1, <1>2

\* Nor does a value set: no two entities share a place.
LEMMA SetValueKept ==
  ASSUME NEW s, StoreInv(s), NEW h \in DOMAIN s.location, NEW t \in SigOf(s, h), NEW v \in Value
  PROVE  /\ \A g \in DOMAIN s.location \ {h} : ValuesOf(SetValue(s, h, t, v), g) = ValuesOf(s, g)
         /\ ValuesOf(SetValue(s, h, t, v), h) =
              [u \in SigOf(s, h) |-> IF u = t THEN v ELSE ValuesOf(s, h)[u]]
<1> DEFINE r == SetValue(s, h, t, v)
<1>1. ValueSet(s, h, t, v, r)
  BY SetValueShape
<1> HIDE DEF r
<1>2. ASSUME NEW g \in DOMAIN s.location
      PROVE  /\ SigOf(r, g) = SigOf(s, g) /\ RowOf(r, g) = RowOf(s, g)
             /\ \A u \in SigOf(s, g) :
                  r.column[SigOf(s, g)][u][RowOf(s, g)] =
                    IF SigOf(s, g) = SigOf(s, h) /\ u = t /\ RowOf(s, g) = RowOf(s, h) THEN v
                    ELSE s.column[SigOf(s, g)][u][RowOf(s, g)]
  <2>1. /\ SigOf(s, g) \in Signature /\ SigOf(s, g) \subseteq Type
        /\ RowOf(s, g) \in 1 .. Len(s.rows[SigOf(s, g)])
    BY Placed DEF CountOf
  <2>2. \A u \in SigOf(s, g) : RowOf(s, g) \in 1 .. Len(s.column[SigOf(s, g)][u])
    BY <2>1 DEF StoreInv, Filled
  <2>3. r.location[g] = s.location[g]
    BY <1>1 DEF ValueSet
  <2>4. SigOf(r, g) = SigOf(s, g) /\ RowOf(r, g) = RowOf(s, g)
    BY <2>3 DEF SigOf, RowOf
  <2>5. QED
    BY <1>1, <2>1, <2>2, <2>4 DEF ValueSet
<1>3. ASSUME NEW g \in DOMAIN s.location \ {h} PROVE ValuesOf(r, g) = ValuesOf(s, g)
  <2>1. ~(SigOf(s, g) = SigOf(s, h) /\ RowOf(s, g) = RowOf(s, h))
    <3>1. s.rows[SigOf(s, g)][RowOf(s, g)] = g /\ s.rows[SigOf(s, h)][RowOf(s, h)] = h
      BY Placed
    <3>2. QED
      BY <3>1
  <2>2. QED
    BY <1>2, <2>1 DEF ValuesOf
<1>4. ValuesOf(r, h) = [u \in SigOf(s, h) |-> IF u = t THEN v ELSE ValuesOf(s, h)[u]]
  BY <1>2 DEF ValuesOf
<1>5. QED
  BY <1>3, <1>4 DEF r

\* What an entity has, nothing if the store does not track it.
Had(s, h) == IF h \in DOMAIN s.location THEN ValuesOf(s, h) ELSE [x \in {} |-> x]

\* AddComponent gives the named entity one value, and changes no other.
LEMMA AddToKept ==
  ASSUME NEW s, StoreInv(s), NEW h \in Handle, NEW t \in Type, NEW v \in Value
  PROVE  /\ \A g \in DOMAIN s.location \ {h} : ValuesOf(AddTo(s, h, t, v), g) = ValuesOf(s, g)
         /\ ValuesOf(AddTo(s, h, t, v), h) =
              [u \in DOMAIN Had(s, h) \cup {t} |-> IF u = t THEN v ELSE Had(s, h)[u]]
<1> DEFINE tracked == EnsureEntityTracked(s, h)
           to == SigOf(tracked, h) \cup {t}
           typed == IF Has(tracked, h, t) THEN tracked ELSE MigrateEntity(tracked, h, to)
<1>1. StoreInv(tracked) /\ h \in DOMAIN tracked.location
      /\ DOMAIN tracked.location = DOMAIN s.location \cup {h}
  BY TrackInv
<1>2. /\ \A g \in DOMAIN s.location \ {h} : ValuesOf(tracked, g) = ValuesOf(s, g)
      /\ ValuesOf(tracked, h) = Had(s, h)
  BY TrackKept DEF Had
<1>3. AddTo(s, h, t, v) = SetValue(typed, h, t, v)
  BY DEF AddTo, SigOf
<1> HIDE DEF tracked
<1>4. DOMAIN ValuesOf(tracked, h) = SigOf(tracked, h)
  BY DEF ValuesOf
<1>5. /\ StoreInv(typed) /\ DOMAIN typed.location = DOMAIN tracked.location
      /\ SigOf(typed, h) = to
      /\ \A g \in DOMAIN s.location \ {h} : ValuesOf(typed, g) = ValuesOf(tracked, g)
      /\ \A u \in SigOf(tracked, h) : ValuesOf(typed, h)[u] = ValuesOf(tracked, h)[u]
  <2>1. CASE t \in SigOf(tracked, h)
    <3>1. typed = tracked /\ to = SigOf(tracked, h)
      BY <2>1 DEF Has, SigOf
    <3> HIDE DEF typed, to
    <3>2. QED
      BY <3>1, <1>1
  <2>2. CASE t \notin SigOf(tracked, h)
    <3>1. to \in Signature /\ to # SigOf(tracked, h)
      BY <2>2, <1>1 DEF StoreInv, Located, SigOf, Signature
    <3>2. typed = MigrateEntity(tracked, h, to)
      BY <2>2 DEF Has, SigOf
    <3>3. SigOf(tracked, h) \subseteq to
      OBVIOUS
    <3> HIDE DEF typed, to
    <3>4. MigratedTo(tracked, h, to, typed)
      BY <3>1, <3>2, <1>1, MigrateShape
    <3>5. SigOf(typed, h) = to
      BY <3>4, SMTT(30) DEF MigratedTo, SigOf
    <3>6. StoreInv(typed) /\ DOMAIN typed.location = DOMAIN tracked.location
      BY <3>1, <3>2, <1>1, MigrateInv
    <3>7. /\ \A g \in DOMAIN tracked.location \ {h} : ValuesOf(typed, g) = ValuesOf(tracked, g)
          /\ ValuesOf(typed, h) = [u \in to |-> IF u \in SigOf(tracked, h)
                                                THEN ValuesOf(tracked, h)[u] ELSE Default]
      BY <3>1, <3>2, <1>1, MigrateKept
    <3>8. QED
      BY <3>3, <3>5, <3>6, <3>7, <1>1
  <2>3. QED
    BY <2>1, <2>2
<1> HIDE DEF typed
<1>6. /\ \A g \in DOMAIN typed.location \ {h} :
           ValuesOf(SetValue(typed, h, t, v), g) = ValuesOf(typed, g)
      /\ ValuesOf(SetValue(typed, h, t, v), h) =
           [u \in to |-> IF u = t THEN v ELSE ValuesOf(typed, h)[u]]
  <2>1. h \in DOMAIN typed.location /\ t \in to
    BY <1>1, <1>5
  <2> HIDE DEF to
  <2>2. t \in SigOf(typed, h)
    BY <2>1, <1>5
  <2>3. /\ \A g \in DOMAIN typed.location \ {h} :
             ValuesOf(SetValue(typed, h, t, v), g) = ValuesOf(typed, g)
        /\ ValuesOf(SetValue(typed, h, t, v), h) =
             [u \in SigOf(typed, h) |-> IF u = t THEN v ELSE ValuesOf(typed, h)[u]]
    BY <2>1, <2>2, <1>5, SetValueKept
  <2>4. QED
    BY <2>3, <1>5
<1>7. [u \in to |-> IF u = t THEN v ELSE ValuesOf(typed, h)[u]] =
        [u \in to |-> IF u = t THEN v ELSE ValuesOf(tracked, h)[u]]
  BY <1>5
<1>8. to = DOMAIN Had(s, h) \cup {t}
  BY <1>2, <1>4
<1> HIDE DEF to
<1>9. QED
  BY <1>1, <1>2, <1>3, <1>5, <1>6, <1>7, <1>8

-----------------------------------------------------------------------------
(* The steps of the map.                                                   *)

\* The map the tables stand for, and what it has of an entity.
LEMMA MapOf ==
  /\ Components = [g \in DOMAIN store.location |-> ValuesOf(store, g)]
  /\ Components' = [g \in DOMAIN store'.location |-> ValuesOf(store', g)]
  /\ \A h : Map!Of(h) = Had(store, h)
<1>1. Components = [g \in DOMAIN store.location |-> ValuesOf(store, g)]
  BY DEF Components, ValuesOf, SigOf, RowOf
<1>2. Components' = [g \in DOMAIN store'.location |-> ValuesOf(store', g)]
  BY DEF Components, ValuesOf, SigOf, RowOf
<1>3. ASSUME NEW h PROVE Map!Of(h) = Had(store, h)
  BY <1>1 DEF Map!Of, Map!Nothing, Had
<1>4. QED
  BY <1>1, <1>2, <1>3

\* The validity a step leaves depends on the book alone.
LEMMA ValidKept == ASSUME UNCHANGED book PROVE Valid' = Valid
  BY DEF book, Valid, IsEntityValid

\* CreateEntity makes one handle valid, with what it left behind.
LEMMA CreateStep == ASSUME IInv, CreateEntity PROVE \E h \in Handle : Map!Create(h)
<1> DEFINE e == NewEntity
<1>1. e \in Handle /\ e.id \notin alive
  BY NewHandle DEF CreateEntity
<1>2. entities' = entities \cup {e} /\ store' = EnsureEntityTracked(store, e)
  BY DEF CreateEntity
<1>3. IInv'
  BY CreateInv
<1> HIDE DEF e
<1>4. Valid = entities /\ Valid' = entities' /\ e \notin Valid
  BY <1>1, <1>3 DEF IInv, IndicesExact, Valid, IsEntityValid
<1>5. /\ DOMAIN store'.location = DOMAIN store.location \cup {e}
      /\ \A g \in DOMAIN store.location : ValuesOf(store', g) = ValuesOf(store, g)
      /\ ValuesOf(store', e) = Had(store, e)
  BY <1>1, <1>2, TrackInv, TrackKept DEF IInv, Had
<1>6. Components' = Map!With(Components, e, Map!Of(e))
  BY <1>5, MapOf DEF Map!With
<1>7. Map!Create(e)
  BY <1>2, <1>4, <1>6 DEF Map!Create
<1>8. QED
  BY <1>1, <1>7

\* DestroyEntity takes a valid entity and its components.
LEMMA DestroyStep ==
  ASSUME IInv, NEW h \in issued, DestroyEntity(h)
  PROVE  Map!Destroy(h)
<1>1. entities' = entities \ {h} /\ h \in Valid
  BY DEF DestroyEntity, Valid
<1>2. IInv'
  BY DestroyInv
<1>3. Valid = entities /\ Valid' = entities'
  BY <1>2 DEF IInv, IndicesExact
<1>4. Components' = Map!Without(Components, h)
  <2>1. CASE h \in DOMAIN store.location
    <3>1. store' = Untrack(store, h)
      BY <2>1 DEF DestroyEntity
    <3>2. DOMAIN store'.location = DOMAIN store.location \ {h}
      BY <2>1, <3>1, UntrackInv DEF IInv
    <3>3. \A g \in DOMAIN store.location \ {h} : ValuesOf(store', g) = ValuesOf(store, g)
      BY <2>1, <3>1, UntrackKept DEF IInv
    <3>4. QED
      BY <3>2, <3>3, MapOf DEF Map!Without
  <2>2. CASE h \notin DOMAIN store.location
    <3>1. store' = store
      BY <2>2 DEF DestroyEntity
    <3>2. DOMAIN store.location \ {h} = DOMAIN store.location
      BY <2>2
    <3>3. QED
      BY <3>1, <3>2, MapOf DEF Map!Without
  <2>3. QED
    BY <2>1, <2>2
<1>5. QED
  BY <1>1, <1>3, <1>4 DEF Map!Destroy

\* AddComponent puts one value.
LEMMA AddStep ==
  ASSUME IInv, NEW h \in issued, NEW t \in Type, NEW v \in Value, AddComponent(h, t, v)
  PROVE  Map!Put(h, t, v)
<1>1. h \in Handle /\ store' = AddTo(store, h, t, v) /\ StoreInv(store)
  BY DEF IInv, WorldTypeOK, AddComponent
<1>2. DOMAIN store'.location = DOMAIN store.location \cup {h}
  BY <1>1, AddToInv
<1>3. /\ \A g \in DOMAIN store.location \ {h} : ValuesOf(store', g) = ValuesOf(store, g)
      /\ ValuesOf(store', h) =
           [u \in DOMAIN Had(store, h) \cup {t} |-> IF u = t THEN v ELSE Had(store, h)[u]]
  BY <1>1, AddToKept
<1>4. ValuesOf(store', h) = Map!With(Map!Of(h), t, v)
  BY <1>3, MapOf DEF Map!With
<1>5. Components' = Map!With(Components, h, Map!With(Map!Of(h), t, v))
  <2> DEFINE c == Map!With(Map!Of(h), t, v)
  <2>1. ValuesOf(store', h) = c
    BY <1>4
  <2> HIDE DEF c
  <2>2. Components' = Map!With(Components, h, c)
    BY <2>1, <1>2, <1>3, MapOf DEF Map!With
  <2>3. QED
    BY <2>2 DEF c
<1>6. Valid' = Valid
  BY ValidKept DEF AddComponent
<1>7. QED
  BY <1>5, <1>6 DEF Map!Put

\* RemoveComponent drops one value.
LEMMA RemoveStep ==
  ASSUME IInv, NEW h \in issued, NEW t \in Type, RemoveComponent(h, t)
  PROVE  Map!Drop(h, t)
<1> DEFINE to == SigOf(store, h) \ {t}
<1>1. h \in DOMAIN store.location /\ t \in SigOf(store, h) /\ SigOf(store, h) \in Signature
  BY DEF RemoveComponent, Has, SigOf, IInv, StoreInv, Located
<1>2. to \in Signature /\ to # SigOf(store, h) /\ to \subseteq SigOf(store, h)
  BY <1>1 DEF Signature
<1>3. store' = MigrateEntity(store, h, to)
  BY DEF RemoveComponent, SigOf
<1>4. DOMAIN ValuesOf(store, h) \ {t} = to /\ Had(store, h) = ValuesOf(store, h)
  BY <1>1 DEF ValuesOf, Had
<1> HIDE DEF to
<1>5. DOMAIN store'.location = DOMAIN store.location
  BY <1>1, <1>2, <1>3, MigrateInv DEF IInv
<1>6. /\ \A g \in DOMAIN store.location \ {h} : ValuesOf(store', g) = ValuesOf(store, g)
      /\ ValuesOf(store', h) =
           [u \in to |-> IF u \in SigOf(store, h) THEN ValuesOf(store, h)[u] ELSE Default]
  BY <1>1, <1>2, <1>3, MigrateKept DEF IInv
<1>7. ValuesOf(store', h) = [u \in to |-> ValuesOf(store, h)[u]]
  BY <1>2, <1>6
<1> DEFINE c == Map!Without(Map!Of(h), t)
<1>8. ValuesOf(store', h) = c
  BY <1>4, <1>7, MapOf DEF Map!Without
<1> HIDE DEF c
<1>9. Components' = Map!With(Components, h, c)
  BY <1>1, <1>5, <1>6, <1>8, MapOf DEF Map!With
<1>10. h \in DOMAIN Components
  BY <1>1, MapOf
<1>11. Valid' = Valid
  BY ValidKept DEF RemoveComponent
<1>12. QED
  BY <1>9, <1>10, <1>11 DEF Map!Drop, c

\* The tables implement the map: every operation of the world, on a valid or
\* a stale handle, is one operation of the map on that handle.
THEOREM Implements == WorldSpec => MapSpec
<1>1. WorldInit => Map!Init
  <2> SUFFICES ASSUME WorldInit PROVE Map!Init
    OBVIOUS
  <2>1. Valid = {}
    BY DEF WorldInit, Valid
  <2>2. DOMAIN store.location = {}
    BY DEF WorldInit
  <2>3. Components = Map!Nothing
    BY <2>2, MapOf DEF Map!Nothing
  <2>4. QED
    BY <2>1, <2>3 DEF Map!Init
<1>2. IInv /\ [WorldNext]_entityVars => [Map!Next]_Map!vars
  <2> SUFFICES ASSUME IInv, [WorldNext]_entityVars PROVE [Map!Next]_Map!vars
    OBVIOUS
  <2>1. issued \subseteq Handle
    BY DEF IInv, WorldTypeOK
  <2>2. CASE CreateEntity
    BY <2>2, CreateStep DEF Map!Next
  <2>3. ASSUME NEW h \in issued, DestroyEntity(h) PROVE Map!Next
    BY <2>1, <2>3, DestroyStep DEF Map!Next
  <2>4. ASSUME NEW h \in issued, NEW t \in Type, RemoveComponent(h, t) PROVE Map!Next
    BY <2>1, <2>4, RemoveStep DEF Map!Next
  <2>5. ASSUME NEW h \in issued, NEW t \in Type, NEW v \in Value, AddComponent(h, t, v)
        PROVE  Map!Next
    BY <2>1, <2>5, AddStep DEF Map!Next
  <2>6. CASE UNCHANGED entityVars
    BY <2>6, MapOf, ValidKept DEF entityVars, Map!vars
  <2>7. QED
    BY <2>2, <2>3, <2>4, <2>5, <2>6 DEF WorldNext
<1>3. QED
  BY <1>1, <1>2, Invariant, PTL DEF WorldSpec, MapSpec, Map!Spec

-----------------------------------------------------------------------------
(* Assets.                                                                 *)
Handles == [byKey : Nat, byName : Nat]

AssetTypes ==
  /\ packages \in [Package -> Nat] /\ holds \in [Package -> Nat]
  /\ assets \in [Key -> Nat] /\ handles \in [Key -> Handles]
  /\ DOMAIN loader = Loader
  /\ \A t \in Loader : /\ loader[t].at = "package" => loader[t].package \in Package
                       /\ loader[t].at = "read" => loader[t].key \in Key

AssetInv == AssetTypes /\ HandlesCounted /\ IsFiniteSet(LoadedAssets)

\* A reference is taken.
LEMMA TakeCounted ==
  ASSUME AssetInv, NEW k \in Key, NEW asked, TakeAsset(k, asked)
  PROVE  /\ assets' \in [Key -> Nat] /\ handles' \in [Key -> Handles]
         /\ \A j \in Key : assets'[j] = handles'[j].byKey + handles'[j].byName
         /\ IsFiniteSet(LoadedAssets')
<1>1. /\ assets' = [assets EXCEPT ![k] = @ + 1]
      /\ \/ handles' = [handles EXCEPT ![k].byKey = @ + 1]
         \/ handles' = [handles EXCEPT ![k].byName = @ + 1]
  BY DEF TakeAsset
<1>2. /\ assets' \in [Key -> Nat] /\ assets'[k] = assets[k] + 1
      /\ \A j \in Key : j # k => assets'[j] = assets[j]
  BY <1>1 DEF AssetInv, AssetTypes
<1>3. /\ handles' \in [Key -> Handles]
      /\ handles'[k].byKey + handles'[k].byName = handles[k].byKey + handles[k].byName + 1
      /\ \A j \in Key : j # k => handles'[j] = handles[j]
  BY <1>1, SMTT(30) DEF AssetInv, AssetTypes, Handles
<1>4. LoadedAssets' \subseteq LoadedAssets \cup {k}
  BY <1>2 DEF LoadedAssets
<1>5. IsFiniteSet(LoadedAssets \cup {k})
  BY FS_AddElement DEF AssetInv
<1>6. IsFiniteSet(LoadedAssets')
  BY <1>4, <1>5, FS_Subset
<1>7. QED
  BY <1>2, <1>3, <1>6 DEF AssetInv, HandlesCounted

\* A reference is given back: that of a handle, of the same asset.
LEMMA GiveCounted ==
  ASSUME AssetInv, NEW k \in Key, NEW asked \in {"byKey", "byName"}, handles[k][asked] > 0,
         handles' = [handles EXCEPT ![k][asked] = @ - 1],
         assets' = [assets EXCEPT ![k] = IF @ > 0 THEN @ - 1 ELSE 0]
  PROVE  /\ assets' \in [Key -> Nat] /\ handles' \in [Key -> Handles]
         /\ \A j \in Key : assets'[j] = handles'[j].byKey + handles'[j].byName
         /\ IsFiniteSet(LoadedAssets')
<1>1. handles[k].byKey \in Nat /\ handles[k].byName \in Nat /\ handles[k] \in Handles
      /\ assets[k] = handles[k].byKey + handles[k].byName
  BY DEF AssetInv, AssetTypes, Handles, HandlesCounted
<1>2. assets[k] > 0
  BY <1>1
<1>3. /\ assets' \in [Key -> Nat] /\ assets'[k] = assets[k] - 1
      /\ \A j \in Key : j # k => assets'[j] = assets[j]
  BY <1>1, <1>2 DEF AssetInv, AssetTypes
<1>4. /\ handles' \in [Key -> Handles]
      /\ handles'[k].byKey + handles'[k].byName = handles[k].byKey + handles[k].byName - 1
      /\ \A j \in Key : j # k => handles'[j] = handles[j]
  <2>1. CASE asked = "byKey"
    BY <1>1, <2>1 DEF AssetInv, AssetTypes, Handles
  <2>2. CASE asked = "byName"
    BY <1>1, <2>2 DEF AssetInv, AssetTypes, Handles
  <2>3. QED
    BY <2>1, <2>2
<1>5. LoadedAssets' \subseteq LoadedAssets
  BY <1>2, <1>3 DEF LoadedAssets
<1>6. IsFiniteSet(LoadedAssets')
  BY <1>5, FS_Subset DEF AssetInv
<1>7. QED
  BY <1>1, <1>3, <1>4, <1>6 DEF AssetInv, HandlesCounted

\* What is found under a name is what the name names.
LEMMA NamedSound ==
  ASSUME NEW S \in SUBSET Key, NEW asked
  PROVE  Named(S, asked) \subseteq S
BY DEF Named

\* A name under which an asset is loaded names that asset or nothing.
LEMMA NameUnique ==
  ASSUME AssetInv, NEW k \in Key, handles[k].byName > 0, NEW found \in Named(LoadedAssets, k[2])
  PROVE  found = k
<1>1. k[2] \in Name /\ k[2] \notin Key
  BY AssetAssumption DEF Key
<1>2. k \in LoadedAssets
  BY DEF AssetInv, AssetTypes, Handles, HandlesCounted, LoadedAssets
<1> DEFINE S == {j \in LoadedAssets : j[2] = k[2]}
<1>3. found \in S /\ Cardinality(S) = 1
  BY <1>1 DEF Named
<1>4. k \in S
  BY <1>2
<1>5. IsFiniteSet(S)
  BY FS_Subset DEF AssetInv
<1> HIDE DEF S
<1>6. PICK x : S = {x}
  BY <1>3, <1>5, FS_Singleton
<1>7. QED
  BY <1>3, <1>4, <1>6

\* A load of a package.
LEMMA PackageCounted ==
  ASSUME AssetInv, NEW p \in Package, TakePackage(p)
  PROVE  /\ packages' \in [Package -> Nat] /\ holds' \in [Package -> Nat]
         /\ \A q \in Package : packages'[q] = holds'[q]
BY DEF AssetInv, AssetTypes, HandlesCounted, TakePackage

\* Every step keeps the counts.
LEMMA NextAssets ==
  ASSUME AssetInv, [AssetNext]_assetVars
  PROVE  AssetInv'
<1> DEFINE A == UNCHANGED <<assets, handles>>
           P == UNCHANGED <<packages, holds>>
           L == /\ DOMAIN loader' = Loader
                /\ \A t \in Loader : /\ loader'[t].at = "package" => loader'[t].package \in Package
                                     /\ loader'[t].at = "read" => loader'[t].key \in Key
           PC == /\ packages' \in [Package -> Nat] /\ holds' \in [Package -> Nat]
                 /\ \A p \in Package : packages'[p] = holds'[p]
           AC == /\ assets' \in [Key -> Nat] /\ handles' \in [Key -> Handles]
                 /\ \A k \in Key : assets'[k] = handles'[k].byKey + handles'[k].byName
                 /\ IsFiniteSet(LoadedAssets')
<1>1. P => PC
  BY DEF AssetInv, AssetTypes, HandlesCounted
<1>2. A => AC
  BY DEF AssetInv, AssetTypes, HandlesCounted, LoadedAssets
<1>3. UNCHANGED loader => L
  BY DEF AssetInv, AssetTypes
<1>4. \A t \in Loader : \A y : loader' = [loader EXCEPT ![t] = y] /\ y.at \notin {"package", "read"} => L
  BY DEF AssetInv, AssetTypes
<1>5. \A asked, async : After(asked, async).at \notin {"package", "read"}
  BY DEF After, IdleLoader
<1>6. \A k \in Key : \A asked : TakeAsset(k, asked) => AC
  BY TakeCounted
<1>7. \A p \in Package : TakePackage(p) => PC
  BY PackageCounted
<1>8. PC /\ AC /\ L => AssetInv'
  BY DEF AssetInv, AssetTypes, HandlesCounted
<1>9. LoadedAssets \in SUBSET Key
  BY DEF LoadedAssets
<1> HIDE DEF A, P, L, PC, AC
<1>10. ASSUME NEW t \in Loader, NEW p \in Package, LoadPackage(t, p)
       PROVE  PC /\ AC /\ L
  <2>1. A
    BY <1>10 DEF LoadPackage, A
  <2>2. CASE packages[p] > 0
    BY <1>10, <2>1, <2>2, <1>2, <1>3, <1>7 DEF LoadPackage
  <2>3. CASE ~ packages[p] > 0
    <3>1. P /\ loader' = [loader EXCEPT ![t] = [at |-> "package", package |-> p, async |-> FALSE]]
      BY <1>10, <2>3 DEF LoadPackage, P
    <3>2. L
      BY <3>1 DEF L, AssetInv, AssetTypes
    <3>3. QED
      BY <2>1, <3>1, <3>2, <1>1, <1>2
  <2>4. QED
    BY <2>2, <2>3
<1>11. ASSUME NEW t \in Loader, PackageRead(t)
       PROVE  PC /\ AC /\ L
  <2>1. loader[t].package \in Package
    BY <1>11 DEF PackageRead, AssetInv, AssetTypes
  <2>2. PC
    BY <1>11, <2>1, <1>1, <1>7 DEF PackageRead, P
  <2>3. L
    BY <1>11, <1>4 DEF PackageRead, IdleLoader
  <2>4. A
    BY <1>11 DEF PackageRead, A
  <2>5. QED
    BY <2>2, <2>3, <2>4, <1>2
<1>12. ASSUME NEW t \in Loader, NEW asked, NEW async, LookUpLoaded(t, asked, async)
       PROVE  AC /\ L
  <2>1. ASSUME NEW k \in Named(LoadedAssets, asked), TakeAsset(k, asked),
               loader' = [loader EXCEPT ![t] = After(asked, async)]
        PROVE  AC /\ L
    <3>1. k \in Key
      BY <1>9, NamedSound
    <3>2. QED
      BY <2>1, <3>1, <1>4, <1>5, <1>6
  <2>2. ASSUME loader' = [loader EXCEPT ![t] = [at |-> "find", asked |-> asked, async |-> async]], A
        PROVE  AC /\ L
    BY <2>2, <1>2, <1>4
  <2>3. QED
    BY <1>12, <2>1, <2>2 DEF LookUpLoaded, A
<1>13. ASSUME NEW t \in Loader, FindPackage(t)
       PROVE  PC /\ AC /\ L
  <2> DEFINE found == Named({k \in Key : packages[k[1]] > 0 /\ k[2] \in Contents[k[1]]}, loader[t].asked)
             k == CHOOSE k \in found : TRUE
  <2>1. A /\ P
    BY <1>13 DEF FindPackage, A, P
  <2>2. loader' = [loader EXCEPT ![t] =
           IF found = {} THEN After(loader[t].asked, @.async)
           ELSE [at |-> "read", asked |-> loader[t].asked, key |-> k, async |-> @.async]]
    BY <1>13 DEF FindPackage
  <2>3. CASE found = {}
    BY <2>1, <2>2, <2>3, <1>1, <1>2, <1>4, <1>5
  <2>4. CASE found # {}
    <3>1. k \in Key
      BY <2>4, NamedSound
    <3>2. loader' = [loader EXCEPT ![t] =
             [at |-> "read", asked |-> loader[t].asked, key |-> k, async |-> loader[t].async]]
      BY <2>2, <2>4
    <3>3. L
      BY <3>1, <3>2 DEF L, AssetInv, AssetTypes
    <3>4. QED
      BY <2>1, <3>3, <1>1, <1>2
  <2>5. QED
    BY <2>3, <2>4
<1>14. ASSUME NEW t \in Loader, StoreAsset(t)
       PROVE  PC /\ AC /\ L
  <2>1. loader[t].key \in Key
    BY <1>14 DEF StoreAsset, AssetInv, AssetTypes
  <2>2. AC
    BY <1>14, <2>1, <1>2, <1>6 DEF StoreAsset, A
  <2>3. L
    BY <1>14, <1>4, <1>5 DEF StoreAsset
  <2>4. P
    BY <1>14 DEF StoreAsset, P
  <2>5. QED
    BY <2>2, <2>3, <2>4, <1>1
<1>15. ASSUME NEW t \in Loader, StartTask(t) \/ \E r \in Request : LoadAssetSync(t, r)
       PROVE  PC /\ AC /\ L
  <2>1. P /\ \E asked, async : LookUpLoaded(t, asked, async)
    BY <1>15 DEF StartTask, LoadAssetSync, P
  <2>2. QED
    BY <2>1, <1>1, <1>12
<1>16. ASSUME NEW t \in Loader, PushAnswer(t)
       PROVE  PC /\ AC /\ L
  BY <1>16, <1>1, <1>2, <1>4 DEF PushAnswer, IdleLoader, A, P
<1>17. ASSUME NEW p \in Package, UnloadPackage(p)
       PROVE  PC /\ AC /\ L
  <2>1. A /\ UNCHANGED loader
    BY <1>17 DEF UnloadPackage, A
  <2>2. packages[p] = holds[p] /\ holds[p] \in Nat /\ holds[p] > 0
    BY <1>17 DEF UnloadPackage, AssetInv, AssetTypes, HandlesCounted
  <2>3. PC
    BY <1>17, <2>2 DEF UnloadPackage, AssetInv, AssetTypes, HandlesCounted, PC
  <2>4. QED
    BY <2>1, <2>3, <1>2, <1>3
<1>18. ASSUME NEW k \in Key, AddRef(k)
       PROVE  PC /\ AC /\ L
  BY <1>18, <1>1, <1>3, <1>6 DEF AddRef, P
<1>19. ASSUME NEW k \in Key, UnloadHandle(k)
       PROVE  PC /\ AC /\ L
  <2>1. P /\ UNCHANGED loader
    BY <1>19 DEF UnloadHandle, P
  <2>2. AC
    BY <1>19, GiveCounted DEF UnloadHandle, AC
  <2>3. QED
    BY <2>1, <2>2, <1>1, <1>3
<1>20. ASSUME NEW k \in Key, UnloadName(k)
       PROVE  PC /\ AC /\ L
  <2>1. P /\ UNCHANGED loader /\ handles[k].byName > 0
    BY <1>20 DEF UnloadName, P
  <2>2. CASE A
    BY <2>1, <2>2, <1>1, <1>2, <1>3
  <2>3. ASSUME NEW found \in Named(LoadedAssets, k[2]),
               assets' = [assets EXCEPT ![found] = @ - 1],
               handles' = [handles EXCEPT ![k].byName = @ - 1]
        PROVE  AC
    <3>1. found = k
      BY <2>1, NameUnique
    <3>2. k \in LoadedAssets
      BY <2>3, <3>1, <1>9, NamedSound
    <3>3. assets[k] > 0
      BY <3>2 DEF LoadedAssets
    <3>4. assets' = [assets EXCEPT ![k] = IF @ > 0 THEN @ - 1 ELSE 0]
      BY <2>3, <3>1, <3>3 DEF AssetInv, AssetTypes
    <3>5. handles' = [handles EXCEPT ![k]["byName"] = @ - 1] /\ handles[k]["byName"] > 0
      BY <2>1, <2>3
    <3>6. QED
      BY <3>4, <3>5, GiveCounted DEF AC
  <2>4. QED
    BY <1>20, <2>1, <2>2, <2>3, <1>1, <1>3 DEF UnloadName, A
<1>21. CASE Shutdown
  <2>1. UNCHANGED loader /\ PC
    BY <1>21 DEF Shutdown, PC
  <2>2. assets' = [k \in Key |-> 0] /\ handles' = [k \in Key |-> [byKey |-> 0, byName |-> 0]]
    BY <1>21 DEF Shutdown
  <2>3. LoadedAssets' = {}
    BY <2>2 DEF LoadedAssets
  <2>4. AC
    BY <2>2, <2>3, FS_EmptySet DEF AC, Handles
  <2>5. QED
    BY <2>1, <2>4, <1>3, <1>8
<1>22. CASE PumpAsyncCallbacks \/ (\E r \in Request : LoadAssetAsync(r)) \/ UNCHANGED assetVars
  <2>1. A /\ P /\ UNCHANGED loader
    BY <1>22 DEF PumpAsyncCallbacks, LoadAssetAsync, assetVars, A, P
  <2>2. QED
    BY <2>1, <1>1, <1>2, <1>3, <1>8
<1>23. QED
  BY <1>8, <1>10, <1>11, <1>13, <1>14, <1>15, <1>16, <1>17, <1>18, <1>19, <1>20, <1>21, <1>22 DEF AssetNext

\* AssetManager: the references counted are those handed out, so that no one's
\* handle is unloaded by another and nothing stays loaded that all have
\* released, however loads overlap and whatever a name came to mean.
THEOREM HandlesAreCounted == AssetSpec => []HandlesCounted
<1>1. AssetInit => AssetInv
  <2> SUFFICES ASSUME AssetInit
               PROVE  AssetInv
    OBVIOUS
  <2>1. LoadedAssets = {}
    BY DEF AssetInit, LoadedAssets
  <2>2. QED
    BY <2>1, FS_EmptySet DEF AssetInit, AssetInv, AssetTypes, HandlesCounted, Handles, IdleLoader
<1>2. AssetInv /\ [AssetNext]_assetVars => AssetInv'
  BY NextAssets
<1>3. AssetInv => HandlesCounted
  BY DEF AssetInv
<1>4. QED
  BY <1>1, <1>2, <1>3, PTL DEF AssetSpec

-----------------------------------------------------------------------------
(* Tasks.  The inductive invariant.                                        *)
(* An instance of which no step but the current one is in progress.        *)
SoundInstance(i) ==
  i \in Instance /\ \A s \in Step : i.steps[s] = "InProgress" => i.current = s

SoundTable(f, n) ==
  /\ f = [id \in DOMAIN f |-> f[id]] /\ DOMAIN f \subseteq 1..n
  /\ \A id \in DOMAIN f : SoundInstance(f[id])

(* What the calls make of the executor is one.                             *)
SoundExecutor(x) ==
  /\ x = [instances |-> x.instances, subscribed |-> x.subscribed, drawn |-> x.drawn]
  /\ x.drawn \in Nat
  /\ SoundTable(x.instances, x.drawn)
  /\ \A id \in DOMAIN x.instances : Registered(x.instances[id].task)

(* The definitions registered are those of their tasks.                    *)
Defined == \A t \in Task : definitions[t] \subseteq Definitions[t]

TaskTypes ==
  /\ Defined
  /\ definitions = [t \in Task |-> definitions[t]]
  /\ SoundExecutor(executor) /\ executor.drawn <= MaxInstances
  /\ saved # NoFile => SoundTable(saved, executor.drawn)

TaskInv == TaskTypes /\ NothingUnsaved

-----------------------------------------------------------------------------
(* One instance.                                                           *)

\* The definition of a registered task is one of its own.
LEMMA DefOfRegistered ==
  ASSUME NEW t \in Task, definitions[t] \subseteq Definitions[t], Registered(t)
  PROVE  /\ Def(t) \in Definitions[t]
         /\ Def(t).first \in Step \cup {NoStep} /\ Def(t).order \in Seq(Step)
         /\ Def(t).alternatives \in [Step -> Seq(Step)] /\ Def(t).next \in Seq(Task)
<1>1. Def(t) \in definitions[t]
  BY DEF Def, Registered
<1>2. Def(t) \in Definitions[t]
  BY <1>1
<1> DEFINE d == Def(t)
<1> HIDE DEF d
<1>3. QED
  BY <1>2, TaskAssumption DEF d

\* The first place of a sequence at which something holds is a place, if there is one.
LEMMA FirstOf ==
  ASSUME NEW n \in Nat, NEW I \in SUBSET (1 .. n), I # {}
  PROVE  Min(I) \in I
<1>1. I \subseteq Nat
  OBVIOUS
<1>2. \E m \in I : \A i \in I : ~ (<<i, m>> \in OpToRel(<, Nat))
  BY <1>1, WFMin, NatLessThanWellFounded
<1>3. PICK m \in I : \A i \in I : ~ (i < m)
  BY <1>1, <1>2 DEF OpToRel
<1>4. \A i \in I : m <= i
  BY <1>1, <1>3
<1>5. QED
  BY <1>4 DEF Min

Statuses == {"InProgress", "Completed", "Failed", "Abandoned"}

StepStatuses == {"Pending", "InProgress", "Completed", "Failed", "Blocked"}

\* The ways in which an instance is written.
LEMMA StepSet ==
  ASSUME NEW i \in Instance, NEW s \in Step, NEW v \in StepStatuses
  PROVE  /\ SetStep(i, s, v) \in Instance
         /\ SetStep(i, s, v).current = i.current
         /\ SetStep(i, s, v).task = i.task /\ SetStep(i, s, v).status = i.status
         /\ \A r \in Step : SetStep(i, s, v).steps[r] = IF r = s THEN v ELSE i.steps[r]
<1> DEFINE steps == [i.steps EXCEPT ![s] = v]
<1>1. steps \in [Step -> StepStatuses] /\ \A r \in Step : steps[r] = IF r = s THEN v ELSE i.steps[r]
  BY DEF Instance, StepStatuses
<1> HIDE DEF steps
<1>2. SetStep(i, s, v) = [i EXCEPT !.steps = steps]
  BY DEF SetStep, steps
<1>3. QED
  BY <1>1, <1>2 DEF Instance, StepStatuses

LEMMA Moved ==
  ASSUME NEW i \in Instance, NEW s \in Step
  PROVE  /\ MoveTo(i, s) \in Instance
         /\ MoveTo(i, s).current = s
         /\ MoveTo(i, s).task = i.task /\ MoveTo(i, s).status = i.status
         /\ MoveTo(i, s).steps = i.steps
BY DEF MoveTo, Instance

LEMMA StatusSet ==
  ASSUME NEW i \in Instance, NEW v \in Statuses
  PROVE  /\ [i EXCEPT !.status = v] \in Instance
         /\ [i EXCEPT !.status = v].current = i.current
         /\ [i EXCEPT !.status = v].task = i.task
         /\ [i EXCEPT !.status = v].steps = i.steps
BY DEF Instance, Statuses

LEMMA AchievedSet ==
  ASSUME NEW i \in Instance, NEW b \in BOOLEAN
  PROVE  /\ [i EXCEPT !.achieved = b] \in Instance
         /\ [i EXCEPT !.achieved = b].current = i.current
         /\ [i EXCEPT !.achieved = b].task = i.task
         /\ [i EXCEPT !.achieved = b].steps = i.steps
BY DEF Instance

(* No step is in progress: any may be entered.                             *)
Resting(i) == i \in Instance /\ \A s \in Step : i.steps[s] # "InProgress"

\* Entering a step of an instance that runs none.
LEMMA Entered ==
  ASSUME NEW i, Resting(i), NEW s \in Step, NEW d
  PROVE  SoundInstance(EnterStep(i, s, d)) /\ EnterStep(i, s, d).task = i.task
         /\ EnterStep(i, s, d).current = s
<1> DEFINE j == MoveTo(i, s)
<1>1. j \in Instance /\ j.current = s /\ j.task = i.task /\ j.steps = i.steps
  BY Moved DEF Resting
<1> HIDE DEF j
<1> DEFINE running == "InProgress"
           k == SetStep(j, s, running)
<1>2. running \in StepStatuses
  BY DEF StepStatuses
<1> HIDE DEF running
<1>3. /\ k \in Instance /\ k.current = s /\ k.task = i.task
      /\ \A r \in Step : k.steps[r] = IF r = s THEN running ELSE i.steps[r]
  BY <1>1, <1>2, StepSet
<1> HIDE DEF k
<1>4. SoundInstance(j) /\ SoundInstance(k)
  BY <1>1, <1>3 DEF SoundInstance, Resting
<1>5. EnterStep(i, s, d) = k \/ EnterStep(i, s, d) = j
  BY DEF EnterStep, k, j, running
<1>6. QED
  BY <1>1, <1>3, <1>4, <1>5

\* Entering the next step.
LEMMA EnteredNext ==
  ASSUME NEW i, Resting(i), NEW d, d.order \in Seq(Step), i.current \in Step
  PROVE  SoundInstance(EnterNext(i, d)) /\ EnterNext(i, d).task = i.task
         /\ EnterNext(i, d).current \in Step
<1> DEFINE I == {k \in 1 .. Len(d.order) : i.steps[d.order[k]] = "Pending"}
           s == IF I # {} THEN Min(I) ELSE 0
<1>1. Len(d.order) \in Nat /\ \A k \in 1 .. Len(d.order) : d.order[k] \in Step
  BY ElementOfSeq, LenProperties
<1>2. I # {} => Min(I) \in I
  BY <1>1, FirstOf
<1>3. s = 0 \/ s \in 1 .. Len(d.order)
  BY <1>2
<1>4. EnterNext(i, d) = IF s = 0 THEN i ELSE EnterStep(i, d.order[s], d)
  BY DEF EnterNext, SelectInSeq
<1> HIDE DEF s
<1>5. CASE s = 0
  BY <1>4, <1>5 DEF SoundInstance, Resting
<1>6. CASE s \in 1 .. Len(d.order)
  <2>1. EnterNext(i, d) = EnterStep(i, d.order[s], d)
    BY <1>1, <1>4, <1>6
  <2>2. QED
    BY <1>1, <1>6, <2>1, Entered
<1>7. QED
  BY <1>3, <1>5, <1>6

\* Setting the current step to anything that does not run leaves an instance that runs none.
LEMMA CurrentStops ==
  ASSUME NEW i, SoundInstance(i), NEW s \in Step, i.current = s, NEW v \in StepStatuses, v # "InProgress"
  PROVE  /\ Resting(SetStep(i, s, v)) /\ SetStep(i, s, v).task = i.task /\ SetStep(i, s, v).status = i.status
         /\ SetStep(i, s, v).current = s
<1>1. i \in Instance
  BY DEF SoundInstance
<1>2. /\ SetStep(i, s, v) \in Instance
      /\ SetStep(i, s, v).current = i.current
      /\ SetStep(i, s, v).task = i.task /\ SetStep(i, s, v).status = i.status
      /\ \A r \in Step : SetStep(i, s, v).steps[r] = IF r = s THEN v ELSE i.steps[r]
  BY <1>1, StepSet
<1>3. QED
  BY <1>2 DEF SoundInstance, Resting

\* An instance that runs no step is sound.
LEMMA RestingIsSound ==
  ASSUME NEW i, Resting(i)
  PROVE  SoundInstance(i)
BY DEF Resting, SoundInstance

\* UpdateCurrentStep leaves at most the current step running.
LEMMA Stepped ==
  ASSUME NEW i, SoundInstance(i), NEW d, d.order \in Seq(Step), d.first \in Step \cup {NoStep}
  PROVE  SoundInstance(UpdateCurrentStep(i, d)) /\ UpdateCurrentStep(i, d).task = i.task
<1> DEFINE now == i.current
           u == UpdateCurrentStep(i, d)
<1>0. now \in Step \cup {NoStep} /\ i \in Instance
  BY DEF SoundInstance, Instance
<1>1. CASE now = NoStep
  <2>1. Resting(i)
    BY <1>0, <1>1, TaskAssumption DEF SoundInstance, Resting
  <2>2. u = IF d.first = NoStep THEN i ELSE EnterStep(i, d.first, d)
    BY <1>1 DEF UpdateCurrentStep
  <2>3. CASE d.first = NoStep
    BY <2>2, <2>3
  <2>4. CASE d.first # NoStep
    <3>1. d.first \in Step
      BY <2>4
    <3>2. SoundInstance(EnterStep(i, d.first, d)) /\ EnterStep(i, d.first, d).task = i.task
      BY <2>1, <3>1, Entered
    <3>3. QED
      BY <2>2, <2>4, <3>2
  <2>5. QED
    BY <2>3, <2>4
<1>2. CASE now # NoStep
  <2> DEFINE over == "Completed"
             lost == "Failed"
             stopped == SetStep(i, now, over)
             done == EnterNext(stopped, d)
             stepped == IF Evaluate(d.completes[now]) THEN done ELSE i
             failed == SetStep(stepped, stepped.current, lost)
  <2>0. {over, lost} \subseteq StepStatuses /\ over # "InProgress" /\ lost # "InProgress"
    BY DEF StepStatuses
  <2>1. u = IF now \notin ToSet(d.order) \/ i.steps[now] # "InProgress" THEN i
            ELSE IF HasFailed(d, now) THEN failed ELSE stepped
    BY <1>2 DEF UpdateCurrentStep
  <2> HIDE DEF over, lost, u
  <2>2. now \in Step
    BY <1>0, <1>2
  <2>3. Resting(stopped) /\ stopped.task = i.task /\ stopped.current \in Step
    BY <2>0, <2>2, CurrentStops
  <2> HIDE DEF stopped
  <2>4. SoundInstance(done) /\ done.task = i.task /\ done.current \in Step
    BY <2>3, EnteredNext
  <2> HIDE DEF done
  <2>5. SoundInstance(stepped) /\ stepped.task = i.task /\ stepped.current \in Step
    BY <2>2, <2>4
  <2> HIDE DEF stepped
  <2>6. Resting(failed) /\ failed.task = i.task
    BY <2>0, <2>5, CurrentStops
  <2>7. SoundInstance(failed) /\ failed.task = i.task
    BY <2>6, RestingIsSound
  <2> HIDE DEF failed
  <2>8. QED
    BY <2>1, <2>5, <2>7 DEF u
<1>3. QED
  BY <1>1, <1>2

\* A place of a sequence that SelectInSeq finds.
LEMMA AlternativeStep ==
  ASSUME NEW i, i.current \in Step, NEW d, d.alternatives \in [Step -> Seq(Step)],
         Alternative(i, d) # 0
  PROVE  d.alternatives[i.current][Alternative(i, d)] \in Step
<1> DEFINE q == d.alternatives[i.current]
           I == {k \in 1 .. Len(q) : CanStart(d, q[k])}
<1>1. q \in Seq(Step)
  OBVIOUS
<1>2. Alternative(i, d) = IF I # {} THEN Min(I) ELSE 0
  BY DEF Alternative, SelectInSeq
<1>3. Len(q) \in Nat /\ \A k \in 1 .. Len(q) : q[k] \in Step
  BY <1>1, ElementOfSeq, LenProperties
<1> HIDE DEF q
<1>4. I \in SUBSET (1 .. Len(q))
  OBVIOUS
<1> HIDE DEF I
<1>5. I # {} => Min(I) \in I
  BY <1>3, <1>4, FirstOf
<1>6. Alternative(i, d) \in 1 .. Len(q)
  BY <1>2, <1>4, <1>5
<1>7. QED
  BY <1>3, <1>6 DEF q

\* Replanning, of the executor and of the replanner.
LEMMA ReplanIsSound ==
  ASSUME NEW i, SoundInstance(i), NEW d, d.order \in Seq(Step), d.alternatives \in [Step -> Seq(Step)]
  PROVE  /\ SoundInstance(Replanned(i, d)) /\ Replanned(i, d).task = i.task /\ Replanned(i, d).status = i.status
         /\ SoundInstance(Switched(i, d)) /\ Switched(i, d).task = i.task /\ Switched(i, d).status = i.status
<1> DEFINE now == i.current
           k == IF now \in ToSet(d.order) THEN Alternative(i, d) ELSE 0
           s == d.alternatives[now][k]
           pending == "Pending"
           blocked == "Blocked"
           running == "InProgress"
           undone == SetStep(i, now, pending)
           left == SetStep(i, now, blocked)
           moved == MoveTo(left, s)
           on == SetStep(moved, s, running)
           over == MoveTo(undone, s)
<1>0. now \in Step \cup {NoStep} /\ i \in Instance
  BY DEF SoundInstance, Instance
<1>1. {pending, blocked, running} \subseteq StepStatuses /\ pending # "InProgress" /\ blocked # "InProgress"
  BY DEF StepStatuses
<1>2. Replanned(i, d) = IF now = NoStep THEN i ELSE IF k = 0 THEN undone ELSE over
  BY DEF Replanned
<1>3. Switched(i, d) = IF k = 0 THEN i ELSE on
  BY DEF Switched
<1>4. k # 0 => now \in Step /\ s \in Step
  <2>1. ToSet(d.order) \subseteq Step
    BY Members
  <2>2. QED
    BY <2>1, AlternativeStep
<1> HIDE DEF k, s, pending, blocked, running
<1>5. now \in Step => Resting(undone) /\ undone.task = i.task /\ undone.status = i.status
  BY <1>1, CurrentStops
<1>6. now \in Step => Resting(left) /\ left.task = i.task /\ left.status = i.status
  BY <1>1, CurrentStops
<1> HIDE DEF undone, left
<1>7. k # 0 => SoundInstance(over) /\ over.task = i.task /\ over.status = i.status
  <2> SUFFICES ASSUME k # 0 PROVE SoundInstance(over) /\ over.task = i.task /\ over.status = i.status
    OBVIOUS
  <2>1. s \in Step /\ undone \in Instance /\ Resting(undone) /\ undone.task = i.task /\ undone.status = i.status
    BY <1>4, <1>5 DEF Resting
  <2>2. over \in Instance /\ over.task = i.task /\ over.status = i.status /\ over.steps = undone.steps
    BY <2>1, Moved
  <2>3. QED
    BY <2>1, <2>2 DEF Resting, SoundInstance
<1>8. k # 0 => SoundInstance(on) /\ on.task = i.task /\ on.status = i.status
  <2> SUFFICES ASSUME k # 0 PROVE SoundInstance(on) /\ on.task = i.task /\ on.status = i.status
    OBVIOUS
  <2>1. s \in Step /\ left \in Instance /\ Resting(left) /\ left.task = i.task /\ left.status = i.status
    BY <1>4, <1>6 DEF Resting
  <2>2. moved \in Instance /\ moved.task = i.task /\ moved.status = i.status /\ moved.steps = left.steps /\ moved.current = s
    BY <2>1, Moved
  <2> HIDE DEF moved
  <2>3. running \in StepStatuses
    BY <1>1
  <2>4. /\ SetStep(moved, s, running) \in Instance
        /\ SetStep(moved, s, running).current = moved.current
        /\ SetStep(moved, s, running).task = moved.task /\ SetStep(moved, s, running).status = moved.status
        /\ \A r \in Step : SetStep(moved, s, running).steps[r] = IF r = s THEN running ELSE moved.steps[r]
    BY <2>1, <2>2, <2>3, StepSet
  <2>5. /\ on \in Instance /\ on.task = i.task /\ on.status = i.status /\ on.current = s
        /\ \A r \in Step : on.steps[r] = IF r = s THEN running ELSE moved.steps[r]
    BY <2>2, <2>4
  <2>6. QED
    BY <2>1, <2>2, <2>5 DEF Resting, SoundInstance
<1> HIDE DEF over, on
<1>9. now # NoStep => SoundInstance(undone) /\ undone.task = i.task /\ undone.status = i.status
  BY <1>0, <1>5, RestingIsSound
<1>10. QED
  BY <1>2, <1>3, <1>7, <1>8, <1>9

-----------------------------------------------------------------------------
(* The executor.                                                           *)

(* A call makes y of x.                                                    *)
Grown(x, y) ==
  /\ SoundExecutor(y) /\ x.drawn <= y.drawn
  /\ DOMAIN x.instances \subseteq DOMAIN y.instances

\* An instance is written.
LEMMA PutIsSound ==
  ASSUME NEW x, SoundExecutor(x), NEW id \in DOMAIN x.instances,
         NEW i, SoundInstance(i), i.task = x.instances[id].task
  PROVE  Grown(x, Put(x, id, i))
<1> DEFINE f == [x.instances EXCEPT ![id] = i]
<1>1. /\ f = [k \in DOMAIN f |-> f[k]] /\ DOMAIN f = DOMAIN x.instances /\ f[id] = i
      /\ \A k \in DOMAIN f : k # id => f[k] = x.instances[k]
  BY DEF SoundExecutor, SoundTable
<1> HIDE DEF f
<1>2. Put(x, id, i) = [instances |-> f, subscribed |-> x.subscribed, drawn |-> x.drawn]
  BY DEF Put, SoundExecutor, f
<1>3. SoundTable(f, x.drawn)
  BY <1>1 DEF SoundExecutor, SoundTable
<1>4. \A k \in DOMAIN f : Registered(f[k].task)
  BY <1>1 DEF SoundExecutor
<1>5. QED
  BY <1>1, <1>2, <1>3, <1>4 DEF Grown, SoundExecutor

\* A new instance runs no step.
LEMMA NewIsSound ==
  ASSUME NEW t \in Task
  PROVE  SoundInstance(New(t)) /\ New(t).task = t
<1>1. New(t) \in Instance /\ New(t).task = t /\ \A s \in Step : New(t).steps[s] = "Pending"
  BY DEF New, Instance
<1>2. QED
  BY <1>1 DEF SoundInstance

\* Instances are started, with ids that were not drawn before.
LEMMA LaunchIsSound ==
  ASSUME NEW x, SoundExecutor(x), NEW chosen, NEW these \in SUBSET Nat, IsFiniteSet(these),
         \A k \in these : chosen[k] \in Task /\ Registered(chosen[k])
  PROVE  Grown(x, Launch(x, chosen, these))
<1> DEFINE NewId(k) == x.drawn + Cardinality({j \in these : j <= k})
           Nth(id) == CHOOSE k \in these : NewId(k) = id
           TaskOf(id) == chosen[Nth(id)]
           ids == {NewId(k) : k \in these}
           f == [id \in DOMAIN x.instances \cup ids |->
                   IF id \in ids THEN New(TaskOf(id)) ELSE x.instances[id]]
           z == Launch(x, chosen, these)
           n == Cardinality(these)
<1>1. n \in Nat /\ x.drawn \in Nat
  BY FS_CardinalityType DEF SoundExecutor
<1>2. \A k \in these : Cardinality({j \in these : j <= k}) \in 1 .. n
  <2> SUFFICES ASSUME NEW k \in these PROVE Cardinality({j \in these : j <= k}) \in 1 .. n
    OBVIOUS
  <2> DEFINE below == {j \in these : j <= k}
  <2>1. below \in SUBSET these /\ k \in below
    OBVIOUS
  <2> HIDE DEF below
  <2>2. IsFiniteSet(below) /\ Cardinality(below) <= n
    BY <2>1, FS_Subset
  <2>3. Cardinality(below) \in Nat /\ Cardinality(below) # 0
    BY <2>1, <2>2, FS_CardinalityType, FS_EmptySet
  <2>4. Cardinality(below) \in 1 .. n
    BY <1>1, <2>2, <2>3
  <2>5. QED
    BY <2>4 DEF below
<1>3. ids \subseteq 1 .. x.drawn + n
  <2>1. \A m \in 1 .. n : x.drawn + m \in 1 .. x.drawn + n
    BY <1>1
  <2>2. \A k \in these : NewId(k) \in 1 .. x.drawn + n
    BY <1>2, <2>1
  <2> HIDE DEF Id
  <2>3. QED
    BY <2>2
<1>4. \A id \in ids : Nth(id) \in these
  OBVIOUS
<1>5. \A id \in ids : TaskOf(id) \in Task /\ Registered(TaskOf(id))
  BY <1>4
<1> HIDE DEF Id, Nth
<1>6. \A id \in ids : SoundInstance(New(TaskOf(id))) /\ New(TaskOf(id)).task = TaskOf(id)
  BY <1>5, NewIsSound
<1>7. z = [instances |-> f, subscribed |-> z.subscribed, drawn |-> x.drawn + n]
  BY DEF Launch, Id, Nth
<1> HIDE DEF ids
<1>8. /\ f = [id \in DOMAIN f |-> f[id]] /\ DOMAIN f = DOMAIN x.instances \cup ids
      /\ \A id \in DOMAIN f : f[id] = IF id \in ids THEN New(TaskOf(id)) ELSE x.instances[id]
  OBVIOUS
<1> HIDE DEF f, z
<1>9. /\ DOMAIN x.instances \subseteq 1 .. x.drawn
      /\ \A id \in DOMAIN x.instances : SoundInstance(x.instances[id]) /\ Registered(x.instances[id].task)
  BY DEF SoundExecutor, SoundTable
<1>10. DOMAIN f \subseteq 1 .. x.drawn + n
  BY <1>1, <1>3, <1>8, <1>9
<1>11. \A id \in DOMAIN f : SoundInstance(f[id]) /\ Registered(f[id].task)
  <2> SUFFICES ASSUME NEW id \in DOMAIN f PROVE SoundInstance(f[id]) /\ Registered(f[id].task)
    OBVIOUS
  <2>1. CASE id \in ids
    <3>1. f[id] = New(TaskOf(id))
      BY <1>8, <2>1
    <3>2. QED
      BY <1>5, <1>6, <2>1, <3>1
  <2>2. CASE id \notin ids
    BY <1>8, <1>9, <2>2
  <2>3. QED
    BY <2>1, <2>2
<1>12. SoundTable(f, x.drawn + n)
  BY <1>8, <1>10, <1>11 DEF SoundTable
<1>13. z.instances = f /\ z.drawn = x.drawn + n /\ x.drawn + n \in Nat /\ x.drawn <= x.drawn + n
  BY <1>1, <1>7
<1>14. z = [instances |-> z.instances, subscribed |-> z.subscribed, drawn |-> z.drawn]
  BY <1>7, <1>13
<1>15. SoundExecutor(z)
  BY <1>11, <1>12, <1>13, <1>14 DEF SoundExecutor
<1>16. QED
  BY <1>8, <1>13, <1>15 DEF Grown, z

\* One call after the other.
LEMMA GrowsOn ==
  ASSUME NEW x, NEW y, NEW z, x.drawn \in Nat, Grown(x, y), Grown(y, z)
  PROVE  Grown(x, z)
<1>1. x.drawn <= y.drawn /\ y.drawn <= z.drawn /\ y.drawn \in Nat /\ z.drawn \in Nat
  BY DEF Grown, SoundExecutor
<1>2. x.drawn <= z.drawn
  BY <1>1
<1>3. QED
  BY <1>2 DEF Grown

\* No call: nothing is drawn.
LEMMA GrowsNot ==
  ASSUME NEW x, SoundExecutor(x)
  PROVE  Grown(x, x)
BY DEF Grown, SoundExecutor

\* An instance is that of a registered task.
LEMMA InstanceOf ==
  ASSUME Defined, NEW x, SoundExecutor(x), NEW id \in DOMAIN x.instances
  PROVE  LET i == x.instances[id] d == Def(i.task) IN
         /\ SoundInstance(i) /\ i \in Instance /\ i.task \in Task
         /\ d.first \in Step \cup {NoStep} /\ d.order \in Seq(Step)
         /\ d.alternatives \in [Step -> Seq(Step)] /\ d.next \in Seq(Task)
<1> DEFINE i == x.instances[id]
<1>1. SoundInstance(i) /\ i \in Instance /\ Registered(i.task)
  BY DEF SoundExecutor, SoundTable, SoundInstance
<1>2. i.task \in Task
  BY <1>1 DEF Instance
<1> HIDE DEF i
<1>3. definitions[i.task] \subseteq Definitions[i.task]
  BY <1>2 DEF Defined
<1>4. /\ Def(i.task).first \in Step \cup {NoStep} /\ Def(i.task).order \in Seq(Step)
      /\ Def(i.task).alternatives \in [Step -> Seq(Step)] /\ Def(i.task).next \in Seq(Task)
  BY <1>1, <1>2, <1>3, DefOfRegistered
<1>5. QED
  BY <1>1, <1>2, <1>4 DEF i

\* A status is set.
LEMMA StatusPut ==
  ASSUME Defined, NEW x, SoundExecutor(x), NEW id \in DOMAIN x.instances, NEW v \in Statuses
  PROVE  Grown(x, Put(x, id, [x.instances[id] EXCEPT !.status = v]))
<1> DEFINE i == x.instances[id]
           j == [i EXCEPT !.status = v]
<1>1. SoundInstance(i) /\ i \in Instance
  BY InstanceOf
<1> HIDE DEF i
<1>2. j \in Instance /\ j.current = i.current /\ j.task = i.task /\ j.steps = i.steps
  BY <1>1, StatusSet
<1> HIDE DEF j
<1>3. SoundInstance(j) /\ j.task = x.instances[id].task
  BY <1>1, <1>2 DEF SoundInstance, i
<1>4. Grown(x, Put(x, id, j))
  BY <1>3, PutIsSound
<1>5. QED
  BY <1>4 DEF i, j

\* CompleteTask starts those of the next tasks that accept themselves.
LEMMA CompleteIsSound ==
  ASSUME Defined, NEW x, SoundExecutor(x), NEW id \in DOMAIN x.instances
  PROVE  Grown(x, CompleteTask(x, id))
<1> DEFINE i == x.instances[id]
           next == Def(i.task).next
           these == {k \in DOMAIN next : AutoAccepts(next[k])}
           y == Put(x, id, [i EXCEPT !.status = "Completed"])
           z == Launch(y, next, these)
<1>1. "Completed" \in Statuses
  BY DEF Statuses
<1>2. Grown(x, y)
  BY <1>1, StatusPut
<1>3. next \in Seq(Task)
  BY InstanceOf
<1>4. CompleteTask(x, id) = IF i.status = "Completed" THEN x ELSE z
  BY DEF CompleteTask
<1> HIDE DEF next, y
<1>5. /\ Len(next) \in Nat /\ DOMAIN next = 1 .. Len(next)
      /\ \A k \in DOMAIN next : next[k] \in Task
  BY <1>3, ElementOfSeq, LenProperties
<1>6. these \in SUBSET Nat /\ IsFiniteSet(these)
  <2>1. IsFiniteSet(1 .. Len(next)) /\ these \in SUBSET (1 .. Len(next))
    BY <1>5, FS_Interval
  <2>2. QED
    BY <2>1, FS_Subset
<1>7. \A k \in these : next[k] \in Task /\ Registered(next[k])
  BY <1>5 DEF AutoAccepts
<1> HIDE DEF these
<1>8. Grown(y, z)
  BY <1>2, <1>6, <1>7, LaunchIsSound DEF Grown
<1> HIDE DEF z
<1>9. Grown(x, z)
  BY <1>2, <1>8, GrowsOn DEF SoundExecutor
<1>10. QED
  BY <1>4, <1>9, GrowsNot

\* UpdateTask.
LEMMA UpdateIsSound ==
  ASSUME Defined, NEW x, SoundExecutor(x), NEW id \in DOMAIN x.instances
  PROVE  Grown(x, UpdateTask(x, id))
<1> DEFINE d == Def(x.instances[id].task)
           stepped == UpdateCurrentStep(x.instances[id], d)
           b == stepped.achieved \/ Evaluate(d.achieved)
           i == [stepped EXCEPT !.achieved = b]
           y == Put(x, id, i)
           z == IF AllDone(i, d) THEN CompleteTask(y, id) ELSE y
           w == IF Evaluate(d.failed) THEN FailTask(z, id) ELSE z
<1>1. UpdateTask(x, id) = w
  BY DEF UpdateTask
<1>2. SoundInstance(x.instances[id]) /\ d.first \in Step \cup {NoStep} /\ d.order \in Seq(Step)
  BY InstanceOf
<1> HIDE DEF d
<1>3. SoundInstance(stepped) /\ stepped.task = x.instances[id].task
  BY <1>2, Stepped
<1> HIDE DEF stepped
<1>4. stepped \in Instance /\ b \in BOOLEAN
  BY <1>3 DEF SoundInstance
<1> HIDE DEF b
<1>5. i \in Instance /\ i.current = stepped.current /\ i.task = stepped.task /\ i.steps = stepped.steps
  BY <1>4, AchievedSet
<1> HIDE DEF i
<1>6. SoundInstance(i) /\ i.task = x.instances[id].task
  BY <1>3, <1>5 DEF SoundInstance
<1>7. Grown(x, y)
  BY <1>6, PutIsSound
<1> HIDE DEF y
<1>8. SoundExecutor(y) /\ id \in DOMAIN y.instances /\ x.drawn \in Nat /\ y.drawn \in Nat
  BY <1>7 DEF Grown, SoundExecutor
<1>9. Grown(y, CompleteTask(y, id)) /\ Grown(y, y)
  BY <1>8, CompleteIsSound, GrowsNot
<1>10. Grown(x, z)
  BY <1>7, <1>8, <1>9, GrowsOn
<1> HIDE DEF z
<1>11. SoundExecutor(z) /\ id \in DOMAIN z.instances
  BY <1>10 DEF Grown
<1>12. Grown(z, FailTask(z, id))
  <2>1. "Failed" \in Statuses
    BY DEF Statuses
  <2>2. QED
    BY <1>11, <2>1, StatusPut DEF FailTask
<1>13. Grown(x, FailTask(z, id))
  BY <1>8, <1>10, <1>12, GrowsOn
<1>14. QED
  BY <1>1, <1>10, <1>13

\* A finite set in some order.
LEMMA Ordered ==
  ASSUME NEW T, IsFiniteSet(T)
  PROVE  /\ Cardinality(T) \in Nat
         /\ SetToSeq(T) \in [1 .. Cardinality(T) -> T]
<1>1. Cardinality(T) \in Nat /\ ExistsBijection(1 .. Cardinality(T), T)
  BY FS_CardinalityType
<1> DEFINE n == Cardinality(T)
<1> HIDE DEF n
<1>2. \E f \in [1 .. n -> T] : IsInjective(f)
  BY <1>1 DEF ExistsBijection, Bijection, Injection, IsInjective, n
<1>3. SetToSeq(T) = CHOOSE f \in [1 .. n -> T] : IsInjective(f)
  BY DEF SetToSeq, n
<1>4. QED
  BY <1>1, <1>2, <1>3 DEF n

\* The scheduler starts registered tasks.
LEMMA AcceptIsSound ==
  ASSUME NEW x, SoundExecutor(x), NEW those \in SUBSET Task
  PROVE  Grown(x, AcceptTasks(x, those))
<1> DEFINE T == {t \in those : AutoAccepts(t) /\ CheckPrerequisites(x, t) /\ ~Tracked(x, t)}
           ready == SetToSeq(T)
           n == Cardinality(T)
<1>1. T \in SUBSET Task /\ IsFiniteSet(Task)
  BY TaskAssumption
<1>2. IsFiniteSet(T) /\ \A t \in T : t \in Task /\ Registered(t)
  BY <1>1, FS_Subset DEF AutoAccepts
<1>3. AcceptTasks(x, those) = Launch(x, ready, DOMAIN ready)
  BY DEF AcceptTasks
<1> HIDE DEF T
<1>4. n \in Nat /\ ready \in [1 .. n -> T]
  BY <1>2, Ordered
<1> HIDE DEF ready, n
<1>5. DOMAIN ready \in SUBSET Nat /\ IsFiniteSet(DOMAIN ready)
      /\ \A k \in DOMAIN ready : ready[k] \in Task /\ Registered(ready[k])
  BY <1>2, <1>4, FS_Interval
<1>6. Grown(x, Launch(x, ready, DOMAIN ready))
  BY <1>5, LaunchIsSound
<1>7. QED
  BY <1>3, <1>6

-----------------------------------------------------------------------------
(* The calls.                                                              *)

\* A table of instances is not the absence of the file.
LEMMA TableIsAFile ==
  ASSUME NEW n \in Nat, n <= MaxInstances, NEW f, SoundTable(f, n)
  PROVE  f # NoFile
<1>1. DOMAIN f \in SUBSET (1..MaxInstances)
  BY TaskAssumption DEF SoundTable
<1>2. f \in [DOMAIN f -> Instance]
  BY DEF SoundTable, SoundInstance
<1>3. QED
  BY <1>1, <1>2, TaskAssumption

\* A larger bound holds a table as well.
LEMMA TableGrows ==
  ASSUME NEW n \in Nat, NEW m \in Nat, n <= m, NEW f, SoundTable(f, n)
  PROVE  SoundTable(f, m)
BY DEF SoundTable

\* A call keeps what is typed, and what is in the file.
LEMMA CallKeepsTypes ==
  ASSUME TaskTypes, NEW x, Grown(executor, x), x.drawn <= MaxInstances,
         executor' = x, UNCHANGED <<definitions, saved>>
  PROVE  TaskTypes'
<1>1. executor.drawn \in Nat /\ x.drawn \in Nat /\ executor.drawn <= x.drawn /\ SoundExecutor(x)
  BY DEF TaskTypes, Grown, SoundExecutor
<1>2. saved # NoFile => SoundTable(saved, x.drawn)
  BY <1>1, TableGrows DEF TaskTypes
<1>3. SoundExecutor(x)'
  BY <1>1 DEF SoundExecutor, SoundTable, SoundInstance, Registered
<1>4. QED
  BY <1>1, <1>2, <1>3 DEF TaskTypes, Defined, SoundExecutor, SoundTable, SoundInstance, Registered

\* What is not noticed is the current step alone.
LEMMA StatusIsNoticed ==
  ASSUME NEW i \in Instance, NEW j \in Instance, [i EXCEPT !.current = NoStep] = [j EXCEPT !.current = NoStep]
  PROVE  i.status = j.status
<1>1. [i EXCEPT !.current = NoStep].status = i.status
  BY DEF Instance
<1>2. [j EXCEPT !.current = NoStep].status = j.status
  BY DEF Instance
<1>3. QED
  BY <1>1, <1>2

\* A call marks the state dirty if it starts an instance or changes its status.
LEMMA BecomeKeeps ==
  ASSUME TaskInv, NEW x, Grown(executor, x), Become(x), UNCHANGED <<definitions, saved>>
  PROVE  TaskInv'
<1>1. executor' = x /\ x.drawn <= MaxInstances
  BY DEF Become
<1>2. TaskTypes'
  BY <1>1, CallKeepsTypes DEF TaskInv
<1>3. NothingUnsaved'
  <2> SUFFICES ASSUME ~dirty', NEW id \in DOMAIN x.instances
               PROVE  saved # NoFile /\ id \in DOMAIN saved /\ saved[id].status = x.instances[id].status
    BY <1>1 DEF NothingUnsaved
  <2>1. ~dirty /\ ~Noticed(executor.instances, x.instances)
    BY DEF Become
  <2>2. /\ id \in DOMAIN executor.instances
        /\ [x.instances[id] EXCEPT !.current = NoStep] = [executor.instances[id] EXCEPT !.current = NoStep]
    BY <2>1 DEF Noticed
  <2>3. x.instances[id] \in Instance /\ executor.instances[id] \in Instance
    BY <2>2 DEF TaskInv, TaskTypes, Grown, SoundExecutor, SoundTable, SoundInstance
  <2>4. x.instances[id].status = executor.instances[id].status
    BY <2>2, <2>3, StatusIsNoticed
  <2>5. saved # NoFile /\ id \in DOMAIN saved /\ saved[id].status = executor.instances[id].status
    BY <2>1, <2>2 DEF TaskInv, NothingUnsaved
  <2>6. QED
    BY <2>4, <2>5
<1>4. QED
  BY <1>2, <1>3 DEF TaskInv

\* Nothing that the invariant is about changes.
LEMMA NothingMoves ==
  ASSUME TaskInv, UNCHANGED <<definitions, executor, dirty, saved>>
  PROVE  TaskInv'
BY DEF TaskInv, TaskTypes, Defined, SoundExecutor, SoundTable, SoundInstance, Registered, NothingUnsaved

\* Flushing writes all instances, or nothing.
LEMMA FlushKeeps ==
  ASSUME TaskInv, Flush, UNCHANGED <<definitions, executor>>
  PROVE  TaskInv'
<1>1. CASE UNCHANGED <<dirty, saved>>
  BY <1>1, NothingMoves
<1>2. CASE saved' = executor.instances
  <2>1. SoundTable(executor.instances, executor.drawn) /\ executor.instances # NoFile
    BY TableIsAFile DEF TaskInv, TaskTypes, SoundExecutor
  <2>2. TaskTypes'
    BY <1>2, <2>1 DEF TaskInv, TaskTypes, Defined, SoundExecutor, SoundTable, SoundInstance, Registered
  <2>3. NothingUnsaved'
    BY <1>2, <2>1 DEF NothingUnsaved
  <2>4. QED
    BY <2>2, <2>3 DEF TaskInv
<1>3. QED
  BY <1>1, <1>2 DEF Flush

\* Replanning keeps the status.
LEMMA ReplanKeeps ==
  ASSUME TaskInv, NEW id \in DOMAIN executor.instances, Replan(id)
  PROVE  TaskInv'
<1> DEFINE i == executor.instances[id]
           d == Def(i.task)
<1>1. SoundExecutor(executor) /\ Defined
  BY DEF TaskInv, TaskTypes
<1>2. SoundInstance(i) /\ d.order \in Seq(Step) /\ d.alternatives \in [Step -> Seq(Step)]
  BY <1>1, InstanceOf
<1>3. /\ SoundInstance(Replanned(i, d)) /\ Replanned(i, d).task = i.task /\ Replanned(i, d).status = i.status
      /\ SoundInstance(Switched(i, d)) /\ Switched(i, d).task = i.task /\ Switched(i, d).status = i.status
  BY <1>2, ReplanIsSound
<1>4. UNCHANGED <<definitions, saved>>
  BY DEF Replan
<1>5. ASSUME NEW j, SoundInstance(j), j.task = i.task, j.status = i.status,
             executor' = Put(executor, id, j), UNCHANGED dirty
      PROVE  TaskInv'
  <2>1. Grown(executor, Put(executor, id, j))
    BY <1>1, <1>5, PutIsSound
  <2>2. executor.drawn <= MaxInstances /\ executor'.drawn = executor.drawn
    BY <1>1, <1>5 DEF TaskInv, TaskTypes, Put, SoundExecutor
  <2>3. TaskTypes'
    BY <1>4, <1>5, <2>1, <2>2, CallKeepsTypes DEF TaskInv
  <2>4. executor'.instances = [executor.instances EXCEPT ![id] = j]
    BY <1>1, <1>5 DEF Put, SoundExecutor
  <2>5. \A k \in DOMAIN executor'.instances :
          k \in DOMAIN executor.instances /\ executor'.instances[k].status = executor.instances[k].status
    BY <1>1, <1>5, <2>4 DEF SoundExecutor, SoundTable
  <2>6. NothingUnsaved'
    BY <1>4, <1>5, <2>5 DEF TaskInv, NothingUnsaved
  <2>7. QED
    BY <2>3, <2>6 DEF TaskInv
<1>6. CASE executor' = Put(executor, id, Replanned(i, d)) /\ UNCHANGED dirty
  BY <1>3, <1>5, <1>6
<1>7. CASE executor' = Put(executor, id, Switched(i, d)) /\ UNCHANGED dirty
  BY <1>3, <1>5, <1>7
<1>8. CASE Become(FailTask(executor, id))
  <2>1. "Failed" \in Statuses
    BY DEF Statuses
  <2>2. Grown(executor, FailTask(executor, id))
    BY <1>1, <2>1, StatusPut DEF FailTask
  <2>3. QED
    BY <1>4, <1>8, <2>2, BecomeKeeps
<1>9. QED
  BY <1>6, <1>7, <1>8 DEF Replan

\* An event is handed to one instance, which marks the state dirty.
LEMMA NotifyKeeps ==
  ASSUME TaskInv, Notify
  PROVE  TaskInv'
<1> DEFINE id == Head(walk.left)
           known == id \in DOMAIN executor.instances
           x == IF known THEN UpdateTask(executor, id) ELSE executor
<1>1. SoundExecutor(executor) /\ Defined
  BY DEF TaskInv, TaskTypes
<1>2. /\ executor' = x /\ x.drawn <= MaxInstances /\ dirty' = (dirty \/ known)
      /\ UNCHANGED <<definitions, saved>>
  BY DEF Notify
<1> HIDE DEF id
<1>3. Grown(executor, x)
  BY <1>1, UpdateIsSound, GrowsNot
<1>4. CASE known
  <2>1. TaskTypes'
    BY <1>2, <1>3, CallKeepsTypes DEF TaskInv
  <2>2. NothingUnsaved'
    BY <1>2, <1>4 DEF NothingUnsaved
  <2>3. QED
    BY <2>1, <2>2 DEF TaskInv
<1>5. CASE ~known
  <2>1. executor' = executor
    BY <1>2, <1>5
  <2>2. TaskTypes'
    BY <1>2, <2>1 DEF TaskInv, TaskTypes, Defined, SoundExecutor, SoundTable, SoundInstance, Registered
  <2>3. ~dirty' => ~dirty
    BY <1>2, <1>5
  <2>4. NothingUnsaved'
    BY <1>2, <2>1, <2>3 DEF TaskInv, NothingUnsaved
  <2>5. QED
    BY <2>2, <2>4 DEF TaskInv
<1>6. QED
  BY <1>4, <1>5

\* The instances in the file replace those at hand.
LEMMA LoadKeeps ==
  ASSUME TaskInv, LoadState
  PROVE  TaskInv'
<1> DEFINE known == {id \in DOMAIN saved : Registered(saved[id].task)}
           f == [id \in known |-> saved[id]]
<1>1. /\ SoundExecutor(executor) /\ Defined /\ SoundTable(saved, executor.drawn) /\ saved # NoFile
      /\ executor.drawn <= MaxInstances
  BY DEF TaskInv, TaskTypes, LoadState
<1>2. executor' = [instances |-> f, subscribed |-> executor'.subscribed, drawn |-> executor.drawn]
  <2> DEFINE subscribed == [e \in Event |-> SetToSeq({id \in known : e \in Def(saved[id].task).events})]
             one == [executor EXCEPT !.instances = f]
  <2>1. executor' = [executor EXCEPT !.instances = f, !.subscribed = subscribed]
    BY DEF LoadState, Loaded
  <2> HIDE DEF f, subscribed
  <2>2. one = [instances |-> f, subscribed |-> executor.subscribed, drawn |-> executor.drawn]
    BY <1>1 DEF SoundExecutor
  <2> HIDE DEF one
  <2>3. [one EXCEPT !.subscribed = subscribed] = [instances |-> f, subscribed |-> subscribed, drawn |-> executor.drawn]
    BY <2>2
  <2>4. executor' = [one EXCEPT !.subscribed = subscribed]
    BY <2>1 DEF one
  <2>5. QED
    BY <2>3, <2>4
<1>3. /\ f = [id \in DOMAIN f |-> f[id]] /\ DOMAIN f = known /\ known \subseteq DOMAIN saved
      /\ \A id \in known : f[id] = saved[id]
  OBVIOUS
<1>4. \A id \in known : Registered(f[id].task)
  OBVIOUS
<1> HIDE DEF known, f
<1>5. SoundTable(f, executor.drawn)
  BY <1>1, <1>3 DEF SoundTable
<1>6. executor'.instances = f /\ executor'.drawn = executor.drawn
  BY <1>2
<1>7. UNCHANGED <<definitions, saved>>
  BY DEF LoadState
<1>8. SoundExecutor(executor)'
  BY <1>1, <1>2, <1>3, <1>4, <1>5, <1>6, <1>7 DEF SoundExecutor, SoundTable, SoundInstance, Registered
<1>9. TaskTypes'
  BY <1>1, <1>6, <1>7, <1>8 DEF TaskInv, TaskTypes, Defined, SoundTable, SoundInstance
<1>10. NothingUnsaved'
  BY <1>1, <1>3, <1>6, <1>7 DEF NothingUnsaved
<1>11. QED
  BY <1>9, <1>10 DEF TaskInv

\* Shutdown saves all instances, or fails to, and forgets them.
LEMMA ShutdownKeeps ==
  ASSUME TaskInv, ShutdownTasks
  PROVE  TaskInv'
<1>1. SoundExecutor(executor) /\ executor.drawn <= MaxInstances /\ Defined
  BY DEF TaskInv, TaskTypes
<1>2. executor' = [instances |-> << >>, subscribed |-> executor.subscribed, drawn |-> executor.drawn]
  BY <1>1 DEF ShutdownTasks, SoundExecutor
<1>3. executor'.instances = << >> /\ executor'.drawn = executor.drawn /\ DOMAIN << >> = {}
  BY <1>2
<1>4. UNCHANGED definitions /\ (saved' = executor.instances \/ saved' = saved)
  BY DEF ShutdownTasks
<1>5. SoundTable(<< >>, executor.drawn)
  <2>1. << >> = [id \in DOMAIN << >> |-> << >>[id]]
    OBVIOUS
  <2>2. QED
    BY <1>3, <2>1 DEF SoundTable
<1>6. SoundExecutor(executor)'
  BY <1>1, <1>2, <1>3, <1>5 DEF SoundExecutor, SoundTable, SoundInstance, Registered
<1>7. SoundTable(executor.instances, executor.drawn)
  BY <1>1 DEF SoundExecutor
<1>8. TaskTypes'
  BY <1>1, <1>3, <1>4, <1>6, <1>7 DEF TaskInv, TaskTypes, Defined, SoundTable, SoundInstance
<1>9. NothingUnsaved'
  BY <1>3 DEF NothingUnsaved
<1>10. QED
  BY <1>8, <1>9 DEF TaskInv

\* The definitions of tasks that no instance is of come and go.
LEMMA DefinitionsKeep ==
  ASSUME TaskInv, NEW t \in Task,
         (\E d \in Definitions[t] : Register(t, d)) \/ Unregister(t)
  PROVE  TaskInv'
<1>1. UNCHANGED <<executor, dirty, saved>>
  BY DEF Register, Unregister
<1>2. /\ \A u \in Task : definitions'[u] \subseteq Definitions[u]
      /\ definitions' = [u \in Task |-> definitions'[u]]
  BY DEF TaskInv, TaskTypes, Defined, Register, Unregister
<1>3. ASSUME NEW id \in DOMAIN executor.instances
      PROVE  definitions'[executor.instances[id].task] # {}
  <2> DEFINE u == executor.instances[id].task
  <2>1. u \in Task /\ definitions[u] # {}
    BY InstanceOf DEF TaskInv, TaskTypes, SoundExecutor, Registered
  <2>2. CASE \E d \in Definitions[t] : Register(t, d)
    BY <2>1, <2>2 DEF Register, TaskInv, TaskTypes
  <2>3. CASE Unregister(t)
    <3>1. u # t
      BY <2>3 DEF Unregister
    <3>2. QED
      BY <2>1, <2>3, <3>1 DEF Unregister, TaskInv, TaskTypes
  <2>4. QED
    BY <2>2, <2>3
<1>4. TaskTypes'
  BY <1>1, <1>2, <1>3 DEF TaskInv, TaskTypes, Defined, SoundExecutor, SoundTable, SoundInstance, Registered
<1>5. NothingUnsaved'
  BY <1>1 DEF TaskInv, NothingUnsaved
<1>6. QED
  BY <1>4, <1>5 DEF TaskInv

-----------------------------------------------------------------------------
(* The specification.                                                      *)

\* At the start nothing is registered, and no instance runs.
LEMMA TaskStarts ==
  ASSUME TaskInit
  PROVE  TaskInv
<1> DEFINE none == [e \in Event |-> << >>]
<1>1. executor = [instances |-> << >>, subscribed |-> none, drawn |-> 0] /\ DOMAIN << >> = {}
  BY DEF TaskInit
<1> HIDE DEF none
<1>2. executor.instances = << >> /\ executor.drawn = 0
      /\ executor = [instances |-> executor.instances, subscribed |-> executor.subscribed, drawn |-> executor.drawn]
  BY <1>1
<1>3. SoundTable(<< >>, 0)
  <2>1. << >> = [id \in DOMAIN << >> |-> << >>[id]]
    OBVIOUS
  <2>2. QED
    BY <1>1, <2>1 DEF SoundTable
<1>4. SoundExecutor(executor)
  BY <1>1, <1>2, <1>3 DEF SoundExecutor
<1>5. definitions = [t \in Task |-> {}] /\ saved = NoFile /\ MaxInstances \in Nat
  BY TaskAssumption DEF TaskInit
<1>6. QED
  BY <1>1, <1>2, <1>4, <1>5 DEF TaskInv, TaskTypes, Defined, NothingUnsaved

\* Every call keeps the invariant.
LEMMA TaskSteps ==
  ASSUME TaskInv, [TaskNext]_taskVars
  PROVE  TaskInv'
<1>0. SoundExecutor(executor) /\ Defined /\ executor.drawn <= MaxInstances
  BY DEF TaskInv, TaskTypes
<1>1. ASSUME NEW t \in Task, Start(t) PROVE TaskInv'
  <2> DEFINE these == {k \in {1} : Accepts(t)}
             x == Launch(executor, <<t>>, these)
  <2>1. these \in SUBSET Nat /\ IsFiniteSet(these)
    <3>1. these \in SUBSET {1} /\ IsFiniteSet({1})
      BY FS_Singleton
    <3> HIDE DEF these
    <3>2. IsFiniteSet(these)
      BY <3>1, FS_Subset
    <3>3. {1} \subseteq Nat
      OBVIOUS
    <3>4. QED
      BY <3>1, <3>2, <3>3
  <2>2. \A k \in these : <<t>>[k] \in Task /\ Registered(<<t>>[k])
    BY <1>1 DEF Start
  <2>3. Become(x) /\ UNCHANGED <<definitions, saved>>
    BY <1>1 DEF Start
  <2> HIDE DEF these
  <2>4. Grown(executor, x)
    BY <1>0, <2>1, <2>2, LaunchIsSound
  <2>5. QED
    BY <2>3, <2>4, BecomeKeeps
<1>2. ASSUME NEW t \in Task, (\E d \in Definitions[t] : Register(t, d)) \/ Unregister(t) PROVE TaskInv'
  BY <1>2, DefinitionsKeep
<1>3. ASSUME NEW id \in DOMAIN executor.instances, Complete(id) PROVE TaskInv'
  BY <1>0, <1>3, CompleteIsSound, BecomeKeeps DEF Complete
<1>4. ASSUME NEW id \in DOMAIN executor.instances, Fail(id) PROVE TaskInv'
  <2>1. Grown(executor, FailTask(executor, id))
    BY <1>0, StatusPut DEF FailTask, Statuses
  <2>2. QED
    BY <1>4, <2>1, BecomeKeeps DEF Fail
<1>5. ASSUME NEW id \in DOMAIN executor.instances, AbandonTask(id) PROVE TaskInv'
  <2> DEFINE x == Put(executor, id, [executor.instances[id] EXCEPT !.status = "Abandoned"])
  <2>1. "Abandoned" \in Statuses
    BY DEF Statuses
  <2>2. Grown(executor, x)
    BY <1>0, <2>1, StatusPut
  <2>3. executor' = x /\ dirty' = TRUE /\ UNCHANGED <<definitions, saved>>
    BY <1>5 DEF AbandonTask
  <2>4. x.drawn = executor.drawn
    BY <1>0 DEF Put, SoundExecutor
  <2> HIDE DEF x
  <2>5. TaskTypes'
    BY <1>0, <2>2, <2>3, <2>4, CallKeepsTypes DEF TaskInv
  <2>6. NothingUnsaved'
    BY <2>3 DEF NothingUnsaved
  <2>7. QED
    BY <2>5, <2>6 DEF TaskInv
<1>6. ASSUME NEW id \in DOMAIN executor.instances, Replan(id) PROVE TaskInv'
  BY <1>6, ReplanKeeps
<1>7. ASSUME NEW id \in DOMAIN executor.instances, UpdateOne(id) PROVE TaskInv'
  BY <1>0, <1>7, UpdateIsSound, BecomeKeeps DEF UpdateOne
<1>8. ASSUME CheckAutoAcceptTasks PROVE TaskInv'
  BY <1>0, <1>8, AcceptIsSound, BecomeKeeps DEF CheckAutoAcceptTasks
<1>9. ASSUME AcceptForEvent PROVE TaskInv'
  <2> DEFINE those == {t \in Task : Registered(t) /\ walk.event \in Def(t).events}
  <2>1. Become(AcceptTasks(executor, those)) /\ UNCHANGED <<definitions, saved>>
    BY <1>9 DEF AcceptForEvent
  <2>2. those \in SUBSET Task
    OBVIOUS
  <2> HIDE DEF those
  <2>3. Grown(executor, AcceptTasks(executor, those))
    BY <1>0, <2>2, AcceptIsSound
  <2>4. QED
    BY <2>1, <2>3, BecomeKeeps
<1>10. ASSUME UpdateEnds \/ EventEnds PROVE TaskInv'
  BY <1>10, FlushKeeps DEF UpdateEnds, EventEnds
<1>11. ASSUME SaveState PROVE TaskInv'
  <2>1. SoundTable(executor.instances, executor.drawn) /\ executor.instances # NoFile
    BY <1>0, TableIsAFile DEF SoundExecutor
  <2>2. saved' = executor.instances /\ UNCHANGED <<definitions, executor, dirty>>
    BY <1>11 DEF SaveState
  <2>3. TaskTypes'
    BY <2>1, <2>2 DEF TaskInv, TaskTypes, Defined, SoundExecutor, SoundTable, SoundInstance, Registered
  <2>4. NothingUnsaved'
    BY <2>1, <2>2 DEF NothingUnsaved
  <2>5. QED
    BY <2>3, <2>4 DEF TaskInv
<1>12. ASSUME Update PROVE TaskInv'
  BY <1>12, NothingMoves DEF Update
<1>13. ASSUME NEW e \in Event, NEW scheduled \in BOOLEAN, ProcessEvent(e, scheduled) PROVE TaskInv'
  BY <1>13, NothingMoves DEF ProcessEvent
<1>14. CASE UNCHANGED taskVars
  BY <1>14, NothingMoves DEF taskVars
<1>15. QED
  BY <1>1, <1>2, <1>3, <1>4, <1>5, <1>6, <1>7, <1>8, <1>9, <1>10, <1>11, <1>12, <1>13, <1>14,
     NotifyKeeps, LoadKeeps, ShutdownKeeps DEF TaskNext

(* Whatever the definitions of tasks, and however updates, events,         *)
(* replanning, saving, loading and shutting down follow one another, only  *)
(* the current step of a task is in progress, and while nothing waits to   *)
(* be saved the file has every instance and where its task ended           *)
(* (TaskExecutor, TaskReplanner::FindAlternativeStep, FlushAutoSaveIfNeeded). *)
THEOREM TasksAreSound == TaskSpec => []TasksSound
<1>1. TaskInit => TaskInv
  BY TaskStarts
<1>2. TaskInv /\ [TaskNext]_taskVars => TaskInv'
  BY TaskSteps
<1>3. TaskInv => TasksSound
  BY DEF TaskInv, TaskTypes, SoundExecutor, SoundTable, SoundInstance, TasksSound, OneStepRuns
<1>4. QED
  BY <1>1, <1>2, <1>3, PTL DEF TaskSpec

-----------------------------------------------------------------------------
(* Physics.  A component whose body lives has the body of its entity; a    *)
(* component that was replaced has another, or none, until the next update,*)
(* which loses one body then: `Replaced` are those to come.                *)
IsBody(b) == "position" \in DOMAIN b

Owned == {entityToBody[e] : e \in DOMAIN entityToBody}

Replaced == {e \in DOMAIN rigid \cap DOMAIN entityToBody : rigid[e].body # entityToBody[e]}

LinkType ==
  /\ DOMAIN rigid \subseteq PhysicalEntity /\ DOMAIN entityToBody \subseteq PhysicalEntity
  /\ nextBodyId \in Nat \ {0} /\ DOMAIN bodies \subseteq 1 .. nextBodyId - 1
  /\ entityToBody = [e \in DOMAIN entityToBody |-> entityToBody[e]]
  /\ rigid = [e \in DOMAIN rigid |-> [desc |-> rigid[e].desc, body |-> rigid[e].body]]
  /\ \A e \in DOMAIN rigid : rigid[e].body \in Nat /\ rigid[e].body < nextBodyId
  /\ \A id \in DOMAIN bodies : IsBody(bodies[id])
  /\ orphans = [bodies |-> orphans.bodies, replaced |-> orphans.replaced]
  /\ orphans.replaced \in Nat /\ IsFiniteSet(orphans.bodies)

OwnedOnce == \A e, f \in DOMAIN entityToBody : entityToBody[e] = entityToBody[f] => e = f

OwnedOrLost == DOMAIN bodies = Owned \cup orphans.bodies /\ Owned \cap orphans.bodies = {}

LiveIsOwned ==
  \A e \in DOMAIN rigid : rigid[e].body \in DOMAIN bodies => e \in DOMAIN entityToBody /\ entityToBody[e] = rigid[e].body

LossesCounted == Cardinality(orphans.bodies) + Cardinality(Replaced) <= orphans.replaced

Synced ==
  settled => /\ DOMAIN entityToBody = DOMAIN rigid /\ \A e \in DOMAIN rigid : entityToBody[e] = rigid[e].body
             /\ \A e \in DOMAIN rigid \cap DOMAIN transform : transform[e] = bodies[rigid[e].body].position

LinkInv == LinkType /\ OwnedOnce /\ OwnedOrLost /\ LiveIsOwned /\ LossesCounted /\ Synced

-----------------------------------------------------------------------------
\* There are finitely many components, and so replaced ones.
LEMMA ReplacedFinite ==
  ASSUME LinkType
  PROVE  IsFiniteSet(Replaced) /\ Cardinality(Replaced) \in Nat /\ Cardinality(orphans.bodies) \in Nat
<1>1. Replaced \in SUBSET PhysicalEntity
  BY DEF LinkType, Replaced
<1>2. IsFiniteSet(Replaced)
  BY <1>1, PhysicsAssumption, FS_Subset
<1>3. QED
  BY <1>2, FS_CardinalityType DEF LinkType

\* At first there are no components and no bodies.
LEMMA PhysicsInitInv == PhysicsInit => LinkInv
<1> SUFFICES ASSUME PhysicsInit PROVE LinkInv
  OBVIOUS
<1>1. DOMAIN rigid = {} /\ DOMAIN entityToBody = {} /\ DOMAIN bodies = {} /\ orphans = [bodies |-> {}, replaced |-> 0]
  BY DEF PhysicsInit
<1>2. Replaced = {} /\ Owned = {}
  BY <1>1 DEF Replaced, Owned
<1>3. entityToBody = [e \in DOMAIN entityToBody |-> entityToBody[e]]
  BY <1>1 DEF PhysicsInit
<1>4. rigid = [e \in DOMAIN rigid |-> [desc |-> rigid[e].desc, body |-> rigid[e].body]]
  BY <1>1 DEF PhysicsInit
<1>5. IsFiniteSet({}) /\ Cardinality({}) = 0
  BY FS_EmptySet
<1>6. LinkType
  BY <1>1, <1>3, <1>4, <1>5 DEF LinkType, PhysicsInit
<1>7. LossesCounted
  BY <1>1, <1>2, <1>5 DEF LossesCounted
<1>8. QED
  BY <1>1, <1>2, <1>6, <1>7 DEF LinkInv, OwnedOnce, OwnedOrLost, LiveIsOwned, Synced

\* Only links and bodies count.
LEMMA LinksUnchanged ==
  ASSUME LinkInv, UNCHANGED <<rigid, bodies, nextBodyId, entityToBody, orphans>>, Synced'
  PROVE  LinkInv'
<1>1. Replaced' = Replaced /\ Owned' = Owned
  BY DEF Replaced, Owned
<1>2. LinkType'
  BY DEF LinkInv, LinkType
<1>3. OwnedOnce' /\ OwnedOrLost' /\ LiveIsOwned' /\ LossesCounted'
  BY <1>1 DEF LinkInv, OwnedOnce, OwnedOrLost, LiveIsOwned, LossesCounted
<1>4. QED
  BY <1>2, <1>3 DEF LinkInv

\* Transforms and targets are no links.
LEMMA TransformsKeep ==
  ASSUME LinkInv, GiveTransform \/ GiveTarget \/ UNCHANGED physicsVars
  PROVE  LinkInv'
<1>1. UNCHANGED <<rigid, bodies, nextBodyId, entityToBody, orphans>>
  BY DEF GiveTransform, GiveTarget, physicsVars
<1>2. settled' = FALSE \/ UNCHANGED <<transform, settled>>
  BY DEF GiveTransform, GiveTarget, physicsVars
<1>3. Synced'
  BY <1>1, <1>2 DEF LinkInv, Synced
<1>4. QED
  BY <1>1, <1>3, LinksUnchanged

\* A component that is written again may lose one body, which is counted.
LEMMA GiveBodyKeeps == ASSUME LinkInv, GiveBody PROVE LinkInv'
<1>1. PICK e \in PhysicalEntity \ gone, desc \in BodyDescs :
        /\ rigid' = Given(rigid, e, [desc |-> desc, body |-> 0])
        /\ orphans' = [orphans EXCEPT !.replaced = @ + IF e \in DOMAIN entityToBody THEN 1 ELSE 0]
        /\ settled' = FALSE /\ UNCHANGED <<bodies, nextBodyId, entityToBody>>
  BY DEF GiveBody
<1> DEFINE more == IF e \in DOMAIN entityToBody THEN 1 ELSE 0
<1>2. LinkType
  BY DEF LinkInv
<1>3. /\ DOMAIN rigid' = DOMAIN rigid \cup {e} /\ rigid'[e] = [desc |-> desc, body |-> 0]
      /\ \A f \in DOMAIN rigid \ {e} : rigid'[f] = rigid[f]
  BY <1>1 DEF Given
<1>4. orphans'.bodies = orphans.bodies /\ orphans'.replaced = orphans.replaced + more
  BY <1>1, <1>2 DEF LinkType
<1>5. LinkType'
  <2>1. rigid' = [f \in DOMAIN rigid' |-> [desc |-> rigid'[f].desc, body |-> rigid'[f].body]]
    <3>1. \A f \in DOMAIN rigid' : rigid'[f] = [desc |-> rigid'[f].desc, body |-> rigid'[f].body]
      BY <1>2, <1>3 DEF LinkType
    <3>2. rigid' = [f \in DOMAIN rigid' |-> rigid'[f]]
      BY <1>1 DEF Given
    <3>3. QED
      BY <3>1, <3>2
  <2>2. \A f \in DOMAIN rigid' : rigid'[f].body \in Nat /\ rigid'[f].body < nextBodyId
    BY <1>2, <1>3 DEF LinkType
  <2>3. orphans' = [bodies |-> orphans'.bodies, replaced |-> orphans'.replaced] /\ orphans'.replaced \in Nat
    BY <1>1, <1>2 DEF LinkType
  <2>4. QED
    BY <1>1, <1>2, <1>3, <1>4, <2>1, <2>2, <2>3 DEF LinkType
<1>6. OwnedOnce' /\ OwnedOrLost'
  BY <1>1, <1>4 DEF LinkInv, OwnedOnce, OwnedOrLost, Owned
<1>7. LiveIsOwned'
  BY <1>1, <1>2, <1>3 DEF LinkInv, LiveIsOwned, LinkType
<1>8. LossesCounted'
  <2>1. Replaced' \subseteq Replaced \cup (IF e \in DOMAIN entityToBody THEN {e} ELSE {})
    BY <1>1, <1>3 DEF Replaced
  <2>2. Cardinality(Replaced') <= Cardinality(Replaced) + more /\ Cardinality(Replaced') \in Nat
    <3>1. IsFiniteSet(Replaced) /\ Cardinality(Replaced) \in Nat
      BY <1>2, ReplacedFinite
    <3>2. CASE e \in DOMAIN entityToBody
      <4>1. Replaced' \in SUBSET (Replaced \cup {e})
        BY <2>1, <3>2
      <4>2. /\ IsFiniteSet(Replaced \cup {e})
            /\ Cardinality(Replaced \cup {e}) = IF e \in Replaced THEN Cardinality(Replaced) ELSE Cardinality(Replaced) + 1
        BY <3>1, FS_AddElement
      <4>3. IsFiniteSet(Replaced') /\ Cardinality(Replaced') <= Cardinality(Replaced \cup {e})
        BY <4>1, <4>2, FS_Subset
      <4>4. Cardinality(Replaced') \in Nat
        BY <4>3, FS_CardinalityType
      <4>5. QED
        BY <3>1, <3>2, <4>2, <4>3, <4>4
    <3>3. CASE e \notin DOMAIN entityToBody
      <4>1. Replaced' \in SUBSET Replaced
        BY <2>1, <3>3
      <4>2. IsFiniteSet(Replaced') /\ Cardinality(Replaced') <= Cardinality(Replaced)
        BY <3>1, <4>1, FS_Subset
      <4>3. Cardinality(Replaced') \in Nat
        BY <4>2, FS_CardinalityType
      <4>4. QED
        BY <3>1, <3>3, <4>2, <4>3
    <3>4. QED
      BY <3>2, <3>3
  <2>3. Cardinality(orphans.bodies) \in Nat /\ Cardinality(Replaced) \in Nat /\ orphans.replaced \in Nat
    BY <1>2, ReplacedFinite DEF LinkType
  <2>4. Cardinality(orphans.bodies) + Cardinality(Replaced) <= orphans.replaced
    BY DEF LinkInv, LossesCounted
  <2> DEFINE o == Cardinality(orphans.bodies)
             q == Cardinality(Replaced)
             p == Cardinality(Replaced')
             r == orphans.replaced
  <2>5. o + p <= r + more
    <3>1. p <= q + more /\ p \in Nat /\ o \in Nat /\ q \in Nat /\ r \in Nat /\ o + q <= r /\ more \in Nat
      BY <2>2, <2>3, <2>4
    <3> HIDE DEF o, p, q, r, more
    <3>2. QED
      BY <3>1
  <2>6. QED
    BY <1>4, <2>5 DEF LossesCounted
<1>9. Synced'
  BY <1>1 DEF Synced
<1>10. QED
  BY <1>5, <1>6, <1>7, <1>8, <1>9 DEF LinkInv

\* A component that is taken away, with its entity or without, leaves its body to the next update.
LEMMA ComponentGoes ==
  ASSUME LinkInv, NEW e, rigid' = Dropped(rigid, {e}), settled' = FALSE,
         UNCHANGED <<bodies, nextBodyId, entityToBody, orphans>>
  PROVE  LinkInv'
<1>1. /\ DOMAIN rigid' = DOMAIN rigid \ {e} /\ \A f \in DOMAIN rigid \ {e} : rigid'[f] = rigid[f]
      /\ rigid' = [f \in DOMAIN rigid' |-> rigid'[f]]
  BY DEF Dropped, Restrict
<1>2. LinkType
  BY DEF LinkInv
<1>3. LinkType'
  <2>1. rigid' = [f \in DOMAIN rigid' |-> [desc |-> rigid'[f].desc, body |-> rigid'[f].body]]
    <3>1. \A f \in DOMAIN rigid' : rigid'[f] = [desc |-> rigid'[f].desc, body |-> rigid'[f].body]
      BY <1>1, <1>2 DEF LinkType
    <3>2. QED
      BY <1>1, <3>1
  <2>2. \A f \in DOMAIN rigid' : rigid'[f].body \in Nat /\ rigid'[f].body < nextBodyId
    BY <1>1, <1>2 DEF LinkType
  <2>3. QED
    BY <1>1, <1>2, <2>1, <2>2 DEF LinkType
<1>4. OwnedOnce' /\ OwnedOrLost'
  BY DEF LinkInv, OwnedOnce, OwnedOrLost, Owned
<1>5. LiveIsOwned'
  BY <1>1 DEF LinkInv, LiveIsOwned
<1>6. LossesCounted'
  <2>1. Replaced' \in SUBSET Replaced
    BY <1>1 DEF Replaced
  <2>2. IsFiniteSet(Replaced) /\ Cardinality(Replaced) \in Nat /\ Cardinality(orphans.bodies) \in Nat
    BY <1>2, ReplacedFinite
  <2>3. IsFiniteSet(Replaced') /\ Cardinality(Replaced') <= Cardinality(Replaced)
    BY <2>1, <2>2, FS_Subset
  <2>4. Cardinality(Replaced') \in Nat
    BY <2>3, FS_CardinalityType
  <2>5. orphans.replaced \in Nat /\ Cardinality(orphans.bodies) + Cardinality(Replaced) <= orphans.replaced
    BY <1>2 DEF LinkInv, LossesCounted, LinkType
  <2>6. Cardinality(orphans.bodies) + Cardinality(Replaced') <= orphans.replaced
    BY ONLY <2>2, <2>3, <2>4, <2>5
  <2>7. QED
    BY <2>6 DEF LossesCounted
<1>7. Synced'
  BY DEF Synced
<1>8. QED
  BY <1>3, <1>4, <1>5, <1>6, <1>7 DEF LinkInv

\* A component is taken away.
LEMMA TakeBodyKeeps == ASSUME LinkInv, TakeBody PROVE LinkInv'
<1>1. PICK e \in DOMAIN rigid : rigid' = Dropped(rigid, {e})
  BY DEF TakeBody
<1>2. QED
  BY <1>1, ComponentGoes DEF TakeBody

\* An entity is destroyed.
LEMMA DestroyKeeps == ASSUME LinkInv, DestroyPhysical PROVE LinkInv'
<1>1. PICK e \in DOMAIN rigid \cup DOMAIN transform : rigid' = Dropped(rigid, {e})
  BY DEF DestroyPhysical
<1>2. QED
  BY <1>1, ComponentGoes DEF DestroyPhysical

-----------------------------------------------------------------------------
\* Bodies that move are those that there were.
LEMMA BodiesMoved ==
  ASSUME LinkInv, DOMAIN bodies' = DOMAIN bodies, \A id \in DOMAIN bodies : IsBody(bodies'[id]),
         UNCHANGED <<rigid, nextBodyId, entityToBody, orphans>>, Synced'
  PROVE  LinkInv'
<1>1. Replaced' = Replaced /\ Owned' = Owned
  BY DEF Replaced, Owned
<1>2. LinkType'
  BY DEF LinkInv, LinkType
<1>3. OwnedOnce' /\ OwnedOrLost' /\ LiveIsOwned' /\ LossesCounted'
  BY <1>1 DEF LinkInv, OwnedOnce, OwnedOrLost, LiveIsOwned, LossesCounted
<1>4. QED
  BY <1>2, <1>3 DEF LinkInv

\* A push leaves a body where it is.
LEMMA PushKeeps ==
  ASSUME LinkInv, NEW id \in DOMAIN bodies, NEW b, bodies' = [bodies EXCEPT ![id] = b], IsBody(b),
         b.position = bodies[id].position,
         UNCHANGED <<rigid, transform, nextBodyId, entityToBody, settled, orphans>>
  PROVE  LinkInv'
<1>1. /\ DOMAIN bodies' = DOMAIN bodies /\ bodies'[id] = b
      /\ \A i \in DOMAIN bodies \ {id} : bodies'[i] = bodies[i]
  OBVIOUS
<1>2. \A i \in DOMAIN bodies : IsBody(bodies'[i]) /\ bodies'[i].position = bodies[i].position
  BY <1>1 DEF LinkInv, LinkType
<1>3. Synced'
  <2>1. SUFFICES ASSUME settled
                 PROVE  /\ DOMAIN entityToBody = DOMAIN rigid /\ \A e \in DOMAIN rigid : entityToBody[e] = rigid[e].body
                        /\ \A e \in DOMAIN rigid \cap DOMAIN transform : transform[e] = bodies'[rigid[e].body].position
    BY DEF Synced
  <2>2. /\ DOMAIN entityToBody = DOMAIN rigid /\ \A e \in DOMAIN rigid : entityToBody[e] = rigid[e].body
        /\ \A e \in DOMAIN rigid \cap DOMAIN transform : transform[e] = bodies[rigid[e].body].position
    BY <2>1 DEF LinkInv, Synced
  <2>3. \A e \in DOMAIN rigid : rigid[e].body \in DOMAIN bodies
    BY <2>2 DEF LinkInv, OwnedOrLost, Owned
  <2>4. QED
    BY <1>2, <2>2, <2>3
<1>4. QED
  BY <1>1, <1>2, <1>3, BodiesMoved

\* A force is added to a body.
LEMMA AddForceKeeps == ASSUME LinkInv, AddForce PROVE LinkInv'
<1>1. PICK e \in DOMAIN rigid, f \in Pushes :
        /\ IsValid(rigid[e].body)
        /\ bodies' = [bodies EXCEPT ![rigid[e].body] = [bodies[rigid[e].body] EXCEPT !.force = Plus(bodies[rigid[e].body].force, f)]]
  BY DEF AddForce
<1>2. PICK id : id = rigid[e].body
  OBVIOUS
<1>3. PICK b : b = [bodies[id] EXCEPT !.force = Plus(bodies[id].force, f)]
  OBVIOUS
<1>4. id \in DOMAIN bodies /\ IsBody(bodies[id])
  BY <1>1, <1>2 DEF IsValid, LinkInv, LinkType
<1>5. IsBody(b) /\ b.position = bodies[id].position
  BY <1>3, <1>4 DEF IsBody
<1>6. bodies' = [bodies EXCEPT ![id] = b]
  <2>1. bodies' = [bodies EXCEPT ![id] = [bodies[id] EXCEPT !.force = Plus(bodies[id].force, f)]]
    BY <1>1, <1>2
  <2>2. QED
    BY <1>3, <2>1
<1>7. UNCHANGED <<rigid, transform, nextBodyId, entityToBody, settled, orphans>>
  BY DEF AddForce
<1>8. QED
  BY <1>4, <1>5, <1>6, <1>7, PushKeeps

\* An impulse is added to a body.
LEMMA AddImpulseKeeps == ASSUME LinkInv, AddImpulse PROVE LinkInv'
<1>1. PICK e \in DOMAIN rigid, f \in Pushes :
        /\ IsValid(rigid[e].body)
        /\ bodies' = [bodies EXCEPT ![rigid[e].body] = [bodies[rigid[e].body] EXCEPT !.velocity = Plus(bodies[rigid[e].body].velocity, f)]]
  BY DEF AddImpulse
<1>2. PICK id : id = rigid[e].body
  OBVIOUS
<1>3. PICK b : b = [bodies[id] EXCEPT !.velocity = Plus(bodies[id].velocity, f)]
  OBVIOUS
<1>4. id \in DOMAIN bodies /\ IsBody(bodies[id])
  BY <1>1, <1>2 DEF IsValid, LinkInv, LinkType
<1>5. IsBody(b) /\ b.position = bodies[id].position
  BY <1>3, <1>4 DEF IsBody
<1>6. bodies' = [bodies EXCEPT ![id] = b]
  <2>1. bodies' = [bodies EXCEPT ![id] = [bodies[id] EXCEPT !.velocity = Plus(bodies[id].velocity, f)]]
    BY <1>1, <1>2
  <2>2. QED
    BY <1>3, <2>1
<1>7. UNCHANGED <<rigid, transform, nextBodyId, entityToBody, settled, orphans>>
  BY DEF AddImpulse
<1>8. QED
  BY <1>4, <1>5, <1>6, <1>7, PushKeeps

\* A move makes bodies move, and an update is due.
LEMMA ActuateKeeps == ASSUME LinkInv, Actuate PROVE LinkInv'
<1>1. DOMAIN bodies' = DOMAIN bodies
  BY DEF Actuate
<1>2. \A id \in DOMAIN bodies :
        \/ bodies'[id] = bodies[id]
        \/ \E p : bodies'[id] = [bodies[id] EXCEPT !.position = p, !.velocity = Zero]
        \/ \E v : bodies'[id] = [bodies[id] EXCEPT !.velocity = v]
  BY DEF Actuate
<1>3. \A id \in DOMAIN bodies : IsBody(bodies[id])
  BY DEF LinkInv, LinkType
<1>4. \A id \in DOMAIN bodies : IsBody(bodies'[id])
  BY <1>2, <1>3 DEF IsBody
<1>5. settled' = FALSE /\ UNCHANGED <<rigid, nextBodyId, entityToBody, orphans>>
  BY DEF Actuate
<1>6. Synced'
  BY <1>5 DEF Synced
<1>7. QED
  BY <1>1, <1>4, <1>5, <1>6, BodiesMoved

\* A shutdown forgets the links, and destroys the bodies that had one.
LEMMA ShutdownPhysicsKeeps == ASSUME LinkInv, ShutdownPhysics PROVE LinkInv'
<1>1. entityToBody' = <<>> /\ settled' = FALSE /\ UNCHANGED <<rigid, nextBodyId, orphans>>
  BY DEF ShutdownPhysics
<1>2. Range(entityToBody) = Owned
  BY DEF Range, Owned
<1>3. bodies' = Restrict(bodies, DOMAIN bodies \ Owned)
  BY <1>2 DEF ShutdownPhysics, Dropped
<1>4. DOMAIN bodies' = DOMAIN bodies \ Owned /\ \A id \in DOMAIN bodies' : bodies'[id] = bodies[id]
  BY <1>3 DEF Restrict
<1>5. DOMAIN entityToBody' = {} /\ entityToBody' = [e \in {} |-> entityToBody'[e]]
  BY <1>1
<1>6. Owned' = {} /\ Replaced' = {}
  BY <1>5 DEF Owned, Replaced
<1>7. LinkType /\ OwnedOrLost /\ LossesCounted
  BY DEF LinkInv
<1>8. LinkType'
  BY <1>1, <1>4, <1>5, <1>7 DEF LinkType
<1>9. OwnedOnce' /\ OwnedOrLost'
  BY <1>1, <1>4, <1>5, <1>6, <1>7 DEF OwnedOnce, OwnedOrLost
<1>10. LiveIsOwned'
  <2>1. \A e \in DOMAIN rigid : rigid[e].body \in DOMAIN bodies => rigid[e].body \in Owned
    BY DEF LinkInv, LiveIsOwned, Owned
  <2>2. QED
    BY <1>1, <1>4, <2>1 DEF LiveIsOwned
<1>11. LossesCounted'
  <2>1. Cardinality(Replaced) \in Nat /\ Cardinality(orphans.bodies) \in Nat /\ orphans.replaced \in Nat
    BY <1>7, ReplacedFinite DEF LinkType
  <2>2. Cardinality(orphans.bodies) + Cardinality(Replaced) <= orphans.replaced
    BY <1>7 DEF LossesCounted
  <2>3. Cardinality(orphans.bodies) + 0 <= orphans.replaced
    BY ONLY <2>1, <2>2
  <2>4. Cardinality(Replaced') = 0
    BY <1>6, FS_EmptySet
  <2>5. QED
    BY <1>1, <2>3, <2>4 DEF LossesCounted
<1>12. Synced'
  BY <1>1 DEF Synced
<1>13. QED
  BY <1>8, <1>9, <1>10, <1>11, <1>12 DEF LinkInv

-----------------------------------------------------------------------------
\* A step of the world makes no body and destroys none.
LEMMA StepHolds ==
  ASSUME NEW old, \A id \in DOMAIN old : IsBody(old[id])
  PROVE  /\ DOMAIN StepBodies(old) = DOMAIN old
         /\ \A id \in DOMAIN old : IsBody(StepBodies(old)[id])
<1> DEFINE moved == [id \in DOMAIN old |-> Integrate(old[id])]
<1>1. \A b : IsBody(b) => IsBody(Integrate(b))
  BY DEF IsBody, Integrate
<1>2. \A id \in DOMAIN old : IsBody(moved[id])
  BY <1>1
<1>3. DOMAIN StepBodies(old) = DOMAIN old
  BY DEF StepBodies
<1>4. \A id \in DOMAIN old : \/ StepBodies(old)[id] = moved[id]
                             \/ \E p, v : StepBodies(old)[id] = [moved[id] EXCEPT !.position = p, !.velocity = v]
  BY DEF StepBodies
<1> HIDE DEF moved
<1>5. \A id \in DOMAIN old : IsBody(StepBodies(old)[id])
  BY <1>2, <1>4 DEF IsBody
<1>6. QED
  BY <1>3, <1>5

\* The bodies that an update makes, and whose they are.
NewIds(order) == nextBodyId .. nextBodyId + Len(order) - 1

NewIdOf(order) == [e \in Bodiless |-> nextBodyId + (CHOOSE i \in DOMAIN order : order[i] = e) - 1]

\* The bodies that an update makes are new, one for each component that has none.
LEMMA NewBodies ==
  ASSUME LinkInv, NEW order \in SetToSeqs(Bodiless)
  PROVE  /\ ToSet(order) = Bodiless /\ Len(order) \in Nat
         /\ \A e \in Bodiless : NewIdOf(order)[e] \in NewIds(order)
         /\ \A e, f \in Bodiless : NewIdOf(order)[e] = NewIdOf(order)[f] => e = f
         /\ \A id \in NewIds(order) : /\ id - nextBodyId + 1 \in DOMAIN order
                                       /\ \E e \in Bodiless : NewIdOf(order)[e] = id
         /\ NewIds(order) \cap DOMAIN bodies = {} /\ NewIds(order) \subseteq 1 .. nextBodyId + Len(order) - 1
<1> DEFINE of == NewIdOf(order)
           ids == NewIds(order)
<1>1. Bodiless \in SUBSET PhysicalEntity
  BY DEF LinkInv, LinkType, Bodiless
<1>2. IsFiniteSet(Bodiless)
  BY <1>1, PhysicsAssumption, FS_Subset
<1>3. Distinct(order, Bodiless) /\ ToSet(order) = Bodiless /\ Len(order) \in Nat
  BY <1>2, OrderHolds
<1> DEFINE at(e) == CHOOSE i \in DOMAIN order : order[i] = e
<1>4. order \in Seq(Bodiless) /\ DOMAIN order = 1 .. Len(order)
  BY <1>3 DEF Distinct
<1>5. \A i, j \in 1 .. Len(order) : order[i] = order[j] => i = j
  BY <1>3, <1>4 DEF Distinct, IsInjective
<1>6. \A e \in Bodiless : \E i \in DOMAIN order : order[i] = e
  BY <1>3 DEF ToSet
<1>7. \A e \in Bodiless : at(e) \in 1 .. Len(order) /\ order[at(e)] = e
  BY <1>4, <1>6
<1>8. \A i \in 1 .. Len(order) : order[i] \in Bodiless /\ at(order[i]) = i
  <2>1. \A i \in 1 .. Len(order) : order[i] \in Bodiless
    BY <1>3, <1>4 DEF ToSet
  <2>2. QED
    BY <1>5, <1>7, <2>1
<1>9. /\ \A e \in Bodiless : of[e] = nextBodyId + at(e) - 1
      /\ ids = nextBodyId .. nextBodyId + Len(order) - 1
  BY DEF NewIdOf, NewIds
<1>10. nextBodyId \in Nat \ {0} /\ DOMAIN bodies \subseteq 1 .. nextBodyId - 1
  BY DEF LinkInv, LinkType
<1> HIDE DEF at, of, ids
<1>11. \A e \in Bodiless : of[e] \in ids
  BY <1>3, <1>7, <1>9, <1>10
<1>12. \A e, f \in Bodiless : of[e] = of[f] => e = f
  <2>1. \A e, f \in Bodiless : of[e] = of[f] => at(e) = at(f)
    BY <1>7, <1>9, <1>10
  <2>2. QED
    BY <1>7, <2>1
<1>13. \A id \in ids : id - nextBodyId + 1 \in DOMAIN order /\ \E e \in Bodiless : of[e] = id
  <2>1. SUFFICES ASSUME NEW id \in ids
                 PROVE  id - nextBodyId + 1 \in DOMAIN order /\ \E e \in Bodiless : of[e] = id
    OBVIOUS
  <2>2. PICK i : i = id - nextBodyId + 1
    OBVIOUS
  <2>3. i \in 1 .. Len(order) /\ id = nextBodyId + i - 1
    BY <1>3, <1>9, <1>10, <2>2
  <2>4. order[i] \in Bodiless /\ of[order[i]] = id
    BY <1>8, <1>9, <2>3
  <2>5. QED
    BY <1>4, <2>2, <2>3, <2>4
<1>14. ids \cap DOMAIN bodies = {} /\ ids \subseteq 1 .. nextBodyId + Len(order) - 1
  BY <1>3, <1>9, <1>10
<1>15. QED
  BY <1>3, <1>11, <1>12, <1>13, <1>14 DEF of, ids

\* An update links each component to its body: a new one, or the one that it had and that lives.
LEMMA UpdateKeeps == ASSUME LinkInv, UpdatePhysics PROVE LinkInv'
<1>1. PICK order \in SetToSeqs(Bodiless) :
        /\ rigid' = Reconciled(order).rigid /\ bodies' = StepBodies(Reconciled(order).bodies)
        /\ entityToBody' = Reconciled(order).map /\ nextBodyId' = nextBodyId + Len(order)
        /\ transform' = SyncTransforms(Reconciled(order).rigid, StepBodies(Reconciled(order).bodies))
        /\ orphans' = [orphans EXCEPT !.bodies = @ \cup Reconciled(order).lost]
  BY DEF UpdatePhysics
<1>2. PICK of : of = NewIdOf(order)
  OBVIOUS
<1>3. PICK ids : ids = NewIds(order)
  OBVIOUS
<1>4. /\ ToSet(order) = Bodiless /\ Len(order) \in Nat
      /\ \A e \in Bodiless : of[e] \in ids
      /\ \A e, f \in Bodiless : of[e] = of[f] => e = f
      /\ \A id \in ids : id - nextBodyId + 1 \in DOMAIN order /\ \E e \in Bodiless : of[e] = id
      /\ ids \cap DOMAIN bodies = {} /\ ids \subseteq 1 .. nextBodyId + Len(order) - 1
  BY <1>2, <1>3, NewBodies
<1>5. LinkType /\ OwnedOnce /\ OwnedOrLost /\ LiveIsOwned /\ LossesCounted
  BY DEF LinkInv
<1> DEFINE had == DOMAIN entityToBody
           map == [e \in had \cup Bodiless |-> IF e \in Bodiless THEN of[e] ELSE entityToBody[e]]
           dead == {map[e] : e \in (had \cup Bodiless) \ DOMAIN rigid}
           lost == {entityToBody[e] : e \in Bodiless \cap had} \cap DOMAIN bodies
           begin == [id \in (DOMAIN bodies \cup ids) \ dead |->
                       IF id \in ids
                       THEN LET e == order[id - nextBodyId + 1]
                            IN  NewBody(rigid[e].desc, IF e \in DOMAIN transform THEN transform[e] ELSE Zero)
                       ELSE bodies[id]]
           links == [e \in DOMAIN rigid |-> IF e \in Bodiless THEN [rigid[e] EXCEPT !.body = of[e]] ELSE rigid[e]]
<1>6. Reconciled(order).rigid = links
  BY <1>2, <1>4 DEF Reconciled, NewIdOf
<1>7. Reconciled(order).bodies = begin
  BY <1>2, <1>3, <1>4 DEF Reconciled, NewIdOf, NewIds
<1>8. Reconciled(order).map = Restrict(map, (had \cup Bodiless) \cap DOMAIN rigid)
  BY <1>2, <1>4 DEF Reconciled, NewIdOf
<1>9. Reconciled(order).lost = lost
  BY <1>4 DEF Reconciled
<1>10. /\ Bodiless \subseteq DOMAIN rigid
       /\ \A e \in DOMAIN rigid : e \in Bodiless <=> rigid[e].body \notin DOMAIN bodies
  BY <1>5 DEF Bodiless, IsValid, LinkType
<1>11. /\ \A e \in DOMAIN rigid \ Bodiless : e \in had /\ entityToBody[e] = rigid[e].body
       /\ \A e \in had : entityToBody[e] \in DOMAIN bodies
  BY <1>5, <1>10 DEF LiveIsOwned, OwnedOrLost, Owned
\* The links.
<1>12. /\ DOMAIN rigid' = DOMAIN rigid
       /\ \A e \in Bodiless : rigid'[e] = [desc |-> rigid[e].desc, body |-> of[e]]
       /\ \A e \in DOMAIN rigid \ Bodiless : rigid'[e] = rigid[e]
       /\ rigid' = [e \in DOMAIN rigid' |-> rigid'[e]]
  <2>1. rigid' = links
    BY <1>1, <1>6
  <2>2. \A e \in DOMAIN rigid : rigid[e] = [desc |-> rigid[e].desc, body |-> rigid[e].body]
    BY <1>5 DEF LinkType
  <2>3. QED
    BY <1>10, <2>1, <2>2
<1>13. /\ DOMAIN entityToBody' = DOMAIN rigid /\ entityToBody' = [e \in DOMAIN rigid |-> entityToBody'[e]]
       /\ \A e \in DOMAIN rigid : entityToBody'[e] = IF e \in Bodiless THEN of[e] ELSE rigid[e].body
  <2>1. (had \cup Bodiless) \cap DOMAIN rigid = DOMAIN rigid
    BY <1>10, <1>11
  <2>2. entityToBody' = [e \in DOMAIN rigid |-> map[e]]
    BY <1>1, <1>8, <2>1 DEF Restrict
  <2>3. \A e \in DOMAIN rigid : map[e] = IF e \in Bodiless THEN of[e] ELSE rigid[e].body
    BY <1>11
  <2> HIDE DEF map
  <2>4. QED
    BY <2>2, <2>3
<1>14. \A e \in DOMAIN rigid' : entityToBody'[e] = rigid'[e].body
  <2>1. SUFFICES ASSUME NEW e \in DOMAIN rigid PROVE entityToBody'[e] = rigid'[e].body
    BY <1>12
  <2>2. CASE e \in Bodiless
    <3>1. rigid'[e] = [desc |-> rigid[e].desc, body |-> of[e]]
      BY <1>12, <2>2
    <3>2. entityToBody'[e] = of[e]
      BY <1>13, <2>2
    <3>3. QED
      BY <3>1, <3>2
  <2>3. CASE e \notin Bodiless
    BY <1>12, <1>13, <2>3
  <2>4. QED
    BY <2>2, <2>3
\* The bodies.
<1>15. dead = {entityToBody[e] : e \in had \ DOMAIN rigid}
  BY <1>10
<1>16. lost = {entityToBody[e] : e \in Replaced}
  <2>1. Replaced = Bodiless \cap had
    BY <1>10, <1>11 DEF Replaced
  <2>2. QED
    BY <1>11, <2>1
<1> HIDE DEF map, dead, lost, links
<1>17. DOMAIN bodies' = (DOMAIN bodies \cup ids) \ dead /\ \A id \in DOMAIN bodies' : IsBody(bodies'[id])
  <2>1. DOMAIN begin = (DOMAIN bodies \cup ids) \ dead
    OBVIOUS
  <2>2. \A id \in DOMAIN begin : IsBody(begin[id])
    BY <1>5 DEF IsBody, NewBody, LinkType
  <2> HIDE DEF begin
  <2>3. DOMAIN StepBodies(begin) = DOMAIN begin /\ \A id \in DOMAIN begin : IsBody(StepBodies(begin)[id])
    BY <2>2, StepHolds
  <2>4. QED
    BY <1>1, <1>7, <2>1, <2>3
<1>18. orphans'.bodies = orphans.bodies \cup lost /\ orphans'.replaced = orphans.replaced
       /\ orphans' = [bodies |-> orphans'.bodies, replaced |-> orphans'.replaced]
  BY <1>1, <1>5, <1>9 DEF LinkType
<1>19. Owned' = ids \cup {entityToBody[e] : e \in had \cap (DOMAIN rigid \ Bodiless)}
  <2>1. Owned' = {entityToBody'[e] : e \in DOMAIN rigid}
    BY <1>13 DEF Owned
  <2>2. \A id : id \in Owned' <=> \/ \E e \in Bodiless : id = of[e]
                                  \/ \E e \in DOMAIN rigid \ Bodiless : id = entityToBody[e]
    BY <1>10, <1>11, <1>13, <2>1
  <2>3. \A id : id \in ids <=> \E e \in Bodiless : id = of[e]
    <3>1. \A e \in Bodiless : of[e] \in ids
      BY <1>4
    <3>2. \A id \in ids : \E e \in Bodiless : of[e] = id
      BY <1>4
    <3>3. QED
      BY ONLY <3>1, <3>2
  <2>4. \A e : e \in had \cap (DOMAIN rigid \ Bodiless) <=> e \in DOMAIN rigid \ Bodiless
    BY <1>11
  <2>5. QED
    BY <2>2, <2>3, <2>4
<1>20. OwnedOrLost'
  <2> DEFINE held == {entityToBody[e] : e \in had \cap (DOMAIN rigid \ Bodiless)}
  <2>1. /\ DOMAIN bodies = held \cup lost \cup dead \cup orphans.bodies
        /\ held \cap lost = {} /\ held \cap dead = {} /\ lost \cap dead = {}
        /\ orphans.bodies \cap held = {} /\ orphans.bodies \cap dead = {}
    <3>1. Replaced = Bodiless \cap had
      BY <1>10, <1>11 DEF Replaced
    <3>2. DOMAIN bodies = Owned \cup orphans.bodies /\ Owned \cap orphans.bodies = {}
      BY <1>5 DEF OwnedOrLost
    <3>3. Owned = held \cup lost \cup dead
      BY <1>10, <1>15, <1>16, <3>1 DEF Owned
    <3>4. held \cap lost = {} /\ held \cap dead = {} /\ lost \cap dead = {}
      BY <1>5, <1>10, <1>15, <1>16, <3>1 DEF OwnedOnce
    <3>5. QED
      BY <3>2, <3>3, <3>4
  <2>2. ids \cap DOMAIN bodies = {}
    BY <1>4
  <2> HIDE DEF held
  <2>3. Owned' = ids \cup held
    BY <1>19 DEF held
  <2>4. DOMAIN bodies' = Owned' \cup orphans'.bodies /\ Owned' \cap orphans'.bodies = {}
    BY <1>17, <1>18, <2>1, <2>2, <2>3
  <2>5. QED
    BY <2>4 DEF OwnedOrLost
<1>21. OwnedOnce'
  <2>1. \A e \in Bodiless, f \in DOMAIN rigid \ Bodiless : of[e] # rigid[f].body
    BY <1>4, <1>10
  <2>2. \A e, f \in DOMAIN rigid \ Bodiless : rigid[e].body = rigid[f].body => e = f
    BY <1>5, <1>11 DEF OwnedOnce
  <2>3. QED
    BY <1>4, <1>13, <2>1, <2>2 DEF OwnedOnce
<1>22. LiveIsOwned'
  BY <1>12, <1>13, <1>14 DEF LiveIsOwned
<1>23. IsFiniteSet(lost) /\ Cardinality(lost) <= Cardinality(Replaced) /\ Cardinality(lost) \in Nat
  <2>1. IsFiniteSet(Replaced)
    BY <1>5, ReplacedFinite
  <2>2. PICK r : r = Replaced
    OBVIOUS
  <2>3. PICK g : g = [e \in r |-> entityToBody[e]]
    OBVIOUS
  <2>4. PICK l : l = lost
    OBVIOUS
  <2>5. g \in Surjection(r, l)
    BY <1>16, <2>2, <2>3, <2>4 DEF Surjection
  <2>6. IsFiniteSet(l) /\ Cardinality(l) <= Cardinality(r)
    BY <2>1, <2>2, <2>5, FS_Surjection
  <2>7. Cardinality(l) \in Nat
    BY <2>6, FS_CardinalityType
  <2>8. QED
    BY <2>2, <2>4, <2>6, <2>7
<1>24. IsFiniteSet(orphans'.bodies) /\ LossesCounted'
  <2>1. Replaced' = {}
    BY <1>14 DEF Replaced
  <2>2. Cardinality(Replaced') = 0
    BY <2>1, FS_EmptySet
  <2>3. IsFiniteSet(orphans.bodies) /\ orphans.replaced \in Nat
    BY <1>5 DEF LinkType
  <2>4. /\ IsFiniteSet(orphans.bodies \cup lost)
        /\ Cardinality(orphans.bodies \cup lost) = Cardinality(orphans.bodies) + Cardinality(lost) - Cardinality(orphans.bodies \cap lost)
    BY <1>23, <2>3, FS_Union
  <2>5. orphans.bodies \cap lost \in SUBSET lost
    OBVIOUS
  <2>6. IsFiniteSet(orphans.bodies \cap lost)
    BY <1>23, <2>5, FS_Subset
  <2>7. /\ Cardinality(orphans.bodies \cap lost) \in Nat /\ Cardinality(orphans.bodies) \in Nat
        /\ Cardinality(Replaced) \in Nat
    BY <1>5, <2>3, <2>6, FS_CardinalityType, ReplacedFinite
  <2>8. Cardinality(orphans.bodies) + Cardinality(Replaced) <= orphans.replaced
    BY <1>5 DEF LossesCounted
  <2>9. Cardinality(orphans.bodies \cup lost) + 0 <= orphans.replaced
    <3>1. Cardinality(lost) \in Nat /\ Cardinality(lost) <= Cardinality(Replaced)
      BY <1>23
    <3>2. QED
      BY ONLY <2>3, <2>4, <2>7, <2>8, <3>1
  <2>10. QED
    BY <1>18, <2>2, <2>4, <2>9 DEF LossesCounted
<1>25. LinkType'
  <2>1. \A e \in DOMAIN rigid' : /\ rigid'[e].body \in Nat /\ rigid'[e].body < nextBodyId'
                                 /\ rigid'[e] = [desc |-> rigid'[e].desc, body |-> rigid'[e].body]
    <3>1. nextBodyId \in Nat \ {0} /\ nextBodyId' = nextBodyId + Len(order)
      BY <1>1, <1>5 DEF LinkType
    <3>2. QED
      <4>1. \A e \in Bodiless : of[e] \in Nat /\ of[e] < nextBodyId'
        BY <1>3, <1>4, <3>1
      <4>2. \A e \in DOMAIN rigid \ Bodiless : /\ rigid[e].body \in Nat /\ rigid[e].body < nextBodyId'
                                               /\ rigid[e] = [desc |-> rigid[e].desc, body |-> rigid[e].body]
        BY <1>4, <1>5, <3>1 DEF LinkType
      <4>3. QED
        <5>1. SUFFICES ASSUME NEW e \in DOMAIN rigid
                       PROVE  /\ rigid'[e].body \in Nat /\ rigid'[e].body < nextBodyId'
                              /\ rigid'[e] = [desc |-> rigid'[e].desc, body |-> rigid'[e].body]
          BY <1>12
        <5>2. CASE e \in Bodiless
          <6>1. rigid'[e] = [desc |-> rigid[e].desc, body |-> of[e]]
            BY <1>12, <5>2
          <6>2. of[e] \in Nat /\ of[e] < nextBodyId'
            BY <4>1, <5>2
          <6>3. QED
            BY <6>1, <6>2
        <5>3. CASE e \notin Bodiless
          BY <1>12, <4>2, <5>3
        <5>4. QED
          BY <5>2, <5>3
  <2>2. DOMAIN bodies' \subseteq 1 .. nextBodyId' - 1 /\ nextBodyId' \in Nat \ {0}
    BY <1>1, <1>4, <1>5, <1>17 DEF LinkType
  <2>3. DOMAIN rigid' \subseteq PhysicalEntity /\ DOMAIN entityToBody' \subseteq PhysicalEntity
    BY <1>5, <1>12, <1>13 DEF LinkType
  <2>4. rigid' = [e \in DOMAIN rigid' |-> [desc |-> rigid'[e].desc, body |-> rigid'[e].body]]
    BY <1>12, <2>1
  <2>5. orphans'.replaced \in Nat
    BY <1>5, <1>18 DEF LinkType
  <2>6. entityToBody' = [e \in DOMAIN entityToBody' |-> entityToBody'[e]]
    BY <1>13
  <2>7. \A e \in DOMAIN rigid' : rigid'[e].body \in Nat /\ rigid'[e].body < nextBodyId'
    BY <2>1
  <2>8. \A id \in DOMAIN bodies' : IsBody(bodies'[id])
    BY <1>17
  <2>9. orphans' = [bodies |-> orphans'.bodies, replaced |-> orphans'.replaced] /\ IsFiniteSet(orphans'.bodies)
    BY <1>18, <1>24
  <2>10. QED
    BY <2>2, <2>3, <2>4, <2>5, <2>6, <2>7, <2>8, <2>9 DEF LinkType
<1>26. Synced'
  <2>1. \A e \in DOMAIN rigid' : rigid'[e].body \in DOMAIN bodies'
    <3>1. \A e \in DOMAIN rigid' : entityToBody'[e] \in DOMAIN bodies'
      BY <1>12, <1>13, <1>20 DEF OwnedOrLost, Owned
    <3>2. QED
      BY <1>14, <3>1
  <2>2. PICK r : r = Reconciled(order).rigid
    OBVIOUS
  <2>3. PICK w : w = StepBodies(Reconciled(order).bodies)
    OBVIOUS
  <2>4. r = rigid' /\ w = bodies' /\ transform' = SyncTransforms(r, w)
    BY <1>1, <2>2, <2>3
  <2>5. \A e \in DOMAIN r : r[e].body \in DOMAIN w
    BY <2>1, <2>4
  <2>6. \A e \in DOMAIN r \cap DOMAIN transform' : transform'[e] = w[r[e].body].position
    BY <2>4, <2>5 DEF SyncTransforms
  <2>7. \A e \in DOMAIN rigid' \cap DOMAIN transform' : transform'[e] = bodies'[rigid'[e].body].position
    BY <2>4, <2>6, Zenon
  <2>8. DOMAIN entityToBody' = DOMAIN rigid'
    BY <1>12, <1>13
  <2>9. QED
    BY <1>14, <2>7, <2>8 DEF Synced
<1>27. QED
  BY <1>20, <1>21, <1>22, <1>24, <1>25, <1>26 DEF LinkInv

-----------------------------------------------------------------------------
\* Every step keeps the invariant.
LEMMA LinkStep == ASSUME LinkInv, [PhysicsNext]_physicsVars PROVE LinkInv'
<1>1. CASE GiveTransform \/ GiveTarget \/ UNCHANGED physicsVars
  BY <1>1, TransformsKeep
<1>2. QED
  BY <1>1, GiveBodyKeeps, TakeBodyKeeps, DestroyKeeps, AddForceKeeps, AddImpulseKeeps, ActuateKeeps, UpdateKeeps,
     ShutdownPhysicsKeeps DEF PhysicsNext

\* The invariant says that the bodies are linked.
LEMMA LinkImplies == LinkInv => BodiesLinked
<1> SUFFICES ASSUME LinkInv PROVE BodiesLinked
  OBVIOUS
<1>1. Cardinality(orphans.bodies) <= orphans.replaced
  <2>1. Cardinality(Replaced) \in Nat /\ Cardinality(orphans.bodies) \in Nat /\ orphans.replaced \in Nat
        /\ Cardinality(orphans.bodies) + Cardinality(Replaced) <= orphans.replaced
    BY ReplacedFinite DEF LinkInv, LinkType, LossesCounted
  <2>2. QED
    BY ONLY <2>1
<1>2. ASSUME settled
      PROVE  /\ entityToBody = [e \in DOMAIN rigid |-> rigid[e].body]
             /\ \A e, f \in DOMAIN rigid : rigid[e].body = rigid[f].body => e = f
             /\ DOMAIN bodies = {rigid[e].body : e \in DOMAIN rigid} \cup orphans.bodies
             /\ \A e \in DOMAIN rigid \cap DOMAIN transform : transform[e] = bodies[rigid[e].body].position
  <2>1. /\ DOMAIN entityToBody = DOMAIN rigid /\ \A e \in DOMAIN rigid : entityToBody[e] = rigid[e].body
        /\ \A e \in DOMAIN rigid \cap DOMAIN transform : transform[e] = bodies[rigid[e].body].position
    BY <1>2 DEF LinkInv, Synced
  <2>2. entityToBody = [e \in DOMAIN entityToBody |-> entityToBody[e]]
    BY DEF LinkInv, LinkType
  <2>3. entityToBody = [e \in DOMAIN rigid |-> rigid[e].body]
    BY <2>1, <2>2
  <2>4. Owned = {rigid[e].body : e \in DOMAIN rigid}
    BY <2>1 DEF Owned
  <2>5. QED
    BY <2>1, <2>3, <2>4 DEF LinkInv, OwnedOnce, OwnedOrLost
<1>3. QED
  BY <1>1, <1>2 DEF BodiesLinked

(* However components and transforms come, are written again and go, and   *)
(* entities are pushed, moved and destroyed, for any number of entities,   *)
(* bodies and forces: after an update each rigid body has one body of its  *)
(* own, where its transform is, and no other body lives but one for each   *)
(* component that was replaced (PhysicsSystem: Reconcile, SyncTransforms   *)
(* and Shutdown).                                                          *)
THEOREM EachComponentHasItsBody == PhysicsInit /\ [][PhysicsNext]_physicsVars => []BodiesLinked
<1>1. PhysicsInit => LinkInv
  BY PhysicsInitInv
<1>2. LinkInv /\ [PhysicsNext]_physicsVars => LinkInv'
  BY LinkStep
<1>3. LinkInv => BodiesLinked
  BY LinkImplies
<1>4. QED
  BY <1>1, <1>2, <1>3, PTL
=============================================================================
