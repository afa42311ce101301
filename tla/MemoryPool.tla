----------------------------- MODULE MemoryPool -----------------------------
(***************************************************************************)
(* engine/world, StreamingMemoryPool: blocks taken from the front of one   *)
(* piece of memory.  A block freed below the top stays in the list as a    *)
(* tombstone, so that the top does not come down over blocks still lent.   *)
(* Each call holds the mutex from its first look to its last change.       *)
(*                                                                         *)
(* Addresses and sizes are words with AddressSize values.                  *)
(***************************************************************************)
EXTENDS Naturals, Sequences, FiniteSets, SequencesExt

CONSTANTS
  AddressSize,    \* the values of size_t and of an address
  Bases,          \* where malloc may put the pool
  PoolSize, MaxAllocations,
  Sizes, Alignments \* the arguments of Allocate

ASSUME PoolAssumption ==
  /\ {AddressSize, PoolSize, MaxAllocations} \subseteq Nat \ {0}
  /\ \A b \in Bases : b \in Nat /\ b + PoolSize < AddressSize
  /\ Sizes \cup Alignments \subseteq 0 .. AddressSize - 1

VARIABLES
  base,         \* poolBase_, or 0 if there is none
  used,         \* usedSize_
  allocations,  \* allocations_
  lent          \* history: the blocks handed out and not given back, as asked for

poolVars == <<base, used, allocations, lent>>

PoolInit == base = 0 /\ used = 0 /\ allocations = <<>> /\ lent = {}

allocationCount == Len(SelectSeq(allocations, LAMBDA a : ~a.freed))

InitializePool ==
  /\ base = 0 /\ base' \in Bases
  /\ UNCHANGED <<used, allocations, lent>>

RoundUp(v, alignment) == (v + alignment - 1) - ((v + alignment - 1) % alignment)

(* No odd number but 1 divides it.                                         *)
IsPowerOfTwo(n) == n > 0 /\ \A d \in 2 .. n : n % d = 0 => d % 2 = 0

Fits(size, alignment, padding) ==
  /\ size <= AddressSize - 1 - (alignment - 1)
  /\ base + used <= AddressSize - 1 - (alignment - 1)
  /\ padding <= PoolSize - used
  /\ RoundUp(size, alignment) <= PoolSize - used - padding

Allocate(size, alignment) ==
  LET padding == RoundUp(base + used, alignment) - (base + used)
      at == base + used + padding
      whole == RoundUp(size, alignment) % AddressSize
  IN  /\ base # 0 /\ size # 0 /\ IsPowerOfTwo(alignment)
      /\ Fits(size, alignment, padding)
      /\ allocationCount < MaxAllocations
      /\ allocations' = Append(allocations, [at |-> at, size |-> whole, padding |-> padding, freed |-> FALSE])
      /\ used' = used + padding + whole
      /\ lent' = lent \cup {[at |-> at, size |-> size]}
      /\ UNCHANGED base

\* Mutant: what is freed is taken out of the list, and off the top.
FreedByErasing(k) ==
  [list |-> RemoveAt(allocations, k), used |-> used - allocations[k].size]

(* The tombstones at the top go, the lowest of them with its padding.      *)
Freed(k) ==
  LET marked == [allocations EXCEPT ![k].freed = TRUE]
      rest == SelectLastInSeq(marked, LAMBDA a : ~a.freed)
      lowest == marked[rest + 1]
  IN  [list |-> SubSeq(marked, 1, rest),
       used |-> IF rest = Len(marked) THEN used
                ELSE IF lowest.at - base >= lowest.padding THEN lowest.at - base - lowest.padding ELSE 0]

Free(block) ==
  LET k == SelectInSeq(allocations, LAMBDA a : ~a.freed /\ a.at = block.at) IN
  /\ k # 0
  /\ allocations' = Freed(k).list /\ used' = Freed(k).used
  /\ lent' = lent \ {block}
  /\ UNCHANGED base

ByAddress(S) ==
  CHOOSE s \in [1 .. Cardinality(S) -> S] : \A i, j \in DOMAIN s : i < j => s[i].at < s[j].at

(* Only the tombstones go: blocks that are lent do not move.               *)
Defragment ==
  /\ base # 0
  /\ allocations' = ByAddress({allocations[k] : k \in {i \in DOMAIN allocations : ~allocations[i].freed}})
  /\ used' = IF allocations' = <<>> THEN 0 ELSE Last(allocations').at - base + Last(allocations').size
  /\ UNCHANGED <<base, lent>>

ShutdownPool ==
  /\ base # 0
  /\ base' = 0 /\ used' = 0 /\ allocations' = <<>> /\ lent' = {}

PoolNext ==
  \/ InitializePool \/ Defragment \/ ShutdownPool
  \/ \E size \in Sizes, alignment \in Alignments : Allocate(size, alignment)
  \/ \E block \in lent : Free(block)

PoolSpec == PoolInit /\ [][PoolNext]_poolVars

-----------------------------------------------------------------------------
(* No byte is lent twice and none outside the pool, whatever the order in  *)
(* which blocks come back and however their sizes are rounded.             *)
BlocksApart ==
  \A b \in lent :
    /\ base <= b.at /\ b.at + b.size <= base + PoolSize
    /\ \A c \in lent \ {b} : b.at + b.size <= c.at \/ c.at + c.size <= b.at
=============================================================================
