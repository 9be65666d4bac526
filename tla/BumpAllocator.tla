---------------------------- MODULE BumpAllocator ----------------------------
(***************************************************************************)
(* The kernel's global allocator (kernel/src/alloc/mod.rs): a lock-free    *)
(* bump allocator over a static array, called from any number of execution *)
(* contexts.  The load of HEAP_NEXT and the compare_exchange are separate  *)
(* atomic steps; everything between them is local to the calling context.  *)
(***************************************************************************)
EXTENDS Integers, Sequences

CONSTANTS
  Threads,     \* execution contexts that may call alloc and dealloc
  HEAP_SIZE,   \* bytes of the static HEAP array
  HEAP_ALIGN,  \* alignment the linker gives HEAP: repr(align(16))
  HeapBase,    \* address of HEAP
  USIZE,       \* number of usize values, 2^64 on the target
  Layouts      \* the layouts callers ask for

\* core::alloc::Layout: a non-zero size (a zero size is undefined behaviour
\* for GlobalAlloc) and a power-of-two alignment of at most half the usize
\* range, so that old + align - 1 cannot wrap for a heap of 4 MiB.
ASSUME LayoutAssumption ==
  /\ HEAP_SIZE \in Nat
  /\ USIZE \in Nat
  /\ Layouts # {}
  /\ \A l \in Layouts :
       /\ l = [size |-> l.size, align |-> l.align]
       /\ l.size \in Nat \ {0}
       /\ l.align \in Nat \ {0}
       /\ HEAP_SIZE + l.align <= USIZE

\* The alignments are powers of two, and the linker placed HEAP on a multiple
\* of its own alignment.
ASSUME PlacementAssumption ==
  /\ \A l \in Layouts : \E k \in 0 .. l.align : l.align = 2^k
  /\ HEAP_ALIGN \in Nat \ {0}
  /\ HeapBase \in Nat
  /\ HeapBase % HEAP_ALIGN = 0

VARIABLES
  heapNext,    \* HEAP_NEXT, the atomic offset of the first free byte
  pc,          \* where each context is inside alloc
  layout,      \* layout[t]: argument of t's current or latest alloc
  old,         \* old[t]: what t's latest load of HEAP_NEXT returned
  granted,     \* history: every block ever returned, in order
  freed        \* history: indices into granted that were passed to dealloc

vars == <<heapNext, pc, layout, old, granted, freed>>

Steps == {"idle", "load", "cas", "null", "oom"}

-----------------------------------------------------------------------------

\* old.wrapping_add(align - 1) & !(align - 1), for a power of two align.
AlignUp(x, align) ==
  LET y == (x + align - 1) % USIZE IN y - (y % align)

\* Mutants of Fits: only overflow is checked; the last byte is never given.
FitsUnbounded(x, l) == AlignUp(x, l.align) + l.size < USIZE
FitsStrictly(x, l) == AlignUp(x, l.align) + l.size < HEAP_SIZE

\* aligned.checked_add(size) is Some(n) with n <= HEAP_SIZE.
Fits(x, l) ==
  LET n == AlignUp(x, l.align) + l.size IN n < USIZE /\ n <= HEAP_SIZE

\* The block t takes if its compare_exchange succeeds.
BlockAt(x, l) ==
  [off |-> AlignUp(x, l.align), size |-> l.size, align |-> l.align]

Init ==
  /\ heapNext = 0
  /\ pc = [t \in Threads |-> "idle"]
  /\ layout \in [Threads -> Layouts]
  /\ old = [t \in Threads |-> 0]
  /\ granted = <<>>
  /\ freed = {}

\* A context enters alloc(layout).
Call(t, l) ==
  /\ pc[t] = "idle"
  /\ pc' = [pc EXCEPT ![t] = "load"]
  /\ layout' = [layout EXCEPT ![t] = l]
  /\ UNCHANGED <<heapNext, old, granted, freed>>

\* One turn of the loop up to the compare_exchange: load HEAP_NEXT, align it,
\* and return null when the block does not fit.
Load(t) ==
  /\ pc[t] = "load"
  /\ old' = [old EXCEPT ![t] = heapNext]
  /\ pc' = [pc EXCEPT ![t] = IF Fits(heapNext, layout[t]) THEN "cas" ELSE "null"]
  /\ UNCHANGED <<heapNext, layout, granted, freed>>

\* Mutant of CasSucceeds: a plain store in place of the compare_exchange.
StoreAlways(t) ==
  /\ pc[t] = "cas"
  /\ heapNext' = AlignUp(old[t], layout[t].align) + layout[t].size
  /\ granted' = Append(granted, BlockAt(old[t], layout[t]))
  /\ pc' = [pc EXCEPT ![t] = "idle"]
  /\ UNCHANGED <<layout, old, freed>>

\* compare_exchange(old, new) succeeds and alloc returns base + aligned.
CasSucceeds(t) ==
  /\ pc[t] = "cas"
  /\ heapNext = old[t]
  /\ heapNext' = AlignUp(old[t], layout[t].align) + layout[t].size
  /\ granted' = Append(granted, BlockAt(old[t], layout[t]))
  /\ pc' = [pc EXCEPT ![t] = "idle"]
  /\ UNCHANGED <<layout, old, freed>>

\* Mutant of CasFails: the load is hoisted out of the loop.
RetryWithStaleOld(t) ==
  /\ pc[t] = "cas"
  /\ heapNext # old[t]
  /\ UNCHANGED vars

\* Another context moved HEAP_NEXT since the load: go round the loop again.
CasFails(t) ==
  /\ pc[t] = "cas"
  /\ heapNext # old[t]
  /\ pc' = [pc EXCEPT ![t] = "load"]
  /\ UNCHANGED <<heapNext, layout, old, granted, freed>>

\* alloc returned null to an infallible collection, which calls the
\* alloc_error_handler: it prints a message and spins for ever.
HandleAllocError(t) ==
  /\ pc[t] = "null"
  /\ pc' = [pc EXCEPT ![t] = "oom"]
  /\ UNCHANGED <<heapNext, layout, old, granted, freed>>

\* Mutant of Dealloc: freeing the newest block rewinds HEAP_NEXT.
DeallocRewinds(i) ==
  /\ i \in (1 .. Len(granted)) \ freed
  /\ freed' = freed \union {i}
  /\ heapNext' = IF i = Len(granted) THEN granted[i].off ELSE heapNext
  /\ UNCHANGED <<pc, layout, old, granted>>

\* dealloc(ptr): the allocator's own state does not change.
Dealloc(i) ==
  /\ i \in (1 .. Len(granted)) \ freed
  /\ freed' = freed \union {i}
  /\ UNCHANGED <<heapNext, pc, layout, old, granted>>

Alloc(t) ==
  \/ Load(t)
  \/ CasSucceeds(t)
  \/ CasFails(t)
  \/ HandleAllocError(t)

Next ==
  \/ \E t \in Threads : Alloc(t) \/ \E l \in Layouts : Call(t, l)
  \/ \E i \in 1 .. Len(granted) : Dealloc(i)

Spec == Init /\ [][Next]_vars

\* A context that is inside alloc keeps executing instructions.
Fairness == \A t \in Threads : WF_vars(Alloc(t))

FairSpec == Spec /\ Fairness

-----------------------------------------------------------------------------

Blocks == [off : Nat, size : Nat \ {0}, align : Nat \ {0}]

BlockEnd(b) == b.off + b.size

\* Types of the allocator's state; HEAP_NEXT never leaves the heap.
TypeOK ==
  /\ heapNext \in 0 .. HEAP_SIZE
  /\ pc \in [Threads -> Steps]
  /\ layout \in [Threads -> Layouts]
  /\ old \in [Threads -> 0 .. HEAP_SIZE]
  /\ granted \in Seq(Blocks)
  /\ freed \subseteq 1 .. Len(granted)

\* No two blocks alloc ever returned share a byte, whatever the interleaving
\* of the contexts and whatever was deallocated in between, and every block
\* lies inside HEAP (the SAFETY comment above the GlobalAlloc impl).
BlocksDisjoint ==
  /\ \A i \in 1 .. Len(granted) : BlockEnd(granted[i]) <= HEAP_SIZE
  /\ \A i, j \in 1 .. Len(granted) :
       i < j => BlockEnd(granted[i]) <= granted[j].off

\* Once alloc returned null to a context, its request would not fit at any
\* later time either: giving up is never premature, even though HEAP_NEXT was
\* read some time before the context acts on it and blocks are deallocated.
RefusalIsFinal ==
  \A t \in Threads : pc[t] \in {"null", "oom"} => ~Fits(heapNext, layout[t])

\* The comment on the return expression: "`aligned` is within `HEAP` (checked
\* above) and properly aligned" - for every layout.
ProperlyAligned ==
  \A i \in 1 .. Len(granted) :
    (HeapBase + granted[i].off) % granted[i].align = 0

\* Every call of alloc returns or reaches the out-of-memory handler, although
\* the loop has no bound and other contexts may make it retry: each failed
\* compare_exchange is another context's progress, and the heap is finite.
AllocReturns ==
  \A t \in Threads : pc[t] = "load" ~> pc[t] \in {"idle", "oom"}

-----------------------------------------------------------------------------

\* What a caller sees of where a context is inside alloc.
StatusOf(p) ==
  [idle |-> "idle", load |-> "asking", cas |-> "asking",
   null |-> "refused", oom |-> "aborted"][p]

Status == [t \in Threads |-> StatusOf(pc[t])]

\* The load/compare_exchange loop implements an allocator whose answers are
\* atomic: a grant takes effect at the successful compare_exchange, a refusal
\* at the load that found too little room.
Contract == INSTANCE HeapContract WITH wanted <- layout, status <- Status

\* Every behaviour of the lock-free allocator is one the contract allows.
ImplementsContract == Contract!HeapSpec
=============================================================================
