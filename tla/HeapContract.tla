---------------------------- MODULE HeapContract ----------------------------
(***************************************************************************)
(* What the kernel's global allocator promises its callers, with nothing   *)
(* of how it keeps the promise: a request is answered in one step, either  *)
(* with a region of the heap that is aligned and that no earlier answer    *)
(* covers, freed or not, or with a refusal, which is allowed only when no  *)
(* aligned region above everything handed out is large enough.             *)
(***************************************************************************)
EXTENDS Integers, Sequences

CONSTANTS
  Threads,     \* execution contexts that may call the allocator
  HEAP_SIZE,   \* bytes of the backing array
  Layouts      \* the layouts callers ask for

VARIABLES
  granted,     \* every block ever handed out, in order
  freed,       \* indices into granted that were given back
  status,      \* status[t]: "idle", "asking", "refused" or "aborted"
  wanted       \* wanted[t]: the layout of t's latest request

heapVars == <<granted, freed, status, wanted>>

BlockEnd(b) == b.off + b.size

\* First byte above every block handed out so far.
Top == IF granted = <<>> THEN 0 ELSE BlockEnd(granted[Len(granted)])

\* Blocks a and b share no byte.
Apart(a, b) == BlockEnd(a) <= b.off \/ BlockEnd(b) <= a.off

HeapInit ==
  /\ granted = <<>>
  /\ freed = {}
  /\ status = [t \in Threads |-> "idle"]
  /\ wanted \in [Threads -> Layouts]

Ask(t, l) ==
  /\ status[t] = "idle"
  /\ status' = [status EXCEPT ![t] = "asking"]
  /\ wanted' = [wanted EXCEPT ![t] = l]
  /\ UNCHANGED <<granted, freed>>

Grant(t) ==
  /\ status[t] = "asking"
  /\ \E off \in 0 .. HEAP_SIZE :
       LET b == [off |-> off, size |-> wanted[t].size, align |-> wanted[t].align]
       IN  /\ off % b.align = 0
           /\ BlockEnd(b) <= HEAP_SIZE
           /\ \A i \in 1 .. Len(granted) : Apart(granted[i], b)
           /\ granted' = Append(granted, b)
  /\ status' = [status EXCEPT ![t] = "idle"]
  /\ UNCHANGED <<freed, wanted>>

Refuse(t) ==
  /\ status[t] = "asking"
  /\ \A off \in Top .. HEAP_SIZE :
       off % wanted[t].align = 0 => off + wanted[t].size > HEAP_SIZE
  /\ status' = [status EXCEPT ![t] = "refused"]
  /\ UNCHANGED <<granted, freed, wanted>>

\* A refused caller cannot go on: the kernel stops it for good.
Abort(t) ==
  /\ status[t] = "refused"
  /\ status' = [status EXCEPT ![t] = "aborted"]
  /\ UNCHANGED <<granted, freed, wanted>>

Free(i) ==
  /\ i \in (1 .. Len(granted)) \ freed
  /\ freed' = freed \union {i}
  /\ UNCHANGED <<granted, status, wanted>>

HeapNext ==
  \/ \E t \in Threads :
       \/ \E l \in Layouts : Ask(t, l)
       \/ Grant(t)
       \/ Refuse(t)
       \/ Abort(t)
  \/ \E i \in 1 .. Len(granted) : Free(i)

HeapSpec == HeapInit /\ [][HeapNext]_heapVars
=============================================================================
