--------------------------------- MODULE Heap ---------------------------------
(***************************************************************************)
(* The heap below malloc (app/syscalls.c): _sbrk moves heap_ptr up and     *)
(* hands out what it passed over; _sbrk_r is the same code on the same     *)
(* pointer.  The shell calls malloc with other tasks running; pvPortMalloc *)
(* of FreeRTOS' heap_3, which xTaskCreate calls, suspends the scheduler    *)
(* first.                                                                  *)
(***************************************************************************)
EXTENDS Integers

CONSTANTS
  HeapStart, HeapEnd,  \* __heap_start and __heap_end of the linker script
  Align,               \* 8
  Sizes                \* bytes that malloc asks for, block headers included

ASSUME HeapAssumption ==
  /\ HeapStart \in Nat \ {0} /\ HeapEnd \in Nat /\ HeapStart <= HeapEnd
  /\ Align \in Nat \ {0}
  /\ Sizes \subseteq Nat \ {0}

VARIABLES
  heap_ptr,   \* 0 before the first call
  sbrk,       \* the shell's call: "idle", or "store" between its load and store
  base, nbytes, \* locals of that call
  blocks,     \* [from, to) of everything handed out
  overlapped  \* history: another task was served inside a call of the shell

heapvars == <<heap_ptr, sbrk, base, nbytes, blocks, overlapped>>

HeapInit ==
  /\ heap_ptr = 0
  /\ sbrk = "idle" /\ base = 0 /\ nbytes = 0
  /\ blocks = {} /\ overlapped = FALSE

AlignUp(a) == ((a + Align - 1) \div Align) * Align
Bottom == IF heap_ptr = 0 THEN HeapStart ELSE heap_ptr

\* Mutant: the end of the heap is not aligned and not compared with what is asked for.
GrowUnchecked(p, b, n) ==
  IF p <= HeapEnd
    THEN /\ heap_ptr' = AlignUp(p + n)
         /\ blocks' = blocks \cup {[from |-> b, to |-> b + n]}
    ELSE heap_ptr' = Bottom /\ blocks' = blocks

\* The end of the heap moves from p, the block begins at b; -1 is returned when
\* there is no room.
Grow(p, b, n) ==
  IF AlignUp(p + n) <= HeapEnd
    THEN /\ heap_ptr' = AlignUp(p + n)
         /\ blocks' = blocks \cup {[from |-> b, to |-> b + n]}
    ELSE heap_ptr' = Bottom /\ blocks' = blocks

\* The shell reads the end of the heap (which its first call initialises) ...
SbrkLoad(n) ==
  /\ sbrk = "idle" /\ sbrk' = "store"
  /\ base' = Bottom /\ heap_ptr' = Bottom
  /\ nbytes' = n
  /\ UNCHANGED <<blocks, overlapped>>

\* ... and writes it back, from the value it read or from a second reading.
SbrkStore ==
  /\ sbrk = "store" /\ sbrk' = "idle"
  /\ \E p \in {base, heap_ptr} : Grow(p, base, nbytes)
  /\ base' = 0 /\ nbytes' = 0
  /\ UNCHANGED overlapped

\* Mutant: what another task takes is not taken off the heap.
PvPortMallocKeepsEnd(n) ==
  /\ blocks' = IF AlignUp(Bottom + n) <= HeapEnd
                 THEN blocks \cup {[from |-> Bottom, to |-> Bottom + n]} ELSE blocks
  /\ overlapped' = (overlapped \/ sbrk = "store")
  /\ heap_ptr' = Bottom
  /\ UNCHANGED <<sbrk, base, nbytes>>

\* Another task: the stack or the control block of a task it creates.
pvPortMalloc(n) ==
  /\ Grow(Bottom, Bottom, n)
  /\ overlapped' = (overlapped \/ sbrk = "store")
  /\ UNCHANGED <<sbrk, base, nbytes>>

HeapNext ==
  \/ \E n \in Sizes : SbrkLoad(n) \/ pvPortMalloc(n)
  \/ SbrkStore

-----------------------------------------------------------------------------
\* Blocks lie in the heap, and all but those at its very start, wherever the linker
\* has put that, begin at a multiple of Align, even when calls overlap.
BlocksInHeap ==
  \A b \in blocks :
    /\ HeapStart <= b.from /\ b.from < b.to /\ b.to <= HeapEnd
    /\ b.from = HeapStart \/ b.from % Align = 0

Apart(b, c) == b.to <= c.from \/ c.to <= b.from

\* No byte is handed out twice, until the one race that is possible has happened:
\* a task served between the shell's reading of heap_ptr and its writing.
BlocksDisjoint ==
  ~overlapped => \A b, c \in blocks : b = c \/ Apart(b, c)
=============================================================================
