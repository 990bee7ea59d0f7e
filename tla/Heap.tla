-------------------------------- MODULE Heap --------------------------------
(***************************************************************************)
(* The heap of lwIP, core/mem.c: headers linked in both directions by      *)
(* offsets, first fit from the lowest free block on, neighbours merged     *)
(* when a block is freed.  mem_malloc, mem_free and the second part of     *)
(* mem_trim run under mem_mutex; mem_trim reads the size of the block      *)
(* before it takes the mutex.  One unit here is MEM_ALIGNMENT bytes.       *)
(***************************************************************************)
EXTENDS Integers, FiniteSets

CONSTANTS
  MEM_SIZE_ALIGNED, SIZEOF_STRUCT_MEM, MIN_SIZE_ALIGNED,
  MallocSizes, TrimSizes     \* what is asked for, in units

ASSUME HeapAssumption ==
  /\ SIZEOF_STRUCT_MEM \in Nat \ {0} /\ MIN_SIZE_ALIGNED \in Nat \ {0} /\ MEM_SIZE_ALIGNED \in Nat
  /\ MEM_SIZE_ALIGNED >= SIZEOF_STRUCT_MEM + MIN_SIZE_ALIGNED
  /\ MallocSizes \subseteq Nat /\ TrimSizes \subseteq Nat

VARIABLES
  ram,          \* the header at each offset, NoHeader where there is none
  lfree,        \* offset of the lowest free block
  held,         \* the blocks in use and the size each was asked for, 0 for none
  trim,         \* a thread in mem_trim: [ptr, newsize, size], or NotTrimming
  refused       \* size that the last mem_malloc could not serve, 0 when it could

heapVars == <<ram, lfree, held, trim, refused>>

ram_end == MEM_SIZE_ALIGNED
Offsets == 0..MEM_SIZE_ALIGNED
NoHeader == [next |-> 0, prev |-> 0, used |-> FALSE, is |-> FALSE]
NotTrimming == [ptr |-> ram_end, newsize |-> 0, size |-> 0]
AtLeastMin(n) == IF n < MIN_SIZE_ALIGNED THEN MIN_SIZE_ALIGNED ELSE n

\* mem_init
HeapInit ==
  /\ ram = [k \in Offsets |->
              IF k = 0 THEN [next |-> ram_end, prev |-> 0, used |-> FALSE, is |-> TRUE]
              ELSE IF k = ram_end THEN [next |-> ram_end, prev |-> ram_end, used |-> TRUE, is |-> TRUE]
              ELSE NoHeader]
  /\ lfree = 0 /\ held = [k \in Offsets |-> 0] /\ trim = NotTrimming /\ refused = 0

----------------------------------------------------------------------------
(* The list *)

\* Room of the block at an offset.
Room(h, k) == h[k].next - (k + SIZEOF_STRUCT_MEM)

\* A new header at k2, between k and its successor; ram_end keeps its prev.
Split(h, k, k2, next) ==
  LET g == [h EXCEPT ![k2] = [next |-> next, prev |-> k, used |-> FALSE, is |-> TRUE], ![k].next = k2]
  IN IF next = ram_end THEN g ELSE [g EXCEPT ![next].prev = k2]

\* The block at k swallows its successor; this time ram_end gets the new prev.
Swallow(h, k) ==
  LET n == h[k].next
  IN [h EXCEPT ![k].next = h[n].next, ![h[n].next].prev = k, ![n] = NoHeader]

\* plug_holes for a block that is free: first the next one, then the one before.
MergeNext(h, k) == k # h[k].next /\ ~h[h[k].next].used /\ h[k].next # ram_end
MergePrev(h, k) == h[k].prev # k /\ ~h[h[k].prev].used
PlugNext(s, k) ==
  IF MergeNext(s.ram, k)
    THEN [ram |-> Swallow(s.ram, k), lfree |-> IF s.lfree = s.ram[k].next THEN k ELSE s.lfree] ELSE s
PlugPrev(s, k) ==
  IF MergePrev(s.ram, k)
    THEN [ram |-> Swallow(s.ram, s.ram[k].prev), lfree |-> IF s.lfree = k THEN s.ram[k].prev ELSE s.lfree]
    ELSE s

plug_holes(s, k) == PlugPrev(PlugNext(s, k), k)

\* Offsets the search of mem_malloc visits: headers from lfree on.
Fits(size) ==
  {k \in Offsets : ram[k].is /\ k >= lfree /\ k < MEM_SIZE_ALIGNED - size
                   /\ ~ram[k].used /\ Room(ram, k) >= size}

\* lfree after its block was taken: the next free one, or ram_end.
NextFree(h, from) ==
  LET later == {k \in Offsets : h[k].is /\ k >= from /\ (~h[k].used \/ k = ram_end)}
  IN CHOOSE k \in later : \A j \in later : k <= j

----------------------------------------------------------------------------
(* Operations *)

\* The rest is worth a block of its own.
SplitsOff(room, size) == room >= size + SIZEOF_STRUCT_MEM + MIN_SIZE_ALIGNED

mem_malloc(asked) ==
  LET size == AtLeastMin(asked)
      fit == Fits(size)
      k == CHOOSE j \in fit : \A i \in fit : j <= i
      split == IF SplitsOff(Room(ram, k), size)
                 THEN Split(ram, k, k + SIZEOF_STRUCT_MEM + size, ram[k].next) ELSE ram
      taken == [split EXCEPT ![k].used = TRUE]
  IN /\ asked > 0
     /\ IF size > MEM_SIZE_ALIGNED \/ fit = {}
          THEN refused' = size /\ UNCHANGED <<ram, lfree, held>>
          ELSE /\ ram' = taken /\ lfree' = IF k = lfree THEN NextFree(taken, k) ELSE lfree
               /\ held' = [held EXCEPT ![k] = asked] /\ refused' = 0
     /\ UNCHANGED trim

mem_free(k) ==
  /\ held[k] > 0 /\ trim.ptr # k
  /\ LET s == plug_holes([ram |-> [ram EXCEPT ![k].used = FALSE],
                          lfree |-> IF k < lfree THEN k ELSE lfree], k)
     IN ram' = s.ram /\ lfree' = s.lfree
  /\ held' = [held EXCEPT ![k] = 0] /\ refused' = 0 /\ UNCHANGED trim

\* mem_trim up to the mutex: it returns at once unless the block is to shrink.
TrimBegins(k, asked) ==
  LET size == Room(ram, k)
  IN /\ held[k] > 0 /\ trim = NotTrimming /\ 0 < asked /\ asked <= held[k] /\ AtLeastMin(asked) < size
     /\ trim' = [ptr |-> k, newsize |-> AtLeastMin(asked), size |-> size]
     /\ held' = [held EXCEPT ![k] = asked]
     /\ refused' = 0 /\ UNCHANGED <<ram, lfree>>

\* Where the block behind a trimmed one begins.
TrimmedEnd(t) == t.ptr + SIZEOF_STRUCT_MEM + t.newsize

\* Seeded fault: lfree is not moved with the free block.
MovedLfree_Stays(n, k2) == lfree

MovedLfree(n, k2) == IF lfree = n THEN k2 ELSE lfree

\* Under the mutex: the free block behind is moved forward, or a new one is made of the rest.
TrimEnds ==
  LET k == trim.ptr
      n == ram[k].next
      k2 == TrimmedEnd(trim)
  IN /\ trim # NotTrimming /\ trim' = NotTrimming
     /\ IF ~ram[n].used
          THEN /\ ram' = Split([ram EXCEPT ![n] = NoHeader], k, k2, ram[n].next)
               /\ lfree' = MovedLfree(n, k2)
        ELSE IF SplitsOff(trim.size, trim.newsize)
          THEN ram' = Split(ram, k, k2, n) /\ lfree' = IF k2 < lfree THEN k2 ELSE lfree
        ELSE UNCHANGED <<ram, lfree>>
     /\ refused' = 0 /\ UNCHANGED held

HeapNext ==
  \/ \E n \in MallocSizes : mem_malloc(n)
  \/ \E k \in Offsets : mem_free(k) \/ \E n \in TrimSizes : TrimBegins(k, n)
  \/ TrimEnds

HeapSpec == HeapInit /\ [][HeapNext]_heapVars

----------------------------------------------------------------------------
(* Properties *)

\* Type invariant.
HeapTypeOK ==
  /\ ram \in [Offsets -> [next : Offsets, prev : Offsets, used : BOOLEAN, is : BOOLEAN]]
  /\ lfree \in Offsets /\ held \in [Offsets -> Nat] /\ refused \in Nat

\* The list covers the heap without gap and overlap, in both directions, in blocks that have room
\* for a header and the minimum; only ram_end's prev is not kept up.
HeapIsChained ==
  \A k \in Offsets : ram[k].is /\ k # ram_end =>
    /\ ram[ram[k].next].is /\ Room(ram, k) >= MIN_SIZE_ALIGNED
    /\ ~\E j \in k + 1..ram[k].next - 1 : ram[j].is
    /\ ram[k].next # ram_end => ram[ram[k].next].prev = k

\* No two free blocks are neighbours and lfree is the lowest of them: what mem_malloc's search from
\* lfree on relies on.
FreeBlocksMerged ==
  /\ \A k \in Offsets : ram[k].is /\ ~ram[k].used => ram[ram[k].next].used
  /\ lfree = NextFree(ram, 0)

\* A refusal of mem_malloc is final: no free block could have served it, whatever was freed, merged
\* and trimmed before.
RefusedOnlyWhenFull ==
  refused > 0 => \A k \in Offsets : ram[k].is /\ ~ram[k].used => Room(ram, k) < refused

\* Whoever holds a block has all the room he asked for, also while and after the block is trimmed
\* with a size read before the mutex was taken, and a block nobody holds is free.
HoldersHaveRoom ==
  \A k \in Offsets :
    /\ held[k] > 0 => ram[k].is /\ ram[k].used /\ Room(ram, k) >= held[k]
    /\ ram[k].is /\ ram[k].used /\ k # ram_end => held[k] > 0

\* The heap of mem.c as a whole: blocks chained without gap, free neighbours merged, no refusal in
\* vain, and all of what was asked for to whoever holds a block.
HeapSound ==
  HeapTypeOK /\ HeapIsChained /\ FreeBlocksMerged /\ RefusedOnlyWhenFull /\ HoldersHaveRoom
=============================================================================
