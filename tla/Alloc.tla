------------------------------- MODULE Alloc -------------------------------
(***************************************************************************)
(* The allocator of alloc.c.  Chunks of memory are taken from malloc and   *)
(* cut into objects from their start; an object that is freed goes onto    *)
(* the list of its size and is handed out again before anything is cut.    *)
(* Nothing goes back to malloc until the process ends.                     *)
(*                                                                         *)
(* A pointer is a chunk (by the order they were taken in) and an offset.   *)
(* "live" is what the callers hold: every object in the program is freed   *)
(* by ND_DELETE, once, with the size of the type ND_NEW allocated, or, as  *)
(* the strings of nd_strdup, never.                                        *)
(***************************************************************************)
EXTENDS Integers, Sequences, FiniteSets

CONSTANTS
    Sizes,              \* what nd_alloc is asked for
    NDPPD_CHUNK_ALLOC_SIZE,
    NDPPD_CHUNK_ALLOC_MAX,
    NDPPD_MAX_ALLOC,
    SIZEOF_CHUNK,       \* sizeof(ndL_chunk_t)
    MAXCHUNKS           \* bound: malloc has no more than this many chunks

\* (size + 7U) & ~7U
Aligned(size) == ((size + 7) \div 8) * 8

Header == Aligned(SIZEOF_CHUNK)

ASSUME AllocAssumption ==
    /\ Sizes \subseteq Nat
    /\ SIZEOF_CHUNK \in Nat
    /\ NDPPD_MAX_ALLOC \in Nat
    /\ NDPPD_MAX_ALLOC % 8 = 0
    /\ NDPPD_CHUNK_ALLOC_SIZE \in Nat
    /\ NDPPD_CHUNK_ALLOC_MAX \in Nat
    /\ Header + NDPPD_MAX_ALLOC <= NDPPD_CHUNK_ALLOC_SIZE
    /\ NDPPD_CHUNK_ALLOC_SIZE <= NDPPD_CHUNK_ALLOC_MAX
    /\ MAXCHUNKS \in Nat

VARIABLES
    chunks,         \* ndL_chunks, oldest first: their size and what is left of it
    alloc_size,     \* ndL_alloc_size
    free_objects,   \* ndL_free_objects
    live,           \* the objects the callers hold, with the size they asked for
    running,        \* FALSE once exit was called
    peak            \* history: the most objects of a bucket that were live at once

vars == <<chunks, alloc_size, free_objects, live, running, peak>>

Buckets == 0 .. (NDPPD_MAX_ALLOC \div 8) - 1

Bucket(size) == (Aligned(size) \div 8) - 1

Room(b) == (b + 1) * 8

Valid(size) == size # 0 /\ size <= NDPPD_MAX_ALLOC

Init ==
    /\ chunks = <<>>
    /\ alloc_size = NDPPD_CHUNK_ALLOC_SIZE
    /\ free_objects = [b \in Buckets |-> <<>>]
    /\ live = {}
    /\ running = TRUE
    /\ peak = [b \in Buckets |-> 0]

LiveIn(b) == {o \in live : Bucket(o.size) = b}

\* The caller now has the object at p.
Hand(p, size) ==
    /\ live' = live \cup {[chunk |-> p.chunk, off |-> p.off, size |-> size]}
    /\ LET b == Bucket(size)
           n == Cardinality(LiveIn(b)) + 1
       IN peak' = [peak EXCEPT ![b] = IF n > @ THEN n ELSE @]

ndL_fatal ==
    /\ running' = FALSE
    /\ UNCHANGED <<chunks, alloc_size, free_objects, live, peak>>

\* The pointer to what is left of a chunk.
Rest(c, chunk) == [chunk |-> c, off |-> chunk.size - chunk.free]

\* The first chunk of the list, the last one taken being its head, with the room.
Fits(c, size) ==
    /\ chunks[c].free >= size
    /\ \A d \in c + 1 .. Len(chunks) : chunks[d].free < size

\* The object that was freed last.
Reuse(size) ==
    LET b == Bucket(size)
    IN /\ free_objects[b] # <<>>
       /\ Hand(Head(free_objects[b]), size)
       /\ free_objects' = [free_objects EXCEPT ![b] = Tail(@)]
       /\ UNCHANGED <<chunks, alloc_size, running>>

\* Mutant: cuts a new object although one could be used again.
CutFirst(size) ==
    /\ \E c \in DOMAIN chunks :
        /\ Fits(c, Aligned(size))
        /\ Hand(Rest(c, chunks[c]), size)
        /\ chunks' = [chunks EXCEPT ![c].free = @ - Aligned(size)]
    /\ UNCHANGED <<alloc_size, free_objects, running>>

\* Mutant: the room an object takes is not rounded.
CutUnrounded(size) ==
    /\ free_objects[Bucket(size)] = <<>>
    /\ \E c \in DOMAIN chunks :
        /\ Fits(c, Aligned(size))
        /\ Hand(Rest(c, chunks[c]), size)
        /\ chunks' = [chunks EXCEPT ![c].free = @ - size]
    /\ UNCHANGED <<alloc_size, free_objects, running>>

Cut(size) ==
    /\ free_objects[Bucket(size)] = <<>>
    /\ \E c \in DOMAIN chunks :
        /\ Fits(c, Aligned(size))
        /\ Hand(Rest(c, chunks[c]), size)
        /\ chunks' = [chunks EXCEPT ![c].free = @ - Aligned(size)]
    /\ UNCHANGED <<alloc_size, free_objects, running>>

NoRoom(size) ==
    /\ free_objects[Bucket(size)] = <<>>
    /\ \A c \in DOMAIN chunks : chunks[c].free < Aligned(size)

\* Mutant: the growth of the chunks has no limit.
DoubledUncapped == alloc_size * 2

\* A chunk twice the size of the one before, up to the limit.
Doubled ==
    LET s == IF alloc_size < NDPPD_CHUNK_ALLOC_MAX THEN alloc_size * 2 ELSE alloc_size
    IN IF s > NDPPD_CHUNK_ALLOC_MAX THEN NDPPD_CHUNK_ALLOC_MAX ELSE s

Grow(size) ==
    /\ NoRoom(size)
    /\ Len(chunks) < MAXCHUNKS
    /\ LET chunk == [size |-> alloc_size, free |-> alloc_size - Header]
       IN /\ Hand(Rest(Len(chunks) + 1, chunk), size)
          /\ chunks' = Append(chunks, [chunk EXCEPT !.free = @ - Aligned(size)])
    /\ alloc_size' = Doubled
    /\ UNCHANGED <<free_objects, running>>

OutOfMemory(size) == NoRoom(size) /\ ndL_fatal

nd_alloc(size) ==
    \/ ~Valid(size) /\ ndL_fatal
    \/ Valid(size) /\ (Reuse(size) \/ Cut(size) \/ Grow(size) \/ OutOfMemory(size))

\* A caller frees what it holds.
nd_free(o) ==
    /\ live' = live \ {o}
    /\ free_objects' =
        [free_objects EXCEPT ![Bucket(o.size)] = <<[chunk |-> o.chunk, off |-> o.off]>> \o @]
    /\ UNCHANGED <<chunks, alloc_size, running, peak>>

\* The process ends, and with it every chunk.
nd_alloc_cleanup ==
    /\ running' = FALSE
    /\ UNCHANGED <<chunks, alloc_size, free_objects, live, peak>>

Next ==
    /\ running
    /\ \/ \E size \in Sizes : nd_alloc(size)
       \/ \E o \in live : nd_free(o)
       \/ nd_alloc_cleanup

Spec == Init /\ [][Next]_vars

-----------------------------------------------------------------------------

Apart(o, p) ==
    o.chunk = p.chunk =>
        \/ o.off + Aligned(o.size) <= p.off
        \/ p.off + Aligned(p.size) <= o.off

\* In the part of its chunk that was cut.
Inside(o) ==
    /\ o.chunk \in DOMAIN chunks
    /\ o.off % 8 = 0
    /\ o.off >= Header
    /\ o.off + Aligned(o.size) <= chunks[o.chunk].size - chunks[o.chunk].free
    /\ chunks[o.chunk].free >= 0

\* What nd_alloc hands out is aligned, lies in the part of a chunk that was cut, behind the
\* chunk's header, and overlaps no other object a caller holds, whatever was freed and
\* handed out again before (nd_alloc, nd_free).
NoOverlap ==
    /\ \A o \in live : Inside(o)
    /\ \A o, p \in live : o # p => Apart(o, p)

\* The memory in use never exceeds the peak: the objects of a size that exist, held or on the
\* free list, are as many as were ever held at once, so nothing is cut while an object could
\* have been used again and nothing that was freed is lost (nd_alloc, nd_free).
PeakIsFloor ==
    \A b \in Buckets : Cardinality(LiveIn(b)) + Len(free_objects[b]) = peak[b]

\* A chunk is taken only when no other has the room: all but the last one taken have less
\* left than the largest object needs, and none is larger than NDPPD_CHUNK_ALLOC_MAX
\* (alloc.c:27, "Cap on per-chunk growth").
ChunksFilled ==
    \A c \in DOMAIN chunks :
        /\ chunks[c].size <= NDPPD_CHUNK_ALLOC_MAX
        /\ c < Len(chunks) => chunks[c].free < NDPPD_MAX_ALLOC
=============================================================================
