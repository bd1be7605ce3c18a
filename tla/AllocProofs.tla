---------------------------- MODULE AllocProofs ----------------------------
(***************************************************************************)
(* That the objects alloc.c hands out never overlap, and that it uses what *)
(* was freed before it cuts more, for every size the callers ask for,      *)
(* every chunk size and every limit.                                       *)
(*                                                                         *)
(* NoOverlap is about the objects callers hold.  It is inductive only      *)
(* together with the same facts about the objects on the free lists, which *)
(* will be handed out again as objects of the size of their bucket.        *)
(***************************************************************************)
EXTENDS Alloc, FiniteSetTheorems, TLAPS

Chunk == [size : Nat, free : Nat]
Pointer == [chunk : Nat, off : Nat]
Object == [chunk : Nat, off : Nat, size : 1 .. NDPPD_MAX_ALLOC]

\* An entry of a free list, as the largest object it can become.
FreeAt(b, i) ==
    [chunk |-> free_objects[b][i].chunk, off |-> free_objects[b][i].off, size |-> Room(b)]

Types ==
    /\ chunks \in Seq(Chunk)
    /\ alloc_size \in Nat
    /\ Header + NDPPD_MAX_ALLOC <= alloc_size
    /\ alloc_size <= NDPPD_CHUNK_ALLOC_MAX
    /\ free_objects \in [Buckets -> Seq(Pointer)]
    /\ live \subseteq Object

\* What was cut of a chunk is a number of whole objects behind the header.
CutWhole ==
    \A c \in DOMAIN chunks :
        /\ chunks[c].size - chunks[c].free >= Header
        /\ (chunks[c].size - chunks[c].free) % 8 = 0

FreeInside == \A b \in Buckets : \A i \in DOMAIN free_objects[b] : Inside(FreeAt(b, i))

FreeFromLive ==
    \A b \in Buckets : \A i \in DOMAIN free_objects[b] : \A o \in live : Apart(FreeAt(b, i), o)

FreeFromFree ==
    \A b, c \in Buckets : \A i \in DOMAIN free_objects[b], j \in DOMAIN free_objects[c] :
        b # c \/ i # j => Apart(FreeAt(b, i), FreeAt(c, j))

AInv ==
    /\ Types
    /\ CutWhole
    /\ ChunksFilled
    /\ NoOverlap
    /\ FreeInside
    /\ FreeFromLive
    /\ FreeFromFree

-----------------------------------------------------------------------------

\* Rounding a size nd_alloc accepts gives a multiple of 8 that its bucket has the room for.
LEMMA Rounding ==
    ASSUME NEW size \in 1 .. NDPPD_MAX_ALLOC
    PROVE  /\ Aligned(size) \in 1 .. NDPPD_MAX_ALLOC
           /\ Aligned(size) % 8 = 0
           /\ Bucket(size) \in Buckets
           /\ Room(Bucket(size)) = Aligned(size)
  <1> DEFINE q == (size + 7) \div 8
  <1>1. /\ q \in Int
        /\ q * 8 <= size + 7
        /\ size <= q * 8
    BY AllocAssumption
  <1>2. /\ NDPPD_MAX_ALLOC \div 8 \in Int
        /\ NDPPD_MAX_ALLOC = (NDPPD_MAX_ALLOC \div 8) * 8
    BY AllocAssumption
  <1>3. Aligned(size) = q * 8
    BY DEF Aligned
  <1> HIDE DEF q
  <1>4. q * 8 \in 1 .. NDPPD_MAX_ALLOC /\ q <= NDPPD_MAX_ALLOC \div 8 /\ q >= 1
    BY <1>1, <1>2, AllocAssumption
  <1>5. (q * 8) % 8 = 0 /\ (q * 8) \div 8 = q
    BY <1>1
  <1> QED
    BY <1>1, <1>2, <1>3, <1>4, <1>5 DEF Bucket, Buckets, Room

\* The room of a bucket is a multiple of 8, that rounding leaves alone.
LEMMA RoomRounded ==
    ASSUME NEW b \in Buckets
    PROVE  Room(b) \in 1 .. NDPPD_MAX_ALLOC /\ Aligned(Room(b)) = Room(b)
  <1>1. b \in Nat /\ Room(b) = (b + 1) * 8 /\ (Room(b) + 7) \div 8 = b + 1
    BY AllocAssumption DEF Buckets, Room
  <1>2. b + 1 <= NDPPD_MAX_ALLOC \div 8
    BY AllocAssumption DEF Buckets
  <1> QED
    BY <1>1, <1>2, AllocAssumption DEF Aligned

\* The header is a multiple of 8.
LEMMA HeaderRounded == Header \in Nat /\ Header % 8 = 0
  BY AllocAssumption DEF Header, Aligned

-----------------------------------------------------------------------------

\* Objects that lie apart do so whichever is named first.
LEMMA ApartBoth ==
    ASSUME NEW o, NEW p, Apart(o, p)
    PROVE  Apart(p, o)
  BY DEF Apart

\* Handing out an object keeps everyone's objects apart if the object is apart from them.
LEMMA HandKeeps ==
    ASSUME AInv,
           NEW o \in Object,
           live' = live \cup {o},
           Types', CutWhole', ChunksFilled', FreeInside', FreeFromFree',
           \A x \in live : Inside(x)' /\ Apart(x, o),
           Inside(o)',
           \A b \in Buckets : \A i \in DOMAIN free_objects'[b] :
               Apart(FreeAt(b, i)', o) /\ \A x \in live : Apart(FreeAt(b, i)', x)
    PROVE  AInv'
  <1>1. NoOverlap'
    <2>1. \A x \in live' : Inside(x)'
      OBVIOUS
    <2>2. \A x, y \in live' : x # y => Apart(x, y)
      BY ApartBoth DEF AInv, NoOverlap
    <2> QED
      BY <2>1, <2>2 DEF NoOverlap, Apart, Aligned
  <1>2. FreeFromLive'
    BY DEF FreeFromLive, Apart, Aligned
  <1> QED
    BY <1>1, <1>2 DEF AInv

\* Taking the object that was freed last.
LEMMA ReuseKeeps ==
    ASSUME AInv, NEW size \in 1 .. NDPPD_MAX_ALLOC, Reuse(size)
    PROVE  AInv'
  <1> DEFINE b == Bucket(size)
  <1>1. b \in Buckets /\ Room(b) = Aligned(size) /\ Aligned(Room(b)) = Aligned(size)
    BY Rounding, RoomRounded
  <1>2. /\ free_objects \in [Buckets -> Seq(Pointer)]
        /\ free_objects[b] # <<>>
        /\ free_objects' = [free_objects EXCEPT ![b] = Tail(@)]
        /\ chunks' = chunks /\ alloc_size' = alloc_size
    BY DEF AInv, Types, Reuse
  <1>3. 1 \in DOMAIN free_objects[b] /\ free_objects[b][1] \in Pointer
    BY <1>1, <1>2
  <1>4. PICK o \in Object :
            /\ o = [chunk |-> free_objects[b][1].chunk, off |-> free_objects[b][1].off, size |-> size]
            /\ live' = live \cup {o}
    <2>1. Head(free_objects[b]) = free_objects[b][1]
      BY <1>1, <1>2
    <2>2. [chunk |-> free_objects[b][1].chunk, off |-> free_objects[b][1].off, size |-> size]
            \in Object
      BY <1>3 DEF Pointer, Object
    <2> QED
      BY <2>1, <2>2 DEF Reuse, Hand
  <1>5. \A c \in Buckets : \A i \in DOMAIN free_objects'[c] :
            \E j \in DOMAIN free_objects[c] :
                /\ free_objects'[c][i] = free_objects[c][j]
                /\ j = IF c = b THEN i + 1 ELSE i
    BY <1>1, <1>2
  <1>6. \A c \in Buckets : \A i \in DOMAIN free_objects'[c] :
            \E j \in DOMAIN free_objects[c] :
                /\ FreeAt(c, i)' = FreeAt(c, j)
                /\ j = IF c = b THEN i + 1 ELSE i
    BY <1>5 DEF FreeAt, Room
  <1>7. Inside(FreeAt(b, 1)) /\ \A x \in live : Apart(FreeAt(b, 1), x)
    BY <1>1, <1>3 DEF AInv, FreeInside, FreeFromLive
  <1>8. /\ FreeAt(b, 1).chunk = o.chunk
        /\ FreeAt(b, 1).off = o.off
        /\ Aligned(FreeAt(b, 1).size) = Aligned(o.size)
    BY <1>1, <1>4 DEF FreeAt
  <1>9. \A x : Apart(FreeAt(b, 1), x) => Apart(x, o)
    BY <1>8 DEF Apart
  <1>10. \A x : Inside(x)' <=> Inside(x)
    BY <1>2 DEF Inside, Header, Aligned
  <1>11. Inside(o)'
    BY <1>7, <1>8, <1>10 DEF Inside
  <1>12. \A x \in live : Inside(x)' /\ Apart(x, o)
    BY <1>7, <1>9, <1>10 DEF AInv, NoOverlap
  <1>13. \A c \in Buckets : \A i \in DOMAIN free_objects'[c] :
            Apart(FreeAt(c, i)', o) /\ \A x \in live : Apart(FreeAt(c, i)', x)
    <2> SUFFICES ASSUME NEW c \in Buckets, NEW i \in DOMAIN free_objects'[c]
                 PROVE  Apart(FreeAt(c, i)', o) /\ \A x \in live : Apart(FreeAt(c, i)', x)
      OBVIOUS
    <2>1. i \in Nat /\ i >= 1
      BY <1>1, <1>2
    <2>2. PICK j \in DOMAIN free_objects[c] :
              FreeAt(c, i)' = FreeAt(c, j) /\ (c # b \/ j # 1)
      BY <1>6, <2>1
    <2>3. Apart(FreeAt(b, 1), FreeAt(c, j))
      BY <1>1, <1>3, <2>2 DEF AInv, FreeFromFree
    <2> QED
      BY <1>9, <2>2, <2>3 DEF AInv, FreeFromLive
  <1>14. FreeInside'
    BY <1>6, <1>10, Zenon DEF AInv, FreeInside
  <1>15. FreeFromFree'
    BY <1>1, <1>2, <1>6 DEF AInv, FreeFromFree
  <1>16. Types' /\ CutWhole' /\ ChunksFilled'
    <2>1. free_objects' \in [Buckets -> Seq(Pointer)]
      BY <1>1, <1>2
    <2>2. live' \subseteq Object
      BY <1>4 DEF AInv, Types
    <2> QED
      BY <1>2, <2>1, <2>2 DEF AInv, Types, CutWhole, ChunksFilled, Header, Aligned
  <1> QED
    BY <1>4, <1>11, <1>12, <1>13, <1>14, <1>15, <1>16, HandKeeps, Zenon

\* An entry of a free list is an object.
LEMMA FreeIsObject ==
    ASSUME Types, NEW b \in Buckets, NEW i \in DOMAIN free_objects[b]
    PROVE  FreeAt(b, i) \in Object
  <1>1. free_objects[b][i] \in Pointer
    BY DEF Types
  <1>2. Room(b) \in 1 .. NDPPD_MAX_ALLOC
    BY RoomRounded
  <1> QED
    BY <1>1, <1>2 DEF FreeAt, Pointer, Object

\* Handing out an object that is cut from a chunk, apart from all that was cut before.
LEMMA FreshKeeps ==
    ASSUME AInv,
           NEW o \in Object,
           live' = live \cup {o},
           free_objects' = free_objects,
           Types', CutWhole', ChunksFilled',
           Inside(o)',
           \A x \in Object : Inside(x) => Inside(x)' /\ Apart(x, o)
    PROVE  AInv'
  <1>1. \A b \in Buckets : \A i \in DOMAIN free_objects[b] :
            /\ FreeAt(b, i)' = FreeAt(b, i)
            /\ FreeAt(b, i) \in Object
            /\ Inside(FreeAt(b, i))
    BY FreeIsObject, Zenon DEF AInv, FreeInside, FreeAt, Room
  <1>2. FreeInside'
    BY <1>1 DEF FreeInside
  <1>3. FreeFromFree'
    BY <1>1 DEF FreeFromFree, AInv
  <1>4. \A x \in live : Inside(x)' /\ Apart(x, o)
    BY DEF AInv, Types, NoOverlap
  <1>5. \A b \in Buckets : \A i \in DOMAIN free_objects'[b] :
            Apart(FreeAt(b, i)', o) /\ \A x \in live : Apart(FreeAt(b, i)', x)
    BY <1>1 DEF AInv, FreeFromLive
  <1> QED
    BY <1>2, <1>3, <1>4, <1>5, HandKeeps, Zenon

\* Multiples of 8 add up to one.
LEMMA EightsAdd ==
    ASSUME NEW m \in Nat, NEW n \in Nat, m % 8 = 0, n % 8 = 0
    PROVE  (m + n) % 8 = 0
  OBVIOUS

\* The sizes of a chunk are natural numbers.
LEMMA ChunkTypes ==
    ASSUME Types
    PROVE  \A c \in DOMAIN chunks :
               /\ c \in 1 .. Len(chunks)
               /\ chunks[c] \in Chunk
               /\ chunks[c].size \in Nat
               /\ chunks[c].free \in Nat
  <1>1. \A c \in DOMAIN chunks : c \in 1 .. Len(chunks) /\ chunks[c] \in Chunk
    BY DEF Types
  <1> QED
    BY <1>1 DEF Chunk

\* Less is left of a chunk.
LEMMA ChunkCut ==
    ASSUME NEW k \in Chunk, NEW n \in Nat, n <= k.free
    PROVE  LET v == [k EXCEPT !.free = k.free - n]
           IN v \in Chunk /\ v.size = k.size /\ v.free = k.free - n
  <1>1. k.free \in Nat /\ k.size \in Nat /\ k = [size |-> k.size, free |-> k.free]
    BY DEF Chunk
  <1>2. [k EXCEPT !.free = k.free - n] = [size |-> k.size, free |-> k.free - n]
    BY DEF Chunk
  <1>3. k.free - n \in Nat
    BY <1>1
  <1> QED
    BY <1>1, <1>2, <1>3 DEF Chunk

\* Cutting an object from a chunk with the room.
LEMMA CutKeeps ==
    ASSUME AInv, NEW size \in 1 .. NDPPD_MAX_ALLOC, Cut(size)
    PROVE  AInv'
  <1> DEFINE n == Aligned(size)
  <1>1. n \in Nat /\ n > 0 /\ n <= NDPPD_MAX_ALLOC /\ n % 8 = 0
    BY Rounding, AllocAssumption
  <1> HIDE DEF n
  <1>2. PICK c \in DOMAIN chunks :
            /\ Fits(c, n)
            /\ Hand(Rest(c, chunks[c]), size)
            /\ chunks' = [chunks EXCEPT ![c].free = @ - n]
    BY Zenon DEF Cut, n
  <1>3. /\ chunks \in Seq(Chunk)
        /\ chunks[c] \in Chunk
        /\ chunks[c].free >= n
        /\ chunks[c].free \in Nat
        /\ chunks[c].size \in Nat
        /\ UNCHANGED <<alloc_size, free_objects>>
    <2>1. Types
      BY DEF AInv
    <2>2. chunks[c].free >= n
      BY <1>2 DEF Fits
    <2>3. UNCHANGED <<alloc_size, free_objects>>
      BY DEF Cut
    <2> QED
      BY <1>2, <2>1, <2>2, <2>3, ChunkTypes DEF Types
  <1>4. /\ chunks' \in Seq(Chunk)
        /\ DOMAIN chunks' = DOMAIN chunks
        /\ Len(chunks') = Len(chunks)
        /\ \A d \in DOMAIN chunks : d # c => chunks'[d] = chunks[d]
        /\ chunks'[c].size = chunks[c].size
        /\ chunks'[c].free = chunks[c].free - n
    <2>1. PICK w \in Chunk :
              /\ w.size = chunks[c].size
              /\ w.free = chunks[c].free - n
              /\ chunks' = [chunks EXCEPT ![c] = w]
      <3> DEFINE v == [chunks[c] EXCEPT !.free = chunks[c].free - n]
      <3>1. v \in Chunk /\ v.size = chunks[c].size /\ v.free = chunks[c].free - n
        BY <1>1, <1>3, ChunkCut
      <3>2. chunks' = [chunks EXCEPT ![c] = v]
        BY <1>2
      <3> HIDE DEF v
      <3> QED
        BY <3>1, <3>2, Zenon
    <2> QED
      BY <1>2, <1>3, <2>1
  <1>5. /\ chunks[c].size - chunks[c].free >= Header
        /\ (chunks[c].size - chunks[c].free) % 8 = 0
    BY <1>2 DEF AInv, CutWhole
  <1>6. PICK o \in Object :
            /\ o.chunk = c
            /\ o.off = chunks[c].size - chunks[c].free
            /\ o.size = size
            /\ live' = live \cup {o}
    <2> DEFINE w == [chunk |-> c, off |-> chunks[c].size - chunks[c].free, size |-> size]
    <2>1. w \in Object
      <3>1. c \in Nat
        BY <1>2, <1>3
      <3>2. chunks[c].size - chunks[c].free \in Nat
        BY <1>3, <1>5, HeaderRounded
      <3> QED
        BY <3>1, <3>2 DEF Object
    <2>2. live' = live \cup {w}
      BY <1>2 DEF Hand, Rest
    <2> QED
      BY <2>1, <2>2
  <1>7. Types'
    BY <1>3, <1>4, <1>6 DEF AInv, Types, Header, Aligned
  <1>8. PICK s \in Nat, f \in Nat :
            /\ s = chunks[c].size /\ f = chunks[c].free
            /\ chunks'[c].size = s /\ chunks'[c].free = f - n
    BY <1>3, <1>4
  <1>9. s - f \in Nat /\ s - (f - n) = (s - f) + n /\ f >= n /\ s - f >= Header
    <2>1. f >= n /\ s - f >= Header
      BY <1>3, <1>5, <1>8, Zenon
    <2> QED
      BY <1>1, <1>8, <2>1, HeaderRounded
  <1>10. CutWhole'
    <2>1. ((s - f) + n) % 8 = 0
      BY <1>1, <1>5, <1>8, <1>9, EightsAdd, Zenon
    <2>2. (s - f) + n >= Header /\ Header' = Header
      BY <1>1, <1>9, HeaderRounded DEF Header, Aligned
    <2>3. \A d \in DOMAIN chunks : d # c => chunks'[d] = chunks[d]
      BY <1>4
    <2>4. chunks'[c].size - chunks'[c].free = (s - f) + n
      BY <1>8, <1>9
    <2> QED
      BY <1>4, <2>1, <2>2, <2>3, <2>4, Zenon DEF AInv, CutWhole
  <1>11. ChunksFilled'
    <2>1. /\ s <= NDPPD_CHUNK_ALLOC_MAX
          /\ c < Len(chunks) => f < NDPPD_MAX_ALLOC
      BY <1>2, <1>8 DEF AInv, ChunksFilled
    <2>2. c < Len(chunks) => f - n < NDPPD_MAX_ALLOC
      BY <1>1, <1>8, <2>1, AllocAssumption
    <2> QED
      BY <1>4, <1>8, <2>1, <2>2 DEF AInv, ChunksFilled
  <1>12. Inside(o)'
    BY <1>1, <1>2, <1>4, <1>5, <1>6, <1>8, <1>9 DEF Inside, n
  <1>13. ASSUME NEW x \in Object, Inside(x)
         PROVE  Inside(x)' /\ Apart(x, o)
    <2>1. Aligned(x.size) \in Nat /\ x.off \in Nat
      BY Rounding DEF Object
    <2>2. CASE x.chunk = c
      <3>1. x.off + Aligned(x.size) <= s - f
        BY <1>8, <1>13, <2>2 DEF Inside
      <3>2. x.off + Aligned(x.size) <= s - (f - n)
        BY <1>1, <1>8, <1>9, <2>1, <3>1
      <3>3. Apart(x, o)
        BY <1>6, <1>8, <2>2, <3>1 DEF Apart
      <3>4. f - n >= 0
        BY <1>1, <1>8, <1>9
      <3>5. Inside(x)'
        BY <1>4, <1>8, <1>13, <2>2, <3>2, <3>4, Zenon DEF Inside, Header, Aligned
      <3> QED
        BY <3>3, <3>5
    <2>3. CASE x.chunk # c
      BY <1>4, <1>6, <1>13, <2>3 DEF Inside, Apart
    <2> QED
      BY <2>2, <2>3
  <1> QED
    BY <1>3, <1>6, <1>7, <1>10, <1>11, <1>12, <1>13, FreshKeeps

\* The size of the next chunk stays between the room for one object and the limit.
LEMMA DoubledBounded ==
    ASSUME Types
    PROVE  /\ Doubled \in Nat
           /\ Header + NDPPD_MAX_ALLOC <= Doubled
           /\ Doubled <= NDPPD_CHUNK_ALLOC_MAX
  BY AllocAssumption, HeaderRounded DEF Types, Doubled

\* Cutting an object from a new chunk.
LEMMA GrowKeeps ==
    ASSUME AInv, NEW size \in 1 .. NDPPD_MAX_ALLOC, Grow(size)
    PROVE  AInv'
  <1> DEFINE n == Aligned(size)
             e == Len(chunks) + 1
  <1>1. n \in Nat /\ n > 0 /\ n <= NDPPD_MAX_ALLOC /\ n % 8 = 0
    BY Rounding, AllocAssumption
  <1>2. Types /\ chunks \in Seq(Chunk)
    BY DEF AInv, Types
  <1>3. /\ \A c \in DOMAIN chunks : chunks[c].free < n
        /\ UNCHANGED free_objects
        /\ alloc_size' = Doubled
    BY DEF Grow, NoRoom
  <1> HIDE DEF n
  <1>4. PICK s \in Nat : s = alloc_size /\ Header + n <= s /\ s <= NDPPD_CHUNK_ALLOC_MAX
    BY <1>1, <1>2, HeaderRounded, AllocAssumption DEF Types
  <1>5. /\ s - Header \in Nat /\ (s - Header) - n \in Nat
        /\ s - (s - Header) = Header
        /\ s - ((s - Header) - n) = Header + n
    BY <1>1, <1>4, HeaderRounded
  <1>6. PICK w \in Chunk :
            w.size = s /\ w.free = (s - Header) - n /\ chunks' = Append(chunks, w)
    <2> DEFINE v == [size |-> s, free |-> s - Header]
    <2>1. v \in Chunk /\ n <= v.free
      BY <1>1, <1>4, <1>5, HeaderRounded DEF Chunk
    <2>2. chunks' = Append(chunks, [v EXCEPT !.free = v.free - n])
      BY <1>4 DEF Grow, n
    <2>3. [v EXCEPT !.free = v.free - n] \in Chunk
      BY <1>1, <2>1, ChunkCut
    <2> QED
      BY <2>2, <2>3
  <1>7. /\ chunks' \in Seq(Chunk)
        /\ Len(chunks') = e
        /\ DOMAIN chunks' = DOMAIN chunks \cup {e}
        /\ e \notin DOMAIN chunks
        /\ chunks'[e] = w
        /\ \A c \in DOMAIN chunks : chunks'[c] = chunks[c]
        /\ e \in Nat
    BY <1>2, <1>6
  <1>8. PICK o \in Object :
            /\ o.chunk = e
            /\ o.off = Header
            /\ o.size = size
            /\ live' = live \cup {o}
    <2>1. [chunk |-> e, off |-> Header, size |-> size] \in Object
      BY <1>7, HeaderRounded DEF Object
    <2>2. live' = live \cup {[chunk |-> e, off |-> s - (s - Header), size |-> size]}
      BY <1>4 DEF Grow, Hand, Rest
    <2> QED
      BY <1>5, <2>1, <2>2
  <1>9. Header' = Header
    BY DEF Header, Aligned
  <1>10. Types'
    BY <1>2, <1>3, <1>7, <1>8, <1>9, DoubledBounded DEF Types
  <1>11. CutWhole'
    <2>1. (Header + n) % 8 = 0 /\ Header + n >= Header
      BY <1>1, HeaderRounded, EightsAdd
    <2>2. w.size - w.free = Header + n
      BY <1>5, <1>6
    <2> QED
      BY <1>7, <1>9, <2>1, <2>2, Zenon DEF AInv, CutWhole
  <1>12. ChunksFilled'
    <2>1. ASSUME NEW c \in DOMAIN chunks
          PROVE  chunks[c].free < NDPPD_MAX_ALLOC
      BY <1>1, <1>2, <1>3, ChunkTypes, AllocAssumption
    <2>2. ~(e < e)
      BY <1>7
    <2>3. \A c \in DOMAIN chunks : chunks[c].size <= NDPPD_CHUNK_ALLOC_MAX
      BY DEF AInv, ChunksFilled
    <2> QED
      BY <1>4, <1>6, <1>7, <2>1, <2>2, <2>3, Zenon DEF ChunksFilled
  <1>13. Inside(o)'
    <2>1. w.size - w.free = Header + n /\ w.free >= 0 /\ Header >= Header /\ Header + n <= Header + n
      BY <1>1, <1>5, <1>6, HeaderRounded
    <2> QED
      BY <1>7, <1>8, <1>9, <2>1, HeaderRounded DEF Inside, n
  <1>14. ASSUME NEW x \in Object, Inside(x)
         PROVE  Inside(x)' /\ Apart(x, o)
    BY <1>7, <1>8, <1>9, <1>14, Zenon DEF Inside, Apart, Aligned
  <1> QED
    BY <1>3, <1>8, <1>10, <1>11, <1>12, <1>13, <1>14, FreshKeeps

\* q is s with x at its head.
Heads(x, s, q) ==
    /\ q[1] = x
    /\ \A i \in DOMAIN q : i # 1 => i - 1 \in DOMAIN s /\ q[i] = s[i - 1]

\* ND_LL_PREPEND moves the other entries of a list by one.
LEMMA Prepended ==
    ASSUME NEW S, NEW x \in S, NEW s \in Seq(S)
    PROVE  <<x>> \o s \in Seq(S) /\ Heads(x, s, <<x>> \o s)
  <1>1. <<x>> \in Seq(S) /\ Len(<<x>>) = 1 /\ <<x>>[1] = x
    OBVIOUS
  <1>2. <<x>> \o s \in Seq(S) /\ Len(<<x>> \o s) = 1 + Len(s)
    BY <1>1
  <1>3. \A i \in 1 .. 1 + Len(s) : (<<x>> \o s)[i] = IF i <= 1 THEN <<x>>[i] ELSE s[i - 1]
    BY <1>1
  <1>4. Len(s) \in Nat /\ DOMAIN s = 1 .. Len(s) /\ DOMAIN (<<x>> \o s) = 1 .. 1 + Len(s)
    BY <1>2
  <1>5. (<<x>> \o s)[1] = x
    BY <1>1, <1>3, <1>4
  <1> QED
    BY <1>2, <1>3, <1>4, <1>5 DEF Heads

\* Freeing an object: it is on a free list where it was held.
LEMMA FreeKeeps ==
    ASSUME AInv, NEW o \in live, nd_free(o)
    PROVE  AInv'
  <1> DEFINE b == Bucket(o.size)
             p == [chunk |-> o.chunk, off |-> o.off]
  <1>1. /\ o \in Object
        /\ free_objects \in [Buckets -> Seq(Pointer)]
        /\ live' = live \ {o}
        /\ free_objects' = [free_objects EXCEPT ![b] = <<p>> \o free_objects[b]]
        /\ UNCHANGED <<chunks, alloc_size>>
    BY DEF AInv, Types, nd_free
  <1>2. p \in Pointer /\ o.size \in 1 .. NDPPD_MAX_ALLOC
    BY <1>1 DEF Object, Pointer
  <1>3. b \in Buckets /\ Room(b) = Aligned(o.size) /\ Aligned(Room(b)) = Aligned(o.size)
    BY <1>2, Rounding, RoomRounded
  <1>4. PICK q \in Seq(Pointer) : q = <<p>> \o free_objects[b] /\ Heads(p, free_objects[b], q)
    <2>1. free_objects[b] \in Seq(Pointer)
      BY <1>1, <1>3
    <2> HIDE DEF p, b
    <2> QED
      BY <1>2, <2>1, Prepended, Zenon
  <1>5. free_objects' \in [Buckets -> Seq(Pointer)]
        /\ free_objects'[b] = q
        /\ \A c \in Buckets : c # b => free_objects'[c] = free_objects[c]
    BY <1>1, <1>3, <1>4
  <1> HIDE DEF b
  \* Each entry is the object, or one that was there.
  <1>6. \A c \in Buckets : \A i \in DOMAIN free_objects'[c] :
            \/ /\ c = b /\ i = 1
               /\ FreeAt(c, i)' = [chunk |-> o.chunk, off |-> o.off, size |-> Room(b)]
            \/ \E j \in DOMAIN free_objects[c] :
                   /\ FreeAt(c, i)' = FreeAt(c, j)
                   /\ j = IF c = b THEN i - 1 ELSE i
    <2> SUFFICES ASSUME NEW c \in Buckets, NEW i \in DOMAIN free_objects'[c]
                 PROVE  \/ /\ c = b /\ i = 1
                           /\ FreeAt(c, i)' = [chunk |-> o.chunk, off |-> o.off, size |-> Room(b)]
                        \/ \E j \in DOMAIN free_objects[c] :
                               /\ FreeAt(c, i)' = FreeAt(c, j)
                               /\ j = IF c = b THEN i - 1 ELSE i
      OBVIOUS
    <2>1. CASE c # b
      BY <1>5, <2>1 DEF FreeAt, Room
    <2>2. CASE c = b /\ i = 1
      BY <1>4, <1>5, <2>2 DEF FreeAt, Room, Heads
    <2>3. CASE c = b /\ i # 1
      BY <1>4, <1>5, <2>3 DEF FreeAt, Room, Heads
    <2> QED
      BY <2>1, <2>2, <2>3
  <1> DEFINE z == [chunk |-> o.chunk, off |-> o.off, size |-> Room(b)]
  <1>7. /\ z.chunk = o.chunk /\ z.off = o.off /\ Aligned(z.size) = Aligned(o.size)
    BY <1>3
  <1>8. \A x : Apart(o, x) => Apart(z, x) /\ Apart(x, z)
    BY <1>7 DEF Apart
  <1>9. \A x : Inside(x)' <=> Inside(x)
    BY <1>1 DEF Inside, Header, Aligned
  <1>10. Inside(z)
    BY <1>7 DEF AInv, NoOverlap, Inside
  <1> HIDE DEF z
  <1>11. FreeInside'
    BY <1>6, <1>9, <1>10 DEF AInv, FreeInside, z
  <1>12. FreeFromLive'
    BY <1>1, <1>6, <1>8 DEF AInv, FreeFromLive, NoOverlap, z
  <1>13. FreeFromFree'
    <2>1. \A c \in Buckets : \A j \in DOMAIN free_objects[c] :
              Apart(z, FreeAt(c, j)) /\ Apart(FreeAt(c, j), z)
      BY <1>8, ApartBoth DEF AInv, FreeFromLive
    <2> SUFFICES ASSUME NEW c \in Buckets, NEW d \in Buckets,
                        NEW i \in DOMAIN free_objects'[c], NEW j \in DOMAIN free_objects'[d],
                        c # d \/ i # j
                 PROVE  Apart(FreeAt(c, i)', FreeAt(d, j)')
      BY DEF FreeFromFree, Apart, Aligned
    <2>2. i \in Int /\ j \in Int
      BY <1>5
    <2> QED
      BY <1>6, <2>1, <2>2 DEF AInv, FreeFromFree, z
  <1>14. NoOverlap'
    BY <1>1, <1>9 DEF AInv, NoOverlap, Apart, Aligned
  <1>15. Types' /\ CutWhole' /\ ChunksFilled'
    BY <1>1, <1>5 DEF AInv, Types, CutWhole, ChunksFilled, Header, Aligned
  <1> QED
    BY <1>11, <1>12, <1>13, <1>14, <1>15 DEF AInv

\* A step that leaves the memory alone.
LEMMA SameMemory ==
    ASSUME AInv, UNCHANGED <<chunks, alloc_size, free_objects, live>>
    PROVE  AInv'
  <1>1. Types' /\ CutWhole' /\ ChunksFilled'
    BY DEF AInv, Types, CutWhole, ChunksFilled, Header, Aligned
  <1>2. NoOverlap'
    BY DEF AInv, NoOverlap, Inside, Apart, Header, Aligned
  <1>3. FreeInside'
    BY DEF AInv, FreeInside, FreeAt, Inside, Header, Aligned, Room
  <1>4. FreeFromLive'
    BY DEF AInv, FreeFromLive, FreeAt, Apart, Aligned, Room
  <1>5. FreeFromFree'
    BY DEF AInv, FreeFromFree, FreeAt, Apart, Aligned, Room
  <1> QED
    BY <1>1, <1>2, <1>3, <1>4, <1>5 DEF AInv

LEMMA StepKeeps == AInv /\ [Next]_vars => AInv'
  <1> SUFFICES ASSUME AInv, [Next]_vars PROVE AInv'
    OBVIOUS
  <1>1. ASSUME NEW size \in Sizes, nd_alloc(size), Valid(size) PROVE AInv'
    <2>1. size \in 1 .. NDPPD_MAX_ALLOC
      BY <1>1, AllocAssumption DEF Valid
    <2>2. Reuse(size) \/ Cut(size) \/ Grow(size) \/ OutOfMemory(size)
      BY <1>1 DEF nd_alloc
    <2>3. OutOfMemory(size) => AInv'
      BY SameMemory DEF OutOfMemory, ndL_fatal
    <2> QED
      BY <2>1, <2>2, <2>3, ReuseKeeps, CutKeeps, GrowKeeps, Zenon
  <1>2. ASSUME NEW size \in Sizes, nd_alloc(size), ~Valid(size) PROVE AInv'
    BY <1>2, SameMemory DEF nd_alloc, ndL_fatal
  <1>3. ASSUME NEW o \in live, nd_free(o) PROVE AInv'
    BY <1>3, FreeKeeps
  <1>4. CASE nd_alloc_cleanup \/ UNCHANGED vars
    BY <1>4, SameMemory DEF nd_alloc_cleanup, vars
  <1> QED
    BY <1>1, <1>2, <1>3, <1>4, Zenon DEF Next

LEMMA InitHolds == Init => AInv
  <1> SUFFICES ASSUME Init PROVE AInv
    OBVIOUS
  <1>1. Types
    BY AllocAssumption DEF Init, Types
  <1>2. DOMAIN chunks = {} /\ \A b \in Buckets : DOMAIN free_objects[b] = {}
    BY DEF Init
  <1> QED
    BY <1>1, <1>2 DEF Init, AInv, CutWhole, ChunksFilled, NoOverlap, FreeInside, FreeFromLive,
                      FreeFromFree

\* For every set of sizes, chunk size and limit: no two objects that nd_alloc has handed out
\* and nd_free has not taken back overlap, and each lies in the cut part of its chunk.
THEOREM NoOverlapThm == Spec => []NoOverlap
  <1>1. AInv => NoOverlap
    BY DEF AInv
  <1> QED
    BY <1>1, InitHolds, StepKeeps, PTL DEF Spec

\* nd_alloc takes a chunk only when the others have less left than the largest object needs,
\* and never one above NDPPD_CHUNK_ALLOC_MAX.
THEOREM ChunksFilledThm == Spec => []ChunksFilled
  <1>1. AInv => ChunksFilled
    BY DEF AInv
  <1> QED
    BY <1>1, InitHolds, StepKeeps, PTL DEF Spec

-----------------------------------------------------------------------------
(* How many objects there are.                                             *)

\* What is held is finite, and the history has its type.
PeakOK ==
    /\ IsFiniteSet(live)
    /\ peak \in [Buckets -> Nat]
    /\ PeakIsFloor

\* The objects of a bucket can be counted.
LEMMA LiveInFinite ==
    ASSUME IsFiniteSet(live), NEW b
    PROVE  IsFiniteSet(LiveIn(b)) /\ Cardinality(LiveIn(b)) \in Nat
  <1>1. LiveIn(b) \in SUBSET live
    BY DEF LiveIn
  <1> QED
    BY <1>1, FS_Subset, FS_CardinalityType

\* The free lists can be counted.
LEMMA FreeLen ==
    ASSUME Types, NEW b \in Buckets
    PROVE  Len(free_objects[b]) \in Nat
  BY DEF Types

\* An object that nobody held is handed out.
LEMMA Enters ==
    ASSUME IsFiniteSet(live), NEW o, o \notin live, live' = live \cup {o}
    PROVE  /\ IsFiniteSet(live')
           /\ \A b : Cardinality(LiveIn(b)') =
                         IF b = Bucket(o.size) THEN Cardinality(LiveIn(b)) + 1 ELSE Cardinality(LiveIn(b))
  <1>1. IsFiniteSet(live')
    BY FS_AddElement
  <1>2. ASSUME NEW b
        PROVE  Cardinality(LiveIn(b)') =
                   IF b = Bucket(o.size) THEN Cardinality(LiveIn(b)) + 1 ELSE Cardinality(LiveIn(b))
    <2>1. IsFiniteSet(LiveIn(b)) /\ o \notin LiveIn(b)
      BY Zenon, LiveInFinite DEF LiveIn
    <2>2. CASE b = Bucket(o.size)
      <3>1. LiveIn(b)' = LiveIn(b) \cup {o}
        BY <2>2 DEF LiveIn, Bucket, Aligned
      <3> QED
        BY <2>1, <2>2, <3>1, FS_AddElement
    <2>3. CASE b # Bucket(o.size)
      <3>1. LiveIn(b)' = LiveIn(b)
        BY <2>3 DEF LiveIn, Bucket, Aligned
      <3> QED
        BY Zenon, <2>3, <3>1
    <2> QED
      BY Zenon, <2>2, <2>3
  <1> QED
    BY <1>1, <1>2

\* An object is taken back.
LEMMA Leaves ==
    ASSUME IsFiniteSet(live), NEW o \in live, live' = live \ {o}
    PROVE  /\ IsFiniteSet(live')
           /\ \A b : Cardinality(LiveIn(b)') =
                         IF b = Bucket(o.size) THEN Cardinality(LiveIn(b)) - 1 ELSE Cardinality(LiveIn(b))
  <1>1. IsFiniteSet(live')
    BY FS_RemoveElement
  <1>2. ASSUME NEW b
        PROVE  Cardinality(LiveIn(b)') =
                   IF b = Bucket(o.size) THEN Cardinality(LiveIn(b)) - 1 ELSE Cardinality(LiveIn(b))
    <2>1. IsFiniteSet(LiveIn(b))
      BY Zenon, LiveInFinite
    <2>2. CASE b = Bucket(o.size)
      <3>1. LiveIn(b)' = LiveIn(b) \ {o} /\ o \in LiveIn(b)
        BY <2>2 DEF LiveIn, Bucket, Aligned
      <3> QED
        BY <2>1, <2>2, <3>1, FS_RemoveElement
    <2>3. CASE b # Bucket(o.size)
      <3>1. LiveIn(b)' = LiveIn(b)
        BY <2>3 DEF LiveIn, Bucket, Aligned
      <3> QED
        BY Zenon, <2>3, <3>1
    <2> QED
      BY Zenon, <2>2, <2>3
  <1> QED
    BY <1>1, <1>2

\* The object handed out is a new one: the peak moves only if the free list had none.
LEMMA HandCounts ==
    ASSUME AInv, PeakOK, NEW size \in 1 .. NDPPD_MAX_ALLOC, NEW p, Hand(p, size),
           [chunk |-> p.chunk, off |-> p.off, size |-> size] \notin live,
           \/ free_objects[Bucket(size)] = <<>> /\ free_objects' = free_objects
           \/ /\ free_objects[Bucket(size)] # <<>>
              /\ free_objects' = [free_objects EXCEPT ![Bucket(size)] = Tail(@)]
    PROVE  PeakOK'
  <1> DEFINE o == [chunk |-> p.chunk, off |-> p.off, size |-> size]
             b == Bucket(size)
             n == Cardinality(LiveIn(b)) + 1
  <1>1. /\ live' = live \cup {o} /\ o \notin live /\ o.size = size
        /\ peak' = [peak EXCEPT ![b] = IF n > peak[b] THEN n ELSE peak[b]]
    BY Zenon DEF Hand
  <1>2. b \in Buckets /\ peak \in [Buckets -> Nat] /\ IsFiniteSet(live) /\ Types
    BY Rounding DEF PeakOK, AInv
  <1> HIDE DEF o
  <1>3. /\ IsFiniteSet(live')
        /\ \A c : Cardinality(LiveIn(c)') = IF c = b THEN Cardinality(LiveIn(c)) + 1 ELSE Cardinality(LiveIn(c))
    <2>1. IsFiniteSet(live')
      BY Zenon, <1>1, <1>2, Enters
    <2>2. ASSUME NEW c
          PROVE  Cardinality(LiveIn(c)') = IF c = b THEN Cardinality(LiveIn(c)) + 1 ELSE Cardinality(LiveIn(c))
      BY Zenon, <1>1, <1>2, Enters
    <2> QED
      BY Zenon, <2>1, <2>2
  <1>4. \A c \in Buckets : Cardinality(LiveIn(c)) \in Nat /\ Len(free_objects[c]) \in Nat
    BY Zenon, <1>2, LiveInFinite, FreeLen
  <1>5. \A c \in Buckets : Cardinality(LiveIn(c)) + Len(free_objects[c]) = peak[c]
    BY DEF PeakOK, PeakIsFloor
  <1>6. n \in Nat
    BY <1>2, <1>4
  <1> HIDE DEF b
  <1>7. peak' \in [Buckets -> Nat]
    <2> HIDE DEF n
    <2> QED
      BY <1>1, <1>2, <1>6
  <1>8. ASSUME NEW c \in Buckets, c # b
        PROVE  Cardinality(LiveIn(c)') + Len(free_objects'[c]) = peak'[c]
    <2>1. free_objects'[c] = free_objects[c] /\ peak'[c] = peak[c]
      <3> HIDE DEF n
      <3> QED
        BY <1>1, <1>2, <1>8 DEF Types, b
    <2>2. Cardinality(LiveIn(c)') = Cardinality(LiveIn(c))
      BY Zenon, <1>3, <1>8
    <2> QED
      BY Zenon, <1>5, <2>1, <2>2
  <1>9. Cardinality(LiveIn(b)') + Len(free_objects'[b]) = peak'[b]
    <2>1. Cardinality(LiveIn(b)') = n /\ peak'[b] = IF n > peak[b] THEN n ELSE peak[b]
      <3>1. Cardinality(LiveIn(b)') = n
        BY Zenon, <1>3
      <3> HIDE DEF n
      <3> QED
        BY <1>1, <1>2, <3>1
    <2>2. n = peak[b] - Len(free_objects[b]) + 1 /\ Len(free_objects[b]) \in Nat /\ peak[b] \in Nat
      BY <1>2, <1>4, <1>5
    <2>3. \/ Len(free_objects[b]) = 0 /\ Len(free_objects'[b]) = 0
          \/ Len(free_objects[b]) # 0 /\ Len(free_objects'[b]) = Len(free_objects[b]) - 1
      BY <1>2 DEF Types, b
    <2> DEFINE held == Cardinality(LiveIn(b)')
               free == Len(free_objects[b])
               left == Len(free_objects'[b])
               old == peak[b]
               new == peak'[b]
    <2> HIDE DEF n, held, free, left, old, new
    <2>4. held = n /\ (new = IF n > old THEN n ELSE old) /\ n = old - free + 1 /\ free \in Nat /\ old \in Nat
      BY Zenon, <2>1, <2>2 DEF held, free, old, new
    <2>5. (free = 0 /\ left = 0) \/ (free # 0 /\ left = free - 1)
      BY Zenon, <2>3 DEF free, left
    <2>6. held + left = new
      BY <2>4, <2>5
    <2> QED
      BY Zenon, <2>6 DEF held, left, new
  <1> QED
    BY <1>3, <1>7, <1>8, <1>9 DEF PeakOK, PeakIsFloor, Buckets

\* What is on a free list is held by nobody.
LEMMA ReuseCounts ==
    ASSUME AInv, PeakOK, NEW size \in 1 .. NDPPD_MAX_ALLOC, Reuse(size)
    PROVE  PeakOK'
  <1> DEFINE b == Bucket(size)
             p == Head(free_objects[b])
             o == [chunk |-> p.chunk, off |-> p.off, size |-> size]
  <1>1. /\ free_objects[b] # <<>> /\ Hand(p, size)
        /\ free_objects' = [free_objects EXCEPT ![b] = Tail(@)]
    BY Zenon DEF Reuse
  <1>2. b \in Buckets /\ free_objects[b] \in Seq(Pointer)
    BY Rounding DEF AInv, Types
  <1>3. 1 \in DOMAIN free_objects[b] /\ p = free_objects[b][1] /\ p \in Pointer
    <2> HIDE DEF b
    <2> QED
      BY <1>1, <1>2
  <1>4. Aligned(Room(b)) \in Nat \ {0}
    BY <1>2, RoomRounded
  <1>5. o \notin live
    <2>1. SUFFICES ASSUME o \in live PROVE FALSE
      OBVIOUS
    <2>2. Apart(FreeAt(b, 1), o)
      BY Zenon, <1>2, <1>3, <2>1 DEF AInv, FreeFromLive
    <2>3. /\ FreeAt(b, 1).chunk = o.chunk /\ FreeAt(b, 1).off = o.off /\ o.off \in Nat
          /\ FreeAt(b, 1).size = Room(b)
      <3> HIDE DEF b
      <3> QED
        BY <1>3 DEF FreeAt, Pointer
    <2>4. Aligned(o.size) \in Nat \ {0}
      BY Rounding
    <2> HIDE DEF o, b
    <2> QED
      BY <1>4, <2>2, <2>3, <2>4 DEF Apart
  <1> QED
    BY Zenon, <1>1, <1>5, HandCounts

\* What is cut was part of no object.
LEMMA CutCounts ==
    ASSUME AInv, PeakOK, NEW size \in 1 .. NDPPD_MAX_ALLOC, Cut(size)
    PROVE  PeakOK'
  <1>1. free_objects[Bucket(size)] = <<>> /\ free_objects' = free_objects
    BY DEF Cut
  <1>2. PICK c \in DOMAIN chunks : Hand(Rest(c, chunks[c]), size)
    BY Zenon DEF Cut
  <1> DEFINE p == Rest(c, chunks[c])
             o == [chunk |-> p.chunk, off |-> p.off, size |-> size]
  <1>3. o.chunk = c /\ o.off = chunks[c].size - chunks[c].free /\ o.size = size
    BY DEF Rest
  <1>4. chunks[c] \in Chunk
    BY DEF AInv, Types
  <1>5. o.off \in Int /\ Aligned(o.size) \in Nat \ {0}
    BY <1>3, <1>4, Rounding DEF Chunk
  <1>6. o \notin live
    <2>1. SUFFICES ASSUME o \in live PROVE FALSE
      OBVIOUS
    <2>2. o.off + Aligned(o.size) <= chunks[o.chunk].size - chunks[o.chunk].free
      BY Zenon, <2>1 DEF AInv, NoOverlap, Inside
    <2> HIDE DEF o
    <2> QED
      BY <1>3, <1>5, <2>2
  <1> QED
    BY Zenon, <1>1, <1>2, <1>6, HandCounts

\* A new chunk holds no object yet.
LEMMA GrowCounts ==
    ASSUME AInv, PeakOK, NEW size \in 1 .. NDPPD_MAX_ALLOC, Grow(size)
    PROVE  PeakOK'
  <1> DEFINE chunk == [size |-> alloc_size, free |-> alloc_size - Header]
             p == Rest(Len(chunks) + 1, chunk)
             o == [chunk |-> p.chunk, off |-> p.off, size |-> size]
  <1>1. free_objects[Bucket(size)] = <<>> /\ free_objects' = free_objects /\ Hand(p, size)
    BY DEF Grow, NoRoom
  <1>2. o.chunk = Len(chunks) + 1 /\ DOMAIN chunks = 1 .. Len(chunks) /\ Len(chunks) \in Nat
    BY DEF Rest, AInv, Types
  <1>3. o \notin live
    <2>1. o \in live => o.chunk \in DOMAIN chunks
      BY Zenon DEF AInv, NoOverlap, Inside
    <2> HIDE DEF o
    <2> QED
      BY <1>2, <2>1
  <1> QED
    BY Zenon, <1>1, <1>3, HandCounts

\* What is freed is on a free list.
LEMMA FreeCounts ==
    ASSUME AInv, PeakOK, NEW o \in live, nd_free(o)
    PROVE  PeakOK'
  <1> DEFINE b == Bucket(o.size)
             p == [chunk |-> o.chunk, off |-> o.off]
  <1>1. /\ live' = live \ {o} /\ peak' = peak
        /\ free_objects' = [free_objects EXCEPT ![b] = <<p>> \o free_objects[b]]
    BY DEF nd_free
  <1>2. o \in Object /\ free_objects \in [Buckets -> Seq(Pointer)] /\ peak \in [Buckets -> Nat] /\ IsFiniteSet(live) /\ Types
    BY DEF AInv, Types, PeakOK
  <1>3. b \in Buckets /\ p \in Pointer
    BY <1>2, Rounding DEF Object, Pointer
  <1> HIDE DEF p
  <1>4. /\ IsFiniteSet(live')
        /\ \A c : Cardinality(LiveIn(c)') = IF c = b THEN Cardinality(LiveIn(c)) - 1 ELSE Cardinality(LiveIn(c))
    BY Zenon, <1>1, <1>2, Leaves
  <1> HIDE DEF b
  <1>5. \A c \in Buckets : Cardinality(LiveIn(c)) \in Nat /\ Len(free_objects[c]) \in Nat
    BY Zenon, <1>2, LiveInFinite, FreeLen
  <1>6. \A c \in Buckets : Len(free_objects'[c]) = IF c = b THEN Len(free_objects[c]) + 1 ELSE Len(free_objects[c])
    BY <1>1, <1>2, <1>3
  <1>7. ASSUME NEW c \in Buckets
        PROVE  Cardinality(LiveIn(c)') + Len(free_objects'[c]) = peak'[c]
    <2>1. Cardinality(LiveIn(c)) + Len(free_objects[c]) = peak[c]
      BY Zenon DEF PeakOK, PeakIsFloor
    <2>2. Cardinality(LiveIn(c)') = IF c = b THEN Cardinality(LiveIn(c)) - 1 ELSE Cardinality(LiveIn(c))
      BY Zenon, <1>4
    <2> QED
      BY <1>1, <1>5, <1>6, <2>1, <2>2
  <1> QED
    BY <1>1, <1>2, <1>4, <1>7 DEF PeakOK, PeakIsFloor, Buckets

\* Every step keeps the count.
LEMMA CountsKept == AInv /\ PeakOK /\ [Next]_vars => PeakOK'
  <1> SUFFICES ASSUME AInv, PeakOK, [Next]_vars PROVE PeakOK'
    OBVIOUS
  <1>1. ASSUME UNCHANGED <<free_objects, live, peak>> PROVE PeakOK'
    BY <1>1 DEF PeakOK, PeakIsFloor, LiveIn, Bucket, Buckets, Aligned
  <1>2. ASSUME NEW size \in Sizes, nd_alloc(size), Valid(size) PROVE PeakOK'
    <2>1. size \in 1 .. NDPPD_MAX_ALLOC
      BY <1>2, AllocAssumption DEF Valid
    <2>2. Reuse(size) \/ Cut(size) \/ Grow(size) \/ OutOfMemory(size)
      BY <1>2 DEF nd_alloc
    <2>3. OutOfMemory(size) => PeakOK'
      BY <1>1 DEF OutOfMemory, ndL_fatal
    <2> QED
      BY <2>1, <2>2, <2>3, ReuseCounts, CutCounts, GrowCounts, Zenon
  <1>3. ASSUME NEW size \in Sizes, nd_alloc(size), ~Valid(size) PROVE PeakOK'
    BY <1>1, <1>3 DEF nd_alloc, ndL_fatal
  <1>4. ASSUME NEW o \in live, nd_free(o) PROVE PeakOK'
    BY <1>4, FreeCounts
  <1>5. CASE nd_alloc_cleanup \/ UNCHANGED vars
    BY <1>1, <1>5 DEF nd_alloc_cleanup, vars
  <1> QED
    BY <1>2, <1>3, <1>4, <1>5, Zenon DEF Next

\* Nothing is cut while an object of its size could be used again, and nothing that was
\* freed is lost, however nd_alloc and nd_free are called: the objects of a size that exist
\* are as many as were ever held at once.
THEOREM PeakIsFloorThm == Spec => []PeakIsFloor
  <1>1. Init => PeakOK
    <2> SUFFICES ASSUME Init PROVE PeakOK
      OBVIOUS
    <2>1. live = {} /\ \A b : LiveIn(b) = {}
      BY DEF Init, LiveIn
    <2>2. peak \in [Buckets -> Nat] /\ \A b \in Buckets : peak[b] = 0 /\ Len(free_objects[b]) = 0
      BY DEF Init
    <2>3. \A b : Cardinality(LiveIn(b)) = 0
      BY Zenon, <2>1, FS_EmptySet
    <2>4. IsFiniteSet(live)
      BY Zenon, <2>1, FS_EmptySet
    <2>5. PeakIsFloor
      BY <2>2, <2>3 DEF PeakIsFloor
    <2> QED
      BY Zenon, <2>2, <2>4, <2>5 DEF PeakOK
  <1>2. PeakOK => PeakIsFloor
    BY DEF PeakOK
  <1> QED
    BY <1>1, <1>2, InitHolds, StepKeeps, CountsKept, PTL DEF Spec

=============================================================================
