--------------------------- MODULE ChunkLayoutProofs ---------------------------
(***************************************************************************)
(* The plans of ChunkPlan leave no gap and no overlap, for every file size, *)
(* every amount already downloaded and every setting of the constants; and  *)
(* so none of ChunkLayout does, whatever crashes and retries come between.  *)
(* Then the files: recovery throws nothing away that a plan counts on, and  *)
(* a finished download leaves nothing behind that one did.  Last, that the  *)
(* download goes on, and not for ever.                                      *)
(***************************************************************************)
EXTENDS ChunkLayout, WellFoundedInduction, FiniteSetTheorems, TLAPS

(* Division, with a unit that is not a literal.                               *)
LEMMA Division ==
  ASSUME NEW m \in Nat, NEW u \in Nat \ {0}
  PROVE  /\ m % u \in 0..(u - 1)
         /\ m \div u \in Nat
         /\ m = (m \div u) * u + (m % u)
  BY Z3

LEMMA Times ==
  ASSUME NEW i \in Nat, NEW u \in Nat \ {0}
  PROVE  i * u \in Nat /\ i <= i * u /\ (i + 1) * u = i * u + u
  BY Z3

LEMMA TimesMono ==
  ASSUME NEW i \in Nat, NEW j \in Nat, NEW u \in Nat \ {0}, i < j
  PROVE  (i + 1) * u <= j * u
  BY Z3

(* A slice ends within the area, and is empty only if the area is.            *)
LEMMA SliceBounds ==
  ASSUME NEW first \in Nat, NEW end \in Nat, NEW u \in Nat \ {0},
         NEW a \in Slices(first, end, u)
  PROVE  \E i \in Nat : /\ i * u \in Nat
                        /\ a.offset = first + i * u
                        /\ a.offset < end
                        /\ EndOf(a) = Least(first + i * u + u, end)
                        /\ a \in Area /\ a.size > 0 /\ a.size <= u /\ a.filesize = 0
                        /\ EndOf(a) <= end
<1>1. PICK i \in 0..(end - first) :
        first + i * u < end /\ a = NewArea(first + i * u, Least(first + (i + 1) * u, end))
  BY DEF Slices
<1>2. i \in Nat /\ i * u \in Nat /\ (i + 1) * u = i * u + u
  BY Times
<1>3. /\ a.offset = first + i * u
      /\ a.size = Least(first + (i * u + u), end) - (first + i * u)
      /\ a.filesize = 0
      /\ a = [offset |-> a.offset, size |-> a.size, filesize |-> a.filesize]
  BY <1>1, <1>2 DEF NewArea
<1>4. /\ EndOf(a) = Least(first + i * u + u, end)
      /\ a.size \in Nat /\ a.size > 0 /\ a.size <= u /\ EndOf(a) <= end
  <2> DEFINE iu == i * u
  <2>1. iu \in Nat /\ first + iu < end /\ a.offset = first + iu
        /\ a.size = Least(first + (iu + u), end) - (first + iu)
    BY <1>1, <1>2, <1>3
  <2> HIDE DEF iu
  <2>2. /\ EndOf(a) = Least(first + iu + u, end)
        /\ a.size \in Nat /\ a.size > 0 /\ a.size <= u /\ EndOf(a) <= end
    BY <2>1 DEF EndOf, Least
  <2> QED  BY <2>2 DEF iu
<1>5. a \in Area
  BY <1>2, <1>3, <1>4 DEF Area
<1> QED  BY <1>1, <1>2, <1>3, <1>4, <1>5

(* The slices of an area tile it.                                              *)
THEOREM SlicesTile ==
  ASSUME NEW first \in Nat, NEW end \in Nat, NEW u \in Nat \ {0}
  PROVE  Tile(Slices(first, end, u), first, end)
<1> DEFINE S == Slices(first, end, u)
<1>1. \A a \in S : first <= a.offset /\ a.size > 0 /\ EndOf(a) <= end
  <2> SUFFICES ASSUME NEW a \in S PROVE first <= a.offset /\ a.size > 0 /\ EndOf(a) <= end
    OBVIOUS
  <2>1. PICK i \in Nat : i * u \in Nat /\ a.offset = first + i * u /\ a.size > 0 /\ EndOf(a) <= end
    BY SliceBounds
  <2> QED  BY <2>1
<1>2. ASSUME NEW p \in first..(end - 1)
      PROVE  \E a \in S : a.offset <= p /\ p < EndOf(a)
  <2> DEFINE m == p - first
             i == m \div u
             iu == i * u
             a == NewArea(first + iu, Least(first + (i + 1) * u, end))
  <2>1. m \in Nat
    OBVIOUS
  <2>2. i \in Nat /\ m = iu + (m % u) /\ m % u \in 0..(u - 1)
    BY <2>1, Division
  <2>3. iu \in Nat /\ i <= iu /\ (i + 1) * u = iu + u
    BY <2>2, Times
  <2> HIDE DEF i, iu
  <2>4. i \in 0..(end - first) /\ first + iu < end /\ first + iu <= p /\ p < first + iu + u
    BY <2>2, <2>3
  <2>5. a \in S
    BY <2>4 DEF Slices, iu
  <2>6. a.offset = first + iu /\ EndOf(a) = Least(first + (iu + u), end)
    BY <2>3, <2>4 DEF NewArea, EndOf, Least
  <2>7. a.offset <= p /\ p < EndOf(a)
    BY <2>3, <2>4, <2>6 DEF Least
  <2> QED  BY <2>5, <2>7
<1>3. ASSUME NEW a \in S, NEW b \in S, a # b
      PROVE  EndOf(a) <= b.offset \/ EndOf(b) <= a.offset
  <2>1. PICK i \in 0..(end - first) :
          first + i * u < end /\ a = NewArea(first + i * u, Least(first + (i + 1) * u, end))
    BY DEF Slices
  <2>2. PICK j \in 0..(end - first) :
          first + j * u < end /\ b = NewArea(first + j * u, Least(first + (j + 1) * u, end))
    BY DEF Slices
  <2>3. i \in Nat /\ j \in Nat /\ i * u \in Nat /\ j * u \in Nat
        /\ (i + 1) * u = i * u + u /\ (j + 1) * u = j * u + u
    BY Times
  <2> DEFINE iu == i * u
             ju == j * u
  <2>4. /\ a.offset = first + iu /\ EndOf(a) = Least(first + (iu + u), end)
        /\ b.offset = first + ju /\ EndOf(b) = Least(first + (ju + u), end)
        /\ iu \in Nat /\ ju \in Nat
    BY <2>1, <2>2, <2>3 DEF NewArea, EndOf, Least
  <2>5. i < j \/ j < i
    <3>1. i # j
      BY <1>3, <2>1, <2>2, Zenon
    <3> QED  BY <3>1
  <2>6. iu + u <= ju \/ ju + u <= iu
    BY <2>3, <2>5, TimesMono
  <2> HIDE DEF iu, ju
  <2> QED  BY <2>4, <2>6 DEF Least
<1> QED  BY <1>1, <1>2, <1>3 DEF Tile

(* Two tilings, one after the other, make one.                                  *)
LEMMA TileJoin ==
  ASSUME NEW P, NEW Q, NEW x \in Nat, NEW y \in Nat, NEW z \in Nat,
         P \subseteq Area, Q \subseteq Area,
         x <= y, y <= z, Tile(P, x, y), Tile(Q, y, z)
  PROVE  Tile(P \cup Q, x, z)
<1>1. \A a \in P : /\ a.offset \in Nat /\ a.size \in Nat /\ EndOf(a) \in Nat
                   /\ x <= a.offset /\ a.size > 0 /\ EndOf(a) <= y
  BY DEF Tile, Area, EndOf
<1>2. \A a \in Q : /\ a.offset \in Nat /\ a.size \in Nat /\ EndOf(a) \in Nat
                   /\ y <= a.offset /\ a.size > 0 /\ EndOf(a) <= z
  BY DEF Tile, Area, EndOf
<1>3. \A a \in P \cup Q : x <= a.offset /\ a.size > 0 /\ EndOf(a) <= z
  BY <1>1, <1>2
<1>4. \A p \in x..(z - 1) : \E a \in P \cup Q : a.offset <= p /\ p < EndOf(a)
  <2> SUFFICES ASSUME NEW p \in x..(z - 1)
               PROVE  \E a \in P \cup Q : a.offset <= p /\ p < EndOf(a)
    OBVIOUS
  <2>1. CASE p < y
    <3>1. p \in x..(y - 1)
      BY <2>1
    <3> QED  BY <3>1 DEF Tile
  <2>2. CASE y <= p
    <3>1. p \in y..(z - 1)
      BY <2>2
    <3> QED  BY <3>1 DEF Tile
  <2> QED  BY <2>1, <2>2
<1>5. \A a \in P \cup Q, b \in P \cup Q : a # b => EndOf(a) <= b.offset \/ EndOf(b) <= a.offset
  <2> SUFFICES ASSUME NEW a \in P \cup Q, NEW b \in P \cup Q, a # b
               PROVE  EndOf(a) <= b.offset \/ EndOf(b) <= a.offset
    OBVIOUS
  <2>1. CASE a \in P /\ b \in P  BY <2>1 DEF Tile
  <2>2. CASE a \in Q /\ b \in Q  BY <2>2 DEF Tile
  <2>3. CASE a \in P /\ b \in Q  BY <2>3, <1>1, <1>2
  <2>4. CASE a \in Q /\ b \in P  BY <2>4, <1>1, <1>2
  <2> QED  BY <2>1, <2>2, <2>3, <2>4
<1> QED  BY <1>3, <1>4, <1>5 DEF Tile

(* One area is a tiling of itself.                                               *)
LEMMA TileOne ==
  ASSUME NEW a \in Area, a.size > 0
  PROVE  Tile({a}, a.offset, EndOf(a))
  BY DEF Tile, Area, EndOf

LEMMA SlicesAreAreas ==
  ASSUME NEW first \in Nat, NEW end \in Nat, NEW u \in Nat \ {0}
  PROVE  /\ Slices(first, end, u) \subseteq Area
         /\ \A a \in Slices(first, end, u) : a.filesize = 0
<1> SUFFICES ASSUME NEW a \in Slices(first, end, u) PROVE a \in Area /\ a.filesize = 0
  OBVIOUS
<1> QED  BY SliceBounds

--------------------------------------------------------------------------------
(* create_chunk_tasks.                                                            *)

LEMMA BeforehandTiles ==
  ASSUME NEW first \in Nat, NEW end \in Nat, first <= end
  PROVE  /\ Tile(Beforehand(first, end), first, end)
         /\ Beforehand(first, end) \subseteq Area
         /\ \A a \in Beforehand(first, end) : a.filesize = 0
<1> DEFINE tail == (end - first) % ChunkSize
           last == end - tail - ChunkSize
<1>1. ChunkSize \in Nat \ {0} /\ MergeThreshold \in Nat
  BY ChunkPlanAssumption
<1>2. tail \in 0..(ChunkSize - 1)
  <2>1. end - first \in Nat
    OBVIOUS
  <2> QED  BY <2>1, <1>1, Division
<1>3. CASE 0 < tail /\ tail < MergeThreshold /\ first <= last
  <2>1. Beforehand(first, end) = Slices(first, last, ChunkSize) \cup {NewArea(last, end)}
    BY <1>3 DEF Beforehand
  <2>2. last \in Nat /\ last <= end /\ last < end
    BY <1>1, <1>2, <1>3
  <2> HIDE DEF last, tail
  <2>3. NewArea(last, end) \in Area /\ NewArea(last, end).offset = last
        /\ NewArea(last, end).filesize = 0
        /\ NewArea(last, end).size > 0 /\ EndOf(NewArea(last, end)) = end
    BY <2>2 DEF NewArea, Area, EndOf
  <2>4. Tile({NewArea(last, end)}, last, end)
    BY <2>3, TileOne
  <2>5. /\ Tile(Slices(first, last, ChunkSize), first, last)
        /\ Slices(first, last, ChunkSize) \subseteq Area
        /\ \A a \in Slices(first, last, ChunkSize) : a.filesize = 0
    BY <1>1, <2>2, SlicesTile, SlicesAreAreas
  <2>6. {NewArea(last, end)} \subseteq Area
    BY <2>3
  <2>7. Tile(Slices(first, last, ChunkSize) \cup {NewArea(last, end)}, first, end)
    BY <2>2, <2>4, <2>5, <2>6, <1>3, TileJoin
  <2> QED  BY <2>1, <2>3, <2>5, <2>6, <2>7
<1>4. CASE ~(0 < tail /\ tail < MergeThreshold /\ first <= last)
  <2>1. Beforehand(first, end) = Slices(first, end, ChunkSize)
    BY <1>4 DEF Beforehand
  <2> QED  BY <2>1, <1>1, SlicesTile, SlicesAreAreas
<1> QED  BY <1>3, <1>4

(* What holds of the areas of a plan: they tile the file, and each has room for    *)
(* what is on disk of it.                                                          *)
Sound(p, size) ==
  p \subseteq Area /\ Tile(p, 0, size) /\ \A a \in p : a.filesize <= a.size

(* Whatever has been resumed, create_chunk_tasks divides the whole file.           *)
THEOREM CreateTiles ==
  ASSUME NEW size \in Nat \ {0}, NEW resumed \in 0..size
  PROVE  Sound(CreatePlan(size, resumed), size)
<1> DEFINE boundary == BoundaryAfter(resumed, ChunkSize)
           master == IF size < resumed + MinFileSize \/ size <= boundary THEN size ELSE boundary
           a == [offset |-> 0, size |-> master, filesize |-> resumed]
           B == Beforehand(master, size)
<1>1. ChunkSize \in Nat \ {0} /\ MinFileSize \in Nat
  BY ChunkPlanAssumption
<1>2. boundary \in Nat /\ resumed < boundary
  <2>1. resumed % ChunkSize \in 0..(ChunkSize - 1)
    BY <1>1, Division
  <2> QED  BY <1>1, <2>1 DEF BoundaryAfter
<1> HIDE DEF boundary
<1>3. master \in Nat /\ 0 < master /\ master <= size /\ resumed <= master
  BY <1>2
<1>4. CreatePlan(size, resumed) = {a} \cup B
  BY DEF CreatePlan, boundary
<1> HIDE DEF master
<1>5. a \in Area /\ a.offset = 0 /\ a.size > 0 /\ EndOf(a) = master /\ a.filesize <= a.size
  BY <1>3 DEF Area, EndOf
<1>6. Tile({a}, 0, master)
  BY <1>5, TileOne
<1>7. Tile(B, master, size) /\ B \subseteq Area /\ \A b \in B : b.filesize = 0
  BY <1>3, BeforehandTiles
<1>8. \A b \in B : b.filesize <= b.size
  BY <1>7 DEF Area
<1>9. {a} \subseteq Area
  BY <1>5
<1>10. Tile({a} \cup B, 0, size)
  BY <1>3, <1>6, <1>7, <1>9, TileJoin
<1> QED  BY <1>4, <1>5, <1>7, <1>8, <1>9, <1>10 DEF Sound
--------------------------------------------------------------------------------
(* Recovery.                                                                       *)

(* split_download_areas divides an area among itself and new ones, and leaves it    *)
(* room for what is there.                                                          *)
THEOREM SplitTiles ==
  ASSUME NEW a \in Area, a.size > 0, a.filesize <= a.size
  PROVE  /\ Tile(SplitArea(a), a.offset, EndOf(a))
         /\ SplitArea(a) \subseteq Area
         /\ \A b \in SplitArea(a) : b.filesize <= b.size
<1> DEFINE quarter == ChunkSize \div 4
           start == a.offset + a.filesize
           left == EndOf(a) - start
           first == RoundUp(start + quarter, ChunkSize)
           short == [a EXCEPT !.size = first - a.offset]
           S == Slices(first, EndOf(a), ChunkSize)
<1>1. ChunkSize \in Nat \ {0} /\ quarter \in Nat /\ quarter > 0 /\ quarter < ChunkSize
  BY ChunkPlanAssumption
<1>2. a.offset \in Nat /\ a.size \in Nat /\ a.filesize \in Nat /\ start \in Nat
      /\ EndOf(a) = a.offset + a.size /\ EndOf(a) \in Nat
  BY DEF Area, EndOf
<1>3. CASE left <= ChunkSize \/ left - quarter < ChunkSize
  <2>1. SplitArea(a) = {a}
    BY <1>3 DEF SplitArea
  <2> QED  BY <2>1, TileOne
<1>4. CASE ~(left <= ChunkSize \/ left - quarter < ChunkSize)
  <2>1. SplitArea(a) = {short} \cup S
    BY <1>4 DEF SplitArea
  <2> HIDE DEF quarter, start
  <2>2. first \in Nat /\ start + quarter <= first /\ first < start + quarter + ChunkSize
    <3> DEFINE x == start + quarter
               r == x % ChunkSize
               d == (ChunkSize - r) % ChunkSize
    <3>1. x \in Nat
      BY <1>1, <1>2
    <3> HIDE DEF x
    <3>2. r \in 0..(ChunkSize - 1)
      BY <3>1, <1>1, Division
    <3>3. ChunkSize - r \in Nat
      BY <3>2, <1>1
    <3> HIDE DEF r
    <3>4. d \in 0..(ChunkSize - 1)
      BY <3>3, <1>1, Division
    <3>5. first = x + d
      BY DEF RoundUp, x, r
    <3> HIDE DEF d
    <3>6. first \in Nat /\ x <= first /\ first < x + ChunkSize
      BY <3>1, <3>4, <3>5, <1>1
    <3> QED  BY <3>6 DEF x
  <2> HIDE DEF first
  <2>3. first < EndOf(a) /\ a.offset < first /\ a.filesize <= first - a.offset
    BY <1>1, <1>2, <1>4, <2>2 DEF start
  <2>4. short \in Area /\ short.offset = a.offset /\ short.size = first - a.offset
        /\ short.filesize = a.filesize
    BY <1>2, <2>2, <2>3 DEF Area
  <2>5. short.size > 0 /\ EndOf(short) = first /\ short.filesize <= short.size
    BY <1>2, <2>2, <2>3, <2>4 DEF EndOf
  <2> HIDE DEF short
  <2>6. Tile({short}, a.offset, first)
    BY <2>4, <2>5, TileOne
  <2>7. Tile(S, first, EndOf(a)) /\ S \subseteq Area /\ \A b \in S : b.filesize = 0
    BY <1>1, <1>2, <2>2, SlicesTile, SlicesAreAreas
  <2>8. {short} \subseteq Area
    BY <2>4
  <2>9. Tile({short} \cup S, a.offset, EndOf(a))
    BY <1>2, <2>2, <2>3, <2>6, <2>7, <2>8, TileJoin
  <2>10. \A b \in S : b.filesize <= b.size
    BY <2>7 DEF Area
  <2> QED  BY <2>1, <2>5, <2>7, <2>8, <2>9, <2>10
<1> QED  BY <1>3, <1>4

LEMMA LeastExists ==
  ASSUME NEW T \in SUBSET Nat, T # {}
  PROVE  \E x \in T : \A y \in T : x <= y
<1>1. PICK x \in T : \A y \in T : ~(<<y, x>> \in OpToRel(<, Nat))
  BY NatLessThanWellFounded, WFMin
<1>2. \A y \in T : ~(y < x)
  BY <1>1 DEF OpToRel
<1> QED  BY <1>2

(* If areas tile a range, and each is divided, the parts tile the range.             *)
LEMMA SplitAllTile ==
  ASSUME NEW P \in SUBSET Area, NEW x \in Nat, NEW z \in Nat, Tile(P, x, z),
         \A a \in P : a.size > 0 /\ a.filesize <= a.size
  PROVE  Tile(UNION {SplitArea(a) : a \in P}, x, z)
<1> DEFINE Cut(a) == SplitArea(a)
           U == UNION {Cut(a) : a \in P}
<1> HIDE DEF Cut
<1>0. \A a \in P : Tile(Cut(a), a.offset, EndOf(a)) /\ Cut(a) \subseteq Area
  BY SplitTiles DEF Cut
<1>1. \A a \in P : /\ a.offset \in Nat /\ EndOf(a) \in Nat
                   /\ x <= a.offset /\ EndOf(a) <= z
  BY DEF Tile, Area, EndOf
<1>2. \A a \in P : \A b \in Cut(a) :
         /\ b.offset \in Nat /\ EndOf(b) \in Nat
         /\ a.offset <= b.offset /\ b.size > 0 /\ EndOf(b) <= EndOf(a)
  BY <1>0 DEF Tile, Area, EndOf
<1>3. \A b \in U : x <= b.offset /\ b.size > 0 /\ EndOf(b) <= z
  <2> SUFFICES ASSUME NEW a \in P, NEW b \in Cut(a)
               PROVE  x <= b.offset /\ b.size > 0 /\ EndOf(b) <= z
    OBVIOUS
  <2> QED  BY <1>1, <1>2
<1>4. \A p \in x..(z - 1) : \E b \in U : b.offset <= p /\ p < EndOf(b)
  <2> SUFFICES ASSUME NEW p \in x..(z - 1) PROVE \E b \in U : b.offset <= p /\ p < EndOf(b)
    OBVIOUS
  <2>1. PICK a \in P : a.offset <= p /\ p < EndOf(a)
    BY DEF Tile
  <2>2. p \in a.offset..(EndOf(a) - 1)
    BY <1>1, <2>1
  <2>3. Tile(Cut(a), a.offset, EndOf(a))
    BY <1>0
  <2>4. \E b \in Cut(a) : b.offset <= p /\ p < EndOf(b)
    BY <2>2, <2>3 DEF Tile
  <2> QED  BY <2>4
<1>5. \A b \in U, c \in U : b # c => EndOf(b) <= c.offset \/ EndOf(c) <= b.offset
  <2> SUFFICES ASSUME NEW a \in P, NEW b \in Cut(a), NEW d \in P, NEW c \in Cut(d), b # c
               PROVE  EndOf(b) <= c.offset \/ EndOf(c) <= b.offset
    OBVIOUS
  <2>1. CASE a = d
    <3>1. Tile(Cut(a), a.offset, EndOf(a)) /\ c \in Cut(a)
      BY <1>0, <2>1
    <3> QED  BY <3>1 DEF Tile
  <2>2. CASE a # d
    <3>1. EndOf(a) <= d.offset \/ EndOf(d) <= a.offset
      BY <2>2 DEF Tile
    <3> QED  BY <3>1, <1>1, <1>2
  <2> QED  BY <2>1, <2>2
<1> QED  BY <1>3, <1>4, <1>5 DEF Tile, Cut
(* The areas that chunk files lead to: each reaches to the next, and holds its file. *)
LEMMA AdjustedTiles ==
  ASSUME NEW size \in Nat \ {0}, NEW p \in 0..size, NEW f,
         DOMAIN f \subseteq 1..(size - 1), \A o \in DOMAIN f : f[o] \in Nat,
         Valid(f, p, size), Beyond(f, p) # {}
  PROVE  Sound(Adjusted(f, p, size), size)
<1> DEFINE starts == Beyond(f, p)
           ends == starts \cup {size}
           Following(o) == CHOOSE e \in ends : e > o /\ \A g \in ends : g > o => e <= g
           first == CHOOSE e \in starts : \A g \in starts : e <= g
           master == [offset |-> 0, size |-> first, filesize |-> p]
           area(o) == [offset |-> o, size |-> Following(o) - o, filesize |-> f[o]]
<1>1. starts \subseteq 1..(size - 1) /\ ends \subseteq Nat
      /\ \A o \in starts : o \in Nat /\ p <= o /\ f[o] \in Nat
  BY DEF Beyond
<1>2. first \in starts /\ \A g \in starts : first <= g
  <2>1. starts \in SUBSET Nat /\ starts # {}
    BY <1>1
  <2>2. \E e \in starts : \A g \in starts : e <= g
    BY <2>1, LeastExists
  <2> QED  BY <2>2
<1>3. ASSUME NEW o \in starts
      PROVE  Following(o) \in ends /\ Following(o) > o /\ \A g \in ends : g > o => Following(o) <= g
  <2> DEFINE above == {e \in ends : e > o}
  <2>1. above \in SUBSET Nat /\ size \in above
    BY <1>1
  <2>2. PICK e \in above : \A g \in above : e <= g
    BY <2>1, LeastExists
  <2>3. e \in ends /\ e > o /\ \A g \in ends : g > o => e <= g
    BY <2>2
  <2> QED  BY <2>3
<1>4. Adjusted(f, p, size) = {master} \cup {area(o) : o \in starts}
  BY DEF Adjusted
<1> HIDE DEF Following, first
<1>5. master \in Area /\ master.offset = 0 /\ EndOf(master) = first /\ master.size > 0
      /\ master.filesize <= master.size
  BY <1>1, <1>2 DEF Area, EndOf
<1>6. ASSUME NEW o \in starts
      PROVE  /\ area(o) \in Area /\ area(o).offset = o /\ EndOf(area(o)) = Following(o)
             /\ area(o).size > 0 /\ area(o).filesize <= area(o).size /\ Following(o) <= size
  <2>1. Following(o) \in Nat /\ Following(o) > o /\ Following(o) <= size /\ o \in Nat /\ f[o] \in Nat
    BY <1>1, <1>3
  <2>2. o + f[o] <= Following(o)
    <3>1. CASE Following(o) = size
      BY <3>1 DEF Valid
    <3>2. CASE Following(o) # size
      <4>1. Following(o) \in starts
        BY <1>3, <3>2
      <4> QED  BY <4>1, <2>1 DEF Valid
    <3> QED  BY <3>1, <3>2
  <2> QED  BY <2>1, <2>2 DEF Area, EndOf
<1> DEFINE A == {master} \cup {area(o) : o \in starts}
<1>7. A \subseteq Area /\ \A a \in A : a.filesize <= a.size /\ a.size > 0
  BY <1>5, <1>6
<1>8. \A a \in A : 0 <= a.offset /\ a.size > 0 /\ EndOf(a) <= size
  <2>1. first <= size /\ \A o \in starts : 0 <= o
    BY <1>1, <1>2
  <2> QED  BY <2>1, <1>5, <1>6
<1>9. \A q \in 0..(size - 1) : \E a \in A : a.offset <= q /\ q < EndOf(a)
  <2> SUFFICES ASSUME NEW q \in 0..(size - 1) PROVE \E a \in A : a.offset <= q /\ q < EndOf(a)
    OBVIOUS
  <2>1. CASE q < first
    BY <2>1, <1>5
  <2>2. CASE first <= q
    <3> DEFINE back == {q - o : o \in {g \in starts : g <= q}}
    <3>1. back \in SUBSET Nat /\ q - first \in back
      BY <1>1, <1>2, <2>2
    <3>2. PICK d \in back : \A g \in back : d <= g
      BY <3>1, LeastExists
    <3>3. PICK o \in starts : o <= q /\ d = q - o
      BY <3>2
    <3>4. \A g \in starts : g <= q => g <= o
      <4> SUFFICES ASSUME NEW g \in starts, g <= q PROVE g <= o
        OBVIOUS
      <4>1. q - o <= q - g
        BY <3>2, <3>3
      <4> QED  BY <4>1, <1>1
    <3>5. q < Following(o)
      <4> SUFFICES ASSUME Following(o) <= q PROVE FALSE
        BY <1>1, <1>3
      <4>1. Following(o) \in starts
        BY <1>3
      <4> QED  BY <4>1, <3>4, <1>3, <1>1
    <3>6. area(o) \in A /\ area(o).offset <= q /\ q < EndOf(area(o))
      BY <1>6, <3>3, <3>5
    <3> QED  BY <3>6
  <2>3. first \in Nat
    BY <1>1, <1>2
  <2> QED  BY <2>1, <2>2, <2>3
<1>10. \A a \in A, b \in A : a # b => EndOf(a) <= b.offset \/ EndOf(b) <= a.offset
  <2>1. \A o \in starts : EndOf(master) <= area(o).offset
    BY <1>2, <1>5, <1>6
  <2>2. ASSUME NEW o \in starts, NEW g \in starts, o # g
        PROVE  EndOf(area(o)) <= area(g).offset \/ EndOf(area(g)) <= area(o).offset
    <3>1. o < g \/ g < o
      BY <2>2, <1>1
    <3>2. Following(o) <= g \/ Following(g) <= o
      BY <3>1, <1>3
    <3> QED  BY <3>2, <1>6
  <2> HIDE DEF master, area
  <2> SUFFICES ASSUME NEW a \in A, NEW b \in A, a # b
               PROVE  EndOf(a) <= b.offset \/ EndOf(b) <= a.offset
    OBVIOUS
  <2>3. CASE a = master  BY <2>1, <2>3
  <2>4. CASE b = master  BY <2>1, <2>4
  <2>5. CASE a # master /\ b # master
    <3>1. PICK o \in starts : a = area(o)
      BY <2>5
    <3>2. PICK g \in starts : b = area(g)
      BY <2>5
    <3>3. o # g
      BY <3>1, <3>2
    <3> QED  BY <3>1, <3>2, <3>3, <2>2
  <2> QED  BY <2>3, <2>4, <2>5
<1>11. Tile(A, 0, size)
  BY <1>8, <1>9, <1>10 DEF Tile
<1> QED  BY <1>4, <1>7, <1>11 DEF Sound

(* recover_chunks_for_parto_files divides the whole file, and keeps all that is there  *)
(* of chunk files that do not overlap.                                                *)
THEOREM RecoveryTiles ==
  ASSUME NEW size \in Nat \ {0}, NEW p \in 0..size, NEW f,
         DOMAIN f \subseteq 1..(size - 1), \A o \in DOMAIN f : f[o] \in Nat,
         Valid(f, p, size), Beyond(f, p) # {}
  PROVE  Sound(RecoveredPlan(f, p, size), size)
<1> DEFINE A == Adjusted(f, p, size)
<1>1. Sound(A, size)
  BY AdjustedTiles
<1>2. \A a \in A : a \in Area /\ a.size > 0 /\ a.filesize <= a.size
  BY <1>1 DEF Sound, Tile
<1>3. \A a \in A : SplitArea(a) \subseteq Area /\ \A b \in SplitArea(a) : b.filesize <= b.size
  BY <1>2, SplitTiles
<1>4. A \in SUBSET Area /\ Tile(A, 0, size)
  BY <1>1 DEF Sound
<1> HIDE DEF A
<1>5. Tile(UNION {SplitArea(a) : a \in A}, 0, size)
  BY <1>2, <1>4, SplitAllTile
<1>6. RecoveredPlan(f, p, size) = UNION {SplitArea(a) : a \in A}
  BY DEF RecoveredPlan, A
<1> QED  BY <1>3, <1>5, <1>6 DEF Sound

--------------------------------------------------------------------------------
(* On-demand cuts.                                                                    *)

(* create_ondemand_chunks, where the limit does not bite, divides the area.            *)
THEOREM OndemandTiles ==
  ASSUME NEW a \in Area, MayOndemand(a), ~Miscut(a)
  PROVE  /\ Tile(OndemandAreas(a), a.offset, EndOf(a))
         /\ OndemandAreas(a) \subseteq Area
         /\ \A b \in OndemandAreas(a) : b.filesize <= b.size
<1> DEFINE append == a.offset + a.filesize
           boundary == BoundaryAfter(append, OndemandSize)
           kept == [a EXCEPT !.size = Least(boundary - a.offset, a.size - a.filesize)]
           S == Slices(boundary, EndOf(a), OndemandSize)
<1>1. OndemandSize \in Nat \ {0}
  BY ChunkPlanAssumption
<1>2. a.offset \in Nat /\ a.size \in Nat /\ a.filesize \in Nat /\ append \in Nat
      /\ EndOf(a) = a.offset + a.size /\ EndOf(a) \in Nat
  BY DEF Area, EndOf
<1>3. OndemandAreas(a) = {kept} \cup S
  BY DEF OndemandAreas
<1>4. boundary \in Nat /\ append < boundary /\ boundary <= append + OndemandSize
  <2>1. append % OndemandSize \in 0..(OndemandSize - 1)
    BY <1>1, <1>2, Division
  <2> HIDE DEF append
  <2> QED  BY <1>1, <1>2, <2>1 DEF BoundaryAfter
<1>5. boundary - a.offset <= a.size - a.filesize /\ 2 * OndemandSize <= a.size - a.filesize
  <2>1. ~(boundary - a.offset > a.size - a.filesize) /\ a.size - a.filesize >= 2 * OndemandSize
    BY DEF Miscut, MayOndemand
  <2> HIDE DEF boundary
  <2> QED  BY <2>1, <1>1, <1>2, <1>4
<1> HIDE DEF boundary
<1>6. kept \in Area /\ kept.offset = a.offset /\ kept.size = boundary - a.offset
      /\ kept.filesize = a.filesize
  <2>1. Least(boundary - a.offset, a.size - a.filesize) = boundary - a.offset
        /\ boundary - a.offset \in Nat
    BY <1>2, <1>4, <1>5 DEF Least
  <2> QED  BY <2>1, <1>2 DEF Area
<1> HIDE DEF kept
<1>7. kept.size > 0 /\ EndOf(kept) = boundary /\ kept.filesize <= kept.size
      /\ boundary <= EndOf(a) /\ a.offset <= boundary
  BY <1>1, <1>2, <1>4, <1>5, <1>6 DEF EndOf
<1>8. Tile({kept}, a.offset, boundary)
  BY <1>6, <1>7, TileOne
<1>9. Tile(S, boundary, EndOf(a)) /\ S \subseteq Area /\ \A b \in S : b.filesize = 0
  BY <1>1, <1>2, <1>4, SlicesTile, SlicesAreAreas
<1>10. {kept} \subseteq Area
  BY <1>6
<1>11. Tile({kept} \cup S, a.offset, EndOf(a))
  BY <1>2, <1>4, <1>7, <1>8, <1>9, <1>10, TileJoin
<1>12. \A b \in S : b.filesize <= b.size
  BY <1>9 DEF Area
<1> QED  BY <1>3, <1>7, <1>9, <1>10, <1>11, <1>12
LEMMA OndemandWithin ==
  ASSUME NEW a \in Area, MayOndemand(a)
  PROVE  /\ \A b \in OndemandAreas(a) : b \in Area /\ b.size > 0 /\ EndOf(b) <= EndOf(a)
         /\ \E b \in OndemandAreas(a) : b.offset = a.offset
<1> DEFINE append == a.offset + a.filesize
           boundary == BoundaryAfter(append, OndemandSize)
           kept == [a EXCEPT !.size = Least(boundary - a.offset, a.size - a.filesize)]
           S == Slices(boundary, EndOf(a), OndemandSize)
<1>1. OndemandSize \in Nat \ {0}
  BY ChunkPlanAssumption
<1>2. a.offset \in Nat /\ a.size \in Nat /\ a.filesize \in Nat /\ append \in Nat
      /\ EndOf(a) = a.offset + a.size /\ EndOf(a) \in Nat
  BY DEF Area, EndOf
<1>3. OndemandAreas(a) = {kept} \cup S
  BY DEF OndemandAreas
<1>4. boundary \in Nat /\ append < boundary
  <2>1. append % OndemandSize \in 0..(OndemandSize - 1)
    BY <1>1, <1>2, Division
  <2> HIDE DEF append
  <2> QED  BY <1>1, <1>2, <2>1 DEF BoundaryAfter
<1>5. a.size - a.filesize \in Nat /\ a.size - a.filesize > 0 /\ a.size - a.filesize <= a.size
  BY <1>1, <1>2 DEF MayOndemand
<1> HIDE DEF boundary
<1>6. kept \in Area /\ kept.offset = a.offset /\ kept.size > 0 /\ kept.size <= a.size
  <2> DEFINE size == Least(boundary - a.offset, a.size - a.filesize)
  <2>1. size \in Nat /\ size > 0 /\ size <= a.size
    BY <1>2, <1>4, <1>5 DEF Least
  <2>2. kept = [offset |-> a.offset, size |-> size, filesize |-> a.filesize]
    BY DEF Area
  <2> HIDE DEF size, kept
  <2> QED  BY <1>2, <2>1, <2>2 DEF Area
<1> HIDE DEF kept
<1>7. EndOf(kept) <= EndOf(a)
  BY <1>2, <1>6 DEF EndOf, Area
<1>8. ASSUME NEW b \in S PROVE b \in Area /\ b.size > 0 /\ EndOf(b) <= EndOf(a)
  BY <1>1, <1>2, <1>4, SliceBounds
<1> QED  BY <1>3, <1>6, <1>7, <1>8

(* An area of a tiling gives way to a tiling of it.                                    *)
LEMMA TileReplace ==
  ASSUME NEW P \in SUBSET Area, NEW x \in Nat, NEW z \in Nat, Tile(P, x, z), NEW a \in P,
         NEW Q \in SUBSET Area, Tile(Q, a.offset, EndOf(a))
  PROVE  Tile((P \ {a}) \cup Q, x, z)
<1>1. \A b \in P : /\ b.offset \in Nat /\ EndOf(b) \in Nat
                   /\ x <= b.offset /\ b.size > 0 /\ EndOf(b) <= z
  BY DEF Tile, Area, EndOf
<1>2. \A b \in Q : /\ b.offset \in Nat /\ EndOf(b) \in Nat
                   /\ a.offset <= b.offset /\ b.size > 0 /\ EndOf(b) <= EndOf(a)
  BY DEF Tile, Area, EndOf
<1>3. \A b \in (P \ {a}) \cup Q : x <= b.offset /\ b.size > 0 /\ EndOf(b) <= z
  BY <1>1, <1>2
<1>4. \A p \in x..(z - 1) : \E b \in (P \ {a}) \cup Q : b.offset <= p /\ p < EndOf(b)
  <2> SUFFICES ASSUME NEW p \in x..(z - 1)
               PROVE  \E b \in (P \ {a}) \cup Q : b.offset <= p /\ p < EndOf(b)
    OBVIOUS
  <2>1. PICK c \in P : c.offset <= p /\ p < EndOf(c)
    BY DEF Tile
  <2>2. CASE c = a
    <3>1. p \in a.offset..(EndOf(a) - 1)
      BY <1>1, <2>1, <2>2
    <3> QED  BY <3>1 DEF Tile
  <2>3. CASE c # a  BY <2>1, <2>3
  <2> QED  BY <2>2, <2>3
<1>5. \A b \in (P \ {a}) \cup Q, c \in (P \ {a}) \cup Q :
        b # c => EndOf(b) <= c.offset \/ EndOf(c) <= b.offset
  <2> SUFFICES ASSUME NEW b \in (P \ {a}) \cup Q, NEW c \in (P \ {a}) \cup Q, b # c
               PROVE  EndOf(b) <= c.offset \/ EndOf(c) <= b.offset
    OBVIOUS
  <2>0. \A d \in P \ {a} : EndOf(a) <= d.offset \/ EndOf(d) <= a.offset
    BY DEF Tile
  <2>1. CASE b \in P /\ c \in P  BY <2>1 DEF Tile
  <2>2. CASE b \in Q /\ c \in Q  BY <2>2 DEF Tile
  <2>3. CASE b \in P \ {a} /\ c \in Q  BY <2>0, <2>3, <1>1, <1>2
  <2>4. CASE b \in Q /\ c \in P \ {a}  BY <2>0, <2>4, <1>1, <1>2
  <2> QED  BY <2>1, <2>2, <2>3, <2>4
<1> QED  BY <1>3, <1>4, <1>5 DEF Tile

--------------------------------------------------------------------------------
(* The life of a download.                                                              *)

(* Areas lie within the file even where a cut has left a gap between them.              *)
InFile == \A a \in plan : a \in Area /\ a.size > 0 /\ EndOf(a) <= fileSize

IInv == TypeOK /\ InFile /\ Tiles

LEMMA SizesAreNatural == \A n \in Sizes : n \in Nat \ {0}
  BY ChunkLayoutAssumption

(* A new plan, whichever way it was made.                                               *)
LEMMA PlanSound ==
  ASSUME NEW p, Plan(p), fileSize \in Sizes, fileSize' = fileSize, Sound(p, fileSize)
  PROVE  /\ plan' \subseteq Area /\ whole' \subseteq {a.offset : a \in plan'}
         /\ miscut' \in BOOLEAN
         /\ InFile' /\ Tiles'
<1>1. plan' = p /\ whole' \subseteq {a.offset : a \in p} /\ miscut' = FALSE
  BY DEF Plan
<1> QED  BY <1>1, SizesAreNatural DEF Sound, Tile, InFile, Tiles

(* Steps that leave the plan as it is.                                                  *)
LEMMA SamePlan ==
  ASSUME IInv, UNCHANGED <<fileSize, plan, whole, miscut>>,
         phase' = "running" => phase = "running"
  PROVE  /\ plan' \subseteq Area /\ whole' \subseteq {a.offset : a \in plan'}
         /\ miscut' \in BOOLEAN /\ fileSize' \in Sizes
         /\ InFile' /\ Tiles'
BY DEF IInv, TypeOK, InFile, Tiles

LEMMA AreaFacts ==
  ASSUME IInv, NEW a \in plan
  PROVE  /\ fileSize \in Nat \ {0} /\ part \in 0..fileSize
         /\ a \in Area /\ a.offset \in Nat /\ a.size \in Nat /\ a.size > 0
         /\ a.offset + a.size <= fileSize /\ EndOf(a) = a.offset + a.size
         /\ (a.offset > 0 => a.offset \in 1..(fileSize - 1))
BY SizesAreNatural DEF IInv, TypeOK, InFile, Area, EndOf

(* What a chunk file becomes, or that it is gone.                                       *)
FilesOK == \A o \in DOMAIN files : o \in 1..(fileSize - 1) /\ files[o] \in Nat

LEMMA WithoutOK ==
  ASSUME FilesOK, NEW o, files' = Without(o), fileSize' = fileSize
  PROVE  FilesOK'
BY DEF FilesOK, Without

LEMMA NoneOK ==
  ASSUME files' = None
  PROVE  FilesOK'
BY DEF FilesOK, None

(* Every step keeps the plan a tiling, or marks the cut that made a gap in it.            *)
THEOREM LayoutInductive == IInv /\ [Next]_vars => IInv'
<1> SUFFICES ASSUME IInv, [Next]_vars PROVE IInv'
  OBVIOUS
<1> USE DEF FilesOK
<1>0. /\ TypeOK /\ FilesOK /\ fileSize \in Nat \ {0} /\ part \in 0..fileSize
      /\ MaxFaults \in Nat /\ Lengths \subseteq Nat
  BY SizesAreNatural, ChunkLayoutAssumption DEF IInv, TypeOK
<1>1. CASE Start
  <2>1. CASE Valid(files, part, fileSize) /\ Beyond(files, part) = {}
    <3>1. Plan(CreatePlan(fileSize, part)) /\ UNCHANGED <<part, files, stale, fileSize, faults>>
          /\ phase' = "running"
      BY <1>1, <2>1 DEF Start
    <3>2. Sound(CreatePlan(fileSize, part), fileSize)
      BY <1>0, CreateTiles
    <3> QED  BY <1>0, <3>1, <3>2, PlanSound DEF IInv, TypeOK
  <2>2. CASE Valid(files, part, fileSize) /\ Beyond(files, part) # {}
    <3>1. Plan(RecoveredPlan(files, part, fileSize))
          /\ UNCHANGED <<part, files, stale, fileSize, faults>> /\ phase' = "running"
      BY <1>1, <2>2 DEF Start
    <3>2. Sound(RecoveredPlan(files, part, fileSize), fileSize)
      BY <1>0, <2>2, RecoveryTiles
    <3> QED  BY <1>0, <3>1, <3>2, PlanSound DEF IInv, TypeOK
  <2>3. CASE ~Valid(files, part, fileSize)
    <3>1. Plan(CreatePlan(fileSize, 0)) /\ part' = 0 /\ files' = None /\ stale' = {}
          /\ UNCHANGED <<fileSize, faults>> /\ phase' = "running"
      BY <1>1, <2>3 DEF Start
    <3>2. Sound(CreatePlan(fileSize, 0), fileSize)
      BY <1>0, CreateTiles
    <3> QED  BY <1>0, <3>1, <3>2, PlanSound, NoneOK DEF IInv, TypeOK
  <2> QED  BY <2>1, <2>2, <2>3
<1>2. ASSUME NEW a \in plan, Grow(a) PROVE IInv'
  <2>1. PICK n \in Lengths \cup {a.size} : n <= a.size /\ SetLen(a, n)
    BY <1>2 DEF Grow
  <2>2. n \in Nat
    BY <1>0, <2>1, AreaFacts
  <2>3. part' \in 0..fileSize /\ FilesOK'
    <3>1. fileSize' = fileSize
      BY <1>2 DEF Grow
    <3>2. CASE a.offset = 0
      BY <1>0, <2>1, <2>2, <3>1, <3>2, AreaFacts DEF SetLen
    <3>3. CASE a.offset # 0
      <4>1. UNCHANGED part
            /\ files' = [o \in DOMAIN files \cup {a.offset} |-> IF o = a.offset THEN n ELSE files[o]]
        BY <2>1, <3>3 DEF SetLen
      <4>2. a.offset \in 1..(fileSize - 1)
        BY <3>3, AreaFacts
      <4> QED  BY <1>0, <2>2, <3>1, <4>1, <4>2
    <3> QED  BY <3>2, <3>3
  <2>4. UNCHANGED <<phase, fileSize, plan, whole, miscut, stale, faults>>
    BY <1>2 DEF Grow
  <2> QED  BY <1>0, <2>3, <2>4, SamePlan DEF IInv, TypeOK
<1>3. ASSUME NEW a \in plan, Discard(a) PROVE IInv'
  <2>1. files' = Without(a.offset) /\ UNCHANGED <<phase, fileSize, part, plan, whole, miscut, stale, faults>>
    BY <1>3 DEF Discard
  <2>2. FilesOK'
    BY <1>0, <2>1, WithoutOK
  <2> QED  BY <1>0, <2>1, <2>2, SamePlan DEF IInv, TypeOK
<1>4. ASSUME NEW a \in plan, Merge(a) PROVE IInv'
  <2>1. files' = Without(a.offset) /\ part' = part + a.size /\ a.offset = part
        /\ stale' = stale \ {a.offset}
        /\ UNCHANGED <<phase, fileSize, plan, whole, miscut, faults>>
    BY <1>4 DEF Merge
  <2>2. FilesOK' /\ part' \in 0..fileSize
    BY <1>0, <2>1, WithoutOK, AreaFacts
  <2> QED  BY <1>0, <2>1, <2>2, SamePlan DEF IInv, TypeOK
<1>5. ASSUME NEW a \in plan, Ondemand(a) PROVE IInv'
  <2> DEFINE now == [a EXCEPT !.filesize = Len(a)]
             Q == OndemandAreas(now)
  <2>1. /\ MayOndemand(now)
        /\ plan' = (plan \ {a}) \cup Q
        /\ whole' = (whole \cup {b.offset : b \in Q}) \ {a.offset}
        /\ miscut' = (miscut \/ Miscut(now))
        /\ faults < MaxFaults /\ faults' = faults + 1 /\ phase = "running"
        /\ UNCHANGED <<phase, fileSize, part, files, stale>>
    BY <1>5 DEF Ondemand
  <2>2. Len(a) \in Nat
    BY <1>0 DEF Len
  <2>3. now \in Area /\ now.offset = a.offset /\ now.size = a.size
    <3>1. now = [offset |-> a.offset, size |-> a.size, filesize |-> Len(a)]
      BY AreaFacts DEF Area
    <3> HIDE DEF now
    <3> QED  BY <2>2, <3>1, AreaFacts DEF Area
  <2> HIDE DEF now
  <2>4. EndOf(now) = EndOf(a)
    BY <2>3, AreaFacts DEF EndOf
  <2>5. /\ \A b \in Q : b \in Area /\ b.size > 0 /\ EndOf(b) <= EndOf(a)
        /\ \E b \in Q : b.offset = a.offset
    BY <2>1, <2>3, <2>4, OndemandWithin
  <2>6. InFile'
    <3>1. \A b \in Q : EndOf(b) <= fileSize
      <4>1. EndOf(a) \in Nat /\ EndOf(a) <= fileSize
        BY AreaFacts
      <4>2. \A b \in Q : EndOf(b) \in Nat
        BY <2>5 DEF EndOf, Area
      <4> QED  BY <4>1, <4>2, <2>5, <1>0
    <3> QED  BY <3>1, <2>1, <2>5 DEF IInv, InFile
  <2>7. miscut' \in BOOLEAN
    BY <2>1
  <2>8. Tiles'
    <3> SUFFICES ASSUME ~miscut'
                 PROVE  Tile(plan', 0, fileSize') /\ \A b \in plan' : b.filesize <= b.size
      BY <2>7 DEF Tiles
    <3>1. ~miscut /\ ~Miscut(now)
      BY <2>1
    <3>2. Tile(plan, 0, fileSize) /\ \A b \in plan : b.filesize <= b.size
      BY <2>1, <3>1 DEF IInv, Tiles
    <3>3. Tile(Q, a.offset, EndOf(a)) /\ Q \subseteq Area /\ \A b \in Q : b.filesize <= b.size
      BY <2>1, <2>3, <2>4, <3>1, OndemandTiles
    <3>4. plan \in SUBSET Area
      BY <1>0 DEF TypeOK
    <3> HIDE DEF Q
    <3>5. Tile((plan \ {a}) \cup Q, 0, fileSize)
      BY <1>0, <3>2, <3>3, <3>4, TileReplace
    <3> QED  BY <2>1, <3>2, <3>3, <3>5
  <2>9. whole' \subseteq {b.offset : b \in plan'}
    BY <1>0, <2>1 DEF TypeOK
  <2> QED  BY <1>0, <2>1, <2>5, <2>6, <2>7, <2>8, <2>9 DEF IInv, TypeOK
<1>6. ASSUME Retry, faults' \in 0..MaxFaults PROVE IInv'
  <2>1. Sound(CreatePlan(fileSize, 0), fileSize)
    BY <1>0, CreateTiles
  <2> QED  BY <1>0, <1>6, <2>1, PlanSound, NoneOK DEF Retry, IInv, TypeOK
<1>7. CASE Fail \/ FailOnGap
  <2>1. Retry /\ faults' \in 0..MaxFaults
    BY <1>0, <1>7 DEF Fail, FailOnGap, TypeOK
  <2> QED  BY <1>6, <2>1
<1>8. CASE FailIncomplete
  <2>1. Plan(CreatePlan(fileSize, part)) /\ stale' = stale \cup DOMAIN files
        /\ faults < MaxFaults /\ faults' = faults + 1 /\ UNCHANGED <<phase, fileSize, part, files>>
    BY <1>8 DEF FailIncomplete
  <2>2. Sound(CreatePlan(fileSize, part), fileSize)
    BY <1>0, CreateTiles
  <2>3. stale' \subseteq 1..(fileSize' - 1) /\ faults' \in 0..MaxFaults
    <3>1. DOMAIN files \subseteq 1..(fileSize - 1) /\ stale \subseteq 1..(fileSize - 1)
      BY <1>0 DEF TypeOK
    <3>2. faults \in Nat
      BY <1>0 DEF TypeOK
    <3>3. faults' \in 0..MaxFaults
      BY <1>0, <2>1, <3>2
    <3>4. stale' \subseteq 1..(fileSize' - 1)
      BY <2>1, <3>1
    <3> QED  BY <3>3, <3>4
  <2>4. /\ plan' \subseteq Area /\ whole' \subseteq {a.offset : a \in plan'}
        /\ miscut' \in BOOLEAN /\ InFile' /\ Tiles'
    BY <1>0, <2>1, <2>2, PlanSound DEF TypeOK
  <2> QED  BY <1>0, <2>1, <2>3, <2>4 DEF IInv, TypeOK
<1>9. CASE Crash
  BY <1>0, <1>9, SamePlan DEF Crash, IInv, TypeOK
<1>10. ASSUME NEW a \in plan, CrashMerging(a) PROVE IInv'
  <2>1. PICK n \in Lengths \cup {a.size} : n <= a.size /\ part' = part + n
    BY <1>10 DEF CrashMerging
  <2>2. a.offset > 0 /\ a.offset = part /\ stale' = stale \cup {a.offset} /\ phase' = "idle"
        /\ faults < MaxFaults /\ faults' = faults + 1
        /\ UNCHANGED <<fileSize, files, plan, whole, miscut>>
    BY <1>10 DEF CrashMerging
  <2>3. part' \in 0..fileSize /\ a.offset \in 1..(fileSize - 1)
    BY <1>0, <2>1, <2>2, AreaFacts
  <2>4. stale' \subseteq 1..(fileSize' - 1) /\ faults' \in 0..MaxFaults
    <3>1. stale \subseteq 1..(fileSize - 1) /\ faults \in Nat
      BY <1>0 DEF TypeOK
    <3>2. faults' \in 0..MaxFaults
      BY <1>0, <2>2, <3>1
    <3>3. stale' \subseteq 1..(fileSize' - 1)
      BY <2>2, <2>3, <3>1
    <3> QED  BY <3>2, <3>3
  <2>5. /\ plan' \subseteq Area /\ whole' \subseteq {b.offset : b \in plan'}
        /\ miscut' \in BOOLEAN /\ fileSize' \in Sizes /\ InFile' /\ Tiles'
    BY <2>2, SamePlan
  <2> QED  BY <1>0, <2>2, <2>3, <2>4, <2>5 DEF IInv, TypeOK
<1>11. CASE Finalize
  BY <1>0, <1>11, SamePlan DEF Finalize, IInv, TypeOK
<1>12. CASE UNCHANGED vars
  BY <1>0, <1>12, SamePlan DEF vars, IInv, TypeOK
<1> QED  BY <1>1, <1>2, <1>3, <1>4, <1>5, <1>7, <1>8, <1>9, <1>10, <1>11, <1>12 DEF Next, Progress

LEMMA InitLayout == Init => IInv
<1> SUFFICES ASSUME Init PROVE IInv
  OBVIOUS
<1>1. fileSize \in Nat \ {0} /\ DOMAIN files = {} /\ MaxFaults \in Nat
  BY SizesAreNatural, ChunkLayoutAssumption DEF Init, None
<1>2. TypeOK
  <2>1. part \in 0..fileSize /\ faults \in 0..MaxFaults
    BY <1>1 DEF Init
  <2>2. \A o \in DOMAIN files : o \in 1..(fileSize - 1) /\ files[o] \in Nat
    BY <1>1
  <2> QED  BY <2>1, <2>2 DEF Init, TypeOK
<1>3. InFile /\ Tiles
  BY DEF Init, InFile, Tiles
<1> QED  BY <1>2, <1>3 DEF IInv

(* Whatever crashes, retries and cuts, in any number, the areas of a running download    *)
(* tile the file and have room for what is there.                                        *)
THEOREM PlansAlwaysTile == Spec => [](TypeOK /\ Tiles)
<1>1. Init => IInv
  BY InitLayout
<1>2. IInv => TypeOK /\ Tiles
  BY DEF IInv
<1> QED  BY <1>1, <1>2, LayoutInductive, PTL DEF Spec

--------------------------------------------------------------------------------
(* Chunk files and the plan.  Counted files are those the download still relies on.    *)
Counted == DOMAIN files \ stale

(* No byte belongs to two areas, gap or no gap.                                         *)
Apart == \A a, b \in plan : a # b => EndOf(a) <= b.offset \/ EndOf(b) <= a.offset

(* A counted file begins where the .part file has not got to, is the file of an area,   *)
(* and ends before the next area begins.                                                *)
Ahead == \A o \in Counted : o >= part
Owned == \A o \in Counted : \E a \in plan : a.offset = o
Room == \A o \in Counted : /\ o + files[o] <= fileSize
                           /\ \A b \in plan : o < b.offset => o + files[o] <= b.offset
Ended == phase = "done" => part = fileSize

FilesInv == Apart /\ Ahead /\ Owned /\ Room /\ Ended
LifeInv == IInv /\ FilesInv

(* A split area keeps its place and what is there.                                      *)
LEMMA SplitKeeps ==
  ASSUME NEW a \in Area
  PROVE  \E b \in SplitArea(a) : b.offset = a.offset /\ b.filesize = a.filesize
<1> DEFINE quarter == ChunkSize \div 4
           start == a.offset + a.filesize
           left == EndOf(a) - start
           first == RoundUp(start + quarter, ChunkSize)
           short == [a EXCEPT !.size = first - a.offset]
<1>1. CASE left <= ChunkSize \/ left - quarter < ChunkSize
  BY <1>1 DEF SplitArea
<1>2. CASE ~(left <= ChunkSize \/ left - quarter < ChunkSize)
  <2>1. short \in SplitArea(a)
    BY <1>2 DEF SplitArea
  <2>2. short.offset = a.offset /\ short.filesize = a.filesize
    BY DEF Area
  <2> QED  BY <2>1, <2>2
<1> QED  BY <1>1, <1>2

(* A recovered plan has an area for each chunk file, and counts all of it.              *)
LEMMA RecoveryKeeps ==
  ASSUME NEW size \in Nat \ {0}, NEW p \in 0..size, NEW f,
         DOMAIN f \subseteq 1..(size - 1), \A o \in DOMAIN f : f[o] \in Nat,
         Valid(f, p, size), Beyond(f, p) # {}, NEW o \in Beyond(f, p)
  PROVE  \E b \in RecoveredPlan(f, p, size) : b.offset = o /\ b.filesize = f[o]
<1>1. Sound(Adjusted(f, p, size), size)
  BY AdjustedTiles
<1>2. PICK a \in Adjusted(f, p, size) : a.offset = o /\ a.filesize = f[o]
  <2> DEFINE ends == Beyond(f, p) \cup {size}
             Following(x) == CHOOSE e \in ends : e > x /\ \A g \in ends : g > x => e <= g
             a == [offset |-> o, size |-> Following(o) - o, filesize |-> f[o]]
  <2>1. a \in {[offset |-> x, size |-> Following(x) - x, filesize |-> f[x]] : x \in Beyond(f, p)}
    OBVIOUS
  <2>2. a \in Adjusted(f, p, size)
    BY <2>1 DEF Adjusted
  <2> QED  BY <2>2
<1>3. a \in Area
  BY <1>1, <1>2 DEF Sound
<1>4. \E b \in SplitArea(a) : b.offset = o /\ b.filesize = f[o]
  BY <1>2, <1>3, SplitKeeps
<1> QED  BY <1>4 DEF RecoveredPlan

(* A cut leaves its areas apart, and the new ones beyond what is there, even where it   *)
(* leaves a gap.                                                                        *)
LEMMA OndemandApart ==
  ASSUME NEW a \in Area, MayOndemand(a)
  PROVE  /\ \A b, c \in OndemandAreas(a) : b # c => EndOf(b) <= c.offset \/ EndOf(c) <= b.offset
         /\ \A b \in OndemandAreas(a) :
              /\ a.offset <= b.offset
              /\ b.offset = a.offset \/ a.offset + a.filesize < b.offset
<1> DEFINE append == a.offset + a.filesize
           boundary == BoundaryAfter(append, OndemandSize)
           size == Least(boundary - a.offset, a.size - a.filesize)
           kept == [a EXCEPT !.size = size]
           S == Slices(boundary, EndOf(a), OndemandSize)
<1>1. OndemandSize \in Nat \ {0}
  BY ChunkPlanAssumption
<1>2. a.offset \in Nat /\ a.size \in Nat /\ a.filesize \in Nat /\ append \in Nat
      /\ EndOf(a) = a.offset + a.size /\ EndOf(a) \in Nat
  BY DEF Area, EndOf
<1>3. OndemandAreas(a) = {kept} \cup S
  BY DEF OndemandAreas
<1>4. boundary \in Nat /\ append < boundary
  <2>1. append % OndemandSize \in 0..(OndemandSize - 1)
    BY <1>1, <1>2, Division
  <2> HIDE DEF append
  <2> QED  BY <1>1, <1>2, <2>1 DEF BoundaryAfter
<1> HIDE DEF boundary
<1>5. kept.offset = a.offset /\ kept.size = size /\ size \in Int /\ a.offset + size <= boundary
  BY <1>2, <1>4 DEF Area, Least
<1> HIDE DEF size, kept
<1>6. kept.offset = a.offset /\ EndOf(kept) <= boundary
  BY <1>2, <1>4, <1>5 DEF EndOf
<1>7. Tile(S, boundary, EndOf(a))
  BY <1>1, <1>2, <1>4, SlicesTile
<1>8. \A b \in S : boundary <= b.offset /\ b \in Area /\ b.offset \in Nat
  BY <1>1, <1>2, <1>4, <1>7, SlicesAreAreas DEF Tile, Area
<1>9. EndOf(kept) \in Int
  BY <1>2, <1>5 DEF EndOf
<1>10. \A b, c \in S : b # c => EndOf(b) <= c.offset \/ EndOf(c) <= b.offset
  BY <1>7 DEF Tile
<1>11. \A b \in S : EndOf(kept) <= b.offset /\ append < b.offset
  BY <1>2, <1>4, <1>6, <1>8, <1>9
<1> QED  BY <1>2, <1>3, <1>6, <1>8, <1>10, <1>11

(* A plan made from the .part file alone, with no file that counts.                     *)
LEMMA FreshFiles ==
  ASSUME NEW p, Plan(p), Sound(p, fileSize), Counted' = {}, phase' = "running"
  PROVE  FilesInv'
<1>1. plan' = p
  BY DEF Plan
<1> QED  BY <1>1 DEF Sound, Tile, FilesInv, Apart, Ahead, Owned, Room, Ended

(* Steps that leave the plan and at most remove files, or count fewer.                  *)
LEMMA FewerFiles ==
  ASSUME LifeInv, UNCHANGED <<fileSize, plan>>, Counted' \subseteq Counted,
         \A o \in Counted' : files'[o] = files[o],
         \A o \in Counted' : o >= part', Ended'
  PROVE  FilesInv'
BY DEF LifeInv, FilesInv, Apart, Ahead, Owned, Room

(* What the invariants say of one counted file, in numbers.                             *)
LEMMA CountedFacts ==
  ASSUME LifeInv, NEW o \in Counted
  PROVE  /\ o \in DOMAIN files /\ o \in Nat /\ o > 0 /\ files[o] \in Nat /\ o >= part
         /\ o + files[o] <= fileSize /\ part \in Nat /\ fileSize \in Nat
         /\ \E a \in plan : a.offset = o
         /\ \A b \in plan : o < b.offset => o + files[o] <= b.offset
         /\ \A b \in plan : b.offset < o => EndOf(b) <= o
<1>0. FilesOK /\ fileSize \in Nat /\ part \in Nat
  BY SizesAreNatural DEF LifeInv, IInv, TypeOK, FilesOK
<1>1. o \in DOMAIN files /\ o \in Nat /\ o > 0 /\ files[o] \in Nat
  BY <1>0 DEF Counted, FilesOK
<1>2. PICK a \in plan : a.offset = o
  BY DEF LifeInv, FilesInv, Owned
<1>3. ASSUME NEW b \in plan, b.offset < o PROVE EndOf(b) <= o
  <2>1. b # a /\ EndOf(a) > o
    BY <1>0, <1>1, <1>2, <1>3, AreaFacts DEF LifeInv
  <2>2. EndOf(a) \in Nat /\ b.offset \in Nat
    BY AreaFacts DEF LifeInv
  <2> QED  BY <1>1, <1>2, <1>3, <2>1, <2>2 DEF LifeInv, FilesInv, Apart
<1> QED  BY <1>0, <1>1, <1>2, <1>3 DEF LifeInv, FilesInv, Ahead, Room

LEMMA FilesStart == LifeInv /\ Start => FilesInv'
<1> SUFFICES ASSUME LifeInv, Start PROVE FilesInv'
  OBVIOUS
<1>0. /\ FilesOK /\ fileSize \in Nat \ {0} /\ part \in 0..fileSize
  BY SizesAreNatural DEF LifeInv, IInv, TypeOK, FilesOK
<1>1. Counted \subseteq Beyond(files, part)
  BY DEF LifeInv, FilesInv, Ahead, Counted, Beyond
<1>2. CASE Valid(files, part, fileSize) /\ Beyond(files, part) = {}
  <2>1. Plan(CreatePlan(fileSize, part)) /\ Counted' = {} /\ phase' = "running"
    BY <1>1, <1>2 DEF Start, Counted
  <2> QED  BY <1>0, <2>1, CreateTiles, FreshFiles
<1>3. CASE Valid(files, part, fileSize) /\ Beyond(files, part) # {}
  <2> DEFINE p == RecoveredPlan(files, part, fileSize)
  <2>1. /\ plan' = p /\ Counted' = Counted /\ phase' = "running"
        /\ UNCHANGED <<files, part, fileSize>>
    BY <1>3 DEF Start, Counted, Plan
  <2>2. DOMAIN files \subseteq 1..(fileSize - 1) /\ \A o \in DOMAIN files : files[o] \in Nat
    BY <1>0 DEF FilesOK
  <2>3. Sound(p, fileSize)
    BY <1>0, <1>3, <2>2, RecoveryTiles
  <2>4. \A o \in Beyond(files, part) : \E b \in p : b.offset = o /\ b.filesize = files[o]
    BY <1>0, <1>3, <2>2, RecoveryKeeps
  <2> HIDE DEF p
  <2>5. /\ \A b \in p : /\ b.offset \in Nat /\ b.size \in Nat /\ b.filesize \in Nat /\ b.size > 0
                       /\ b.filesize <= b.size
                       /\ EndOf(b) = b.offset + b.size /\ EndOf(b) <= fileSize
        /\ \A b, c \in p : b # c => EndOf(b) <= c.offset \/ EndOf(c) <= b.offset
    BY <2>3 DEF Sound, Tile, Area, EndOf
  <2>6. Apart' /\ Ended'
    BY <2>1, <2>5 DEF Apart, Ended
  <2>7. Ahead'
    BY <2>1 DEF LifeInv, FilesInv, Ahead
  <2>8. Owned'
    BY <1>1, <2>1, <2>4 DEF Owned
  <2>9. Room'
    <3> SUFFICES ASSUME NEW o \in Counted
                 PROVE  /\ o + files[o] <= fileSize
                        /\ \A b \in p : o < b.offset => o + files[o] <= b.offset
      BY <2>1 DEF Room
    <3>1. PICK a \in p : a.offset = o /\ a.filesize = files[o]
      BY <1>1, <2>4
    <3>2. o + files[o] <= EndOf(a) /\ EndOf(a) <= fileSize
      BY <2>5, <3>1
    <3>3. ASSUME NEW b \in p, o < b.offset PROVE EndOf(a) <= b.offset
      BY <2>5, <3>1, <3>3
    <3> QED  BY <1>0, <2>5, <3>1, <3>2, <3>3
  <2> QED  BY <2>6, <2>7, <2>8, <2>9 DEF FilesInv
<1>4. CASE ~Valid(files, part, fileSize)
  <2>1. Plan(CreatePlan(fileSize, 0)) /\ Counted' = {} /\ phase' = "running"
    BY <1>4 DEF Start, Counted, None
  <2> QED  BY <1>0, <2>1, CreateTiles, FreshFiles
<1> QED  BY <1>2, <1>3, <1>4

LEMMA FilesGrow == ASSUME LifeInv, NEW a \in plan, Grow(a) PROVE FilesInv'
<1>1. PICK n \in Lengths \cup {a.size} : n <= a.size /\ SetLen(a, n)
  BY DEF Grow
<1>2. /\ a.offset = 0 \/ a.offset >= part
      /\ UNCHANGED <<phase, fileSize, plan, whole, miscut, stale, faults>>
  BY DEF Grow
<1>3. /\ a.offset \in Nat /\ a.size \in Nat /\ EndOf(a) = a.offset + a.size /\ EndOf(a) <= fileSize
      /\ n \in Nat /\ fileSize \in Nat /\ part \in Nat
  BY SizesAreNatural, AreaFacts, ChunkLayoutAssumption DEF LifeInv
<1>4. phase = "running"
  BY DEF Grow
<1>5. CASE a.offset = 0
  <2>1. part' = n /\ UNCHANGED files
    BY <1>1, <1>5 DEF SetLen
  <2>2. \A o \in Counted : EndOf(a) <= o /\ o \in Nat
    BY <1>5, CountedFacts
  <2> QED  BY <1>1, <1>2, <1>3, <1>4, <1>5, <2>1, <2>2, FewerFiles DEF Counted, Ended
<1>6. CASE a.offset # 0
  <2>1. UNCHANGED part
        /\ files' = [o \in DOMAIN files \cup {a.offset} |-> IF o = a.offset THEN n ELSE files[o]]
    BY <1>1, <1>6 DEF SetLen
  <2>2. /\ Counted' \subseteq Counted \cup {a.offset}
        /\ \A o \in Counted' : o # a.offset => o \in Counted /\ files'[o] = files[o]
        /\ files'[a.offset] = n
    BY <1>2, <2>1 DEF Counted
  <2>3. Apart' /\ Ended'
    BY <1>2, <1>4 DEF LifeInv, FilesInv, Apart, Ended
  <2>4. Ahead' /\ Owned'
    BY <1>2, <1>6, <2>1, <2>2 DEF LifeInv, FilesInv, Ahead, Owned
  <2>5. Room'
    <3> SUFFICES ASSUME NEW o \in Counted'
                 PROVE  /\ o + files'[o] <= fileSize
                        /\ \A b \in plan : o < b.offset => o + files'[o] <= b.offset
      BY <1>2 DEF Room
    <3>1. CASE o # a.offset
      BY <2>2, <3>1, CountedFacts
    <3>2. CASE o = a.offset
      <4>1. o + n <= EndOf(a)
        BY <1>1, <1>3, <3>2
      <4>2. ASSUME NEW b \in plan, o < b.offset PROVE EndOf(a) <= b.offset
        <5>1. b # a /\ EndOf(b) > o /\ b.offset \in Nat /\ EndOf(b) \in Nat
          BY <1>3, <3>2, <4>2, AreaFacts DEF LifeInv
        <5> QED  BY <1>3, <3>2, <5>1 DEF LifeInv, FilesInv, Apart
      <4>3. \A b \in plan : b.offset \in Nat
        BY AreaFacts DEF LifeInv
      <4> QED  BY <1>3, <2>2, <3>2, <4>1, <4>2, <4>3
    <3> QED  BY <3>1, <3>2
  <2> QED  BY <2>3, <2>4, <2>5 DEF FilesInv
<1> QED  BY <1>5, <1>6

(* Merging an area, wholly or up to a crash, passes no file that counts.                *)
LEMMA FilesMerge ==
  ASSUME LifeInv, NEW a \in plan, a.offset > 0, a.offset = part,
         NEW n \in Nat, n <= a.size, part' = part + n, UNCHANGED <<fileSize, plan>>,
         Counted' \subseteq Counted \ {a.offset}, \A o \in Counted' : files'[o] = files[o],
         phase' # "done"
  PROVE  FilesInv'
<1>1. /\ a.offset \in Nat /\ a.size \in Nat /\ EndOf(a) = a.offset + a.size
      /\ part \in Nat
  BY AreaFacts DEF LifeInv
<1>2. ASSUME NEW o \in Counted' PROVE o >= part'
  <2>1. o \in Counted /\ o # a.offset
    BY <1>2
  <2>2. o \in Nat /\ o >= part /\ (a.offset < o => EndOf(a) <= o)
    BY <2>1, CountedFacts
  <2> QED  BY <1>1, <2>1, <2>2
<1> QED  BY <1>2, FewerFiles DEF Ended

LEMMA FilesOndemand == ASSUME LifeInv, NEW a \in plan, Ondemand(a) PROVE FilesInv'
<1> DEFINE now == [a EXCEPT !.filesize = Len(a)]
           Q == OndemandAreas(now)
<1>1. /\ MayOndemand(now) /\ phase = "running"
      /\ plan' = (plan \ {a}) \cup Q
      /\ UNCHANGED <<phase, fileSize, part, files, stale>>
  BY DEF Ondemand
<1>0. FilesOK /\ part \in Nat
  BY SizesAreNatural DEF LifeInv, IInv, TypeOK, FilesOK
<1>2. Len(a) \in Nat
  BY <1>0 DEF Len, FilesOK
<1>3. now \in Area /\ now.offset = a.offset /\ now.size = a.size /\ now.filesize = Len(a)
  <2>0. a \in Area
    BY AreaFacts DEF LifeInv
  <2>1. now = [offset |-> a.offset, size |-> a.size, filesize |-> Len(a)]
    BY <2>0 DEF Area
  <2> HIDE DEF now
  <2> QED  BY <1>2, <2>0, <2>1 DEF Area
<1> HIDE DEF now
<1>4. /\ \A b \in plan : /\ b.offset \in Nat /\ EndOf(b) \in Nat /\ b.offset < EndOf(b)
      /\ EndOf(now) = EndOf(a)
  BY <1>3, AreaFacts DEF LifeInv, EndOf
<1>5. /\ \A b \in Q : /\ b.offset \in Nat /\ EndOf(b) \in Nat /\ b.offset < EndOf(b)
                     /\ EndOf(b) <= EndOf(a)
      /\ \E b \in Q : b.offset = a.offset
  <2>1. /\ \A b \in Q : b \in Area /\ b.size > 0 /\ EndOf(b) <= EndOf(a)
        /\ \E b \in Q : b.offset = a.offset
    BY <1>1, <1>3, <1>4, OndemandWithin
  <2> HIDE DEF Q
  <2> QED  BY <2>1 DEF Area, EndOf
<1>6. /\ \A b, c \in Q : b # c => EndOf(b) <= c.offset \/ EndOf(c) <= b.offset
      /\ \A b \in Q : a.offset <= b.offset
                     /\ (b.offset = a.offset \/ a.offset + Len(a) < b.offset)
  BY <1>1, <1>3, OndemandApart
<1> HIDE DEF Q
<1>7. Counted' = Counted
  BY <1>1 DEF Counted
<1>8. Apart'
  <2> SUFFICES ASSUME NEW b \in (plan \ {a}) \cup Q, NEW c \in (plan \ {a}) \cup Q, b # c
               PROVE  EndOf(b) <= c.offset \/ EndOf(c) <= b.offset
    BY <1>1 DEF Apart
  <2>1. \A d \in plan \ {a} : EndOf(a) <= d.offset \/ EndOf(d) <= a.offset
    BY DEF LifeInv, FilesInv, Apart
  <2>2. CASE b \in plan /\ c \in plan
    BY <2>2 DEF LifeInv, FilesInv, Apart
  <2>3. CASE b \in Q /\ c \in Q
    BY <2>3, <1>6
  <2>4. CASE b \in plan \ {a} /\ c \in Q
    BY <2>1, <2>4, <1>4, <1>5, <1>6
  <2>5. CASE b \in Q /\ c \in plan \ {a}
    BY <2>1, <2>5, <1>4, <1>5, <1>6
  <2> QED  BY <2>2, <2>3, <2>4, <2>5
<1>9. Ahead' /\ Ended'
  BY <1>1, <1>7 DEF LifeInv, FilesInv, Ahead, Ended
<1>10. Owned'
  <2> SUFFICES ASSUME NEW o \in Counted PROVE \E b \in plan' : b.offset = o
    BY <1>7 DEF Owned
  <2>1. PICK b \in plan : b.offset = o
    BY CountedFacts
  <2> QED  BY <1>1, <1>5, <2>1
<1>11. Room'
  <2> SUFFICES ASSUME NEW o \in Counted, NEW b \in Q, o < b.offset
               PROVE  o + files[o] <= b.offset
    BY <1>1, <1>7 DEF LifeInv, FilesInv, Room
  <2>0. /\ o \in DOMAIN files /\ o \in Nat /\ o > 0 /\ files[o] \in Nat
        /\ (o < a.offset => o + files[o] <= a.offset)
        /\ (a.offset < o => EndOf(a) <= o)
    BY CountedFacts
  <2>1. CASE o = a.offset
    <3>1. Len(a) = files[o]
      BY <2>0, <2>1 DEF Len
    <3> QED  BY <2>0, <2>1, <3>1, <1>5, <1>6
  <2>2. CASE o < a.offset
    BY <2>0, <2>2, <1>4, <1>5, <1>6
  <2>3. CASE a.offset < o
    BY <2>0, <2>3, <1>4, <1>5
  <2> QED  BY <2>0, <2>1, <2>2, <2>3, <1>4
<1> QED  BY <1>8, <1>9, <1>10, <1>11 DEF FilesInv

(* Every step keeps the chunk files that count where the plan has them.                 *)
THEOREM FilesInductive == LifeInv /\ [Next]_vars => LifeInv'
<1> SUFFICES ASSUME LifeInv, [Next]_vars PROVE FilesInv'
  BY LayoutInductive DEF LifeInv
<1>0. /\ fileSize \in Nat \ {0} /\ part \in 0..fileSize /\ Lengths \subseteq Nat
  BY SizesAreNatural, ChunkLayoutAssumption DEF LifeInv, IInv, TypeOK
<1>1. CASE Start
  BY <1>1, FilesStart
<1>2. ASSUME NEW a \in plan, Grow(a) PROVE FilesInv'
  BY <1>2, FilesGrow
<1>3. ASSUME NEW a \in plan, Discard(a) PROVE FilesInv'
  <2>1. files' = Without(a.offset) /\ phase = "running"
        /\ UNCHANGED <<phase, fileSize, part, plan, whole, miscut, stale, faults>>
    BY <1>3 DEF Discard
  <2>2. Counted' \subseteq Counted /\ \A o \in Counted' : files'[o] = files[o]
    BY <2>1 DEF Counted, Without
  <2>3. \A o \in Counted' : o >= part'
    BY <2>1, <2>2 DEF LifeInv, FilesInv, Ahead
  <2> QED  BY <2>1, <2>2, <2>3, FewerFiles DEF Ended
<1>4. ASSUME NEW a \in plan, Merge(a) PROVE FilesInv'
  <2>1. files' = Without(a.offset) /\ part' = part + a.size /\ a.offset = part /\ a.offset > 0
        /\ stale' = stale \ {a.offset} /\ phase = "running"
        /\ UNCHANGED <<phase, fileSize, plan, whole, miscut, faults>>
    BY <1>4 DEF Merge
  <2>2. Counted' \subseteq Counted \ {a.offset} /\ \A o \in Counted' : files'[o] = files[o]
    BY <2>1 DEF Counted, Without
  <2>3. a.size \in Nat /\ a.size <= a.size
    BY AreaFacts DEF LifeInv
  <2> QED  BY <2>1, <2>2, <2>3, FilesMerge
<1>5. ASSUME NEW a \in plan, Ondemand(a) PROVE FilesInv'
  BY <1>5, FilesOndemand
<1>6. CASE Fail \/ FailOnGap
  <2>1. Plan(CreatePlan(fileSize, 0)) /\ Counted' = {} /\ phase' = "running"
    BY <1>6 DEF Fail, FailOnGap, Retry, Counted, None
  <2> QED  BY <1>0, <2>1, CreateTiles, FreshFiles
<1>7. CASE FailIncomplete
  <2>1. Plan(CreatePlan(fileSize, part)) /\ Counted' = {} /\ phase' = "running"
    BY <1>7 DEF FailIncomplete, Counted
  <2> QED  BY <1>0, <2>1, CreateTiles, FreshFiles
<1>8. CASE Crash \/ Finalize \/ UNCHANGED vars
  <2>1. UNCHANGED <<fileSize, part, files, plan, stale>>
        /\ (phase' = "done" => phase = "done" \/ part = fileSize)
    BY <1>8 DEF Crash, Finalize, vars
  <2> QED  BY <2>1 DEF LifeInv, FilesInv, Counted, Apart, Ahead, Owned, Room, Ended
<1>9. ASSUME NEW a \in plan, CrashMerging(a) PROVE FilesInv'
  <2>1. PICK n \in Lengths \cup {a.size} : n <= a.size /\ part' = part + n
    BY <1>9 DEF CrashMerging
  <2>2. a.offset > 0 /\ a.offset = part /\ stale' = stale \cup {a.offset} /\ phase' = "idle"
        /\ UNCHANGED <<fileSize, files, plan>>
    BY <1>9 DEF CrashMerging
  <2>3. n \in Nat
    BY <1>0, <2>1, AreaFacts DEF LifeInv
  <2>4. Counted' \subseteq Counted \ {a.offset} /\ \A o \in Counted' : files'[o] = files[o]
    BY <2>2 DEF Counted
  <2> QED  BY <2>1, <2>2, <2>3, <2>4, FilesMerge
<1> QED  BY <1>1, <1>2, <1>3, <1>4, <1>5, <1>6, <1>7, <1>8, <1>9 DEF Next, Progress

LEMMA InitLife == Init => LifeInv
<1>1. Init => FilesInv
  BY DEF Init, None, FilesInv, Counted, Apart, Ahead, Owned, Room, Ended
<1> QED  BY <1>1, InitLayout DEF LifeInv

LEMMA LifeInvariant == Spec => []LifeInv
BY InitLife, FilesInductive, PTL DEF Spec

(* Recovery takes back all that a crash left: only files of an earlier plan of the run  *)
(* make validate_chunks refuse them (chunk.rs, recover_parto_files), for any number of   *)
(* crashes and cuts, and also where a cut left a gap.                                    *)
THEOREM RecoveryKeepsAll == Spec => []RecoveryAccepts
<1>1. LifeInv => RecoveryAccepts
  <2> SUFFICES ASSUME LifeInv, stale \cap Beyond(files, part) = {}
               PROVE  Valid(files, part, fileSize)
    BY DEF RecoveryAccepts
  <2>1. Beyond(files, part) \subseteq Counted
    BY DEF Beyond, Counted
  <2>2. \A o \in Counted : o + files[o] <= fileSize
    BY CountedFacts
  <2>3. ASSUME NEW o \in Counted, NEW p \in Counted, o < p PROVE o + files[o] <= p
    <3>1. PICK b \in plan : b.offset = p
      BY CountedFacts
    <3> QED  BY <2>3, <3>1, CountedFacts
  <2> QED  BY <2>1, <2>2, <2>3 DEF Valid
<1> QED  BY <1>1, LifeInvariant, PTL

(* Every chunk file a finished download counted on was merged and removed               *)
(* (file_ops.rs, merge_completed_chunk).                                                 *)
THEOREM NoCountedFileLeft == Spec => []OnlyStaleLeft
<1>1. LifeInv => OnlyStaleLeft
  <2> SUFFICES ASSUME LifeInv, phase = "done", NEW o \in DOMAIN files, o \notin stale PROVE FALSE
    BY DEF OnlyStaleLeft
  <2>1. o \in Counted /\ part = fileSize
    BY DEF Counted, LifeInv, FilesInv, Ended
  <2>2. o \in 1..(fileSize - 1) /\ fileSize \in Nat
    BY SizesAreNatural DEF LifeInv, IInv, TypeOK
  <2> QED  BY <2>1, <2>2, CountedFacts
<1> QED  BY <1>1, LifeInvariant, PTL

--------------------------------------------------------------------------------
(* Progress.                                                                            *)

(* The .part file ends inside the master's own area, or where an area ends: an area     *)
(* that is not the master's is appended as a whole.                                     *)
Boundary ==
  phase = "running" /\ ~miscut =>
    \A a \in plan : a.offset > 0 => a.offset >= part \/ EndOf(a) <= part

GoesOnInv == LifeInv /\ Boundary

(* Whatever create_chunk_tasks plans besides the master's area begins beyond what is    *)
(* resumed.                                                                             *)
LEMMA CreateBeyond ==
  ASSUME NEW size \in Nat \ {0}, NEW resumed \in 0..size, NEW b \in CreatePlan(size, resumed)
  PROVE  b.offset = 0 \/ b.offset >= resumed
<1> DEFINE boundary == BoundaryAfter(resumed, ChunkSize)
           master == IF size < resumed + MinFileSize \/ size <= boundary THEN size ELSE boundary
<1>1. boundary \in Nat /\ resumed < boundary
  <2>1. ChunkSize \in Nat \ {0}
    BY ChunkPlanAssumption
  <2>2. resumed % ChunkSize \in 0..(ChunkSize - 1)
    BY <2>1, Division
  <2> QED  BY <2>1, <2>2 DEF BoundaryAfter
<1> HIDE DEF boundary
<1>2. master \in Nat /\ resumed <= master /\ master <= size
  BY <1>1
<1>3. CreatePlan(size, resumed) =
        {[offset |-> 0, size |-> master, filesize |-> resumed]} \cup Beforehand(master, size)
  BY DEF CreatePlan, boundary
<1> HIDE DEF master
<1>4. \A d \in Beforehand(master, size) : master <= d.offset /\ d.offset \in Nat
  BY <1>2, BeforehandTiles DEF Tile, Area
<1> QED  BY <1>2, <1>3, <1>4

(* Whatever split_download_areas cuts off an area begins beyond what is there.          *)
LEMMA SplitBeyond ==
  ASSUME NEW a \in Area, a.filesize <= a.size, NEW b \in SplitArea(a)
  PROVE  b.offset = a.offset \/ b.offset >= a.offset + a.filesize
<1> DEFINE quarter == ChunkSize \div 4
           start == a.offset + a.filesize
           left == EndOf(a) - start
           first == RoundUp(start + quarter, ChunkSize)
           short == [a EXCEPT !.size = first - a.offset]
<1>1. CASE left <= ChunkSize \/ left - quarter < ChunkSize
  BY <1>1 DEF SplitArea
<1>2. CASE ~(left <= ChunkSize \/ left - quarter < ChunkSize)
  <2>1. b = short \/ b \in Slices(first, EndOf(a), ChunkSize)
    BY <1>2 DEF SplitArea
  <2>2. short.offset = a.offset
    BY DEF Area
  <2>3. a.offset \in Nat /\ a.size \in Nat /\ a.filesize \in Nat /\ EndOf(a) \in Nat
    BY DEF Area, EndOf
  <2>4. ChunkSize \in Nat \ {0} /\ quarter \in Nat
    BY ChunkPlanAssumption
  <2>5. first \in Nat /\ start <= first
    <3> HIDE DEF quarter
    <3> DEFINE x == start + quarter
    <3>1. x \in Nat /\ start <= x
      BY <2>3, <2>4
    <3> HIDE DEF x
    <3>2. x % ChunkSize \in 0..(ChunkSize - 1)
      BY <2>4, <3>1, Division
    <3>3. ChunkSize - (x % ChunkSize) \in Nat
      BY <2>4, <3>2
    <3>4. (ChunkSize - (x % ChunkSize)) % ChunkSize \in 0..(ChunkSize - 1)
      BY <2>4, <3>3, Division
    <3>5. first = x + ((ChunkSize - (x % ChunkSize)) % ChunkSize)
      BY DEF RoundUp, x
    <3> HIDE DEF first, start
    <3> QED  BY <2>3, <2>4, <3>1, <3>4, <3>5 DEF start
  <2>6. \A s \in Slices(first, EndOf(a), ChunkSize) : s.offset >= first /\ s.offset \in Nat
    <3> HIDE DEF first
    <3> QED  BY <2>3, <2>4, <2>5, SliceBounds DEF Area
  <2> HIDE DEF first, short, left
  <2> QED  BY <2>1, <2>2, <2>3, <2>5, <2>6
<1> QED  BY <1>1, <1>2

(* And so with all that recovery plans.                                                 *)
LEMMA RecoveredBeyond ==
  ASSUME NEW size \in Nat \ {0}, NEW p \in 0..size, NEW f,
         DOMAIN f \subseteq 1..(size - 1), \A o \in DOMAIN f : f[o] \in Nat,
         Valid(f, p, size), Beyond(f, p) # {}, NEW b \in RecoveredPlan(f, p, size)
  PROVE  b.offset = 0 \/ b.offset >= p
<1>1. Sound(Adjusted(f, p, size), size)
  BY AdjustedTiles
<1>2. PICK a \in Adjusted(f, p, size) : b \in SplitArea(a)
  BY DEF RecoveredPlan
<1>3. a \in Area /\ a.size > 0 /\ a.filesize <= a.size
  BY <1>1 DEF Sound, Tile
<1>4. (a.offset = 0 /\ a.filesize = p) \/ a.offset \in Beyond(f, p)
  BY DEF Adjusted
<1>5. b.offset = a.offset \/ b.offset >= a.offset + a.filesize
  BY <1>2, <1>3, SplitBeyond
<1>6. \A o \in Beyond(f, p) : o \in Nat /\ o >= p
  BY DEF Beyond
<1> QED
  <2>1. SplitArea(a) \subseteq Area
    BY <1>3, SplitTiles
  <2>2. b.offset \in Nat /\ a.offset \in Nat /\ a.filesize \in Nat
    BY <1>2, <1>3, <2>1 DEF Area
  <2> QED  BY <1>4, <1>5, <1>6, <2>2

(* The first area of a plan is the master's: the others lie beyond it.                  *)
LEMMA Beginnings ==
  ASSUME LifeInv, NEW a \in plan, NEW b \in plan, a # b
  PROVE  a.offset # b.offset
<1>1. EndOf(a) <= b.offset \/ EndOf(b) <= a.offset
  BY DEF LifeInv, FilesInv, Apart
<1>2. /\ EndOf(a) = a.offset + a.size /\ a.offset \in Nat /\ a.size \in Nat /\ a.size > 0
      /\ EndOf(b) = b.offset + b.size /\ b.offset \in Nat /\ b.size \in Nat /\ b.size > 0
  BY AreaFacts DEF LifeInv
<1> QED  BY <1>1, <1>2

(* Steps of the areas' files: the boundary moves to where the area ends, or stays in     *)
(* the master's own.                                                                     *)
LEMMA BoundaryStays ==
  ASSUME GoesOnInv, NEW a \in plan, UNCHANGED <<phase, plan, miscut>>,
         \/ UNCHANGED part
         \/ a.offset = 0 /\ part' \in 0..a.size
         \/ a.offset = part /\ part' = EndOf(a)
  PROVE  Boundary'
<1> SUFFICES ASSUME phase = "running", ~miscut, NEW b \in plan, b.offset > 0
             PROVE  b.offset >= part' \/ EndOf(b) <= part'
  BY DEF Boundary
<1>0. /\ EndOf(a) = a.offset + a.size /\ a.offset \in Nat /\ a.size \in Nat /\ a.size > 0
      /\ EndOf(b) = b.offset + b.size /\ b.offset \in Nat /\ b.size \in Nat /\ b.size > 0
      /\ part \in Nat
  BY AreaFacts DEF GoesOnInv, LifeInv
<1>1. b.offset >= part \/ EndOf(b) <= part
  BY DEF GoesOnInv, Boundary
<1>2. a # b => EndOf(a) <= b.offset \/ EndOf(b) <= a.offset
  BY DEF GoesOnInv, LifeInv, FilesInv, Apart
<1> QED  BY <1>0, <1>1, <1>2

LEMMA BoundaryOndemand ==
  ASSUME GoesOnInv, NEW a \in plan, Ondemand(a)
  PROVE  Boundary'
<1> DEFINE now == [a EXCEPT !.filesize = Len(a)]
           Q == OndemandAreas(now)
<1>1. /\ MayOndemand(now) /\ phase = "running" /\ plan' = (plan \ {a}) \cup Q
      /\ miscut' = (miscut \/ Miscut(now))
      /\ UNCHANGED <<phase, fileSize, part, files, stale>>
  BY DEF Ondemand
<1>0. FilesOK /\ part \in Nat /\ miscut \in BOOLEAN
  BY SizesAreNatural DEF GoesOnInv, LifeInv, IInv, TypeOK, FilesOK
<1>2. Len(a) \in Nat /\ (a.offset = 0 => Len(a) = part)
  BY <1>0 DEF Len, FilesOK
<1>3. now \in Area /\ now.offset = a.offset /\ now.size = a.size /\ now.filesize = Len(a)
  <2>0. a \in Area
    BY AreaFacts DEF GoesOnInv, LifeInv
  <2>1. now = [offset |-> a.offset, size |-> a.size, filesize |-> Len(a)]
    BY <2>0 DEF Area
  <2> HIDE DEF now
  <2> QED  BY <1>2, <2>0, <2>1 DEF Area
<1> HIDE DEF now
<1>4. a.offset \in Nat /\ EndOf(a) \in Nat /\ EndOf(now) = EndOf(a)
  BY <1>3, AreaFacts DEF GoesOnInv, LifeInv, EndOf
<1>5. \A b \in Q : b.offset \in Nat /\ EndOf(b) \in Nat /\ EndOf(b) <= EndOf(a)
  <2>1. \A b \in Q : b \in Area /\ EndOf(b) <= EndOf(a)
    BY <1>1, <1>3, <1>4, OndemandWithin
  <2> HIDE DEF Q
  <2> QED  BY <2>1 DEF Area, EndOf
<1>6. \A b \in Q : a.offset <= b.offset /\ (b.offset = a.offset \/ a.offset + Len(a) < b.offset)
  BY <1>1, <1>3, OndemandApart
<1> HIDE DEF Q
<1>7. ~miscut' => \A b \in plan : b.offset > 0 => b.offset >= part \/ EndOf(b) <= part
  BY <1>0, <1>1 DEF GoesOnInv, Boundary
<1> SUFFICES ASSUME ~miscut', NEW b \in (plan \ {a}) \cup Q, b.offset > 0
             PROVE  b.offset >= part \/ EndOf(b) <= part
  BY <1>1 DEF Boundary
<1>8. CASE b \in plan
  BY <1>7, <1>8
<1>9. CASE b \in Q
  BY <1>0, <1>2, <1>4, <1>5, <1>6, <1>7, <1>9
<1> QED  BY <1>8, <1>9

(* Every step keeps the .part file's end where an area ends.                            *)
LEMMA BoundaryKept == GoesOnInv /\ [Next]_vars => Boundary'
<1> SUFFICES ASSUME GoesOnInv, [Next]_vars PROVE Boundary'
  OBVIOUS
<1>0. /\ FilesOK /\ fileSize \in Nat \ {0} /\ part \in 0..fileSize /\ Lengths \subseteq Nat
      /\ 0 \in 0..fileSize
  BY SizesAreNatural, ChunkLayoutAssumption DEF GoesOnInv, LifeInv, IInv, TypeOK, FilesOK
<1>1. ASSUME Plan(CreatePlan(fileSize, part')), part' \in 0..fileSize PROVE Boundary'
  <2>1. \A b \in CreatePlan(fileSize, part') : b.offset = 0 \/ b.offset >= part'
    BY <1>0, <1>1, CreateBeyond
  <2> QED  BY <1>1, <2>1 DEF Plan, Boundary
<1>2. CASE Start
  <2>1. CASE Valid(files, part, fileSize) /\ Beyond(files, part) = {}
    BY <1>0, <1>1, <1>2, <2>1 DEF Start
  <2>2. CASE Valid(files, part, fileSize) /\ Beyond(files, part) # {}
    <3>1. DOMAIN files \subseteq 1..(fileSize - 1) /\ \A o \in DOMAIN files : files[o] \in Nat
      BY <1>0 DEF FilesOK
    <3>2. plan' = RecoveredPlan(files, part, fileSize) /\ part' = part
      BY <1>2, <2>2 DEF Start, Plan
    <3>3. \A b \in plan' : b.offset = 0 \/ b.offset >= part'
      BY <1>0, <2>2, <3>1, <3>2, RecoveredBeyond
    <3> QED  BY <3>3 DEF Boundary
  <2>3. CASE ~Valid(files, part, fileSize)
    BY <1>0, <1>1, <1>2, <2>3 DEF Start
  <2> QED  BY <2>1, <2>2, <2>3
<1>3. CASE Fail \/ FailOnGap
  BY <1>0, <1>1, <1>3 DEF Fail, FailOnGap, Retry
<1>4. CASE FailIncomplete
  BY <1>0, <1>1, <1>4 DEF FailIncomplete
<1>5. ASSUME NEW a \in plan, Grow(a) PROVE Boundary'
  <2>1. PICK n \in Lengths \cup {a.size} : n <= a.size /\ SetLen(a, n)
    BY <1>5 DEF Grow
  <2>2. n \in 0..a.size /\ a.offset \in Nat
    BY <1>0, <2>1, AreaFacts DEF GoesOnInv, LifeInv
  <2> QED  BY <1>5, <2>1, <2>2, BoundaryStays DEF Grow, SetLen
<1>6. ASSUME NEW a \in plan, Discard(a) PROVE Boundary'
  BY <1>6, BoundaryStays DEF Discard
<1>7. ASSUME NEW a \in plan, Merge(a) PROVE Boundary'
  BY <1>7, BoundaryStays DEF Merge, EndOf
<1>8. ASSUME NEW a \in plan, Ondemand(a) PROVE Boundary'
  BY <1>8, BoundaryOndemand
<1>9. CASE Crash \/ Finalize \/ \E a \in plan : CrashMerging(a)
  BY <1>9 DEF Crash, Finalize, CrashMerging, Boundary
<1>10. CASE UNCHANGED vars
  BY <1>10 DEF vars, GoesOnInv, Boundary
<1> QED  BY <1>2, <1>3, <1>4, <1>5, <1>6, <1>7, <1>8, <1>9, <1>10 DEF Next, Progress

LEMMA GoesOnInvariant == Spec => []GoesOnInv
<1>1. Init => GoesOnInv
  BY InitLife DEF Init, GoesOnInv, Boundary
<1>2. GoesOnInv /\ [Next]_vars => GoesOnInv'
  BY FilesInductive, BoundaryKept DEF GoesOnInv
<1> QED  BY <1>1, <1>2, PTL DEF Spec

(* What a step of Progress waits for: a process that is started, a plan with a gap to   *)
(* be given up, a whole file to be finalized, or an area to download, to discard or to   *)
(* merge.                                                                                *)
CanDownload(a) == (a.offset = 0 \/ a.offset >= part) /\ Len(a) < a.size
MustDiscard(a) == a.offset \in DOMAIN files /\ files[a.offset] > a.size
CanMerge(a) == a.offset > 0 /\ a.offset = part /\ Len(a) = a.size

GoesOn ==
  phase # "done" =>
    \/ phase = "idle" \/ miscut \/ part = fileSize
    \/ \E a \in plan : CanDownload(a) \/ MustDiscard(a) \/ CanMerge(a)

(* Whatever crashes, retries and cuts, in any number, a download that is not done is    *)
(* never without something to do: where the .part file ends, the master's own area goes  *)
(* on or the next one begins (file_ops.rs, merge_completed_chunk, which stops at a       *)
(* chunk that does not begin there).                                                     *)
THEOREM LayoutGoesOn == Spec => []GoesOn
<1>1. GoesOnInv => GoesOn
  <2> SUFFICES ASSUME GoesOnInv, phase = "running", ~miscut, part # fileSize
               PROVE  \E a \in plan : CanDownload(a) \/ MustDiscard(a) \/ CanMerge(a)
    <3>1. GoesOnInv => phase \in {"idle", "running", "done"}
      BY DEF GoesOnInv, LifeInv, IInv, TypeOK
    <3> QED  BY <3>1 DEF GoesOn
  <2>1. FilesOK /\ fileSize \in Nat /\ part \in 0..(fileSize - 1)
    BY SizesAreNatural DEF GoesOnInv, LifeInv, IInv, TypeOK, FilesOK
  <2>2. PICK a \in plan : a.offset <= part /\ part < EndOf(a)
    BY <2>1 DEF GoesOnInv, LifeInv, IInv, Tiles, Tile
  <2>3. /\ EndOf(a) = a.offset + a.size /\ a.offset \in Nat /\ a.size \in Nat /\ a.size > 0
    BY AreaFacts DEF GoesOnInv, LifeInv
  <2>4. CASE a.offset = 0
    BY <2>1, <2>2, <2>3, <2>4 DEF CanDownload, Len
  <2>5. CASE a.offset # 0
    <3>1. a.offset = part
      BY <2>1, <2>2, <2>3, <2>5 DEF GoesOnInv, Boundary
    <3>2. Len(a) \in Nat
      BY <2>1 DEF Len, FilesOK
    <3>3. Len(a) > a.size => MustDiscard(a)
      BY <2>3, <2>5 DEF Len, MustDiscard
    <3> QED  BY <2>1, <2>3, <2>5, <3>1, <3>2, <3>3 DEF CanDownload, CanMerge
  <2> QED  BY <2>4, <2>5
<1> QED  BY <1>1, GoesOnInvariant, PTL

(* What a download has left: faults, a gap to give up, steps of the process, bytes to    *)
(* append, files to discard, and bytes to download.                                      *)
FaultsLeft == (faults + 1)..MaxFaults
GapLeft == {x \in {1} : miscut}
PhasesLeft == {x \in {1, 2} : phase = "idle" \/ (phase = "running" /\ x = 1)}
PartLeft == (part + 1)..fileSize
TooLong == {o \in 0..fileSize : \E a \in plan : a.offset = o /\ MustDiscard(a)}
BytesLeft == {x \in (0..fileSize) \X (1..fileSize) :
                \E a \in plan : a.offset = x[1] /\ Len(a) < x[2] /\ x[2] <= a.size}

LayoutLeft == <<FaultsLeft, GapLeft, PhasesLeft, PartLeft, TooLong, BytesLeft>>
LeftFinite == \A i \in 1..6 : IsFiniteSet(LayoutLeft[i])
Fewer(S, T) == S \subseteq T /\ S # T
LessLeft(s, t) == \E i \in 1..6 : Fewer(s[i], t[i]) /\ \A j \in 1..(i - 1) : s[j] = t[j]

LEMMA TheLeft ==
  /\ LayoutLeft[1] = FaultsLeft /\ LayoutLeft[2] = GapLeft /\ LayoutLeft[3] = PhasesLeft
  /\ LayoutLeft[4] = PartLeft /\ LayoutLeft[5] = TooLong /\ LayoutLeft[6] = BytesLeft
  /\ LayoutLeft'[1] = FaultsLeft' /\ LayoutLeft'[2] = GapLeft' /\ LayoutLeft'[3] = PhasesLeft'
  /\ LayoutLeft'[4] = PartLeft' /\ LayoutLeft'[5] = TooLong' /\ LayoutLeft'[6] = BytesLeft'
BY DEF LayoutLeft

LEMMA LessAt ==
  ASSUME NEW s, NEW t, NEW i \in 1..6, Fewer(s[i], t[i]), \A j \in 1..(i - 1) : s[j] = t[j]
  PROVE  LessLeft(s, t)
BY DEF LessLeft

(* The order in which things are used up.                                                *)
LEMMA StepUses ==
  ASSUME \/ Fewer(FaultsLeft', FaultsLeft)
         \/ /\ FaultsLeft' = FaultsLeft
            /\ \/ Fewer(GapLeft', GapLeft)
               \/ /\ GapLeft' = GapLeft
                  /\ \/ Fewer(PhasesLeft', PhasesLeft)
                     \/ /\ PhasesLeft' = PhasesLeft
                        /\ \/ Fewer(PartLeft', PartLeft)
                           \/ /\ PartLeft' = PartLeft
                              /\ \/ Fewer(TooLong', TooLong)
                                 \/ /\ TooLong' = TooLong
                                    /\ Fewer(BytesLeft', BytesLeft)
  PROVE  LessLeft(LayoutLeft', LayoutLeft)
<1> DEFINE same(n) == \A j \in 1..n : LayoutLeft'[j] = LayoutLeft[j]
           less(n) == Fewer(LayoutLeft'[n], LayoutLeft[n]) /\ same(n - 1)
<1>1. /\ 1..0 = {} /\ 1..1 = {1} /\ 1..2 = {1, 2} /\ 1..3 = {1, 2, 3} /\ 1..4 = {1, 2, 3, 4}
      /\ 1..5 = {1, 2, 3, 4, 5} /\ 1..6 = {1, 2, 3, 4, 5, 6}
  OBVIOUS
<1>2. less(1) \/ less(2) \/ less(3) \/ less(4) \/ less(5) \/ less(6)
  BY <1>1, TheLeft
<1>3. \A n \in 1..6 : less(n) => LessLeft(LayoutLeft', LayoutLeft)
  BY LessAt
<1> HIDE DEF less
<1> QED  BY <1>1, <1>2, <1>3

(* Faults, and what follows them.                                                        *)
LEMMA FaultsUse ==
  ASSUME TypeOK, faults < MaxFaults, faults' = faults + 1
  PROVE  LessLeft(LayoutLeft', LayoutLeft)
<1>1. faults \in Nat /\ MaxFaults \in Nat
  BY ChunkLayoutAssumption DEF TypeOK
<1>2. faults + 1 \in FaultsLeft /\ faults + 1 \notin FaultsLeft' /\ FaultsLeft' \subseteq FaultsLeft
  BY <1>1 DEF FaultsLeft
<1> QED  BY <1>2, StepUses DEF Fewer

LEMMA Intervals ==
  ASSUME NEW p \in Nat, NEW q \in Nat, NEW end \in Nat, p < q, q <= end
  PROVE  Fewer((q + 1)..end, (p + 1)..end)
<1>1. q \in (p + 1)..end /\ q \notin (q + 1)..end
  OBVIOUS
<1>2. (q + 1)..end \subseteq (p + 1)..end
  OBVIOUS
<1> QED  BY <1>1, <1>2 DEF Fewer

(* Steps that append to the .part file.                                                  *)
LEMMA AppendingUses ==
  ASSUME TypeOK, UNCHANGED <<faults, miscut, phase, fileSize>>, part' \in 0..fileSize, part < part'
  PROVE  LessLeft(LayoutLeft', LayoutLeft)
<1>1. part \in Nat /\ fileSize \in Nat
  BY SizesAreNatural DEF TypeOK
<1>2. Fewer(PartLeft', PartLeft)
  <2>1. part' \in Nat /\ part' <= fileSize
    BY <1>1
  <2>2. Fewer((part' + 1)..fileSize, (part + 1)..fileSize)
    BY <1>1, <2>1, Intervals
  <2> QED  BY <2>2 DEF PartLeft
<1>3. FaultsLeft' = FaultsLeft /\ GapLeft' = GapLeft /\ PhasesLeft' = PhasesLeft
  BY DEF FaultsLeft, GapLeft, PhasesLeft
<1> QED  BY <1>2, <1>3, StepUses

(* An area other than the master's has a file of its own, and no other has it.           *)
LEMMA GrowingUses ==
  ASSUME LifeInv, NEW a \in plan, Grow(a)
  PROVE  LessLeft(LayoutLeft', LayoutLeft)
<1>0. TypeOK /\ FilesOK /\ fileSize \in Nat /\ part \in 0..fileSize /\ Lengths \subseteq Nat
  BY SizesAreNatural, ChunkLayoutAssumption DEF LifeInv, IInv, TypeOK, FilesOK
<1>1. PICK n \in Lengths \cup {a.size} : Len(a) < n /\ n <= a.size /\ SetLen(a, n)
  BY DEF Grow
<1>2. /\ UNCHANGED <<phase, fileSize, plan, whole, miscut, stale, faults>>
      /\ a.offset \in Nat /\ a.size \in Nat /\ a.offset + a.size <= fileSize
  BY AreaFacts DEF LifeInv, Grow
<1>3. n \in 1..fileSize /\ n \in Nat
  <2>1. n \in Nat /\ Len(a) \in Nat
    BY <1>0, <1>1, <1>2 DEF Len, FilesOK
  <2> QED  BY <1>0, <1>1, <1>2, <2>1
<1>4. CASE a.offset = 0
  <2>1. part' = n /\ part < n
    BY <1>1, <1>4 DEF SetLen, Len
  <2> QED  BY <1>0, <1>2, <1>3, <2>1, AppendingUses
<1>5. CASE a.offset # 0
  <2>1. UNCHANGED part
        /\ files' = [o \in DOMAIN files \cup {a.offset} |-> IF o = a.offset THEN n ELSE files[o]]
    BY <1>1, <1>5 DEF SetLen
  <2>2. Len(a)' = n /\ ~MustDiscard(a)' /\ ~MustDiscard(a)
    <3>1. (a.offset \in DOMAIN files)' /\ files'[a.offset] = n
      BY <2>1
    <3>2. Len(a)' = n
      BY <1>5, <3>1 DEF Len
    <3>3. ~(n > a.size)
      BY <1>1, <1>2, <1>3
    <3>4. a.offset \in DOMAIN files => ~(files[a.offset] > a.size)
      <4>1. a.offset \in DOMAIN files => files[a.offset] \in Nat /\ files[a.offset] < n
        BY <1>0, <1>1, <1>5 DEF FilesOK, Len
      <4> QED  BY <1>1, <1>2, <1>3, <4>1
    <3> QED  BY <3>1, <3>2, <3>3, <3>4 DEF MustDiscard
  <2>3. \A b \in plan : b # a => Len(b)' = Len(b) /\ (MustDiscard(b)' <=> MustDiscard(b))
    <3> SUFFICES ASSUME NEW b \in plan, b # a
                 PROVE  Len(b)' = Len(b) /\ (MustDiscard(b)' <=> MustDiscard(b))
      OBVIOUS
    <3>1. b.offset # a.offset
      BY Beginnings
    <3>2. (b.offset \in DOMAIN files' <=> b.offset \in DOMAIN files)
          /\ (b.offset \in DOMAIN files => files'[b.offset] = files[b.offset])
      BY <2>1, <3>1
    <3> QED  BY <2>1, <3>2 DEF Len, MustDiscard
  <2>4. TooLong' = TooLong
    BY <1>2, <2>2, <2>3 DEF TooLong
  <2>5. BytesLeft' \subseteq BytesLeft
    <3> SUFFICES ASSUME NEW x \in (0..fileSize) \X (1..fileSize), NEW b \in plan,
                        b.offset = x[1], Len(b)' < x[2], x[2] <= b.size
                 PROVE  Len(b) < x[2]
      BY <1>2 DEF BytesLeft
    <3>1. CASE b = a
      <4>1. Len(a) \in Nat /\ x[2] \in Nat
        BY <1>0 DEF Len, FilesOK
      <4> QED  BY <1>1, <1>3, <2>2, <3>1, <4>1
    <3>2. CASE b # a
      BY <2>3, <3>2
    <3> QED  BY <3>1, <3>2
  <2>6. <<a.offset, n>> \in BytesLeft
    <3>1. <<a.offset, n>> \in (0..fileSize) \X (1..fileSize)
      BY <1>0, <1>2, <1>3
    <3> QED  BY <1>1, <3>1 DEF BytesLeft
  <2>7. <<a.offset, n>> \notin BytesLeft'
    <3> SUFFICES ASSUME NEW b \in plan, b.offset = a.offset, Len(b)' < n PROVE FALSE
      BY <1>2 DEF BytesLeft
    <3>1. b = a
      BY Beginnings
    <3> QED  BY <1>3, <2>2, <3>1
  <2>8. /\ FaultsLeft' = FaultsLeft /\ GapLeft' = GapLeft /\ PhasesLeft' = PhasesLeft
        /\ PartLeft' = PartLeft
    BY <1>2, <2>1 DEF FaultsLeft, GapLeft, PhasesLeft, PartLeft
  <2> QED  BY <2>4, <2>5, <2>6, <2>7, <2>8, StepUses DEF Fewer
<1> QED  BY <1>4, <1>5

LEMMA DiscardingUses ==
  ASSUME LifeInv, NEW a \in plan, Discard(a)
  PROVE  LessLeft(LayoutLeft', LayoutLeft)
<1>1. /\ files' = Without(a.offset) /\ a.offset \in DOMAIN files /\ files[a.offset] > a.size
      /\ UNCHANGED <<phase, fileSize, part, plan, whole, miscut, stale, faults>>
  BY DEF Discard
<1>2. a.offset \in 0..fileSize
  BY AreaFacts DEF LifeInv
<1>3. a.offset \in TooLong
  BY <1>1, <1>2 DEF TooLong, MustDiscard
<1>4. a.offset \notin TooLong' /\ TooLong' \subseteq TooLong
  <2>1. \A o \in DOMAIN files' : o # a.offset /\ o \in DOMAIN files /\ files'[o] = files[o]
    BY <1>1 DEF Without
  <2> QED  BY <1>1, <2>1 DEF TooLong, MustDiscard
<1>5. /\ FaultsLeft' = FaultsLeft /\ GapLeft' = GapLeft /\ PhasesLeft' = PhasesLeft
      /\ PartLeft' = PartLeft
  BY <1>1 DEF FaultsLeft, GapLeft, PhasesLeft, PartLeft
<1> QED  BY <1>3, <1>4, <1>5, StepUses DEF Fewer

(* Every step uses up something finite, in lexicographic order: a fault may undo all     *)
(* that was done, a plan with a gap is given up once, and otherwise bytes are            *)
(* downloaded and appended, and a file that is too long is discarded once                *)
(* (file_ops.rs, check_chunk_completion). With LayoutGoesOn, the download ends.          *)
THEOREM LayoutEnds == Spec => []LeftFinite /\ [][LessLeft(LayoutLeft', LayoutLeft)]_vars
<1>1. LifeInv => LeftFinite
  <2> SUFFICES ASSUME LifeInv PROVE LeftFinite
    OBVIOUS
  <2>0. fileSize \in Nat /\ part \in Nat /\ faults \in Nat /\ MaxFaults \in Nat
    BY SizesAreNatural, ChunkLayoutAssumption DEF LifeInv, IInv, TypeOK
  <2>1. /\ IsFiniteSet(0..fileSize) /\ IsFiniteSet(1..fileSize) /\ IsFiniteSet(PartLeft)
        /\ IsFiniteSet(FaultsLeft) /\ IsFiniteSet(1..2)
    <3>1. \A m, n \in Int : IsFiniteSet(m..n)
      BY FS_Interval
    <3>2. /\ 0 \in Int /\ 1 \in Int /\ 2 \in Int /\ fileSize \in Int /\ MaxFaults \in Int
          /\ part + 1 \in Int /\ faults + 1 \in Int
      BY <2>0
    <3> QED  BY <3>1, <3>2 DEF PartLeft, FaultsLeft
  <2>2. IsFiniteSet((0..fileSize) \X (1..fileSize))
    BY <2>1, FS_Product
  <2>3. GapLeft \subseteq 1..2 /\ PhasesLeft \subseteq 1..2
    BY DEF GapLeft, PhasesLeft
  <2>4. TooLong \subseteq 0..fileSize /\ BytesLeft \subseteq (0..fileSize) \X (1..fileSize)
    BY DEF TooLong, BytesLeft
  <2>5. IsFiniteSet(GapLeft) /\ IsFiniteSet(PhasesLeft) /\ IsFiniteSet(TooLong) /\ IsFiniteSet(BytesLeft)
    BY <2>1, <2>2, <2>3, <2>4, FS_Subset
  <2>6. 1..6 = {1, 2, 3, 4, 5, 6}
    OBVIOUS
  <2> QED  BY <2>1, <2>5, <2>6, TheLeft DEF LeftFinite
<1>2. LifeInv /\ [Next]_vars => [LessLeft(LayoutLeft', LayoutLeft)]_vars
  <2> SUFFICES ASSUME LifeInv, Next PROVE LessLeft(LayoutLeft', LayoutLeft)
    OBVIOUS
  <2>0. TypeOK /\ fileSize \in Nat /\ part \in Nat
    BY SizesAreNatural DEF LifeInv, IInv, TypeOK
  <2>1. CASE Start
    <3>1. phase = "idle" /\ phase' = "running" /\ faults' = faults /\ miscut' = FALSE
      BY <2>1 DEF Start, Plan
    <3>2. FaultsLeft' = FaultsLeft /\ GapLeft' \subseteq GapLeft
      BY <3>1 DEF FaultsLeft, GapLeft
    <3>3. 2 \in PhasesLeft /\ 2 \notin PhasesLeft' /\ PhasesLeft' \subseteq PhasesLeft
      BY <3>1 DEF PhasesLeft
    <3> QED  BY <3>2, <3>3, StepUses DEF Fewer
  <2>2. CASE Finalize
    <3>1. FaultsLeft' = FaultsLeft /\ GapLeft' = GapLeft
      BY <2>2 DEF Finalize, FaultsLeft, GapLeft
    <3>2. 1 \in PhasesLeft /\ PhasesLeft' = {}
      BY <2>2 DEF Finalize, PhasesLeft
    <3> QED  BY <3>1, <3>2, StepUses DEF Fewer
  <2>3. CASE FailOnGap
    <3>1. miscut /\ miscut' = FALSE /\ faults' = faults
      BY <2>3 DEF FailOnGap, Retry, Plan
    <3>2. FaultsLeft' = FaultsLeft /\ 1 \in GapLeft /\ GapLeft' = {}
      BY <3>1 DEF FaultsLeft, GapLeft
    <3> QED  BY <3>2, StepUses DEF Fewer
  <2>4. ASSUME NEW a \in plan, Merge(a) PROVE LessLeft(LayoutLeft', LayoutLeft)
    <3>1. part' = part + a.size /\ a.offset = part /\ UNCHANGED <<faults, miscut, phase, fileSize>>
      BY <2>4 DEF Merge
    <3>2. part' \in 0..fileSize /\ part < part'
      BY <2>0, <3>1, AreaFacts DEF LifeInv
    <3> QED  BY <2>0, <3>1, <3>2, AppendingUses
  <2>5. CASE Fail \/ FailIncomplete \/ Crash \/ \E a \in plan : Ondemand(a) \/ CrashMerging(a)
    <3>1. faults < MaxFaults /\ faults' = faults + 1
      BY <2>5 DEF Fail, FailIncomplete, Crash, Ondemand, CrashMerging
    <3> QED  BY <2>0, <3>1, FaultsUse
  <2> QED  BY <2>1, <2>2, <2>3, <2>4, <2>5, GrowingUses, DiscardingUses DEF Next, Progress
<1> QED  BY <1>1, <1>2, LifeInvariant, PTL DEF Spec
=============================================================================
