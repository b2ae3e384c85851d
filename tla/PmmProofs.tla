------------------------------ MODULE PmmProofs ------------------------------
(***************************************************************************)
(* Proofs about the physical page allocator, for every memory size, kernel *)
(* geometry, memory map and length of contiguous runs.                     *)
(***************************************************************************)
EXTENDS Pmm, FiniteSetTheorems, SequenceTheorems, TLAPS

USE GeometryAssumption, MemoryMapAssumption

\* Pages are finite in number, so the bitmap can be counted.
LEMMA BitmapFinite == ASSUME NEW S, S \subseteq Pages PROVE IsFiniteSet(S)
<1>1. IsFiniteSet(Pages)
  BY FS_Interval DEF Pages
<1> QED
  BY <1>1, FS_Subset

\* free_pages-- and free_pages++ follow the number of set bits.
LEMMA CountRemove ==
  ASSUME NEW S, S \subseteq Pages, NEW p \in S
  PROVE  /\ Cardinality(S \ {p}) = Cardinality(S) - 1
         /\ Cardinality(S) \in Nat \ {0}
<1>1. IsFiniteSet(S) /\ IsFiniteSet(S \ {p})
  BY BitmapFinite
<1>2. Cardinality(S) \in Nat /\ Cardinality(S \ {p}) \in Nat
  BY <1>1, FS_CardinalityType
<1>3. Cardinality(S \ {p}) = Cardinality(S) - 1
  BY <1>1, FS_RemoveElement
<1> QED
  BY <1>2, <1>3

LEMMA CountAdd ==
  ASSUME NEW S, S \subseteq Pages, NEW p, p \notin S
  PROVE  Cardinality(S \cup {p}) = Cardinality(S) + 1
<1>1. IsFiniteSet(S)
  BY BitmapFinite
<1> QED
  BY <1>1, FS_AddElement

LEMMA CountType ==
  ASSUME NEW S, S \subseteq Pages PROVE Cardinality(S) \in Nat
BY BitmapFinite, FS_CardinalityType

\* Putting a page in front of the list.
LEMMA ConsSeq ==
  ASSUME NEW S, NEW s \in Seq(S), NEW x \in S
  PROVE  /\ <<x>> \o s \in Seq(S)
         /\ Len(<<x>> \o s) = Len(s) + 1
         /\ (<<x>> \o s)[1] = x
         /\ \A n \in 1 .. Len(s) : (<<x>> \o s)[n + 1] = s[n]
OBVIOUS

\* Taking the page at place p out of the list.
LEMMA RemoveSeq ==
  ASSUME NEW S, NEW s \in Seq(S), NEW p \in 1 .. Len(s)
  PROVE  LET t == SubSeq(s, 1, p - 1) \o SubSeq(s, p + 1, Len(s))
         IN  /\ t \in Seq(S)
             /\ Len(t) = Len(s) - 1
             /\ \A n \in 1 .. Len(t) : t[n] = IF n < p THEN s[n] ELSE s[n + 1]
<1> DEFINE a == SubSeq(s, 1, p - 1)
           b == SubSeq(s, p + 1, Len(s))
<1>1. a \in Seq(S) /\ Len(a) = p - 1 /\ \A n \in 1 .. p - 1 : a[n] = s[n]
  OBVIOUS
<1>2. b \in Seq(S) /\ Len(b) = Len(s) - p
      /\ \A n \in 1 .. Len(s) - p : b[n] = s[n + p]
  OBVIOUS
<1> HIDE DEF a, b
<1>3. a \o b \in Seq(S) /\ Len(a \o b) = Len(s) - 1
  BY <1>1, <1>2
<1>4. ASSUME NEW n \in 1 .. Len(s) - 1
      PROVE  (a \o b)[n] = IF n < p THEN s[n] ELSE s[n + 1]
  <2>1. CASE n < p
    BY <1>1, <1>2, <2>1
  <2>2. CASE ~(n < p)
    <3>1. (a \o b)[n] = b[n - (p - 1)]
      BY <1>1, <1>2, <2>2
    <3>2. n - (p - 1) \in 1 .. Len(s) - p /\ (n - (p - 1)) + p = n + 1
      BY <2>2
    <3> QED
      BY <1>2, <2>2, <3>1, <3>2
  <2> QED
    BY <2>1, <2>2
<1> QED
  BY <1>3, <1>4 DEF a, b

LEMMA TailSeq ==
  ASSUME NEW S, NEW s \in Seq(S), s # <<>>
  PROVE  /\ Tail(s) \in Seq(S)
         /\ Len(Tail(s)) = Len(s) - 1
         /\ \A n \in 1 .. Len(Tail(s)) : Tail(s)[n] = s[n + 1]
OBVIOUS

-----------------------------------------------------------------------------
(***************************************************************************)
(* Type correctness.                                                       *)
(***************************************************************************)

\* What MarkEntry needs of a memory map entry.
LEMMA EntryFact ==
  ASSUME TypeOK, i \in 1 .. Len(mmap)
  PROVE  mmap[i].base \in Nat /\ (i = Len(mmap) => mmap[i].base # 0)
<1>1. mmap \in Seq([base : Nat, length : Nat \ {0}, type : 1 .. 5])
  BY DEF TypeOK
<1>2. mmap[i] \in [base : Nat, length : Nat \ {0}, type : 1 .. 5]
  BY <1>1, ElementOfSeq
<1>3. mmap # <<>>
  OBVIOUS
<1> QED
  BY <1>2, <1>3 DEF TypeOK

\* The boot leaves the state well typed and the invariant true at its start.
LEMMA InitInv == Init => IInv
<1> SUFFICES ASSUME Init PROVE IInv
  OBVIOUS
<1> USE DEF Init
<1>1. TypeOK
  BY DEF TypeOK, Pages, Link, Nil
<1>2. CountInv /\ ReserveInv
  BY DEF CountInv, PastCount, ReserveInv, PastReserve, Booted, Pages, KernelPages, BitmapPages
<1>3. OnList = {}
  BY DEF OnList
<1>4. ListInv
  BY <1>3 DEF ListInv, ListLinked, Booted
<1>5. OwnerInv /\ ScanInv /\ UnlinkInv
  BY DEF OwnerInv, ScanInv, UnlinkInv, Booted, ContiguousFirstFit
<1> QED
  BY <1>1, <1>2, <1>4, <1>5 DEF IInv

-----------------------------------------------------------------------------
(***************************************************************************)
(* The steps of pmm_init.                                                  *)
(***************************************************************************)

\* A step that leaves the list alone.
LEMMA SameList ==
  ASSUME UNCHANGED <<head, link, chain>>
  PROVE  ListLinked' = ListLinked /\ OnList' = OnList
BY DEF ListLinked, OnList

LEMMA MarkEntryInv == IInv /\ MarkEntry => IInv'
<1> SUFFICES ASSUME IInv, MarkEntry PROVE IInv'
  OBVIOUS
<1> USE DEF MarkEntry, walk
<1>1. i \in 1 .. Len(mmap) /\ mmap[i].base \in Nat /\ (i = Len(mmap) => mmap[i].base # 0)
  <2>1. mmap \in Seq([base : Nat, length : Nat \ {0}, type : 1 .. 5])
    BY DEF IInv, TypeOK
  <2>2. i \in 1 .. Len(mmap)
    BY <2>1 DEF IInv, TypeOK, ReserveInv
  <2> QED
    BY <2>2, EntryFact DEF IInv
<1>2. TypeOK'
  BY <1>1 DEF IInv, TypeOK
<1>3. CountInv' /\ ReserveInv'
  BY <1>1 DEF IInv, TypeOK, CountInv, PastCount, ReserveInv, PastReserve, Booted
<1>4. ListInv'
  BY SameList DEF IInv, ListInv, Booted
<1>5. OwnerInv' /\ ScanInv' /\ UnlinkInv'
  BY DEF IInv, OwnerInv, ScanInv, UnlinkInv, Booted, ContiguousFirstFit
<1> QED
  BY <1>2, <1>3, <1>4, <1>5 DEF IInv

LEMMA CountFreeInv == IInv /\ CountFree => IInv'
<1> SUFFICES ASSUME IInv, CountFree PROVE IInv'
  OBVIOUS
<1> USE DEF CountFree, walk
<1>1. TypeOK'
  BY CountType DEF IInv, TypeOK
<1>2. CountInv' /\ ReserveInv'
  BY DEF IInv, TypeOK, CountInv, PastCount, ReserveInv, PastReserve, Booted, KernelPages
<1>3. ListInv'
  BY SameList DEF IInv, ListInv, Booted
<1>4. OwnerInv' /\ ScanInv' /\ UnlinkInv'
  BY DEF IInv, OwnerInv, ScanInv, UnlinkInv, Booted, ContiguousFirstFit
<1> QED
  BY <1>1, <1>2, <1>3, <1>4 DEF IInv

\* The bookkeeping common to the two loops that withhold pages.
LEMMA ReservePageInv ==
  ASSUME NEW loop, NEW last, NEW next, NEW first,
         IInv, ReservePage(loop, last, next, first),
         loop \in {"kernel", "bitmap"}, next \in {"bitmap", "build"},
         last \in Nat, first \in Nat, next = "build" => first = 0
  PROVE  TypeOK' /\ CountInv' /\ ListInv' /\ OwnerInv' /\ ScanInv' /\ UnlinkInv'
<1> USE DEF ReservePage, walk
<1>1. TypeOK' /\ CountInv'
  <2>1. i \in bitmap => Cardinality(bitmap \ {i}) = Cardinality(bitmap) - 1 /\ Cardinality(bitmap) \in Nat \ {0}
    BY CountRemove DEF IInv, TypeOK
  <2>2. i \notin bitmap => bitmap \ {i} = bitmap
    OBVIOUS
  <2>3. free_pages = Cardinality(bitmap)
    BY DEF IInv, CountInv, PastCount
  <2>4. pc' \in {"kernel", "bitmap", "build", "halt"} /\ bitmap' \subseteq bitmap
        /\ i' \in Nat
    BY DEF IInv, TypeOK
  <2>5. free_pages' = Cardinality(bitmap') /\ free_pages' \in Nat
    <3>1. CASE i <= last /\ i < TotalPages /\ i \in bitmap
      <4>1. bitmap' = bitmap \ {i} /\ free_pages' = free_pages - 1
        BY <3>1
      <4>2. Cardinality(bitmap') = Cardinality(bitmap) - 1
        BY <2>1, <3>1, <4>1
      <4> QED
        BY <2>1, <2>3, <3>1, <4>1, <4>2
    <3>2. CASE i <= last /\ i < TotalPages /\ i \notin bitmap
      BY <2>2, <2>3, <3>2 DEF IInv, TypeOK
    <3>3. CASE ~(i <= last /\ i < TotalPages)
      BY <2>3, <3>3 DEF IInv, TypeOK
    <3> QED
      BY <3>1, <3>2, <3>3
  <2> QED
    BY <2>4, <2>5 DEF IInv, TypeOK, CountInv
<1>2. ListInv'
  <2>1. ListLinked' /\ OnList' = {}
    BY SameList DEF IInv, ListInv, Booted
  <2>2. pc' = "build" => i' = 0
    OBVIOUS
  <2>3. \A p \in bitmap' : p \in Nat
    BY <1>1 DEF TypeOK, Pages
  <2>4. pc' \in {"kernel", "bitmap", "build", "halt"}
    OBVIOUS
  <2>5. pc' = "build" => {p \in bitmap' : p < i'} = {}
    BY <2>2, <2>3 DEF Pages
  <2> QED
    BY <2>1, <2>4, <2>5 DEF ListInv, Booted
<1>3. OwnerInv'
  BY DEF IInv, OwnerInv, Booted
<1>4. ScanInv' /\ UnlinkInv'
  BY DEF IInv, ScanInv, UnlinkInv, ContiguousFirstFit
<1> QED
  BY <1>1, <1>2, <1>3, <1>4

LEMMA ReserveKernelInv == IInv /\ ReserveKernel => IInv'
<1> SUFFICES ASSUME IInv, ReserveKernel PROVE IInv'
  OBVIOUS
<1> USE DEF ReserveKernel
<1>1. TypeOK' /\ CountInv' /\ ListInv' /\ OwnerInv' /\ ScanInv' /\ UnlinkInv'
  BY ReservePageInv
<1>2. ReserveInv'
  BY DEF ReservePage, IInv, TypeOK, ReserveInv, PastReserve, Booted, KernelPages, BitmapPages, Pages
<1> QED
  BY <1>1, <1>2 DEF IInv

LEMMA ReserveBitmapInv == IInv /\ ReserveBitmap => IInv'
<1> SUFFICES ASSUME IInv, ReserveBitmap PROVE IInv'
  OBVIOUS
<1> USE DEF ReserveBitmap
<1>1. TypeOK' /\ CountInv' /\ ListInv' /\ OwnerInv' /\ ScanInv' /\ UnlinkInv'
  BY ReservePageInv
<1>2. ReserveInv'
  BY DEF ReservePage, IInv, TypeOK, ReserveInv, PastReserve, Booted, KernelPages, BitmapPages, Pages
<1> QED
  BY <1>1, <1>2 DEF IInv

\* Putting a page that is not on the list in front of it keeps it linked.
LEMMA ListCons ==
  ASSUME TypeOK, ListLinked, NEW p \in Pages, p \notin OnList,
         link' = [link EXCEPT ![p] = head], head' = p, chain' = <<p>> \o chain
  PROVE  ListLinked' /\ OnList' = OnList \cup {p} /\ chain' \in Seq(Pages)
         /\ link' \in [Pages -> Link] /\ head' \in Link
<1> DEFINE L == Len(chain)
<1>1. chain \in Seq(Pages) /\ L \in Nat
  BY DEF TypeOK
<1>2. /\ chain' \in Seq(Pages) /\ Len(chain') = L + 1
      /\ chain'[1] = p
      /\ \A n \in 1 .. L : chain'[n + 1] = chain[n]
  BY <1>1, ConsSeq
<1>3. \A n \in 1 .. L : chain[n] \in Pages /\ chain[n] # p
  BY <1>1, ElementOfSeq DEF OnList
<1>4. \A n \in 2 .. L + 1 : chain'[n] = chain[n - 1]
  BY <1>1, <1>2
<1>5. OnList' = OnList \cup {p}
  BY <1>1, <1>2, <1>4 DEF OnList
<1>6. link' \in [Pages -> Link] /\ head' \in Link
  BY DEF TypeOK, Link
<1>7. \A n \in 1 .. Len(chain') :
        link'[chain'[n]] = IF n = Len(chain') THEN Nil ELSE chain'[n + 1]
  <2> SUFFICES ASSUME NEW n \in 1 .. L + 1
               PROVE  link'[chain'[n]] = IF n = L + 1 THEN Nil ELSE chain'[n + 1]
    BY <1>2
  <2>1. CASE n = 1
    <3>1. link'[p] = head
      BY DEF TypeOK
    <3>2. chain = <<>> <=> L = 0
      BY <1>1
    <3> QED
      BY <1>1, <1>2, <2>1, <3>1, <3>2 DEF ListLinked
  <2>2. CASE n # 1
    <3>1. n - 1 \in 1 .. L /\ chain'[n] = chain[n - 1]
      BY <1>1, <1>4, <2>2
    <3>2. link'[chain'[n]] = link[chain[n - 1]]
      BY <1>3, <3>1 DEF TypeOK
    <3>3. link[chain[n - 1]] = IF n - 1 = L THEN Nil ELSE chain[(n - 1) + 1]
      BY <3>1 DEF ListLinked
    <3>4. n - 1 # L => chain'[n + 1] = chain[n]
      BY <1>1, <1>2, <3>1
    <3> QED
      BY <1>1, <3>1, <3>2, <3>3, <3>4
  <2> QED
    BY <2>1, <2>2
<1>8. \A m, n \in 1 .. Len(chain') : chain'[m] = chain'[n] => m = n
  <2>1. \A m, n \in 1 .. L : chain[m] = chain[n] => m = n
    BY DEF ListLinked
  <2> SUFFICES ASSUME NEW m \in 1 .. L + 1, NEW n \in 1 .. L + 1, chain'[m] = chain'[n]
               PROVE  m = n
    BY <1>2
  <2>2. CASE m # 1 /\ n # 1
    <3>1. m - 1 \in 1 .. L /\ n - 1 \in 1 .. L
      BY <1>1, <2>2
    <3>2. chain[m - 1] = chain[n - 1]
      BY <1>1, <1>4, <2>2
    <3>3. m - 1 = n - 1
      BY <2>1, <3>1, <3>2
    <3> QED
      BY <3>1, <3>3
  <2>3. \A k \in 2 .. L + 1 : chain'[k] # p
    <3> TAKE k \in 2 .. L + 1
    <3>1. k - 1 \in 1 .. L
      BY <1>1
    <3> QED
      BY <1>3, <1>4, <3>1
  <2>4. CASE m = 1
    BY <1>1, <1>2, <2>3, <2>4
  <2>5. CASE n = 1
    BY <1>1, <1>2, <2>3, <2>5
  <2> QED
    BY <2>2, <2>4, <2>5
<1>9. head' = IF chain' = <<>> THEN Nil ELSE chain'[1]
  BY <1>1, <1>2
<1> QED
  BY <1>2, <1>5, <1>6, <1>7, <1>8, <1>9 DEF ListLinked

LEMMA BuildListInv == IInv /\ BuildList => IInv'
<1> SUFFICES ASSUME IInv, BuildList PROVE IInv'
  OBVIOUS
<1> USE DEF BuildList, walk
<1>1. TypeOK /\ ListLinked /\ OnList = {p \in bitmap : p < i} /\ bitmap \subseteq Pages /\ i \in Nat
  BY DEF IInv, ListInv, TypeOK
<1>2. CASE i < TotalPages /\ i \in bitmap
  <2>1. i \in Pages /\ i \notin OnList
    BY <1>1, <1>2 DEF Pages
  <2>2. ListLinked' /\ OnList' = OnList \cup {i} /\ chain' \in Seq(Pages)
        /\ link' \in [Pages -> Link] /\ head' \in Link
    BY <1>1, <1>2, <2>1, ListCons
  <2>3. TypeOK'
    BY <1>2, <2>2 DEF IInv, TypeOK
  <2>4. \A p \in bitmap : p < i + 1 <=> p < i \/ p = i
    BY <1>1 DEF Pages
  <2>5. ListInv'
    <3>1. OnList' = {p \in bitmap : p < i + 1}
      BY <1>1, <1>2, <2>2, <2>4
    <3> QED
      BY <1>2, <2>2, <3>1 DEF ListInv
  <2>6. CountInv' /\ ReserveInv' /\ OwnerInv' /\ ScanInv' /\ UnlinkInv'
    BY <1>2 DEF IInv, CountInv, PastCount, ReserveInv, PastReserve, Booted, OwnerInv, ScanInv, ContiguousFirstFit, UnlinkInv
  <2> QED
    BY <2>3, <2>5, <2>6 DEF IInv
<1>3. CASE i < TotalPages /\ i \notin bitmap
  <2>1. TypeOK'
    BY <1>3 DEF IInv, TypeOK
  <2>2. ListLinked' /\ OnList' = OnList
    BY <1>1, <1>3, SameList
  <2>3. {p \in bitmap : p < i + 1} = {p \in bitmap : p < i}
    <3>1. \A p \in bitmap : p < i + 1 <=> p < i
      BY <1>1, <1>3 DEF Pages
    <3> QED
      BY <3>1
  <2>4. ListInv'
    BY <1>1, <1>3, <2>2, <2>3 DEF ListInv
  <2>5. CountInv' /\ ReserveInv' /\ OwnerInv' /\ ScanInv' /\ UnlinkInv'
    BY <1>3 DEF IInv, CountInv, PastCount, ReserveInv, PastReserve, Booted, OwnerInv, ScanInv, ContiguousFirstFit, UnlinkInv
  <2> QED
    BY <2>1, <2>4, <2>5 DEF IInv
<1>4. CASE ~(i < TotalPages)
  <2>1. TypeOK'
    BY <1>4 DEF IInv, TypeOK
  <2>2. ListLinked' /\ OnList' = OnList
    BY <1>1, <1>4, SameList
  <2>3. {p \in bitmap : p < i} = bitmap
    BY <1>1, <1>4 DEF Pages
  <2>4. ListInv'
    BY <1>1, <1>4, <2>2, <2>3 DEF ListInv, Booted
  <2>5. CountInv' /\ ReserveInv' /\ OwnerInv' /\ ScanInv' /\ UnlinkInv'
    BY <1>4 DEF IInv, CountInv, PastCount, ReserveInv, PastReserve, Booted, OwnerInv, ScanInv, ContiguousFirstFit, UnlinkInv
  <2> QED
    BY <2>1, <2>4, <2>5 DEF IInv
<1> QED
  BY <1>2, <1>3, <1>4

-----------------------------------------------------------------------------
(***************************************************************************)
(* pmm_alloc_page, pmm_free_page and the owners' stores.                   *)
(***************************************************************************)

\* Taking the first page off the list keeps the rest linked.
LEMMA ListTail ==
  ASSUME TypeOK, ListLinked, head # Nil,
         head' = link[head], chain' = Tail(chain), link' = link
  PROVE  /\ ListLinked' /\ OnList' = OnList \ {head} /\ head \in OnList
         /\ chain' \in Seq(Pages) /\ head' \in Link /\ head \in Pages
<1> DEFINE L == Len(chain)
<1>1. chain \in Seq(Pages) /\ L \in Nat /\ chain # <<>> /\ L >= 1
  BY DEF TypeOK, ListLinked
<1>2. /\ chain' \in Seq(Pages) /\ Len(chain') = L - 1
      /\ \A n \in 1 .. L - 1 : chain'[n] = chain[n + 1]
  BY <1>1, TailSeq
<1>3. chain[1] = head /\ head \in Pages /\ head \in OnList
  BY <1>1, ElementOfSeq DEF ListLinked, OnList
<1>4. \A m, n \in 1 .. L : chain[m] = chain[n] => m = n
  BY DEF ListLinked
<1>5. OnList' = OnList \ {head}
  <2>1. ASSUME NEW p \in OnList' PROVE p \in OnList \ {head}
    <3>1. PICK n \in 1 .. L - 1 : p = chain'[n]
      BY <1>2 DEF OnList
    <3>2. p = chain[n + 1] /\ n + 1 \in 1 .. L /\ n + 1 # 1
      BY <1>1, <1>2, <3>1
    <3> QED
      BY <1>1, <1>3, <1>4, <3>2 DEF OnList
  <2>2. ASSUME NEW p \in OnList \ {head} PROVE p \in OnList'
    <3>1. PICK n \in 1 .. L : p = chain[n]
      BY DEF OnList
    <3>2. n - 1 \in 1 .. L - 1
      BY <1>1, <1>3, <3>1
    <3>3. p = chain'[n - 1]
      BY <1>2, <3>1, <3>2
    <3> QED
      BY <1>2, <3>2, <3>3 DEF OnList
  <2> QED
    BY <2>1, <2>2
<1>6. head' = IF chain' = <<>> THEN Nil ELSE chain'[1]
  <2>1. link[chain[1]] = IF 1 = L THEN Nil ELSE chain[1 + 1]
    <3>1. 1 \in 1 .. Len(chain)
      BY <1>1
    <3> QED
      BY <3>1 DEF ListLinked
  <2>2. chain' = <<>> <=> Len(chain') = 0
    BY <1>2, EmptySeq
  <2>3. chain' = <<>> <=> L = 1
    BY <1>1, <1>2, <2>2
  <2> QED
    BY <1>1, <1>2, <1>3, <2>1, <2>3
<1>7. \A n \in 1 .. Len(chain') :
        link'[chain'[n]] = IF n = Len(chain') THEN Nil ELSE chain'[n + 1]
  <2> SUFFICES ASSUME NEW n \in 1 .. L - 1
               PROVE  link[chain'[n]] = IF n = L - 1 THEN Nil ELSE chain'[n + 1]
    BY <1>2
  <2>1. n + 1 \in 1 .. L /\ chain'[n] = chain[n + 1]
    BY <1>1, <1>2
  <2>2. link[chain[n + 1]] = IF n + 1 = L THEN Nil ELSE chain[(n + 1) + 1]
    BY <2>1 DEF ListLinked
  <2>3. n # L - 1 => chain'[n + 1] = chain[(n + 1) + 1]
    BY <1>1, <1>2
  <2> QED
    BY <1>1, <2>1, <2>2, <2>3
<1>8. \A m, n \in 1 .. Len(chain') : chain'[m] = chain'[n] => m = n
  <2> SUFFICES ASSUME NEW m \in 1 .. L - 1, NEW n \in 1 .. L - 1, chain'[m] = chain'[n]
               PROVE  m = n
    BY <1>2
  <2>1. m + 1 \in 1 .. L /\ n + 1 \in 1 .. L /\ chain[m + 1] = chain[n + 1]
    BY <1>1, <1>2
  <2>2. m + 1 = n + 1
    BY <1>4, <2>1
  <2> QED
    BY <1>1, <2>2
<1>9. head' \in Link
  BY <1>3 DEF TypeOK
<1> QED
  BY <1>2, <1>3, <1>5, <1>6, <1>7, <1>8, <1>9 DEF ListLinked

LEMMA AllocPageInv == IInv /\ AllocPage => IInv'
<1> SUFFICES ASSUME IInv, AllocPage PROVE IInv'
  OBVIOUS
<1> USE DEF AllocPage, walk
<1>1. /\ TypeOK /\ ListLinked /\ OnList = bitmap
      /\ bitmap \subseteq Pages /\ free_pages = Cardinality(bitmap)
  BY DEF IInv, ListInv, TypeOK, Booted, CountInv, PastCount
<1>2. /\ ListLinked' /\ OnList' = OnList \ {head} /\ head \in OnList
      /\ chain' \in Seq(Pages) /\ head' \in Link /\ head \in Pages
  BY <1>1, ListTail
<1>3. Cardinality(bitmap \ {head}) = Cardinality(bitmap) - 1 /\ Cardinality(bitmap) \in Nat \ {0}
  BY <1>1, <1>2, CountRemove
<1>4. CountInv' /\ free_pages' \in Nat
  BY <1>1, <1>3 DEF CountInv
<1>5. owned' = owned \cup {head}
  BY <1>1, <1>2 DEF HandOut, IInv, ReserveInv
<1>6. TypeOK'
  BY <1>2, <1>4, <1>5 DEF IInv, TypeOK
<1>7. ListInv'
  BY <1>1, <1>2 DEF ListInv, Booted
<1>8. ReserveInv'
  BY DEF IInv, ReserveInv, PastReserve, Booted
<1>9. OwnerInv'
  <2>1. head \in bitmap /\ head \notin Reserved /\ head # 0
    BY <1>1, <1>2 DEF IInv, ReserveInv, PastReserve, Booted, Reserved
  <2> QED
    BY <1>5, <2>1 DEF IInv, OwnerInv, Booted
<1>10. ScanInv' /\ UnlinkInv'
  BY DEF IInv, ScanInv, ContiguousFirstFit, UnlinkInv
<1> QED
  BY <1>4, <1>6, <1>7, <1>8, <1>9, <1>10 DEF IInv

LEMMA StutterInv == IInv /\ UNCHANGED vars => IInv'
<1> SUFFICES ASSUME IInv, UNCHANGED vars PROVE IInv'
  OBVIOUS
<1> USE DEF vars
<1>1. TypeOK' /\ CountInv' /\ ReserveInv' /\ OwnerInv'
  BY DEF IInv, TypeOK, CountInv, PastCount, ReserveInv, PastReserve, Booted, OwnerInv
<1>2. ListInv'
  BY SameList DEF IInv, ListInv, Booted
<1>3. ScanInv'
  BY DEF IInv, ScanInv, ContiguousFirstFit, IsRun
<1>4. UnlinkInv'
  <2>1. InTransit' = InTransit
    BY DEF InTransit
  <2> QED
    BY <2>1 DEF IInv, UnlinkInv
<1> QED
  BY <1>1, <1>2, <1>3, <1>4 DEF IInv

LEMMA FreePageInv ==
  ASSUME IInv, NEW p \in owned \cup bitmap \cup {TotalPages}, FreePage(p)
  PROVE  IInv'
<1> USE DEF FreePage, InUse, walk
<1>1. /\ TypeOK /\ ListLinked /\ OnList = bitmap
      /\ bitmap \subseteq Pages /\ free_pages = Cardinality(bitmap)
  BY DEF IInv, ListInv, TypeOK, Booted, CountInv, PastCount
<1>2. CASE InUse(p)
  <2>1. p \in owned /\ p \in Pages /\ p \notin OnList
    BY <1>1, <1>2 DEF TypeOK
  <2>2. ListLinked' /\ OnList' = OnList \cup {p} /\ chain' \in Seq(Pages)
        /\ link' \in [Pages -> Link] /\ head' \in Link
    BY <1>1, <1>2, <2>1, ListCons
  <2>3. Cardinality(bitmap \cup {p}) = Cardinality(bitmap) + 1
    BY <1>1, <1>2, CountAdd
  <2>4. CountInv'
    BY <1>1, <1>2, <2>3 DEF CountInv
  <2>5. TypeOK'
    BY <1>2, <2>1, <2>2 DEF IInv, TypeOK
  <2>6. ListInv'
    BY <1>1, <1>2, <2>2 DEF ListInv, Booted
  <2>7. p \notin Reserved /\ p # 0
    BY <2>1 DEF IInv, OwnerInv
  <2>8. ReserveInv'
    BY <1>2, <2>7 DEF IInv, ReserveInv, PastReserve, Booted, Reserved
  <2>9. OwnerInv'
    BY <1>2, <2>1 DEF IInv, OwnerInv, Booted
  <2>10. ScanInv' /\ UnlinkInv'
    BY <1>2 DEF IInv, ScanInv, ContiguousFirstFit, UnlinkInv
  <2> QED
    BY <2>4, <2>5, <2>6, <2>8, <2>9, <2>10 DEF IInv
<1>3. CASE ~InUse(p)
  <2>1. UNCHANGED vars
    BY <1>3 DEF vars
  <2> QED
    BY <2>1, StutterInv
<1> QED
  BY <1>2, <1>3

LEMMA WriteOwnedInv ==
  ASSUME IInv, NEW p \in owned, NEW w \in Words, WriteOwned(p, w)
  PROVE  IInv'
<1> USE DEF WriteOwned, walk
<1>1. TypeOK /\ ListLinked /\ OnList = bitmap /\ p \notin OnList /\ p \in Pages
  BY DEF IInv, ListInv, TypeOK, Booted, OwnerInv
<1>2. TypeOK'
  BY DEF IInv, TypeOK
<1>3. ListInv'
  <2>1. OnList' = OnList
    BY DEF OnList
  <2>2. \A n \in 1 .. Len(chain) : chain[n] # p
    BY <1>1 DEF OnList
  <2>3. \A n \in 1 .. Len(chain) : link'[chain[n]] = link[chain[n]]
    <3> TAKE n \in 1 .. Len(chain)
    <3>1. chain[n] \in Pages
      BY <1>1, ElementOfSeq DEF TypeOK
    <3> QED
      BY <1>1, <2>2, <3>1 DEF TypeOK
  <2>4. ListLinked'
    BY <1>1, <2>3 DEF ListLinked
  <2> QED
    BY <1>1, <2>1, <2>4 DEF ListInv, Booted
<1>4. CountInv' /\ ReserveInv' /\ OwnerInv' /\ ScanInv' /\ UnlinkInv'
  BY DEF IInv, CountInv, PastCount, ReserveInv, PastReserve, Booted, OwnerInv,
         ScanInv, ContiguousFirstFit, UnlinkInv
<1> QED
  BY <1>2, <1>3, <1>4 DEF IInv

-----------------------------------------------------------------------------
(***************************************************************************)
(* pmm_alloc_contiguous.                                                   *)
(***************************************************************************)

\* The parts of the invariant that a step keeping the pages where they are
\* does not disturb.
LEMMA SamePages ==
  ASSUME IInv, Booted, Booted',
         UNCHANGED <<mmap, bitmap, link, head, free_pages, owned, chain>>
  PROVE  CountInv' /\ ReserveInv' /\ ListInv' /\ OwnerInv'
<1>1. ListInv'
  BY SameList DEF IInv, ListInv, Booted
<1> QED
  BY <1>1 DEF IInv, CountInv, PastCount, ReserveInv, PastReserve, Booted, OwnerInv

LEMMA StartScanInv ==
  ASSUME IInv, NEW n \in 1 .. MaxRun, StartScan(n)
  PROVE  IInv'
<1> USE DEF StartScan
<1>1. TypeOK'
  BY DEF IInv, TypeOK
<1>2. CountInv' /\ ReserveInv' /\ ListInv' /\ OwnerInv'
  BY SamePages DEF Booted
<1>3. ScanInv'
  BY DEF ScanInv, ContiguousFirstFit, Pages
<1>4. UnlinkInv'
  BY DEF UnlinkInv
<1> QED
  BY <1>1, <1>2, <1>3, <1>4 DEF IInv

LEMMA ScanPageInv == IInv /\ ScanPage => IInv'
<1> SUFFICES ASSUME IInv, ScanPage PROVE IInv'
  OBVIOUS
<1> USE DEF ScanPage
<1>1. TypeOK'
  BY DEF IInv, TypeOK, DropLocals, Link
<1>2. CountInv' /\ ReserveInv' /\ ListInv' /\ OwnerInv'
  BY SamePages DEF Booted
<1>3. UnlinkInv'
  BY DEF UnlinkInv
<1>4. count >= 1 /\ i \in Nat /\ count \in Nat /\ \A b \in Pages : b < i => ~IsRun(b, count)
  BY DEF IInv, TypeOK, ScanInv, ContiguousFirstFit
<1>5. ScanInv'
  <2>1. CASE i >= TotalPages
    BY <2>1 DEF ScanInv, ContiguousFirstFit
  <2>2. CASE ~(i >= TotalPages) /\ i \in bitmap
    <3>1. IsRun(i, 1)'
      BY <1>4, <2>2 DEF IsRun
    <3>2. \A b \in Pages : b < i => ~IsRun(b, count)'
      BY <1>4, <2>2 DEF IsRun
    <3> QED
      BY <1>4, <2>2, <3>1, <3>2 DEF ScanInv, ContiguousFirstFit
  <2>3. CASE ~(i >= TotalPages) /\ i \notin bitmap
    <3>1. ~IsRun(i, count)
      <4>1. 0 \in 0 .. count - 1 /\ i + 0 = i
        BY <1>4
      <4> QED
        BY <2>3, <4>1 DEF IsRun
    <3>2. \A b \in Pages : b < i + 1 => ~IsRun(b, count)
      BY <1>4, <3>1 DEF Pages
    <3>3. \A b \in Pages : b < i + 1 => ~IsRun(b, count)'
      BY <2>3, <3>2 DEF IsRun
    <3> QED
      BY <1>4, <2>3, <3>3 DEF ScanInv, ContiguousFirstFit
  <2> QED
    BY <2>1, <2>2, <2>3
<1> QED
  BY <1>1, <1>2, <1>3, <1>5 DEF IInv

LEMMA ExtendRunInv == IInv /\ ExtendRun => IInv'
<1> SUFFICES ASSUME IInv, ExtendRun PROVE IInv'
  OBVIOUS
<1> USE DEF ExtendRun, SkipRun
<1>1. /\ count >= 1 /\ i \in Nat /\ j \in Nat /\ count \in Nat /\ j >= 1 /\ j <= count
      /\ \A b \in Pages : b < i => ~IsRun(b, count)
      /\ IsRun(i, j)
      /\ bitmap \subseteq Pages /\ head \in Link /\ chain \in Seq(Pages)
  BY DEF IInv, TypeOK, ScanInv, ContiguousFirstFit
<1>2. TypeOK'
  BY <1>1 DEF IInv, TypeOK, Link
<1>3. CountInv' /\ ReserveInv' /\ ListInv' /\ OwnerInv'
  BY SamePages DEF Booted
<1>4. CASE j < count /\ i + j < TotalPages /\ i + j \in bitmap
  <2>1. IsRun(i, j)'
    <3>1. \A k \in 0 .. j : k \in 0 .. j - 1 \/ k = j
      BY <1>1
    <3>2. \A k \in 0 .. j : i + k \in bitmap
      BY <1>1, <1>4, <3>1 DEF IsRun
    <3>3. i' = i /\ j' = j + 1 /\ bitmap' = bitmap /\ (j + 1) - 1 = j
      BY <1>1, <1>4
    <3> QED
      BY <3>2, <3>3 DEF IsRun
  <2>2. \A b \in Pages : b < i => ~IsRun(b, count)'
    BY <1>1, <1>4 DEF IsRun
  <2>3. ScanInv'
    BY <1>1, <1>4, <2>1, <2>2 DEF ScanInv, ContiguousFirstFit
  <2>4. UnlinkInv'
    BY <1>4 DEF UnlinkInv
  <2> QED
    BY <1>2, <1>3, <2>3, <2>4 DEF IInv
<1>5. CASE ~(j < count /\ i + j < TotalPages /\ i + j \in bitmap) /\ j = count
  <2>1. ScanInv'
    BY <1>1, <1>5 DEF ScanInv, ContiguousFirstFit
  <2>2. UnlinkInv'
    <3>1. \A k \in 0 .. count - 1 : i + k \in bitmap
      BY <1>1, <1>5 DEF IsRun
    <3>2. i # 0
      <4>1. i + 0 \in bitmap
        BY <1>1, <3>1
      <4> QED
        BY <1>1, <4>1 DEF IInv, ReserveInv
    <3>3. InTransit' = {}
      BY <1>5 DEF InTransit
    <3>4. cur' = IF 1 <= Len(chain) THEN chain[1] ELSE Nil
      BY <1>1, <1>5 DEF IInv, ListInv, ListLinked
    <3> QED
      BY <1>1, <1>5, <3>1, <3>2, <3>3, <3>4 DEF UnlinkInv
  <2> QED
    BY <1>2, <1>3, <2>1, <2>2 DEF IInv
<1>6. CASE ~(j < count /\ i + j < TotalPages /\ i + j \in bitmap) /\ j # count
  <2>1. i + j \notin bitmap /\ j < count
    BY <1>1, <1>6 DEF Pages
  <2>2. ASSUME NEW b \in Pages, b < i + j + 1 PROVE ~IsRun(b, count)
    <3>1. CASE b < i
      BY <1>1, <3>1
    <3>2. CASE ~(b < i)
      <4>1. (i + j) - b \in 0 .. count - 1 /\ b + ((i + j) - b) = i + j
        BY <1>1, <2>1, <2>2, <3>2 DEF Pages
      <4> QED
        BY <2>1, <4>1 DEF IsRun
    <3> QED
      BY <3>1, <3>2
  <2>3. \A b \in Pages : b < i + j + 1 => ~IsRun(b, count)'
    BY <1>6, <2>2 DEF IsRun
  <2>4. ScanInv'
    BY <1>1, <1>6, <2>3 DEF ScanInv, ContiguousFirstFit
  <2>5. UnlinkInv'
    BY <1>6 DEF UnlinkInv
  <2> QED
    BY <1>2, <1>3, <2>4, <2>5 DEF IInv
<1> QED
  BY <1>4, <1>5, <1>6

\* What the walk knows where it stands on a page of the list.
LEMMA WalkFact ==
  ASSUME IInv, pc = "unlink", cur # Nil
  PROVE  /\ pos \in 1 .. Len(chain) /\ cur = chain[pos] /\ cur \in Pages
         /\ link[cur] = IF pos = Len(chain) THEN Nil ELSE chain[pos + 1]
         /\ chain \in Seq(Pages) /\ Len(chain) \in Nat
<1>1. chain \in Seq(Pages) /\ Len(chain) \in Nat /\ pos \in Nat \ {0}
  BY DEF IInv, TypeOK
<1>2. pos \in 1 .. Len(chain) /\ cur = chain[pos]
  BY <1>1 DEF IInv, UnlinkInv
<1>3. link[chain[pos]] = IF pos = Len(chain) THEN Nil ELSE chain[pos + 1]
  BY <1>2 DEF IInv, ListInv, ListLinked
<1> QED
  BY <1>1, <1>2, <1>3, ElementOfSeq

LEMMA WalkListInv == IInv /\ WalkList => IInv'
<1> SUFFICES ASSUME IInv, WalkList PROVE IInv'
  OBVIOUS
<1> USE DEF WalkList
<1>1. /\ pos \in 1 .. Len(chain) /\ cur = chain[pos] /\ cur \in Pages
      /\ link[cur] = IF pos = Len(chain) THEN Nil ELSE chain[pos + 1]
      /\ chain \in Seq(Pages) /\ Len(chain) \in Nat
  BY WalkFact
<1>2. TypeOK'
  BY <1>1 DEF IInv, TypeOK, Link
<1>3. CountInv' /\ ReserveInv' /\ ListInv' /\ OwnerInv'
  BY SamePages DEF Booted
<1>4. ScanInv'
  BY DEF IInv, ScanInv, ContiguousFirstFit
<1>5. UnlinkInv'
  <2>1. /\ j <= count /\ i # 0
        /\ \A n \in 1 .. pos - 1 : chain[n] # i + j
        /\ \A k \in j .. count - 1 : i + k \in bitmap
        /\ InTransit \cap (bitmap \cup owned \cup Reserved) = {}
        /\ InTransit \subseteq Pages
    BY DEF IInv, UnlinkInv
  <2>2. InTransit' = InTransit
    BY DEF InTransit
  <2>3. cur' = IF pos + 1 <= Len(chain) THEN chain[pos + 1] ELSE Nil
    BY <1>1
  <2>4. \A n \in 1 .. (pos + 1) - 1 : chain[n] # i + j
    BY <1>1, <2>1
  <2>5. pos + 1 <= Len(chain) + 1 /\ pos + 1 # 1 /\ chain[(pos + 1) - 1] = cur
    BY <1>1
  <2> QED
    BY <2>1, <2>2, <2>3, <2>4, <2>5 DEF UnlinkInv
<1> QED
  BY <1>2, <1>3, <1>4, <1>5 DEF IInv

\* Taking the page at place pos off the list keeps the others linked.
LEMMA ListRemove ==
  ASSUME TypeOK, ListLinked, pos \in 1 .. Len(chain), cur = chain[pos],
         prev = IF pos = 1 THEN Nil ELSE chain[pos - 1],
         BypassCur
  PROVE  /\ ListLinked' /\ OnList' = OnList \ {cur} /\ cur \in OnList
         /\ chain' \in Seq(Pages) /\ head' \in Link /\ link' \in [Pages -> Link]
<1> DEFINE L == Len(chain)
<1>1. chain \in Seq(Pages) /\ L \in Nat /\ pos \in 1 .. L /\ \A n \in 1 .. L : chain[n] \in Pages
  BY ElementOfSeq DEF TypeOK
<1>2. /\ chain' \in Seq(Pages) /\ Len(chain') = L - 1
      /\ \A n \in 1 .. L - 1 : chain'[n] = IF n < pos THEN chain[n] ELSE chain[n + 1]
  BY <1>1, RemoveSeq DEF BypassCur
<1>a. IF prev = Nil THEN head' = link[cur] /\ link' = link
                    ELSE link' = [link EXCEPT ![prev] = link[cur]] /\ head' = head
  BY DEF BypassCur
<1>3. \A m, n \in 1 .. L : chain[m] = chain[n] => m = n
  BY DEF ListLinked
<1>4. \A n \in 1 .. L : link[chain[n]] = IF n = L THEN Nil ELSE chain[n + 1]
  BY DEF ListLinked
<1>5. prev = Nil <=> pos = 1
  <2>1. pos # 1 => pos - 1 \in 1 .. L
    BY <1>1
  <2> QED
    BY <1>1, <2>1 DEF Nil, Pages
<1>6. cur \in OnList /\ cur \in Pages /\ link[cur] \in Link
  BY <1>1 DEF OnList, TypeOK
<1>7. head' \in Link /\ link' \in [Pages -> Link]
  BY <1>1, <1>6, <1>a DEF TypeOK
<1>8. OnList' = OnList \ {cur}
  <2>1. ASSUME NEW p \in OnList' PROVE p \in OnList \ {cur}
    <3>1. PICK n \in 1 .. L - 1 : p = chain'[n]
      BY <1>2 DEF OnList
    <3>2. PICK m \in 1 .. L : p = chain[m] /\ m # pos
      <4>1. CASE n < pos
        <5>1. p = chain[n] /\ n \in 1 .. L /\ n # pos
          BY <1>1, <1>2, <3>1, <4>1
        <5> QED
          BY <5>1
      <4>2. CASE ~(n < pos)
        <5>1. p = chain[n + 1] /\ n + 1 \in 1 .. L /\ n + 1 # pos
          BY <1>1, <1>2, <3>1, <4>2
        <5> QED
          BY <5>1
      <4> QED
        BY <4>1, <4>2
    <3> QED
      BY <1>1, <1>3, <3>2 DEF OnList
  <2>2. ASSUME NEW p \in OnList \ {cur} PROVE p \in OnList'
    <3>1. PICK m \in 1 .. L : p = chain[m] /\ m # pos
      BY DEF OnList
    <3>2. \E n \in 1 .. L - 1 : p = chain'[n]
      <4>1. CASE m < pos
        <5>1. m \in 1 .. L - 1 /\ p = chain'[m]
          BY <1>1, <1>2, <3>1, <4>1
        <5> QED
          BY <5>1
      <4>2. CASE ~(m < pos)
        <5>1. m - 1 \in 1 .. L - 1 /\ ~(m - 1 < pos) /\ (m - 1) + 1 = m
          BY <1>1, <3>1, <4>2
        <5>2. p = chain'[m - 1]
          BY <1>2, <3>1, <5>1
        <5> QED
          BY <5>1, <5>2
      <4> QED
        BY <4>1, <4>2
    <3> QED
      BY <1>2, <3>2 DEF OnList
  <2> QED
    BY <2>1, <2>2
<1>9. head' = IF chain' = <<>> THEN Nil ELSE chain'[1]
  <2>1. chain' = <<>> <=> L = 1
    BY <1>1, <1>2, EmptySeq
  <2>2. CASE pos = 1
    <3>1. link[cur] = IF 1 = L THEN Nil ELSE chain[2]
      <4>1. link[chain[pos]] = IF pos = L THEN Nil ELSE chain[pos + 1]
        BY <1>1, <1>4
      <4>2. pos + 1 = 2
        BY <2>2
      <4> QED
        BY <2>2, <4>1, <4>2
    <3>2. L # 1 => chain'[1] = chain[2]
      BY <1>1, <1>2, <2>2
    <3> QED
      BY <1>5, <1>a, <2>1, <2>2, <3>1, <3>2
  <2>3. CASE pos # 1
    <3>1. L # 1 /\ chain'[1] = chain[1] /\ chain # <<>>
      BY <1>1, <1>2, <2>3
    <3> QED
      BY <1>5, <1>a, <2>1, <2>3, <3>1 DEF ListLinked
  <2> QED
    BY <2>2, <2>3
<1>10. \A m, n \in 1 .. Len(chain') : chain'[m] = chain'[n] => m = n
  <2> SUFFICES ASSUME NEW m \in 1 .. L - 1, NEW n \in 1 .. L - 1, chain'[m] = chain'[n]
               PROVE  m = n
    BY <1>2
  <2> DEFINE up(x) == IF x < pos THEN x ELSE x + 1
  <2>1. up(m) \in 1 .. L /\ up(n) \in 1 .. L /\ chain[up(m)] = chain[up(n)]
    BY <1>1, <1>2
  <2>2. up(m) = up(n)
    BY <1>3, <2>1
  <2> QED
    BY <1>1, <2>2
<1>11. \A n \in 1 .. Len(chain') :
         link'[chain'[n]] = IF n = Len(chain') THEN Nil ELSE chain'[n + 1]
  <2> SUFFICES ASSUME NEW n \in 1 .. L - 1
               PROVE  link'[chain'[n]] = IF n = L - 1 THEN Nil ELSE chain'[n + 1]
    BY <1>2
  <2>1. CASE n < pos - 1
    <3>1. n \in 1 .. L /\ pos # 1 /\ chain'[n] = chain[n] /\ chain'[n + 1] = chain[n + 1] /\ n # L - 1 /\ n # L
      BY <1>1, <1>2, <2>1
    <3>2. pos - 1 \in 1 .. L /\ prev = chain[pos - 1] /\ chain[n] # chain[pos - 1]
      BY <1>1, <1>3, <2>1, <3>1
    <3>3. link'[chain[n]] = link[chain[n]]
      BY <1>1, <1>5, <1>a, <3>1, <3>2 DEF TypeOK
    <3> QED
      BY <1>4, <3>1, <3>3
  <2>2. CASE n = pos - 1
    <3>1. n \in 1 .. L /\ pos # 1 /\ chain'[n] = prev /\ prev \in Pages
      BY <1>1, <1>2, <2>2
    <3>2. link'[prev] = link[cur]
      BY <1>5, <1>a, <3>1 DEF TypeOK
    <3>3. link[cur] = IF pos = L THEN Nil ELSE chain[pos + 1]
      BY <1>1, <1>4
    <3>4. n # L - 1 => chain'[n + 1] = chain[pos + 1]
      BY <1>1, <1>2, <2>2
    <3> QED
      BY <1>1, <2>2, <3>1, <3>2, <3>3, <3>4
  <2>3. CASE n > pos - 1
    <3>1. n + 1 \in 1 .. L /\ chain'[n] = chain[n + 1]
      BY <1>1, <1>2, <2>3
    <3>2. n # L - 1 => chain'[n + 1] = chain[(n + 1) + 1]
      BY <1>1, <1>2, <2>3
    <3>3. link'[chain[n + 1]] = link[chain[n + 1]]
      <4>1. CASE pos = 1
        BY <1>5, <1>a, <4>1
      <4>2. CASE pos # 1
        <5>1. pos - 1 \in 1 .. L /\ prev = chain[pos - 1] /\ n + 1 # pos - 1
          BY <1>1, <2>3, <4>2
        <5>2. chain[n + 1] # prev /\ chain[n + 1] \in Pages
          BY <1>1, <1>3, <3>1, <5>1
        <5> QED
          BY <1>5, <1>a, <4>2, <5>2 DEF TypeOK
      <4> QED
        BY <4>1, <4>2
    <3>4. link[chain[n + 1]] = IF n + 1 = L THEN Nil ELSE chain[(n + 1) + 1]
      BY <1>4, <3>1
    <3> QED
      BY <1>1, <3>1, <3>2, <3>3, <3>4
  <2> QED
    BY <1>1, <2>1, <2>2, <2>3
<1> QED
  BY <1>2, <1>6, <1>7, <1>8, <1>9, <1>10, <1>11 DEF ListLinked

LEMMA UnlinkPageInv == IInv /\ UnlinkPage => IInv'
<1> SUFFICES ASSUME IInv, UnlinkPage PROVE IInv'
  OBVIOUS
<1>1. /\ pc = "unlink" /\ j < count /\ (cur = Nil \/ cur = i + j)
      /\ bitmap' = bitmap \ {i + j} /\ free_pages' = free_pages - 1
      /\ j' = j + 1 /\ prev' = Nil /\ cur' = head' /\ pos' = 1
      /\ UNCHANGED <<pc, mmap, i, count, owned>>
  BY DEF UnlinkPage
<1>2. /\ i \in Nat /\ j \in Nat /\ count \in Nat /\ pos \in Nat \ {0}
      /\ bitmap \subseteq Pages /\ chain \in Seq(Pages) /\ Len(chain) \in Nat
  BY DEF IInv, TypeOK
<1>3. i + j \in bitmap
  BY <1>1, <1>2 DEF IInv, UnlinkInv
<1>4. OnList = bitmap /\ ListLinked
  BY <1>1 DEF IInv, ListInv, Booted
<1>5. cur # Nil
  <2>1. PICK n \in 1 .. Len(chain) : chain[n] = i + j
    BY <1>3, <1>4 DEF OnList
  <2>2. ~(n \in 1 .. pos - 1)
    BY <1>1, <2>1 DEF IInv, UnlinkInv
  <2>3. pos <= Len(chain)
    BY <1>2, <2>2
  <2>4. cur = chain[pos] /\ pos \in 1 .. Len(chain)
    BY <1>1, <1>2, <2>3 DEF IInv, UnlinkInv
  <2> QED
    BY <1>2, <2>4, ElementOfSeq DEF Nil, Pages
<1>6. cur = i + j /\ BypassCur
  BY <1>1, <1>5 DEF UnlinkPage
<1>7. pos \in 1 .. Len(chain) /\ cur = chain[pos]
  BY <1>1, <1>5, WalkFact
<1>8. prev = IF pos = 1 THEN Nil ELSE chain[pos - 1]
  BY <1>1 DEF IInv, UnlinkInv
<1>9. /\ ListLinked' /\ OnList' = OnList \ {cur}
      /\ chain' \in Seq(Pages) /\ head' \in Link /\ link' \in [Pages -> Link]
  BY <1>4, <1>6, <1>7, <1>8, ListRemove DEF IInv
<1>10. free_pages' = Cardinality(bitmap') /\ free_pages' \in Nat
  <2>1. Cardinality(bitmap \ {i + j}) = Cardinality(bitmap) - 1 /\ Cardinality(bitmap) \in Nat \ {0}
    BY <1>2, <1>3, CountRemove
  <2>2. free_pages = Cardinality(bitmap)
    BY <1>1 DEF IInv, CountInv, PastCount
  <2> QED
    BY <1>1, <2>1, <2>2
<1>11. TypeOK'
  BY <1>1, <1>2, <1>9, <1>10 DEF IInv, TypeOK, Link
<1>12. CountInv'
  BY <1>10 DEF CountInv
<1>13. ReserveInv'
  BY <1>1 DEF IInv, ReserveInv, PastReserve, Booted
<1>14. ListInv'
  BY <1>1, <1>4, <1>6, <1>9 DEF ListInv, Booted
<1>15. OwnerInv'
  BY <1>1 DEF IInv, OwnerInv, Booted
<1>16. ScanInv'
  BY <1>1 DEF IInv, ScanInv, ContiguousFirstFit
<1>17. UnlinkInv'
  <2>1. /\ j <= count /\ i # 0
        /\ \A k \in j .. count - 1 : i + k \in bitmap
        /\ InTransit \cap (bitmap \cup owned \cup Reserved) = {}
        /\ InTransit \subseteq Pages
    BY <1>1 DEF IInv, UnlinkInv
  <2>2. InTransit' = InTransit \cup {i + j}
    <3>1. \A n \in 0 .. (j + 1) - 1 : n \in 0 .. j - 1 \/ n = j
      BY <1>2
    <3>2. \A n \in 0 .. j - 1 : n \in 0 .. (j + 1) - 1
      BY <1>2
    <3>3. j \in 0 .. (j + 1) - 1
      BY <1>2
    <3> QED
      BY <1>1, <3>1, <3>2, <3>3 DEF InTransit
  <2>3. i + j \notin owned \cup Reserved /\ i + j \in Pages
    BY <1>1, <1>2, <1>3 DEF IInv, OwnerInv, ReserveInv, PastReserve, Booted, Reserved
  <2>4. \A k \in j + 1 .. count - 1 : i + k \in bitmap \ {i + j}
    <3> TAKE k \in j + 1 .. count - 1
    <3>1. k \in j .. count - 1 /\ i + k # i + j
      BY <1>2
    <3> QED
      BY <2>1, <3>1
  <2>5. j + 1 <= count
    BY <1>1, <1>2 DEF IInv, TypeOK
  <2>6. cur' = IF 1 <= Len(chain') THEN chain'[1] ELSE Nil
    BY <1>1, <1>9 DEF ListLinked
  <2>7. InTransit' \cap (bitmap' \cup owned' \cup Reserved) = {} /\ InTransit' \subseteq Pages
    BY <1>1, <2>1, <2>2, <2>3
  <2>8. \A n \in 1 .. 1 - 1 : chain'[n] # i + (j + 1)
    OBVIOUS
  <2>9. Len(chain') \in Nat
    BY <1>9
  <2> QED
    BY <1>1, <2>1, <2>4, <2>5, <2>6, <2>7, <2>8, <2>9 DEF UnlinkInv
<1> QED
  BY <1>11, <1>12, <1>13, <1>14, <1>15, <1>16, <1>17 DEF IInv

\* The pages a finished run hands over are the ones that were in transit.
LEMMA RunFact ==
  ASSUME IInv, ReturnRun
  PROVE  /\ i .. i + count - 1 = InTransit /\ owned' = owned \cup InTransit
         /\ InTransit \subseteq Pages /\ i + count - 1 >= i
<1>1. /\ i \in Nat /\ j \in Nat /\ count \in Nat /\ j = count /\ count >= 1 /\ i # 0
      /\ pc = "unlink" /\ InTransit \subseteq Pages
  BY DEF IInv, TypeOK, UnlinkInv, ScanInv, ReturnRun
<1>2. i .. i + count - 1 = InTransit
  <2>1. \A p \in i .. i + count - 1 : p - i \in 0 .. j - 1 /\ i + (p - i) = p
    BY <1>1
  <2>2. \A n \in 0 .. j - 1 : i + n \in i .. i + count - 1
    BY <1>1
  <2> QED
    BY <1>1, <2>1, <2>2 DEF InTransit
<1>3. owned' = owned \cup InTransit
  BY <1>1, <1>2 DEF ReturnRun
<1> QED
  BY <1>1, <1>2, <1>3

LEMMA ReturnRunInv == IInv /\ ReturnRun => IInv'
<1> SUFFICES ASSUME IInv, ReturnRun PROVE IInv'
  OBVIOUS
<1>1. owned' = owned \cup InTransit /\ InTransit \subseteq Pages
  BY RunFact
<1>2. /\ pc = "unlink" /\ pc' = "ready" /\ DropLocals
      /\ UNCHANGED <<mmap, bitmap, link, head, free_pages, chain>>
  BY DEF ReturnRun
<1>3. TypeOK'
  BY <1>1, <1>2 DEF IInv, TypeOK, DropLocals, Link
<1>4. ListInv'
  BY <1>2, SameList DEF IInv, ListInv, Booted
<1>5. CountInv' /\ ReserveInv'
  BY <1>2 DEF IInv, CountInv, PastCount, ReserveInv, PastReserve, Booted
<1>6. OwnerInv'
  <2>1. InTransit \cap (bitmap \cup Reserved) = {} /\ 0 \notin InTransit
    <3>1. \A p \in InTransit : p # 0
      BY <1>2 DEF InTransit, IInv, UnlinkInv, TypeOK
    <3> QED
      BY <1>2, <3>1 DEF IInv, UnlinkInv
  <2> QED
    BY <1>1, <1>2, <2>1 DEF IInv, OwnerInv, Booted
<1>7. ScanInv' /\ UnlinkInv'
  BY <1>2 DEF ScanInv, ContiguousFirstFit, UnlinkInv
<1> QED
  BY <1>3, <1>4, <1>5, <1>6, <1>7 DEF IInv

-----------------------------------------------------------------------------
(***************************************************************************)
(* The theorems.                                                           *)
(***************************************************************************)

LEMMA NextInv == IInv /\ [Next]_vars => IInv'
<1> SUFFICES ASSUME IInv, [Next]_vars PROVE IInv'
  OBVIOUS
<1>1. CASE Boot
  BY <1>1, MarkEntryInv, CountFreeInv, ReserveKernelInv, ReserveBitmapInv, BuildListInv DEF Boot
<1>2. CASE Halted \/ UNCHANGED vars
  BY <1>2, StutterInv DEF Halted
<1>3. CASE AllocPage
  BY <1>3, AllocPageInv
<1>4. CASE \E p \in owned \cup bitmap \cup {TotalPages} : FreePage(p)
  BY <1>4, FreePageInv
<1>5. CASE \E p \in owned, w \in Words : WriteOwned(p, w)
  BY <1>5, WriteOwnedInv
<1>6. CASE \E n \in 1 .. MaxRun : StartScan(n)
  BY <1>6, StartScanInv
<1>7. CASE AllocContiguous
  BY <1>7, ScanPageInv, ExtendRunInv, WalkListInv, UnlinkPageInv, ReturnRunInv DEF AllocContiguous
<1> QED
  BY <1>1, <1>2, <1>3, <1>4, <1>5, <1>6, <1>7 DEF Next

\* The conjunction of list shape, page count, reservation, ownership and loop
\* facts is inductive: every step of pmm.c keeps it.
THEOREM Invariance == Spec => []IInv
<1>1. Init => IInv
  BY InitInv
<1>2. IInv /\ [Next]_vars => IInv'
  BY NextInv
<1> QED
  BY <1>1, <1>2, PTL DEF Spec

\* The allocator's variables keep their types.
THEOREM TypeCorrect == Spec => []TypeOK
<1>1. IInv => TypeOK
  BY DEF IInv
<1> QED
  BY <1>1, Invariance, PTL

\* The list threaded through the free pages is acyclic and agrees with the
\* bitmap in every state the allocator can be in, for every memory size.
THEOREM FreeListCorrect == Spec => []FreeListMatchesBitmap
<1>1. IInv => FreeListMatchesBitmap
  BY DEF IInv, ListInv, FreeListMatchesBitmap, Booted
<1> QED
  BY <1>1, Invariance, PTL

\* No page is in two hands, and the kernel image and the bitmap are in none.
THEOREM ExclusiveOwnership == Spec => []NoPageInTwoHands
<1>1. IInv => NoPageInTwoHands
  BY DEF IInv, ListInv, OwnerInv, ReserveInv, PastReserve, Booted, Reserved, NoPageInTwoHands
<1> QED
  BY <1>1, Invariance, PTL

\* free_pages is the number of pages whose bit is 1, through every loop.
THEOREM CountCorrect == Spec => []FreePagesExact
<1>1. IInv => FreePagesExact
  BY DEF IInv, CountInv, PastCount, FreePagesExact
<1> QED
  BY <1>1, Invariance, PTL

\* pmm_alloc_contiguous finds the lowest run and fails only without one.
THEOREM FirstFitCorrect == Spec => []ContiguousFirstFit
<1>1. IInv => ContiguousFirstFit
  BY DEF IInv, ScanInv
<1> QED
  BY <1>1, Invariance, PTL

\* How a step moves the pages that callers can tell apart.
LEMMA PageMoves ==
  ASSUME IInv, IInv', Booted, Booted', [Next]_vars
  PROVE  \/ UNCHANGED <<bitmap \cup InTransit, owned>>
         \/ \E p \in bitmap : /\ (bitmap \cup InTransit)' = bitmap \ {p}
                              /\ owned' = owned \cup {p} /\ InTransit = {}
         \/ \E p \in owned : /\ (bitmap \cup InTransit)' = bitmap \cup {p}
                             /\ owned' = owned \ {p} /\ InTransit = {}
         \/ ReturnRun
<1>1. ASSUME Boot PROVE FALSE
  BY <1>1 DEF Boot, MarkEntry, CountFree, ReserveKernel, ReserveBitmap, ReservePage, BuildList, Booted
<1>2. CASE Halted \/ UNCHANGED vars
  BY <1>2 DEF Halted, vars, InTransit
<1>3. CASE AllocPage
  <2>1. InTransit = {} /\ InTransit' = {}
    BY <1>3 DEF AllocPage, InTransit
  <2>2. head \in bitmap /\ head # 0
    <3>1. TypeOK /\ ListLinked /\ OnList = bitmap /\ 0 \notin bitmap
      BY <1>3 DEF IInv, ListInv, ReserveInv, AllocPage, Booted
    <3>2. head \in OnList
      BY <1>3, <3>1, ListTail DEF AllocPage
    <3> QED
      BY <3>1, <3>2
  <2> QED
    BY <1>3, <2>1, <2>2 DEF AllocPage, HandOut
<1>4. CASE \E p \in owned \cup bitmap \cup {TotalPages} : FreePage(p)
  <2>1. PICK p \in owned \cup bitmap \cup {TotalPages} : FreePage(p)
    BY <1>4
  <2>2. InTransit = {} /\ InTransit' = {}
    BY <2>1 DEF FreePage, InTransit
  <2>3. CASE InUse(p)
    <3>1. p \in owned
      BY <2>1, <2>3 DEF InUse
    <3>2. bitmap' = bitmap \cup {p} /\ owned' = owned \ {p}
      BY <2>1, <2>3 DEF FreePage
    <3> QED
      BY <2>2, <3>1, <3>2
  <2>4. CASE ~InUse(p)
    BY <2>1, <2>2, <2>4 DEF FreePage, InUse
  <2> QED
    BY <2>3, <2>4
<1>5. CASE \E p \in owned, w \in Words : WriteOwned(p, w)
  BY <1>5 DEF WriteOwned, InTransit
<1>6. CASE \E n \in 1 .. MaxRun : StartScan(n)
  BY <1>6 DEF StartScan, InTransit
<1>7. CASE ScanPage \/ WalkList
  BY <1>7 DEF ScanPage, WalkList, InTransit
<1>8. CASE ExtendRun
  <2>1. InTransit = {} /\ InTransit' = {}
    <3>1. InTransit = {}
      BY <1>8 DEF ExtendRun, InTransit
    <3>2. pc' = "unlink" => j' = 0
      BY <1>8 DEF ExtendRun, SkipRun
    <3> QED
      BY <3>1, <3>2 DEF InTransit
  <2> QED
    BY <1>8, <2>1 DEF ExtendRun, SkipRun
<1>9. CASE UnlinkPage
  <2>1. i + j \in bitmap /\ i \in Nat /\ j \in Nat
    <3>1. i \in Nat /\ j \in Nat /\ count \in Nat /\ j < count /\ pc = "unlink"
      BY <1>9 DEF UnlinkPage, IInv, TypeOK
    <3>2. j \in j .. count - 1
      BY <3>1
    <3> QED
      BY <3>1, <3>2 DEF IInv, UnlinkInv
  <2>2. \A n \in 0 .. (j + 1) - 1 : n \in 0 .. j - 1 \/ n = j
    BY <2>1
  <2>3. \A n \in 0 .. j - 1 : n \in 0 .. (j + 1) - 1
    BY <2>1
  <2>4. j \in 0 .. (j + 1) - 1
    BY <2>1
  <2>5. InTransit' = InTransit \cup {i + j}
    BY <1>9, <2>2, <2>3, <2>4 DEF UnlinkPage, InTransit
  <2> QED
    BY <1>9, <2>1, <2>5 DEF UnlinkPage
<1> QED
  BY <1>1, <1>2, <1>3, <1>4, <1>5, <1>6, <1>7, <1>8, <1>9 DEF Next, AllocContiguous

LEMMA RunMoves ==
  ASSUME IInv, ReturnRun
  PROVE  /\ owned' = owned \cup InTransit /\ (bitmap \cup InTransit)' = bitmap
         /\ InTransit \cap bitmap = {}
<1>1. pc = "unlink" /\ pc' = "ready" /\ bitmap' = bitmap
  BY DEF ReturnRun
<1>2. InTransit' = {}
  BY <1>1 DEF InTransit
<1>3. InTransit \cap bitmap = {}
  BY <1>1 DEF IInv, UnlinkInv
<1> QED
  BY <1>1, <1>2, <1>3, RunFact

\* No order of calls loses a page: the pages outside the allocator's and its
\* callers' hands are the same ones forever.
THEOREM NothingLost == Spec => NoPageLost
<1>1. ASSUME IInv, IInv', [Next]_vars PROVE [Booted /\ Booted' => Withheld' = Withheld]_vars
  <2> SUFFICES ASSUME Booted, Booted' PROVE Withheld' = Withheld
    OBVIOUS
  <2>1. OnList = bitmap /\ OnList' = bitmap'
    BY <1>1 DEF IInv, ListInv, Booted
  <2>2. Withheld = Pages \ ((bitmap \cup InTransit) \cup owned)
    BY <2>1 DEF Withheld
  <2>3. Withheld' = Pages \ ((bitmap \cup InTransit)' \cup owned')
    BY <2>1 DEF Withheld
  <2>4. (bitmap \cup InTransit)' \cup owned' = (bitmap \cup InTransit) \cup owned
    <3>1. CASE ReturnRun
      BY <1>1, <3>1, RunMoves
    <3>2. CASE ~ReturnRun
      BY <1>1, <3>2, PageMoves
    <3> QED
      BY <3>1, <3>2
  <2> QED
    BY <2>2, <2>3, <2>4
<1> QED
  BY <1>1, Invariance, PTL DEF Spec, NoPageLost

\* pmm.c implements the abstract page allocator.
THEOREM Refinement == Spec => ImplementsAllocator
<1>1. Init => Allocator!Init
  BY DEF Init, Allocator!Init, Booted
<1>2. ASSUME IInv, IInv', [Next]_vars PROVE [Allocator!Next]_(Allocator!vars)
  <2> USE DEF Allocator!vars
  <2>1. CASE ~Booted /\ ~Booted'
    <3>1. owned = {} /\ owned' = {}
      BY <1>2, <2>1 DEF IInv, OwnerInv
    <3>2. Booted' = Booted
      BY <2>1 DEF Booted
    <3> QED
      BY <2>1, <3>1, <3>2
  <2>2. CASE ~Booted /\ Booted'
    <3>1. pc' = "ready" /\ UNCHANGED bitmap /\ pc = "build" /\ UNCHANGED owned
      BY <1>2, <2>2 DEF Next, Boot, MarkEntry, CountFree, ReserveKernel, ReserveBitmap,
           ReservePage, BuildList, Halted, AllocPage, FreePage, WriteOwned, StartScan,
           AllocContiguous, ScanPage, ExtendRun, SkipRun, WalkList, UnlinkPage, ReturnRun, vars, Booted
    <3>2. InTransit' = {}
      BY <3>1 DEF InTransit
    <3>3. bitmap \subseteq Pages \ Reserved
      BY <1>2, <3>1 DEF IInv, TypeOK, ReserveInv, PastReserve, Reserved
    <3>4. Allocator!ComeUp(bitmap)
      BY <2>2, <3>1, <3>2 DEF Allocator!ComeUp
    <3> QED
      BY <3>3, <3>4 DEF Allocator!Next
  <2>3. CASE Booted /\ ~Booted'
    BY <1>2, <2>3 DEF Next, Boot, MarkEntry, CountFree, ReserveKernel, ReserveBitmap,
         ReservePage, BuildList, Halted, AllocPage, FreePage, WriteOwned, StartScan,
         AllocContiguous, ScanPage, ExtendRun, SkipRun, WalkList, UnlinkPage, ReturnRun, vars, Booted
  <2>4. CASE Booted /\ Booted'
    <3>1. CASE ReturnRun
      <4>1. i .. i + count - 1 = InTransit /\ i + count - 1 >= i /\ InTransit \subseteq Pages
        BY <1>2, <3>1, RunFact
      <4>2. /\ owned' = owned \cup InTransit /\ (bitmap \cup InTransit)' = bitmap
            /\ InTransit \cap bitmap = {}
        BY <1>2, <3>1, RunMoves
      <4>3. Allocator!TakeRun(i, i + count - 1)
        BY <2>4, <4>1, <4>2 DEF Allocator!TakeRun
      <4>4. i \in Pages /\ i + count - 1 \in Pages /\ i <= i + count - 1
        BY <1>2, <4>1 DEF IInv, TypeOK
      <4> QED
        BY <4>3, <4>4 DEF Allocator!Next
    <3>2. CASE ~ReturnRun /\ UNCHANGED <<bitmap \cup InTransit, owned>>
      BY <2>4, <3>2
    <3>3. CASE \E p \in bitmap : /\ (bitmap \cup InTransit)' = bitmap \ {p}
                                 /\ owned' = owned \cup {p} /\ InTransit = {}
      <4>1. PICK p \in bitmap : /\ (bitmap \cup InTransit)' = bitmap \ {p}
                                /\ owned' = owned \cup {p} /\ InTransit = {}
        BY <3>3
      <4>2. p \in Pages /\ p .. p = {p}
        BY <1>2 DEF IInv, TypeOK, Pages
      <4>3. Allocator!TakeRun(p, p)
        BY <2>4, <4>1, <4>2 DEF Allocator!TakeRun
      <4> QED
        BY <4>2, <4>3 DEF Allocator!Next, Pages
    <3>4. CASE \E p \in owned : /\ (bitmap \cup InTransit)' = bitmap \cup {p}
                                /\ owned' = owned \ {p} /\ InTransit = {}
      BY <1>2, <2>4, <3>4 DEF Allocator!Next, Allocator!Give, IInv, TypeOK
    <3> QED
      BY <1>2, <2>4, <3>1, <3>2, <3>3, <3>4, PageMoves
  <2> QED
    BY <2>1, <2>2, <2>3, <2>4
<1> QED
  BY <1>1, <1>2, Invariance, PTL DEF Spec, ImplementsAllocator, Allocator!Spec
=============================================================================
