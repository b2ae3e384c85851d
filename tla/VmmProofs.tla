------------------------------ MODULE VmmProofs ------------------------------
(***************************************************************************)
(* The properties of Vmm for every memory size and every table size, when  *)
(* no directory is created after the kernel has mapped a window above the  *)
(* identity mapping (LateDirectories = FALSE); and the properties of       *)
(* Loader, which drives it, for every size of the program: the loader's    *)
(* own invariant says which page every piece of the program is in, which   *)
(* addresses have it, and who holds every page.                            *)
(***************************************************************************)
EXTENDS Loader, TLAPS

USE VmmAssumption

\* The identity mapping fits below kernel_pdes, and an address below the end
\* of memory is in one of its tables.
LEMMA SlotFacts ==
  /\ num_page_tables \in Nat /\ kernel_pdes \in Nat
  /\ num_page_tables <= kernel_pdes
  /\ \A s \in Slots, i \in Indices : s * Entries + i < MemPages => s < num_page_tables
<1> DEFINE q == num_page_tables
           a == MemPages \div Entries
<1>1. q \in Nat /\ a \in Nat
  BY DEF num_page_tables
<1>2. q * Entries <= MemPages + Entries - 1 /\ MemPages <= q * Entries
  BY DEF num_page_tables
<1>3. MemPages < (a + 1) * Entries
  OBVIOUS
<1>4. q <= a + 1
  BY <1>1, <1>2, <1>3
<1>5. ASSUME NEW s \in Slots, NEW i \in Indices, s * Entries + i < MemPages
      PROVE  s < q
  BY <1>1, <1>2, <1>5 DEF Slots, Indices
<1> QED
  BY <1>1, <1>4, <1>5 DEF kernel_pdes

LEMMA AllocFacts == ASSUME free # {} PROVE Alloc \in free
BY DEF Alloc

\* The invariant, entry by entry.
LEMMA EntryFacts ==
  ASSUME IInv
  PROVE  /\ KernelDir \in AllDirs /\ KernelDir \notin dirs /\ KernelDir \in Pages
         /\ AllDirs \subseteq Pages /\ NoPage \notin Pages
         /\ \A d \in AllDirs : d \notin free \cup held
         /\ \A d \in AllDirs, s \in Slots :
              /\ pde[d][s] \in Pages \cup {NoPage}
              /\ pde[d][s] \notin free \cup held \cup AllDirs
<1>1. KernelDir \in AllDirs /\ KernelDir \notin dirs /\ KernelDir \in Pages
      /\ NoPage \notin Pages
  <2>1. KernelDir \in Pages /\ NoPage \notin Pages
    BY SlotFacts DEF KernelDir, Pages, NoPage
  <2>2. KernelDir \notin dirs
    BY DEF KernelDir, IInv, Apart
  <2> QED
    BY <2>1, <2>2 DEF AllDirs
<1>2. AllDirs \subseteq Pages
  BY <1>1 DEF AllDirs, IInv, TypeOK
<1>3. \A d \in AllDirs : d \notin free \cup held
  BY DEF IInv, TablesLive
<1>4. ASSUME NEW d \in AllDirs, NEW s \in Slots
      PROVE  /\ pde[d][s] \in Pages \cup {NoPage}
             /\ pde[d][s] \notin free \cup held \cup AllDirs
  <2>1. pde[d][s] \in Pages \cup {NoPage}
    BY <1>2 DEF IInv, TypeOK
  <2>2. pde[d][s] # NoPage => pde[d][s] \in Tables
    BY DEF Tables, TablesOf
  <2>3. pde[d][s] \notin free \cup held
    BY <1>1, <2>2 DEF IInv, TablesLive, TypeOK
  <2> QED
    BY <2>1, <2>3 DEF IInv, Apart
<1> QED
  BY <1>1, <1>2, <1>3, <1>4

\* A page is a table when some entry of some directory says so.
LEMMA TablesDef ==
  \A p : p \in Tables <=> p # NoPage /\ \E d \in AllDirs, s \in Slots : p = pde[d][s]
BY DEF Tables, TablesOf

LEMMA InitOK == Init => IInv
<1> SUFFICES ASSUME Init PROVE IInv
  OBVIOUS
<1> USE DEF Init
<1>1. AllDirs = {KernelDir} /\ KernelDir \in Pages /\ NoPage \notin Pages
      /\ KernelPages + num_page_tables < MemPages
  BY SlotFacts DEF AllDirs, KernelDir, Pages, NoPage
<1>2. \A s \in Slots : pde[KernelDir][s] =
        IF s < num_page_tables THEN KernelPages + s ELSE NoPage
  BY <1>1
<1>3. ASSUME NEW s \in Slots, NEW i \in Indices, s < num_page_tables,
             s * Entries + i < MemPages
      PROVE  Translation(KernelDir, s, i) = s * Entries + i
  <2>1. pde[KernelDir][s] = KernelPages + s /\ KernelPages + s \in Pages
        /\ KernelPages + s # NoPage
        /\ KernelPages + s \in KernelPages .. KernelPages + num_page_tables - 1
        /\ (KernelPages + s) - KernelPages = s
    BY <1>1, <1>2, <1>3, SlotFacts DEF Slots, Pages, NoPage
  <2>2. pte[KernelPages + s][i] = s * Entries + i
    BY <1>3, <2>1
  <2> QED
    BY <2>1, <2>2 DEF Translation
<1>4. TypeOK
  <2>1. pde \in [Pages -> [Slots -> Pages \cup {NoPage}]]
    BY <1>1, SlotFacts DEF Pages, Slots
  <2>2. pte \in [Pages -> [Indices -> Pages \cup {NoPage}]]
    <3>1. ASSUME NEW t \in KernelPages .. KernelPages + num_page_tables - 1, NEW i \in Indices,
                 (t - KernelPages) * Entries + i < MemPages
          PROVE  (t - KernelPages) * Entries + i \in Pages
      <4>1. t - KernelPages \in Nat
        BY <3>1, SlotFacts
      <4> DEFINE m == (t - KernelPages) * Entries
      <4>2. m \in Nat
        BY <4>1
      <4>3. m + i < MemPages /\ i \in Nat
        BY <3>1 DEF Indices
      <4> HIDE DEF m
      <4>4. m + i \in Pages
        BY <4>2, <4>3 DEF Pages
      <4> QED
        BY <4>4 DEF m
    <3> QED
      BY <3>1
  <2>3. free \subseteq Pages
    BY <1>1, SlotFacts DEF Pages
  <2> QED
    BY <1>1, <2>1, <2>2, <2>3 DEF TypeOK
<1>5. TablesOwned
  BY <1>1, <1>2, SlotFacts DEF TablesOwned, Slots
<1>6. \A p : p \in Tables <=> p \in KernelPages .. KernelPages + num_page_tables - 1
  <2>1. ASSUME NEW p, p \in Tables
        PROVE  p \in KernelPages .. KernelPages + num_page_tables - 1
    BY <1>1, <1>2, <2>1, TablesDef, SlotFacts DEF Slots
  <2>2. ASSUME NEW p \in KernelPages .. KernelPages + num_page_tables - 1
        PROVE  p \in Tables
    <3>1. p - KernelPages \in Slots /\ p = KernelPages + (p - KernelPages)
          /\ p - KernelPages < num_page_tables /\ p # NoPage
      BY SlotFacts DEF Slots, NoPage
    <3> QED
      BY <1>1, <1>2, <3>1, TablesDef
  <2> QED
    BY <2>1, <2>2
<1>7. TablesLive
  BY <1>1, <1>6, SlotFacts DEF TablesLive, KernelDir
<1>8. PagesAccounted
  BY <1>6, SlotFacts DEF PagesAccounted
<1>9. KernelMapped
  BY <1>1, <1>3, SlotFacts DEF KernelMapped
<1>10. SharedNeverUser /\ TlbCoherent
  BY DEF SharedNeverUser, TlbCoherent
<1>11. Apart
  BY <1>1, <1>2, SlotFacts DEF Apart, KernelDir, NoPage, Slots
<1>12. SharedBelow
  BY <1>1, <1>2, SlotFacts DEF SharedBelow, NoPage, Slots
<1>13. MappedHeld
  <2>1. ASSUME NEW s \in Slots, NEW i \in Indices, s >= num_page_tables
        PROVE  Translation(KernelDir, s, i) = NoPage
    <3>1. ~(s < num_page_tables)
      BY <2>1, SlotFacts DEF Slots
    <3> QED
      BY <1>2, <3>1 DEF Translation
  <2> QED
    BY <1>1, <2>1 DEF MappedHeld
<1> QED
  BY <1>4, <1>5, <1>7, <1>8, <1>9, <1>10, <1>11, <1>12, <1>13 DEF IInv

-----------------------------------------------------------------------------
(***************************************************************************)
(* The actions                                                             *)
(***************************************************************************)

\* A step that leaves directories and tables alone and only moves pages
\* between the allocator and the callers, or changes CR3 or the cache.
LEMMA PlainStep ==
  ASSUME IInv, TypeOK', TlbCoherent', MappedHeld',
         UNCHANGED <<dirs, pde, pde_user, pte, pte_user>>,
         free' \cup held' = free \cup held, free' \cap held' = {}
  PROVE  IInv'
<1>1. AllDirs' = AllDirs
  BY DEF AllDirs
<1>2. Tables' = Tables
  BY <1>1 DEF Tables, TablesOf
<1>3. \A d, s, i : Translation(d, s, i)' = Translation(d, s, i)
  BY DEF Translation
<1>4. TablesOwned' /\ SharedNeverUser' /\ SharedBelow'
  BY <1>1 DEF IInv, TablesOwned, SharedNeverUser, SharedBelow
<1>5. TablesLive' /\ PagesAccounted' /\ Apart'
  BY <1>1, <1>2 DEF IInv, TablesLive, PagesAccounted, Apart
<1>6. KernelMapped'
  BY <1>1, <1>3 DEF IInv, KernelMapped
<1> QED
  BY <1>4, <1>5, <1>6 DEF IInv

LEMMA SwitchToOK == ASSUME IInv, SwitchTo PROVE IInv'
<1> USE DEF SwitchTo, vmm_switch_directory, Flushed
<1>1. AllDirs' = AllDirs /\ tlb' = {}
  BY DEF AllDirs
<1>2. TypeOK'
  BY <1>1 DEF IInv, TypeOK
<1>3. TlbCoherent'
  BY <1>1 DEF TlbCoherent
<1>4. MappedHeld'
  BY <1>1 DEF IInv, MappedHeld, Translation
<1>5. free' \cap held' = {}
  BY DEF IInv, PagesAccounted
<1> QED
  BY <1>2, <1>3, <1>4, <1>5, PlainStep

LEMMA FillOK == ASSUME IInv, Fill PROVE IInv'
<1> USE DEF Fill, TlbFill
<1>1. AllDirs' = AllDirs
  BY DEF AllDirs
<1>2. PICK s \in Slots, i \in Indices : TlbFill(s, i)
  OBVIOUS
<1>3. Translation(current_directory, s, i) \in Pages
  <2>1. current_directory \in AllDirs
    BY DEF IInv, TypeOK
  <2>2. pde[current_directory][s] \in Pages
    BY <1>2, <2>1, EntryFacts DEF Translation
  <2> QED
    BY <1>2, <2>2 DEF Translation, IInv, TypeOK
<1>4. TypeOK'
  BY <1>1, <1>2, <1>3 DEF IInv, TypeOK
<1>5. TlbCoherent'
  BY <1>2 DEF IInv, TlbCoherent, Translation
<1>6. MappedHeld'
  BY <1>1 DEF IInv, MappedHeld, Translation
<1>7. free' \cap held' = {}
  BY DEF IInv, PagesAccounted
<1> QED
  BY <1>4, <1>5, <1>6, <1>7, PlainStep

LEMMA CallerAllocOK == ASSUME IInv, CallerAlloc PROVE IInv'
<1> USE DEF CallerAlloc
<1>1. Alloc \in free
  BY AllocFacts
<1>2. AllDirs' = AllDirs
  BY DEF AllDirs
<1>3. TypeOK'
  BY <1>1, <1>2 DEF IInv, TypeOK
<1>4. TlbCoherent'
  BY DEF IInv, TlbCoherent, Translation
<1>5. MappedHeld'
  BY <1>2 DEF IInv, MappedHeld, Translation
<1>6. free' \cup held' = free \cup held /\ free' \cap held' = {}
  BY <1>1 DEF IInv, PagesAccounted
<1> QED
  BY <1>3, <1>4, <1>5, <1>6, PlainStep

LEMMA ReleaseOK == ASSUME IInv, Release PROVE IInv'
<1> USE DEF Release, CallerFree
<1>1. PICK p \in held : CallerFree(p)
  OBVIOUS
<1>2. AllDirs' = AllDirs
  BY <1>1 DEF AllDirs
<1>3. TypeOK'
  BY <1>1, <1>2 DEF IInv, TypeOK
<1>4. TlbCoherent'
  BY <1>1 DEF IInv, TlbCoherent, Translation
<1>5. MappedHeld'
  BY <1>1, <1>2 DEF IInv, MappedHeld, Translation, Mapped
<1>6. free' \cup held' = free \cup held /\ free' \cap held' = {}
  BY <1>1 DEF IInv, PagesAccounted
<1> QED
  BY <1>1, <1>3, <1>4, <1>5, <1>6, PlainStep

\* The new directory is a copy of the kernel's: whatever is said of its
\* entries is said of the kernel's.
LEMMA CreateOK ==
  ASSUME IInv, vmm_create_directory,
         \A s \in Slots : s >= kernel_pdes => pde[KernelDir][s] = NoPage
  PROVE  IInv'
<1> USE DEF vmm_create_directory
<1> DEFINE n == Alloc
           o(e) == IF e = n THEN KernelDir ELSE e
<1>1. /\ n \in free /\ n \in Pages /\ n \notin AllDirs /\ n \notin held
      /\ n # KernelDir /\ n >= KernelPages
  <2>1. n \in free
    BY AllocFacts
  <2> QED
    BY <2>1, EntryFacts DEF IInv, TypeOK, TablesLive, PagesAccounted, Apart
<1>2. /\ free' = free \ {n} /\ dirs' = dirs \cup {n} /\ AllDirs' = AllDirs \cup {n}
      /\ UNCHANGED <<held, pte, pte_user, current_directory, tlb>>
      /\ pde' = [pde EXCEPT ![n] = pde[KernelDir]]
      /\ \A s \in Slots : s >= kernel_pdes => pde[KernelDir][s] = NoPage
  BY DEF CopiedEntries, AllDirs
<1>3. \A e \in Pages, s \in Slots : <<e, s>> \in pde_user' <=> <<o(e), s>> \in pde_user
  OBVIOUS
<1> HIDE DEF n
<1>4. \A e \in AllDirs' : o(e) \in AllDirs /\ pde'[e] = pde[o(e)] /\ e \in Pages
  BY <1>1, <1>2, EntryFacts DEF IInv, TypeOK
<1>5. pde'[KernelDir] = pde[KernelDir] /\ KernelDir \in AllDirs'
  BY <1>1, <1>2, EntryFacts DEF IInv, TypeOK
<1>6. \A e \in AllDirs', s \in Slots, i \in Indices :
        Translation(e, s, i)' = Translation(o(e), s, i)
  BY <1>2, <1>4 DEF Translation
<1>7. Tables' = Tables
  <2>1. ASSUME NEW p PROVE p \in Tables' => p \in Tables
    <3>1. p \in Tables' => p # NoPage /\ \E e \in AllDirs', s \in Slots : p = pde'[e][s]
      BY DEF Tables, TablesOf
    <3> QED
      BY <1>4, <3>1, TablesDef
  <2>2. ASSUME NEW p PROVE p \in Tables => p \in Tables'
    <3>1. ASSUME NEW e \in AllDirs, NEW s \in Slots, p = pde[e][s], p # NoPage
          PROVE  p \in Tables'
      <4>1. e \in AllDirs' /\ p = pde'[e][s]
        BY <1>1, <1>2, <1>4, <3>1
      <4> QED
        BY <3>1, <4>1 DEF Tables, TablesOf
    <3> QED
      BY <3>1, TablesDef
  <2> QED
    BY <2>1, <2>2
<1>8. TypeOK'
  <2>1. pde' \in [Pages -> [Slots -> Pages \cup {NoPage}]]
    BY <1>1, <1>2, EntryFacts DEF IInv, TypeOK
  <2>2. ASSUME NEW x \in pde_user' PROVE x \in Pages \X Slots
    <3>1. x \in pde_user \/ \E s \in Slots : x = <<n, s>>
      BY DEF n
    <3>2. pde_user \subseteq Pages \X Slots
      BY DEF IInv, TypeOK
    <3> QED
      BY <1>1, <3>1, <3>2
  <2> QED
    BY <1>1, <1>2, <2>1, <2>2 DEF IInv, TypeOK
<1>9. TablesOwned'
  <2> SUFFICES ASSUME NEW d \in AllDirs', NEW e \in AllDirs', NEW s \in Slots, NEW z \in Slots,
                      pde'[d][s] = pde'[e][z], pde'[d][s] # NoPage
               PROVE  s = z /\ (d = e \/ pde'[KernelDir][s] = pde'[d][s])
    BY DEF TablesOwned
  <2>1. s = z /\ (o(d) = o(e) \/ pde[KernelDir][s] = pde[o(d)][s])
    BY <1>4 DEF IInv, TablesOwned
  <2>2. o(d) = o(e) => d = e \/ o(d) = KernelDir
    OBVIOUS
  <2> QED
    BY <1>4, <1>5, <2>1, <2>2
<1>10. TablesLive'
  BY <1>1, <1>2, <1>7 DEF IInv, TablesLive
<1>11. PagesAccounted'
  BY <1>1, <1>2, <1>7 DEF IInv, PagesAccounted
<1>12. KernelMapped'
  BY <1>4, <1>6 DEF IInv, KernelMapped
<1>13. SharedNeverUser'
  <2> SUFFICES ASSUME NEW d \in AllDirs', NEW s \in Slots,
                      pde'[d][s] # NoPage, pde'[d][s] = pde'[KernelDir][s]
               PROVE  <<d, s>> \notin pde_user'
                      /\ \A i \in Indices : <<pde'[d][s], i>> \notin pte_user'
    BY DEF SharedNeverUser
  <2>1. pde[o(d)][s] # NoPage /\ pde[o(d)][s] = pde[KernelDir][s]
    BY <1>4, <1>5
  <2>2. <<o(d), s>> \notin pde_user /\ \A i \in Indices : <<pde[o(d)][s], i>> \notin pte_user
    BY <1>4, <2>1 DEF IInv, SharedNeverUser
  <2> QED
    BY <1>2, <1>3, <1>4, <2>2
<1>14. TlbCoherent'
  <2>1. current_directory \in AllDirs /\ current_directory # n
    BY <1>1 DEF IInv, TypeOK
  <2>2. \A e \in tlb : e[1] \in Slots /\ e[2] \in Indices
    BY DEF IInv, TypeOK
  <2> QED
    BY <1>2, <1>6, <2>1, <2>2 DEF IInv, TlbCoherent
<1>15. Apart'
  <2>1. \A e \in AllDirs', s \in Slots : pde'[e][s] \notin AllDirs'
    BY <1>1, <1>2, <1>4, EntryFacts
  <2>2. \A e \in AllDirs', s \in Slots : pde'[e][s] # NoPage => pde'[e][s] >= KernelPages
    BY <1>4 DEF IInv, Apart
  <2>3. \A p \in free' \cup held' \cup dirs' : p >= KernelPages
    BY <1>1, <1>2 DEF IInv, Apart
  <2> QED
    BY <2>1, <2>2, <2>3 DEF Apart
<1>16. SharedBelow'
  <2> SUFFICES ASSUME NEW d \in AllDirs', NEW s \in Slots
               PROVE  /\ s < num_page_tables =>
                           pde'[d][s] = pde'[KernelDir][s] /\ pde'[d][s] # NoPage
                      /\ (d # KernelDir /\ pde'[d][s] # NoPage
                           /\ pde'[d][s] = pde'[KernelDir][s]) => s < kernel_pdes
    BY DEF SharedBelow
  <2>1. s >= kernel_pdes \/ s < kernel_pdes
    BY SlotFacts DEF Slots
  <2> QED
    BY <1>2, <1>4, <1>5, <2>1 DEF IInv, SharedBelow
<1>17. MappedHeld'
  BY <1>2, <1>4, <1>6 DEF IInv, MappedHeld
<1> QED
  BY <1>8, <1>9, <1>10, <1>11, <1>12, <1>13, <1>14, <1>15, <1>16, <1>17 DEF IInv

\* What is freed with a directory is no table of another one: a table that
\* is shared is at the same slot of the kernel's directory, below
\* kernel_pdes, where the test finds it.
LEMMA FreedFacts ==
  ASSUME IInv, NEW d \in dirs
  PROVE  /\ d # KernelDir /\ d \in AllDirs /\ d \in FreedWith(d)
         /\ \A p \in FreedWith(d) : /\ p \in KernelPages .. MemPages - 1 /\ p \in Pages
                                    /\ p \notin held /\ p \notin AllDirs \ {d}
         /\ \A p \in FreedWith(d), e \in AllDirs \ {d}, z \in Slots : p # pde[e][z]
         /\ \A s \in Slots : pde[d][s] # NoPage =>
              pde[d][s] \in FreedWith(d) \/ \E z \in Slots : pde[d][s] = pde[KernelDir][z]
<1>2. d # KernelDir /\ d \in AllDirs /\ KernelDir \in AllDirs /\ d \in FreedWith(d)
  BY EntryFacts DEF AllDirs, FreedWith
<1>3. \A p \in FreedWith(d) : \/ p = d
                              \/ /\ p # NoPage /\ p \notin KernelTables
                                 /\ \E s \in Slots : p = pde[d][s]
  BY DEF FreedWith, TablesOf
<1>4. ASSUME NEW p \in FreedWith(d)
      PROVE  p \in KernelPages .. MemPages - 1 /\ p \in Pages /\ p \notin held /\ p \notin AllDirs \ {d}
  <2>1. CASE p = d
    BY <1>2, <2>1, EntryFacts DEF IInv, Apart, Pages
  <2>2. CASE p # d
    BY <1>2, <1>3, <2>2, EntryFacts DEF IInv, Apart, Pages
  <2> QED
    BY <2>1, <2>2
<1>5. ASSUME NEW p \in FreedWith(d), NEW e \in AllDirs \ {d}, NEW z \in Slots, p = pde[e][z]
      PROVE  FALSE
  <2>1. p # d /\ p # NoPage
    BY <1>2, <1>4, <1>5, EntryFacts
  <2>2. PICK s \in Slots : p = pde[d][s] /\ p \notin KernelTables
    BY <1>3, <2>1
  <2>3. pde[KernelDir][s] = p
    <3>1. pde[d][s] = pde[e][z] /\ pde[d][s] # NoPage /\ e \in AllDirs /\ e # d
      BY <1>5, <2>1, <2>2
    <3>2. d = e \/ pde[KernelDir][s] = pde[d][s]
      BY <1>2, <3>1 DEF IInv, TablesOwned
    <3> QED
      BY <2>2, <3>1, <3>2
  <2>4. s < kernel_pdes
    BY <1>2, <2>1, <2>2, <2>3 DEF IInv, SharedBelow
  <2> QED
    BY <2>1, <2>2, <2>3, <2>4 DEF KernelTables
<1>6. ASSUME NEW s \in Slots, pde[d][s] # NoPage
      PROVE  pde[d][s] \in FreedWith(d) \/ \E z \in Slots : pde[d][s] = pde[KernelDir][z]
  BY <1>6 DEF FreedWith, TablesOf, KernelTables
<1> QED
  BY <1>2, <1>4, <1>5, <1>6

LEMMA DestroyOK == ASSUME IInv, Destroy PROVE IInv'
<1> USE DEF Destroy, vmm_destroy_directory
<1>1. PICK d \in dirs : vmm_destroy_directory(d)
  OBVIOUS
<1>2. /\ d # current_directory /\ d # KernelDir /\ d \in AllDirs
      /\ free' = free \cup FreedWith(d) /\ dirs' = dirs \ {d}
      /\ AllDirs' = AllDirs \ {d}
      /\ UNCHANGED <<held, pde, pde_user, pte, pte_user, current_directory, tlb>>
  BY <1>1, EntryFacts DEF AllDirs
<1>4. \A p \in FreedWith(d) : p \in Pages /\ p \notin held /\ p \notin AllDirs'
                              /\ p \in KernelPages .. MemPages - 1
  BY <1>2, FreedFacts
<1>5. \A p \in FreedWith(d) : p \notin Tables'
  BY <1>2, FreedFacts DEF Tables, TablesOf
<1>6. \A p \in Tables : p \in Tables' \/ p \in FreedWith(d)
  <2> SUFFICES ASSUME NEW e \in AllDirs, NEW s \in Slots, pde[e][s] # NoPage
               PROVE  pde[e][s] \in Tables' \/ pde[e][s] \in FreedWith(d)
    BY TablesDef
  <2>1. CASE e # d
    BY <1>2, <2>1 DEF Tables, TablesOf
  <2>2. CASE e = d
    <3>1. KernelDir \in AllDirs'
      BY <1>2, EntryFacts
    <3> QED
      BY <1>2, <2>2, <3>1, FreedFacts DEF Tables, TablesOf
  <2> QED
    BY <2>1, <2>2
<1>7. \A p \in Tables' : p \in Tables
  BY <1>2 DEF Tables, TablesOf
<1>8. \A e, s, i : Translation(e, s, i)' = Translation(e, s, i)
  BY <1>2 DEF Translation
<1>9. TypeOK'
  BY <1>2, <1>4 DEF IInv, TypeOK
<1>10. TablesOwned' /\ SharedNeverUser' /\ SharedBelow'
  BY <1>2 DEF IInv, TablesOwned, SharedNeverUser, SharedBelow
<1>11. TablesLive'
  BY <1>2, <1>4, <1>5, <1>7 DEF IInv, TablesLive
<1>12. PagesAccounted'
  <2>1. d \in FreedWith(d)
    BY DEF FreedWith
  <2> QED
    BY <1>2, <1>4, <1>6, <2>1 DEF IInv, PagesAccounted
<1>13. KernelMapped' /\ TlbCoherent' /\ MappedHeld'
  BY <1>2, <1>8 DEF IInv, KernelMapped, TlbCoherent, MappedHeld
<1>14. Apart'
  BY <1>2, <1>4 DEF IInv, Apart
<1> QED
  BY <1>9, <1>10, <1>11, <1>12, <1>13, <1>14 DEF IInv

\* A new table, for an empty slot above the identity mapping.
LEMMA MapFreshOK ==
  ASSUME IInv, NEW d \in AllDirs, NEW s \in Slots, NEW i \in Indices, NEW p \in held,
         NEW user \in BOOLEAN, d = KernelDir => ~user, MapFresh(d, s, i, p, user)
  PROVE  IInv'
<1> USE DEF MapFresh
<1> DEFINE t == Alloc
<1>1. /\ t \in free /\ t \in Pages /\ t \notin AllDirs /\ t \notin held
      /\ t >= KernelPages /\ t # NoPage
      /\ \A e \in AllDirs, z \in Slots : pde[e][z] # t
  <2>1. t \in free
    BY AllocFacts
  <2> QED
    BY <2>1, EntryFacts DEF IInv, TypeOK, PagesAccounted, Apart
<1>2. /\ free' = free \ {t} /\ AllDirs' = AllDirs
      /\ UNCHANGED <<held, dirs, current_directory>>
      /\ pde[d][s] = NoPage /\ d \in Pages /\ p \in Pages
      /\ pde' = [pde EXCEPT ![d][s] = t]
      /\ pte' = [pte EXCEPT ![t] = [k \in Indices |-> IF k = i THEN p ELSE NoPage]]
      /\ tlb' \subseteq tlb
  BY EntryFacts DEF AllDirs, invlpg, IInv, TypeOK
<1>3. /\ pde_user' = (pde_user \ {<<d, s>>}) \cup UserBit(user, <<d, s>>)
      /\ pte_user' = {e \in pte_user : e[1] # t} \cup UserBit(user, <<t, i>>)
  OBVIOUS
<1> HIDE DEF t, MapFresh
<1>4. /\ pde'[d][s] = t
      /\ \A e \in AllDirs, z \in Slots : (e # d \/ z # s) => pde'[e][z] = pde[e][z]
  BY <1>2, EntryFacts DEF IInv, TypeOK
<1>5. /\ \A k \in Indices : pte'[t][k] = IF k = i THEN p ELSE NoPage
      /\ \A u \in Pages : u # t => pte'[u] = pte[u]
  BY <1>1, <1>2 DEF IInv, TypeOK
<1>6. /\ \A k \in Indices : Translation(d, s, k)' = IF k = i THEN p ELSE NoPage
      /\ \A e \in AllDirs, z \in Slots, k \in Indices :
           (e # d \/ z # s) => Translation(e, z, k)' = Translation(e, z, k)
  BY <1>1, <1>4, <1>5, EntryFacts DEF Translation
<1>7. s >= num_page_tables
  BY <1>2, SlotFacts DEF IInv, SharedBelow, Slots
<1>8. \A q : q \in Tables' <=> q \in Tables \/ q = t
  <2>1. \A q : q \in Tables' <=>
          q # NoPage /\ \E e \in AllDirs, z \in Slots : q = pde'[e][z]
    BY <1>2 DEF Tables, TablesOf
  <2> QED
    BY <1>1, <1>2, <1>4, <2>1, TablesDef
<1>9. TypeOK'
  <2>1. pde' \in [Pages -> [Slots -> Pages \cup {NoPage}]]
    BY <1>1, <1>2 DEF IInv, TypeOK
  <2>2. pte' \in [Pages -> [Indices -> Pages \cup {NoPage}]]
    BY <1>1, <1>2 DEF IInv, TypeOK
  <2>3. pde_user' \subseteq Pages \X Slots /\ pte_user' \subseteq Pages \X Indices
    BY <1>1, <1>2, <1>3 DEF IInv, TypeOK, UserBit
  <2> QED
    BY <1>2, <2>1, <2>2, <2>3 DEF IInv, TypeOK
<1>10. TablesOwned'
  BY <1>1, <1>2, <1>4 DEF IInv, TablesOwned
<1>11. TablesLive' /\ PagesAccounted'
  BY <1>1, <1>2, <1>8 DEF IInv, TablesLive, PagesAccounted
<1>12. KernelMapped'
  BY <1>2, <1>6, <1>7, SlotFacts DEF IInv, KernelMapped, Slots
<1>13. SharedNeverUser'
  <2> SUFFICES ASSUME NEW e \in AllDirs, NEW z \in Slots,
                      pde'[e][z] # NoPage, pde'[e][z] = pde'[KernelDir][z]
               PROVE  <<e, z>> \notin pde_user'
                      /\ \A k \in Indices : <<pde'[e][z], k>> \notin pte_user'
    BY <1>2 DEF SharedNeverUser
  <2>1. CASE d = KernelDir /\ z = s
    <3>1. e = KernelDir /\ pde'[e][z] = t
      BY <1>1, <1>4, <2>1
    <3> QED
      BY <1>3, <2>1, <3>1 DEF UserBit
  <2>2. CASE d # KernelDir \/ z # s
    <3>1. (e # d \/ z # s) /\ pde'[KernelDir][z] = pde[KernelDir][z]
      BY <1>1, <1>4, <2>2, EntryFacts
    <3>2. pde'[e][z] = pde[e][z] /\ pde[e][z] # t
      BY <1>1, <1>4, <3>1
    <3>3. <<e, z>> \notin pde_user /\ \A k \in Indices : <<pde[e][z], k>> \notin pte_user
      BY <3>1, <3>2 DEF IInv, SharedNeverUser
    <3> QED
      BY <1>3, <3>1, <3>2, <3>3 DEF UserBit
  <2> QED
    BY <2>1, <2>2
<1>14. TlbCoherent'
  <2> SUFFICES ASSUME NEW e \in tlb
               PROVE  Translation(current_directory, e[1], e[2])' = e[3]
    BY <1>2 DEF TlbCoherent
  <2>1. e[1] \in Slots /\ e[2] \in Indices /\ e[3] \in Pages /\ current_directory \in AllDirs
    BY DEF IInv, TypeOK
  <2>2. Translation(current_directory, e[1], e[2]) = e[3]
    BY DEF IInv, TlbCoherent
  <2>3. current_directory # d \/ e[1] # s
    BY <1>2, <2>1, <2>2, EntryFacts DEF Translation
  <2> QED
    BY <1>2, <1>6, <2>1, <2>2, <2>3
<1>15. Apart'
  BY <1>1, <1>2, <1>4 DEF IInv, Apart
<1>16. SharedBelow'
  <2>1. ~(s < num_page_tables)
    BY <1>7, SlotFacts DEF Slots
  <2> QED
    BY <1>1, <1>2, <1>4, <2>1, EntryFacts DEF IInv, SharedBelow
<1>17. MappedHeld'
  BY <1>2, <1>6 DEF IInv, MappedHeld
<1> QED
  BY <1>9, <1>10, <1>11, <1>12, <1>13, <1>14, <1>15, <1>16, <1>17 DEF IInv

\* One entry of one table above the identity mapping is set or cleared.
LEMMA SetEntry ==
  ASSUME IInv, NEW d \in AllDirs, NEW s \in Slots, NEW i \in Indices,
         NEW p \in held \cup {NoPage},
         s >= num_page_tables, pde[d][s] # NoPage,
         pte' = [pte EXCEPT ![pde[d][s]][i] = p],
         tlb' = invlpg(s, i),
         UNCHANGED <<free, held, dirs, pde, current_directory>>,
         pde_user' \subseteq Pages \X Slots, pte_user' \subseteq Pages \X Indices,
         SharedNeverUser'
  PROVE  IInv'
<1> DEFINE t == pde[d][s]
<1>1. /\ AllDirs' = AllDirs /\ Tables' = Tables
      /\ t \in Pages /\ t # NoPage /\ p \in Pages \cup {NoPage}
  BY EntryFacts DEF AllDirs, Tables, TablesOf, IInv, TypeOK
<1>2. \A e \in AllDirs, z \in Slots : pde[e][z] = t => z = s
  BY <1>1 DEF IInv, TablesOwned
<1>3. \A e \in AllDirs, z \in Slots, k \in Indices :
        /\ Translation(e, z, k)' \in {Translation(e, z, k), p}
        /\ (z # s \/ k # i) => Translation(e, z, k)' = Translation(e, z, k)
  <2> TAKE e \in AllDirs, z \in Slots, k \in Indices
  <2>1. pte \in [Pages -> [Indices -> Pages \cup {NoPage}]]
    BY DEF IInv, TypeOK
  <2>2. CASE pde[e][z] = t
    <3>1. z = s /\ pte'[t][k] = IF k = i THEN p ELSE pte[t][k]
      BY <1>1, <1>2, <2>1, <2>2
    <3> QED
      BY <1>1, <2>2, <3>1 DEF Translation
  <2>3. CASE pde[e][z] # t
    <3>1. pde[e][z] \in Pages \cup {NoPage}
      BY EntryFacts
    <3>2. pde[e][z] # NoPage => pte'[pde[e][z]] = pte[pde[e][z]]
      BY <1>1, <2>1, <2>3, <3>1
    <3> QED
      BY <3>2 DEF Translation
  <2> QED
    BY <2>2, <2>3
<1> HIDE DEF t
<1>4. TypeOK'
  <2>1. pte' \in [Pages -> [Indices -> Pages \cup {NoPage}]]
    BY <1>1 DEF IInv, TypeOK, t
  <2> QED
    BY <1>1, <2>1 DEF IInv, TypeOK, invlpg
<1>5. TablesOwned' /\ TablesLive' /\ PagesAccounted' /\ Apart' /\ SharedBelow'
  BY <1>1 DEF IInv, TablesOwned, TablesLive, PagesAccounted, Apart, SharedBelow
<1>6. KernelMapped'
  <2>1. \A z \in Slots : z < num_page_tables => z # s
    BY SlotFacts DEF Slots
  <2> QED
    BY <1>1, <1>3, <2>1, SlotFacts DEF IInv, KernelMapped
<1>7. TlbCoherent'
  <2> SUFFICES ASSUME NEW e \in tlb, e[1] # s \/ e[2] # i
               PROVE  Translation(current_directory, e[1], e[2])' = e[3]
    BY DEF TlbCoherent, invlpg
  <2>1. e[1] \in Slots /\ e[2] \in Indices /\ current_directory \in AllDirs
    BY DEF IInv, TypeOK
  <2> QED
    BY <1>3, <2>1 DEF IInv, TlbCoherent
<1>8. MappedHeld'
  BY <1>1, <1>3 DEF IInv, MappedHeld
<1> QED
  BY <1>4, <1>5, <1>6, <1>7, <1>8 DEF IInv

LEMMA UnmapOK == ASSUME IInv, Unmap PROVE IInv'
<1> USE DEF Unmap, vmm_unmap_page
<1>1. PICK d \in AllDirs, s \in Slots, i \in Indices :
        s >= num_page_tables /\ vmm_unmap_page(d, s, i)
  OBVIOUS
<1>2. pde_user' \subseteq Pages \X Slots /\ pte_user' \subseteq Pages \X Indices
  BY <1>1 DEF IInv, TypeOK
<1>3. SharedNeverUser'
  BY <1>1 DEF IInv, SharedNeverUser, AllDirs
<1> QED
  BY <1>1, <1>2, <1>3, SetEntry

\* A user mapping that is not refused goes through a table that no other
\* directory has.
LEMMA MapExistingOK ==
  ASSUME IInv, NEW d \in AllDirs, NEW s \in Slots, NEW i \in Indices, NEW p \in held,
         NEW user \in BOOLEAN, d = KernelDir => ~user /\ s >= num_page_tables,
         d # KernelDir => user, MapExisting(d, s, i, p, user)
  PROVE  IInv'
<1> USE DEF MapExisting
<1> DEFINE t == pde[d][s]
<1>1. t \in Pages /\ t # NoPage /\ d \in Pages /\ AllDirs' = AllDirs
  BY EntryFacts DEF AllDirs
<1>2. user => t # pde[KernelDir][s]
  <2> SUFFICES ASSUME user, t = pde[KernelDir][s] PROVE FALSE
    OBVIOUS
  <2>1. s < kernel_pdes
    BY <1>1 DEF IInv, SharedBelow
  <2>2. t \in KernelTables
    BY <1>1, <2>1 DEF KernelTables
  <2> QED
    BY <2>2 DEF Refused
<1>3. s >= num_page_tables
  BY <1>2, SlotFacts DEF IInv, SharedBelow, Slots
<1>4. user => \A e \in AllDirs, z \in Slots :
                (pde[e][z] = pde[KernelDir][z] /\ pde[e][z] # NoPage) =>
                  pde[e][z] # t /\ <<e, z>> # <<d, s>>
  BY <1>1, <1>2, EntryFacts DEF IInv, TablesOwned
<1>5. /\ pde_user' = pde_user \cup UserBit(user, <<d, s>>)
      /\ pte_user' \subseteq pte_user \cup UserBit(user, <<t, i>>)
      /\ UNCHANGED <<free, held, dirs, pde, current_directory>>
  BY DEF UserBit
<1>6. pde_user' \subseteq Pages \X Slots /\ pte_user' \subseteq Pages \X Indices
  BY <1>1, <1>5 DEF IInv, TypeOK, UserBit
<1>7. SharedNeverUser'
  <2> SUFFICES ASSUME NEW e \in AllDirs, NEW z \in Slots,
                      pde[e][z] # NoPage, pde[e][z] = pde[KernelDir][z]
               PROVE  <<e, z>> \notin pde_user'
                      /\ \A k \in Indices : <<pde[e][z], k>> \notin pte_user'
    BY <1>1, <1>5 DEF SharedNeverUser
  <2>1. <<e, z>> \notin pde_user /\ \A k \in Indices : <<pde[e][z], k>> \notin pte_user
    BY DEF IInv, SharedNeverUser
  <2> QED
    BY <1>4, <1>5, <2>1 DEF UserBit
<1>8. CASE pte[t][i] = NoPage
  <2>1. pte' = [pte EXCEPT ![pde[d][s]][i] = p] /\ tlb' = invlpg(s, i)
    BY <1>8
  <2> QED
    BY <1>1, <1>3, <1>5, <1>6, <1>7, <2>1, SetEntry
<1>9. CASE pte[t][i] # NoPage
  <2>1. UNCHANGED <<pte, tlb>>
    BY <1>9
  <2>2. TypeOK'
    BY <1>1, <1>5, <1>6, <2>1 DEF IInv, TypeOK
  <2>3. \A e, z, k : Translation(e, z, k)' = Translation(e, z, k)
    BY <1>5, <2>1 DEF Translation
  <2>4. Tables' = Tables
    BY <1>1, <1>5 DEF Tables, TablesOf
  <2>5. TablesOwned' /\ TablesLive' /\ PagesAccounted' /\ Apart' /\ SharedBelow'
    BY <1>1, <1>5, <2>4 DEF IInv, TablesOwned, TablesLive, PagesAccounted, Apart, SharedBelow
  <2>6. KernelMapped' /\ TlbCoherent' /\ MappedHeld'
    BY <1>1, <1>5, <2>1, <2>3 DEF IInv, KernelMapped, TlbCoherent, MappedHeld
  <2> QED
    BY <1>7, <2>2, <2>5, <2>6 DEF IInv
<1> QED
  BY <1>8, <1>9

LEMMA MapOK == ASSUME IInv, UserMap \/ WindowMap PROVE IInv'
<1>1. CASE UserMap
  <2>1. PICK d \in dirs, s \in Slots, i \in Indices, p \in held :
          vmm_map_page(d, s, i, p, TRUE)
    BY <1>1 DEF UserMap
  <2>2. d \in AllDirs /\ d # KernelDir
    BY EntryFacts DEF AllDirs
  <2> QED
    BY <2>1, <2>2, MapFreshOK, MapExistingOK DEF vmm_map_page
<1>2. CASE WindowMap
  <2>1. PICK s \in Slots, i \in Indices, p \in held :
          s >= num_page_tables /\ vmm_map_page(KernelDir, s, i, p, FALSE)
    BY <1>2 DEF WindowMap
  <2>2. KernelDir \in AllDirs
    BY EntryFacts
  <2> QED
    BY <2>1, <2>2, MapFreshOK, MapExistingOK DEF vmm_map_page
<1> QED
  BY <1>1, <1>2

LEMMA StutterOK == ASSUME IInv, UNCHANGED vars PROVE IInv'
<1> USE DEF vars
<1>1. AllDirs' = AllDirs
  BY DEF AllDirs
<1>2. TypeOK' /\ TlbCoherent' /\ MappedHeld'
  BY <1>1 DEF IInv, TypeOK, TlbCoherent, MappedHeld, Translation
<1>3. free' \cap held' = {}
  BY DEF IInv, PagesAccounted
<1> QED
  BY <1>2, <1>3, PlainStep

-----------------------------------------------------------------------------
(***************************************************************************)
(* The theorems                                                            *)
(***************************************************************************)

\* vmm.c keeps the inductive invariant for every memory size, table size
\* and sequence of calls, unless a directory is created late.
THEOREM Invariance == ASSUME ~ LateDirectories PROVE Spec => []IInv
<1>1. Init => IInv
  BY InitOK
<1>2. IInv /\ [Next]_vars => IInv'
  <2>1. IInv /\ vmm_create_directory => IInv'
    BY CreateOK DEF vmm_create_directory
  <2> QED
    BY <2>1, DestroyOK, MapOK, UnmapOK, SwitchToOK, FillOK, CallerAllocOK,
       ReleaseOK, StutterOK DEF Next
<1> QED
  BY <1>1, <1>2, PTL DEF Spec

\* Every variable keeps its type.
THEOREM TypeCorrect == ASSUME ~ LateDirectories PROVE Spec => []TypeOK
<1>1. IInv => TypeOK
  BY DEF IInv
<1> QED
  BY <1>1, Invariance, PTL

\* A table has one place in one directory unless it is one of the kernel's.
THEOREM TablesHaveOneOwner == ASSUME ~ LateDirectories PROVE Spec => []TablesOwned
<1>1. IInv => TablesOwned
  BY DEF IInv
<1> QED
  BY <1>1, Invariance, PTL

\* vmm_destroy_directory frees no table that another directory uses.
THEOREM TablesStayLive == ASSUME ~ LateDirectories PROVE Spec => []TablesLive
<1>1. IInv => TablesLive
  BY DEF IInv
<1> QED
  BY <1>1, Invariance, PTL

\* The two together: page tables are shared soundly.
THEOREM TablesAlwaysSound == ASSUME ~ LateDirectories PROVE Spec => []TablesSound
<1>1. TablesOwned /\ TablesLive => TablesSound
  BY DEF TablesSound
<1> QED
  BY <1>1, TablesHaveOneOwner, TablesStayLive, PTL

\* vmm_destroy_directory leaves no table behind that no directory uses.
THEOREM NoPageLost == ASSUME ~ LateDirectories PROVE Spec => []PagesAccounted
<1>1. IInv => PagesAccounted
  BY DEF IInv
<1> QED
  BY <1>1, Invariance, PTL

\* Under every directory the kernel finds all memory at its own address.
THEOREM KernelAlwaysMapped == ASSUME ~ LateDirectories PROVE Spec => []KernelMapped
<1>1. IInv => KernelMapped
  BY DEF IInv
<1> QED
  BY <1>1, Invariance, PTL

\* Shared tables stay closed to ring 3.
THEOREM SharedTablesClosed == ASSUME ~ LateDirectories PROVE Spec => []SharedNeverUser
<1>1. IInv => SharedNeverUser
  BY DEF IInv
<1> QED
  BY <1>1, Invariance, PTL

\* Ring 3 reaches only pages that were allocated for mappings.
THEOREM UsersIsolated == ASSUME ~ LateDirectories PROVE Spec => []UserIsolation
<1>1. IInv => UserIsolation
  <2> SUFFICES ASSUME IInv, NEW d \in dirs, NEW s \in Slots, NEW i \in Indices,
                      <<d, s>> \in pde_user, Translation(d, s, i) # NoPage
               PROVE  Translation(d, s, i) \in held
    BY DEF UserIsolation
  <2>1. d \in AllDirs /\ pde[d][s] # NoPage
    BY DEF AllDirs, Translation
  <2>2. s >= num_page_tables
    <3>1. ~(s < num_page_tables)
      BY <2>1 DEF IInv, SharedBelow, SharedNeverUser
    <3> QED
      BY <3>1, SlotFacts DEF Slots
  <2> QED
    BY <2>1, <2>2 DEF IInv, MappedHeld
<1> QED
  BY <1>1, Invariance, PTL

\* The two together: ring 3 is confined.
THEOREM RingThreeAlwaysConfined ==
  ASSUME ~ LateDirectories PROVE Spec => []RingThreeConfined
<1>1. SharedNeverUser /\ UserIsolation => RingThreeConfined
  BY DEF RingThreeConfined
<1> QED
  BY <1>1, SharedTablesClosed, UsersIsolated, PTL

\* The processor's cached translations are those of the current directory.
THEOREM CacheCoherent == ASSUME ~ LateDirectories PROVE Spec => []TlbCoherent
<1>1. IInv => TlbCoherent
  BY DEF IInv
<1> QED
  BY <1>1, Invariance, PTL

-----------------------------------------------------------------------------
(***************************************************************************)
(* The loader                                                              *)
(***************************************************************************)

\* Page n of the program: its code and bss, then its stack.
Image(n) == IF n < Len(prog) THEN prog[n + 1] ELSE stack[n - Len(prog) + 1]
ImagePages == 0 .. Len(prog) + Len(stack) - 1

\* How far the loader is.
Early == {"drivers", "find", "code", "task", "dir"}
Building == {"map_code", "extra", "map_extra", "window", "load", "unwindow", "stack",
             "map_stack", "launch", "running", "zombie", "fault", "halted"}

\* How many pages are mapped from code_virt on.
MappedCount ==
  CASE pc = "extra" -> 1
    [] pc = "map_extra" -> pi
    [] pc \in {"window", "load", "unwindow", "stack", "fault", "halted"} -> code_pages
    [] pc = "map_stack" -> code_pages + pi
    [] pc \in {"launch", "running", "zombie"} -> code_pages + 2
    [] OTHER -> 0

\* What the local variables hold at each place of load_and_run_shell.
Stages ==
  /\ pc = "drivers" => drivers = {}
  /\ pc \in {"drivers", "find", "code"} => prog = <<>> /\ task = {}
  /\ pc \in {"task", "dir", "map_code"} => Len(prog) = 1
  /\ pc = "extra" => Len(prog) \in 1 .. code_pages
  /\ pc \in Building \ {"map_code", "extra"} => Len(prog) = code_pages
  /\ pc \in Early \cup {"map_code", "extra", "map_extra", "window", "load", "unwindow"} =>
       stack = <<>>
  /\ pc \in {"map_stack", "launch", "running", "zombie"} => Len(stack) = 2
  /\ pc \in Early => /\ dir = NoPage /\ dirs = {} /\ pi = 0
                     /\ \A s \in Slots : s >= num_page_tables => pde[KernelDir][s] = NoPage
  /\ pc \in Building => dir \in Pages /\ dirs = {dir}
  /\ pc = "map_extra" => pi \in 1 .. code_pages
  /\ pc = "window" => pi \in 0 .. code_pages
  /\ pc = "map_stack" => pi \in 0 .. 1
  /\ pc \in Early \cup {"map_code", "extra", "map_extra", "window", "load"} => ~ loaded
  /\ pc \in {"stack", "map_stack"} => loaded
  /\ pc \in Building \cup {"code", "task", "dir"} => file_pages <= MAX_FILE_PAGES
  /\ current_directory = IF pc = "running" THEN dir ELSE KernelDir
  /\ pc \in {"running", "zombie"} => user_virt_pages = {CodeAddr(n) : n \in 0 .. code_pages + 1}

\* A page that is held has one user, and one place in it.
OneUse ==
  /\ held = drivers \cup task \cup {Image(n) : n \in ImagePages}
  /\ \A m, n \in ImagePages : Image(m) = Image(n) => m = n
  /\ \A n \in ImagePages : Image(n) \notin drivers \cup task
  /\ drivers \cap task = {}
HeldOnce == pc \in Early \cup Building => OneUse

\* Above the identity mapping the kernel's directory has the window, if anything.
WindowOnly ==
  \A s \in Slots, i \in Indices :
    (s >= num_page_tables /\ Translation(KernelDir, s, i) # NoPage) =>
      /\ pc \in {"window", "load", "unwindow", "fault"}
      /\ \E n \in 0 .. code_pages - 1 :
           /\ <<s, i>> = LoadAddr(n)
           /\ Translation(KernelDir, s, i) = prog[n + 1]
           /\ pc = "window" => n < pi

\* And the program's directory has the program's first k pages in order.
ProgramAt(k) ==
  /\ \A n \in 0 .. k - 1 : Translation(dir, CodeAddr(n)[1], CodeAddr(n)[2]) = Image(n)
  /\ \A s \in Slots, i \in Indices :
       s >= num_page_tables =>
         /\ Translation(dir, s, i) # NoPage => \E n \in 0 .. k - 1 : <<s, i>> = CodeAddr(n)
         /\ <<pde[dir][s], i>> \in pte_user => Translation(dir, s, i) # NoPage
ProgramOnly == pc \in Building => ProgramAt(MappedCount)

LInv ==
  /\ IInv /\ LoaderTypeOK /\ Stages /\ HeldOnce /\ WindowOnly /\ ProgramOnly
  /\ FailureFrees /\ ExitReturnsAll

\* Different pages have different addresses.
LEMMA Quotients ==
  ASSUME NEW m \in Nat, NEW n \in Nat
  PROVE  /\ m \div Entries \in Nat /\ m % Entries \in Indices
         /\ m <= n => m \div Entries <= n \div Entries
         /\ m \div Entries = n \div Entries /\ m % Entries = n % Entries => m = n
<1>1. /\ m \div Entries \in Nat /\ m % Entries \in 0 .. Entries - 1
      /\ n \div Entries \in Nat /\ n % Entries \in 0 .. Entries - 1
  OBVIOUS
<1>2. m = Entries * (m \div Entries) + (m % Entries) /\ n = Entries * (n \div Entries) + (n % Entries)
  OBVIOUS
<1>3. ASSUME m <= n, m \div Entries > n \div Entries PROVE FALSE
  <2>1. m \div Entries >= n \div Entries + 1
    BY <1>1, <1>3
  <2>2. Entries * (m \div Entries) >= Entries * (n \div Entries + 1)
    BY <1>1, <2>1
  <2> QED
    BY <1>1, <1>2, <1>3, <2>2
<1> QED
  BY <1>1, <1>2, <1>3 DEF Indices

LEMMA AddrFacts ==
  ASSUME NEW slot \in Nat, NEW last \in Nat, kernel_pdes <= slot, slot + (last \div Entries) < NSlots
  PROVE  /\ \A n \in 0 .. last : /\ Addr(slot, n) = <<slot + (n \div Entries), n % Entries>>
                                 /\ Addr(slot, n)[1] \in Slots /\ Addr(slot, n)[2] \in Indices
                                 /\ Addr(slot, n)[1] >= kernel_pdes
         /\ \A m, n \in 0 .. last : Addr(slot, m) = Addr(slot, n) => m = n
<1>1. ASSUME NEW n \in 0 .. last
      PROVE  /\ slot + (n \div Entries) \in Slots /\ n % Entries \in Indices
             /\ slot + (n \div Entries) >= kernel_pdes
  <2>1. n \in Nat /\ n <= last
    OBVIOUS
  <2>2. n \div Entries \in Nat /\ n % Entries \in Indices /\ n \div Entries <= last \div Entries
    BY <2>1, Quotients
  <2>3. last \div Entries \in Nat /\ kernel_pdes \in Nat
    BY Quotients, SlotFacts
  <2> QED
    BY <2>2, <2>3 DEF Slots
<1>2. ASSUME NEW m \in 0 .. last, NEW n \in 0 .. last, Addr(slot, m) = Addr(slot, n)
      PROVE  m = n
  <2>1. m \in Nat /\ n \in Nat
    OBVIOUS
  <2>2. slot + (m \div Entries) = slot + (n \div Entries) /\ m % Entries = n % Entries
    BY <1>2 DEF Addr
  <2>3. m \div Entries \in Nat /\ n \div Entries \in Nat
    BY <2>1, Quotients
  <2>4. m \div Entries = n \div Entries
    BY <2>2, <2>3
  <2> QED
    BY <2>1, <2>2, <2>4, Quotients
<1> QED
  BY <1>1, <1>2 DEF Addr

\* The addresses of the program and of the window.
LEMMA CodeAddrs ==
  ASSUME file_pages \in Nat, file_pages <= MAX_FILE_PAGES
  PROVE  /\ code_pages \in Nat \ {0} /\ code_pages + 2 <= USER_VIRT
         /\ \A n \in 0 .. code_pages + 1 : /\ CodeAddr(n) \in Slots \X Indices
                                            /\ CodeAddr(n) = <<CodeAddr(n)[1], CodeAddr(n)[2]>>
                                            /\ CodeAddr(n)[1] \in Slots /\ CodeAddr(n)[2] \in Indices
                                            /\ CodeAddr(n)[1] >= kernel_pdes
         /\ \A m, n \in 0 .. code_pages + 1 : CodeAddr(m) = CodeAddr(n) => m = n
         /\ \A n \in 0 .. code_pages - 1 : /\ LoadAddr(n) \in Slots \X Indices
                                            /\ LoadAddr(n) = <<LoadAddr(n)[1], LoadAddr(n)[2]>>
                                            /\ LoadAddr(n)[1] \in Slots /\ LoadAddr(n)[2] \in Indices
                                            /\ LoadAddr(n)[1] >= kernel_pdes
         /\ \A m, n \in 0 .. code_pages - 1 : LoadAddr(m) = LoadAddr(n) => m = n
<1> DEFINE last == MAX_FILE_PAGES + BSS_PAGES + 1
           end == MAX_FILE_PAGES + BSS_PAGES - 1
<1>1. /\ code_pages \in Nat \ {0} /\ code_pages + 2 <= USER_VIRT
      /\ last \in Nat /\ end \in Nat
      /\ code_pages + 1 <= last /\ code_pages - 1 <= end
  BY LoaderAssumption DEF code_pages
<1>2. CodeSlot \in Nat /\ kernel_pdes <= CodeSlot /\ CodeSlot + (last \div Entries) < NSlots
  BY LoaderAssumption
<1>3. LoadSlot \in Nat /\ kernel_pdes <= LoadSlot /\ LoadSlot + (end \div Entries) < NSlots
  BY LoaderAssumption
<1> HIDE DEF last, end
<1>4. /\ \A n \in 0 .. last : /\ Addr(CodeSlot, n) = <<CodeSlot + (n \div Entries), n % Entries>>
                              /\ Addr(CodeSlot, n)[1] \in Slots /\ Addr(CodeSlot, n)[2] \in Indices
                              /\ Addr(CodeSlot, n)[1] >= kernel_pdes
      /\ \A m, n \in 0 .. last : Addr(CodeSlot, m) = Addr(CodeSlot, n) => m = n
  BY <1>1, <1>2, AddrFacts
<1>5. /\ \A n \in 0 .. end : /\ Addr(LoadSlot, n) = <<LoadSlot + (n \div Entries), n % Entries>>
                             /\ Addr(LoadSlot, n)[1] \in Slots /\ Addr(LoadSlot, n)[2] \in Indices
                             /\ Addr(LoadSlot, n)[1] >= kernel_pdes
      /\ \A m, n \in 0 .. end : Addr(LoadSlot, m) = Addr(LoadSlot, n) => m = n
  BY <1>1, <1>3, AddrFacts
<1>6. (\A n \in 0 .. code_pages + 1 : n \in 0 .. last) /\ (\A n \in 0 .. code_pages - 1 : n \in 0 .. end)
  BY <1>1
<1>7. \A n \in 0 .. code_pages + 1 : /\ CodeAddr(n) = <<CodeAddr(n)[1], CodeAddr(n)[2]>>
                                     /\ CodeAddr(n)[1] \in Slots /\ CodeAddr(n)[2] \in Indices
                                     /\ CodeAddr(n)[1] >= kernel_pdes
  BY <1>4, <1>6 DEF CodeAddr
<1>8. \A n \in 0 .. code_pages - 1 : /\ LoadAddr(n) = <<LoadAddr(n)[1], LoadAddr(n)[2]>>
                                     /\ LoadAddr(n)[1] \in Slots /\ LoadAddr(n)[2] \in Indices
                                     /\ LoadAddr(n)[1] >= kernel_pdes
  BY <1>5, <1>6 DEF LoadAddr
<1>9. \A m, n \in 0 .. code_pages + 1 : CodeAddr(m) = CodeAddr(n) => m = n
  BY <1>4, <1>6 DEF CodeAddr
<1>10. \A m, n \in 0 .. code_pages - 1 : LoadAddr(m) = LoadAddr(n) => m = n
  BY <1>5, <1>6 DEF LoadAddr
<1>11. (\A n \in 0 .. code_pages + 1 : CodeAddr(n) \in Slots \X Indices) /\ (\A n \in 0 .. code_pages - 1 : LoadAddr(n) \in Slots \X Indices)
  BY <1>7, <1>8
<1> QED
  BY <1>1, <1>7, <1>8, <1>9, <1>10, <1>11

-----------------------------------------------------------------------------
(* What mapping and unmapping do to the translations. *)

\* A page is mapped above kernel_pdes where there was none: this translation changes
\* and no other, in this directory and in all the others.
LEMMA MapEffect ==
  ASSUME IInv, NEW d \in AllDirs, NEW s \in Slots, NEW i \in Indices, NEW p \in held,
         NEW user \in BOOLEAN, s >= kernel_pdes, Translation(d, s, i) = NoPage,
         vmm_map_page(d, s, i, p, user)
  PROVE  /\ UNCHANGED <<held, dirs, current_directory>>
         /\ \A e \in AllDirs, z \in Slots, k \in Indices :
              Translation(e, z, k)' = IF e = d /\ z = s /\ k = i THEN p ELSE Translation(e, z, k)
         /\ \A e \in AllDirs, z \in Slots, k \in Indices :
              <<pde'[e][z], k>> \in pte_user' =>
                <<pde[e][z], k>> \in pte_user \/ Translation(e, z, k)' # NoPage
         /\ \A z \in Slots : z < kernel_pdes => pde'[KernelDir][z] = pde[KernelDir][z]
<1>0. /\ pte \in [Pages -> [Indices -> Pages \cup {NoPage}]] /\ p \in Pages /\ p # NoPage
      /\ pde \in [Pages -> [Slots -> Pages \cup {NoPage}]] /\ d \in Pages /\ NoPage \notin Pages
      /\ AllDirs \subseteq Pages /\ KernelDir \in AllDirs
  BY EntryFacts DEF IInv, TypeOK
<1>1. CASE MapFresh(d, s, i, p, user)
  <2> DEFINE t == Alloc
  <2>1. t \in free /\ t \in Pages /\ \A e \in AllDirs, z \in Slots : pde[e][z] # t
    <3>1. t \in free
      BY <1>1, AllocFacts DEF MapFresh
    <3> QED
      BY <3>1, EntryFacts DEF IInv, TypeOK
  <2>2. /\ UNCHANGED <<held, dirs, current_directory>>
        /\ pde[d][s] = NoPage
        /\ pde' = [pde EXCEPT ![d][s] = t]
        /\ pte' = [pte EXCEPT ![t] = [k \in Indices |-> IF k = i THEN p ELSE NoPage]]
        /\ pte_user' = {e \in pte_user : e[1] # t} \cup UserBit(user, <<t, i>>)
    BY <1>1 DEF MapFresh
  <2> HIDE DEF t
  <2>3. /\ pde'[d][s] = t
        /\ \A e \in AllDirs, z \in Slots : (e # d \/ z # s) => pde'[e][z] = pde[e][z]
    BY <1>0, <2>2
  <2>4. /\ \A k \in Indices : pte'[t][k] = IF k = i THEN p ELSE NoPage
        /\ \A u \in Pages : u # t => pte'[u] = pte[u]
    BY <1>0, <2>1, <2>2
  <2>5. ASSUME NEW e \in AllDirs, NEW z \in Slots, NEW k \in Indices
        PROVE  /\ Translation(e, z, k)' = IF e = d /\ z = s /\ k = i THEN p ELSE Translation(e, z, k)
               /\ <<pde'[e][z], k>> \in pte_user' =>
                    <<pde[e][z], k>> \in pte_user \/ Translation(e, z, k)' # NoPage
    <3>1. CASE e = d /\ z = s
      <4>1. Translation(e, z, k)' = IF k = i THEN p ELSE NoPage
        BY <1>0, <2>1, <2>3, <2>4, <3>1 DEF Translation
      <4>2. Translation(e, z, k) = NoPage
        BY <2>2, <3>1 DEF Translation
      <4>3. <<t, k>> \in pte_user' => k = i
        BY <2>2 DEF UserBit
      <4> QED
        BY <1>0, <2>3, <3>1, <4>1, <4>2, <4>3
    <3>2. CASE e # d \/ z # s
      <4>1. pde'[e][z] = pde[e][z] /\ pde[e][z] # t /\ pde[e][z] \in Pages \cup {NoPage}
        BY <2>1, <2>3, <3>2, EntryFacts
      <4>2. Translation(e, z, k)' = Translation(e, z, k)
        BY <2>4, <4>1 DEF Translation
      <4>3. <<pde[e][z], k>> \in pte_user' => <<pde[e][z], k>> \in pte_user
        BY <2>2, <4>1 DEF UserBit
      <4> QED
        BY <3>2, <4>1, <4>2, <4>3
    <3> QED
      BY <3>1, <3>2
  <2>6. \A z \in Slots : z < kernel_pdes => pde'[KernelDir][z] = pde[KernelDir][z]
    <3>1. \A z \in Slots : z < kernel_pdes => z # s
      BY SlotFacts DEF Slots
    <3> QED
      BY <1>0, <2>3, <3>1
  <2> QED
    BY <2>2, <2>5, <2>6
<1>2. CASE MapExisting(d, s, i, p, user)
  <2> DEFINE t == pde[d][s]
  <2>1. t \in Pages /\ t # NoPage /\ pte[t][i] = NoPage
    BY <1>2, EntryFacts DEF MapExisting, Translation
  <2>2. /\ UNCHANGED <<held, dirs, pde, current_directory>>
        /\ pte' = [pte EXCEPT ![t][i] = p]
        /\ pte_user' = (pte_user \ {<<t, i>>}) \cup UserBit(user, <<t, i>>)
    BY <1>2, <2>1 DEF MapExisting
  <2>3. \A e \in AllDirs, z \in Slots : pde[e][z] = t => e = d /\ z = s
    <3> SUFFICES ASSUME NEW e \in AllDirs, NEW z \in Slots, pde[e][z] = t PROVE e = d /\ z = s
      OBVIOUS
    <3>1. z = s /\ (d = e \/ pde[KernelDir][s] = t)
      BY <2>1 DEF IInv, TablesOwned
    <3>2. ~ (s < kernel_pdes)
      BY SlotFacts DEF Slots
    <3>3. ASSUME d # e PROVE FALSE
      <4>1. pde[KernelDir][s] = t /\ pde[e][s] = t
        BY <3>1, <3>3
      <4>2. d = KernelDir \/ d # KernelDir
        OBVIOUS
      <4> QED
        BY <2>1, <3>2, <3>3, <4>1 DEF IInv, SharedBelow
    <3> QED
      BY <3>1, <3>3
  <2> HIDE DEF t
  <2>4. /\ \A k \in Indices : pte'[t][k] = IF k = i THEN p ELSE pte[t][k]
        /\ \A u \in Pages : u # t => pte'[u] = pte[u]
    BY <1>0, <2>1, <2>2
  <2>5. ASSUME NEW e \in AllDirs, NEW z \in Slots, NEW k \in Indices
        PROVE  /\ Translation(e, z, k)' = IF e = d /\ z = s /\ k = i THEN p ELSE Translation(e, z, k)
               /\ <<pde'[e][z], k>> \in pte_user' =>
                    <<pde[e][z], k>> \in pte_user \/ Translation(e, z, k)' # NoPage
    <3>0. pde[e][z] \in Pages \cup {NoPage} /\ pde'[e][z] = pde[e][z]
      BY <2>2, EntryFacts
    <3>1. CASE e = d /\ z = s
      <4>1. pde[e][z] = t
        BY <3>1 DEF t
      <4>2. Translation(e, z, k)' = IF k = i THEN p ELSE pte[t][k]
        BY <1>0, <2>1, <2>4, <3>0, <4>1 DEF Translation
      <4>3. Translation(e, z, k) = pte[t][k]
        BY <1>0, <2>1, <4>1 DEF Translation
      <4>4. k # i => (<<t, k>> \in pte_user' => <<t, k>> \in pte_user)
        BY <2>2 DEF UserBit
      <4> QED
        BY <1>0, <3>0, <3>1, <4>1, <4>2, <4>3, <4>4
    <3>2. CASE e # d \/ z # s
      <4>1. pde[e][z] # t
        BY <2>3, <3>2
      <4>2. Translation(e, z, k)' = Translation(e, z, k)
        BY <2>4, <3>0, <4>1 DEF Translation
      <4>3. <<pde[e][z], k>> \in pte_user' => <<pde[e][z], k>> \in pte_user
        BY <2>2, <4>1 DEF UserBit
      <4> QED
        BY <3>0, <3>2, <4>2, <4>3
    <3> QED
      BY <3>1, <3>2
  <2> QED
    BY <2>2, <2>5
<1> QED
  BY <1>1, <1>2 DEF vmm_map_page

\* Addresses above kernel_pdes are unmapped: their translations go and no others.
LEMMA ClearEffect ==
  ASSUME IInv, NEW d \in AllDirs, NEW addrs \in SUBSET (Slots \X Indices),
         \A a \in addrs : a[1] >= kernel_pdes, Cleared(d, addrs), UNCHANGED pde
  PROVE  /\ pte' \in [Pages -> [Indices -> Pages \cup {NoPage}]]
         /\ \A e \in AllDirs, z \in Slots, k \in Indices :
              /\ Translation(e, z, k)' = IF e = d /\ <<z, k>> \in addrs THEN NoPage ELSE Translation(e, z, k)
              /\ <<pde[e][z], k>> \in pte_user' =>
                   <<pde[e][z], k>> \in pte_user /\ ~ (e = d /\ <<z, k>> \in addrs)
         /\ pte_user' \subseteq pte_user /\ tlb' \subseteq tlb
         /\ \A e \in tlb' : <<e[1], e[2]>> \notin addrs
<1> DEFINE gone(t, k) == \E a \in addrs : pde[d][a[1]] = t /\ a[2] = k
<1>0. /\ pte \in [Pages -> [Indices -> Pages \cup {NoPage}]]
      /\ NoPage \notin Pages /\ AllDirs \subseteq Pages /\ KernelDir \in AllDirs
  BY EntryFacts DEF IInv, TypeOK
<1>1. /\ pte' = [t \in Pages |-> [k \in Indices |-> IF gone(t, k) THEN NoPage ELSE pte[t][k]]]
      /\ pte_user' = {e \in pte_user : ~ gone(e[1], e[2])}
      /\ tlb' = {e \in tlb : <<e[1], e[2]>> \notin addrs}
  BY DEF Cleared
<1>2. ASSUME NEW e \in AllDirs, NEW z \in Slots, NEW k \in Indices, pde[e][z] # NoPage
      PROVE  gone(pde[e][z], k) <=> e = d /\ <<z, k>> \in addrs
  <2>1. ASSUME NEW a \in addrs, pde[d][a[1]] = pde[e][z], a[2] = k
        PROVE  e = d /\ <<z, k>> \in addrs
    <3>1. a[1] \in Slots /\ a[2] \in Indices /\ a = <<a[1], a[2]>>
      OBVIOUS
    <3>2. a[1] = z /\ (d = e \/ pde[KernelDir][z] = pde[d][z])
      BY <1>2, <2>1, <3>1 DEF IInv, TablesOwned
    <3>3. ~ (z < kernel_pdes)
      BY <3>2, SlotFacts DEF Slots
    <3>4. ASSUME d # e PROVE FALSE
      <4>1. pde[KernelDir][z] = pde[d][z] /\ pde[e][z] = pde[d][z]
        BY <2>1, <3>2, <3>4
      <4> QED
        BY <1>2, <3>3, <3>4, <4>1 DEF IInv, SharedBelow
    <3> QED
      BY <2>1, <3>1, <3>2, <3>4
  <2>2. ASSUME e = d, <<z, k>> \in addrs PROVE gone(pde[e][z], k)
    <3>1. pde[d][<<z, k>>[1]] = pde[e][z] /\ <<z, k>>[2] = k
      BY <2>2
    <3> QED
      BY <2>2, <3>1
  <2> QED
    BY <2>1, <2>2
<1>3. ASSUME NEW t \in Pages, NEW k \in Indices
      PROVE  pte'[t][k] = IF gone(t, k) THEN NoPage ELSE pte[t][k]
  BY <1>1
<1>4. pte' \in [Pages -> [Indices -> Pages \cup {NoPage}]]
  <2>1. \A t \in Pages : [k \in Indices |-> IF gone(t, k) THEN NoPage ELSE pte[t][k]] \in [Indices -> Pages \cup {NoPage}]
    BY <1>0
  <2> QED
    BY <1>1, <2>1
<1>5. \A e \in pte_user : e \in pte_user' <=> ~ gone(e[1], e[2])
  BY <1>1
<1>6. pte_user' \subseteq pte_user /\ tlb' \subseteq tlb /\ \A e \in tlb' : <<e[1], e[2]>> \notin addrs
  BY <1>1
<1>7. ASSUME NEW t, NEW k, <<t, k>> \in pte_user' PROVE <<t, k>> \in pte_user /\ ~ gone(t, k)
  <2>1. <<t, k>> \in pte_user /\ ~ gone(<<t, k>>[1], <<t, k>>[2])
    BY <1>5, <1>6, <1>7
  <2> QED
    BY <2>1
<1> HIDE DEF gone
<1>8. ASSUME NEW e \in AllDirs, NEW z \in Slots, NEW k \in Indices
      PROVE  /\ Translation(e, z, k)' = IF e = d /\ <<z, k>> \in addrs THEN NoPage ELSE Translation(e, z, k)
             /\ <<pde[e][z], k>> \in pte_user' =>
                  <<pde[e][z], k>> \in pte_user /\ ~ (e = d /\ <<z, k>> \in addrs)
  <2>1. CASE pde[e][z] = NoPage
    <3>1. Translation(e, z, k) = NoPage /\ Translation(e, z, k)' = NoPage
      BY <2>1 DEF Translation
    <3>2. <<pde[e][z], k>> \notin pte_user
      BY <1>0, <2>1 DEF IInv, TypeOK
    <3> QED
      BY <1>6, <3>1, <3>2
  <2>2. CASE pde[e][z] # NoPage
    <3>1. pde[e][z] \in Pages
      BY <2>2, EntryFacts
    <3>2. /\ Translation(e, z, k) = pte[pde[e][z]][k]
          /\ Translation(e, z, k)' = pte'[pde[e][z]][k]
      BY <2>2 DEF Translation
    <3> QED
      BY <1>2, <1>3, <1>7, <2>2, <3>1, <3>2
  <2> QED
    BY <2>1, <2>2
<1> QED
  BY <1>4, <1>6, <1>8

\* Unmapping addresses and giving back pages that are not mapped any more.
LEMMA UndoOK ==
  ASSUME IInv, NEW d \in AllDirs, NEW addrs \in SUBSET (Slots \X Indices),
         \A a \in addrs : a[1] >= kernel_pdes, Cleared(d, addrs),
         UNCHANGED <<dirs, pde, pde_user, current_directory>>,
         NEW pages \in SUBSET held, free' = free \cup pages, held' = held \ pages,
         \A e \in AllDirs, s \in Slots, i \in Indices :
           s >= num_page_tables => Translation(e, s, i)' \notin pages
  PROVE  IInv'
<1>0. /\ AllDirs' = AllDirs /\ Tables' = Tables /\ free' \cup held' = free \cup held /\ free' \cap held' = {}
      /\ current_directory \in AllDirs
  BY DEF AllDirs, Tables, TablesOf, IInv, PagesAccounted, TypeOK
<1>1. /\ pte' \in [Pages -> [Indices -> Pages \cup {NoPage}]]
      /\ \A e \in AllDirs, z \in Slots, k \in Indices :
           /\ Translation(e, z, k)' = IF e = d /\ <<z, k>> \in addrs THEN NoPage ELSE Translation(e, z, k)
           /\ <<pde[e][z], k>> \in pte_user' =>
                <<pde[e][z], k>> \in pte_user /\ ~ (e = d /\ <<z, k>> \in addrs)
      /\ pte_user' \subseteq pte_user /\ tlb' \subseteq tlb
      /\ \A e \in tlb' : <<e[1], e[2]>> \notin addrs
  <2>1. UNCHANGED pde
    OBVIOUS
  <2> QED
    BY <2>1, ClearEffect
<1>2. \A a \in addrs : ~ (a[1] < num_page_tables)
  BY SlotFacts DEF Slots
<1>3. TypeOK'
  <2>1. free' \subseteq Pages /\ held' \subseteq Pages
    BY DEF IInv, TypeOK
  <2> QED
    BY <1>0, <1>1, <2>1 DEF IInv, TypeOK
<1>4. TablesOwned' /\ TablesLive' /\ PagesAccounted' /\ Apart' /\ SharedBelow'
  <2>1. TablesOwned' /\ SharedBelow'
    BY <1>0 DEF IInv, TablesOwned, SharedBelow
  <2>2. TablesLive' /\ PagesAccounted' /\ Apart'
    BY <1>0 DEF IInv, TablesLive, PagesAccounted, Apart
  <2> QED
    BY <2>1, <2>2
<1>5. KernelMapped'
  <2> SUFFICES ASSUME NEW e \in AllDirs, NEW s \in Slots, NEW i \in Indices, s * Entries + i < MemPages
               PROVE  Translation(e, s, i)' = s * Entries + i
    BY <1>0 DEF KernelMapped
  <2>1. s < num_page_tables
    BY SlotFacts
  <2>2. <<s, i>> \notin addrs
    BY <1>2, <2>1
  <2>3. Translation(e, s, i)' = Translation(e, s, i)
    BY <1>1, <2>2, Zenon
  <2>4. Translation(e, s, i) = s * Entries + i
    BY DEF IInv, KernelMapped
  <2> QED
    BY <2>3, <2>4
<1>6. SharedNeverUser'
  BY <1>0, <1>1 DEF IInv, SharedNeverUser
<1>7. TlbCoherent'
  <2> SUFFICES ASSUME NEW e \in tlb' PROVE Translation(current_directory, e[1], e[2])' = e[3]
    BY DEF TlbCoherent
  <2>1. e \in tlb /\ <<e[1], e[2]>> \notin addrs /\ e[1] \in Slots /\ e[2] \in Indices
    BY <1>1 DEF IInv, TypeOK
  <2> QED
    BY <1>0, <1>1, <2>1 DEF IInv, TlbCoherent
<1>8. MappedHeld'
  <2> SUFFICES ASSUME NEW e \in AllDirs, NEW s \in Slots, NEW i \in Indices,
                      s >= num_page_tables, Translation(e, s, i)' # NoPage
               PROVE  Translation(e, s, i)' \in held'
    BY <1>0 DEF MappedHeld
  <2>1. Translation(e, s, i)' = Translation(e, s, i) /\ Translation(e, s, i) # NoPage
    BY <1>1
  <2>2. Translation(e, s, i) \in held
    BY <2>1 DEF IInv, MappedHeld
  <2> QED
    BY <2>1, <2>2
<1> QED
  BY <1>3, <1>4, <1>5, <1>6, <1>7, <1>8 DEF IInv

\* free_task: the mappings, the pages behind them, the directory and its tables go
\* together; the kernel's directory is left.
LEMMA ReapOK ==
  ASSUME IInv, NEW d \in dirs, dirs = {d}, current_directory = KernelDir,
         NEW addrs \in SUBSET (Slots \X Indices), \A a \in addrs : a[1] >= kernel_pdes,
         Cleared(d, addrs), UNCHANGED <<pde, pde_user, current_directory>>, dirs' = dirs \ {d},
         NEW pages \in SUBSET held, free' = (free \cup pages) \cup FreedWith(d), held' = held \ pages,
         \A s \in Slots, i \in Indices : s >= num_page_tables => Translation(KernelDir, s, i) = NoPage
  PROVE  /\ IInv' /\ dirs' = {}
         /\ \A s \in Slots, i \in Indices : s >= num_page_tables => Translation(KernelDir, s, i)' = NoPage
<1>0. AllDirs = {d, KernelDir} /\ dirs' = {} /\ AllDirs' = {KernelDir} /\ KernelDir \in Pages
  BY EntryFacts DEF AllDirs
<1>1. /\ d # KernelDir /\ d \in AllDirs /\ d \in FreedWith(d)
      /\ \A p \in FreedWith(d) : /\ p \in KernelPages .. MemPages - 1 /\ p \in Pages
                                 /\ p \notin held /\ p \notin AllDirs \ {d}
      /\ \A p \in FreedWith(d), e \in AllDirs \ {d}, z \in Slots : p # pde[e][z]
      /\ \A s \in Slots : pde[d][s] # NoPage =>
           pde[d][s] \in FreedWith(d) \/ \E z \in Slots : pde[d][s] = pde[KernelDir][z]
  BY FreedFacts
<1>2. /\ pte' \in [Pages -> [Indices -> Pages \cup {NoPage}]]
      /\ \A e \in AllDirs, z \in Slots, k \in Indices :
           /\ Translation(e, z, k)' = IF e = d /\ <<z, k>> \in addrs THEN NoPage ELSE Translation(e, z, k)
           /\ <<pde[e][z], k>> \in pte_user' =>
                <<pde[e][z], k>> \in pte_user /\ ~ (e = d /\ <<z, k>> \in addrs)
      /\ pte_user' \subseteq pte_user /\ tlb' \subseteq tlb
      /\ \A e \in tlb' : <<e[1], e[2]>> \notin addrs
  <2>1. UNCHANGED pde
    OBVIOUS
  <2> QED
    BY <1>1, <2>1, ClearEffect
<1>3. \A z \in Slots, k \in Indices : Translation(KernelDir, z, k)' = Translation(KernelDir, z, k)
  BY <1>0, <1>1, <1>2
<1>4. \A p : p \in Tables' <=> p # NoPage /\ \E s \in Slots : p = pde[KernelDir][s]
  BY <1>0 DEF Tables, TablesOf
<1>5. TypeOK'
  <2>1. free' \subseteq Pages /\ held' \subseteq Pages
    BY <1>1 DEF IInv, TypeOK
  <2> QED
    BY <1>0, <1>2, <2>1 DEF IInv, TypeOK
<1>6. TablesOwned' /\ SharedBelow'
  BY <1>0 DEF IInv, TablesOwned, SharedBelow
<1>7. TablesLive'
  <2>1. KernelDir \notin free' \cup held'
    BY <1>0, <1>1, EntryFacts
  <2>2. ASSUME NEW s \in Slots, pde[KernelDir][s] # NoPage PROVE pde[KernelDir][s] \notin free' \cup held'
    BY <1>0, <1>1, EntryFacts
  <2> QED
    BY <1>0, <1>4, <2>1, <2>2 DEF TablesLive
<1>8. PagesAccounted'
  <2>1. free' \cap held' = {}
    BY <1>1 DEF IInv, PagesAccounted
  <2>2. ASSUME NEW p \in KernelPages .. MemPages - 1 PROVE p \in free' \cup held' \cup Tables'
    <3>1. p \in free \cup held \cup {d} \cup Tables
      BY DEF IInv, PagesAccounted
    <3>2. CASE p \in Tables
      <4>1. PICK e \in AllDirs, s \in Slots : p = pde[e][s] /\ p # NoPage
        BY <3>2, TablesDef
      <4> QED
        BY <1>0, <1>1, <1>4, <4>1
    <3> QED
      BY <1>1, <3>1, <3>2
  <2> QED
    BY <1>0, <2>1, <2>2 DEF PagesAccounted
<1>9. KernelMapped'
  <2> SUFFICES ASSUME NEW s \in Slots, NEW i \in Indices, s * Entries + i < MemPages
               PROVE  Translation(KernelDir, s, i)' = s * Entries + i
    BY <1>0 DEF KernelMapped
  <2>1. Translation(KernelDir, s, i)' = Translation(KernelDir, s, i)
    BY <1>3, Zenon
  <2>2. Translation(KernelDir, s, i) = s * Entries + i
    BY <1>0 DEF IInv, KernelMapped
  <2> QED
    BY <2>1, <2>2
<1>10. SharedNeverUser'
  BY <1>0, <1>2 DEF IInv, SharedNeverUser
<1>11. TlbCoherent'
  <2> SUFFICES ASSUME NEW e \in tlb' PROVE Translation(KernelDir, e[1], e[2])' = e[3]
    BY DEF TlbCoherent
  <2>1. e \in tlb /\ e[1] \in Slots /\ e[2] \in Indices
    BY <1>2 DEF IInv, TypeOK
  <2> QED
    BY <1>3, <2>1 DEF IInv, TlbCoherent
<1>12. MappedHeld'
  BY <1>0, <1>3 DEF MappedHeld
<1>13. Apart'
  <2>1. \A p \in free' \cup held' : p >= KernelPages
    BY <1>1 DEF IInv, Apart
  <2>2. \A s \in Slots : pde[KernelDir][s] \notin {KernelDir} /\ (pde[KernelDir][s] # NoPage => pde[KernelDir][s] >= KernelPages)
    BY <1>0 DEF IInv, Apart
  <2> QED
    BY <1>0, <2>1, <2>2 DEF Apart
<1> QED
  BY <1>0, <1>3, <1>5, <1>6, <1>7, <1>8, <1>9, <1>10, <1>11, <1>12, <1>13 DEF IInv

-----------------------------------------------------------------------------
(* What the loader's steps have in common. *)

WindowPhases == {"window", "load", "unwindow", "fault"}
Closed == \A s \in Slots, i \in Indices : s >= num_page_tables => Translation(KernelDir, s, i) = NoPage

LEMMA ClosedOutside ==
  ASSUME LInv, pc \notin WindowPhases
  PROVE  Closed
BY DEF LInv, WindowOnly, WindowPhases, Closed

LEMMA ClosedIsEnough ==
  ASSUME Closed'
  PROVE  WindowOnly'
BY DEF Closed, WindowOnly

LEMMA SameClosed ==
  ASSUME Closed, UNCHANGED <<pde, pte>>
  PROVE  Closed'
BY DEF Closed, Translation

LEMMA SameImage ==
  ASSUME UNCHANGED <<prog, stack>>
  PROVE  ImagePages' = ImagePages /\ \A n : Image(n)' = Image(n)
BY DEF ImagePages, Image

LEMMA SameUse ==
  ASSUME OneUse, UNCHANGED <<held, drivers, task, prog, stack>>
  PROVE  OneUse'
BY DEF OneUse, ImagePages, Image

LEMMA SameProgram ==
  ASSUME NEW k, ProgramAt(k), UNCHANGED <<dir, pde, pte, pte_user>>,
         \A n \in 0 .. k - 1 : Image(n)' = Image(n)
  PROVE  ProgramAt(k)'
<1>1. \A d, s, i : Translation(d, s, i)' = Translation(d, s, i)
  BY DEF Translation
<1> QED
  BY <1>1 DEF ProgramAt

\* The image is as long as the two sequences, and pages are added at its end.
LEMMA ImageFacts ==
  ASSUME prog \in Seq(Pages), stack \in Seq(Pages)
  PROVE  /\ Len(prog) \in Nat /\ Len(stack) \in Nat
         /\ \A n \in ImagePages : Image(n) \in Pages
         /\ \A n \in 0 .. Len(prog) - 1 : n + 1 \in DOMAIN prog /\ Image(n) = prog[n + 1]
         /\ \A n \in 0 .. Len(stack) - 1 : n + 1 \in DOMAIN stack /\ Image(Len(prog) + n) = stack[n + 1]
<1>1. Len(prog) \in Nat /\ Len(stack) \in Nat /\ DOMAIN prog = 1 .. Len(prog) /\ DOMAIN stack = 1 .. Len(stack)
  OBVIOUS
<1>2. (\A m \in 1 .. Len(prog) : prog[m] \in Pages) /\ (\A m \in 1 .. Len(stack) : stack[m] \in Pages)
  OBVIOUS
<1>3. \A n \in 0 .. Len(prog) - 1 : n + 1 \in DOMAIN prog /\ Image(n) = prog[n + 1]
  BY <1>1 DEF Image
<1>4. \A n \in 0 .. Len(stack) - 1 : n + 1 \in DOMAIN stack /\ Image(Len(prog) + n) = stack[n + 1]
  <2> SUFFICES ASSUME NEW n \in 0 .. Len(stack) - 1
               PROVE  n + 1 \in DOMAIN stack /\ Image(Len(prog) + n) = stack[n + 1]
    OBVIOUS
  <2>1. n + 1 \in DOMAIN stack /\ ~ (Len(prog) + n < Len(prog)) /\ Len(prog) + n - Len(prog) + 1 = n + 1
    BY <1>1
  <2> QED
    BY <2>1 DEF Image
<1>5. ASSUME NEW n \in ImagePages PROVE Image(n) \in Pages
  <2>1. n \in Nat /\ n < Len(prog) + Len(stack)
    BY <1>1 DEF ImagePages
  <2>2. CASE n < Len(prog)
    BY <1>1, <1>2, <2>1, <2>2 DEF Image
  <2>3. CASE ~ (n < Len(prog))
    <3>1. n - Len(prog) + 1 \in 1 .. Len(stack)
      BY <1>1, <2>1, <2>3
    <3> QED
      BY <1>2, <2>3, <3>1 DEF Image
  <2> QED
    BY <2>2, <2>3
<1> QED
  BY <1>1, <1>3, <1>4, <1>5

LEMMA ImageGrows ==
  ASSUME prog \in Seq(Pages), stack \in Seq(Pages), NEW x \in Pages,
         \/ prog' = Append(prog, x) /\ stack' = stack /\ stack = <<>>
         \/ prog' = prog /\ stack' = Append(stack, x)
  PROVE  /\ prog' \in Seq(Pages) /\ stack' \in Seq(Pages)
         /\ ImagePages = 0 .. Len(prog) + Len(stack) - 1 /\ ImagePages' = 0 .. Len(prog) + Len(stack)
         /\ \A n \in Nat : n = Len(prog) + Len(stack) => Image(n)' = x
         /\ \A n \in ImagePages : Image(n)' = Image(n)
<1>1. CASE prog' = Append(prog, x) /\ stack' = stack /\ stack = <<>>
  <2>1. /\ Len(stack) = 0 /\ Len(prog) \in Nat /\ prog' \in Seq(Pages) /\ Len(prog') = Len(prog) + 1
        /\ prog'[Len(prog) + 1] = x /\ \A m \in 1 .. Len(prog) : prog'[m] = prog[m]
    BY <1>1
  <2>2. ImagePages = 0 .. Len(prog) + Len(stack) - 1 /\ ImagePages' = 0 .. Len(prog) + Len(stack)
    BY <1>1, <2>1 DEF ImagePages
  <2>3. \A n \in Nat : n = Len(prog) + Len(stack) => Image(n)' = x
    BY <2>1 DEF Image
  <2>4. ASSUME NEW n \in ImagePages PROVE Image(n)' = Image(n)
    <3>1. n \in Nat /\ n < Len(prog) /\ n < Len(prog') /\ n + 1 \in 1 .. Len(prog)
      BY <2>1, <2>2
    <3> QED
      BY <2>1, <3>1 DEF Image
  <2> QED
    BY <1>1, <2>1, <2>2, <2>3, <2>4
<1>2. CASE prog' = prog /\ stack' = Append(stack, x)
  <2>1. /\ Len(stack) \in Nat /\ Len(prog) \in Nat /\ stack' \in Seq(Pages) /\ Len(stack') = Len(stack) + 1
        /\ stack'[Len(stack) + 1] = x /\ \A m \in 1 .. Len(stack) : stack'[m] = stack[m]
    BY <1>2
  <2>2. ImagePages = 0 .. Len(prog) + Len(stack) - 1 /\ ImagePages' = 0 .. Len(prog) + Len(stack)
    BY <1>2, <2>1 DEF ImagePages
  <2>3. ASSUME NEW n \in Nat, n = Len(prog) + Len(stack) PROVE Image(n)' = x
    <3>1. ~ (n < Len(prog')) /\ n - Len(prog') + 1 = Len(stack) + 1
      BY <1>2, <2>1, <2>3
    <3> QED
      BY <2>1, <3>1 DEF Image
  <2>4. ASSUME NEW n \in ImagePages PROVE Image(n)' = Image(n)
    <3>1. n \in Nat /\ n < Len(prog) + Len(stack)
      BY <2>1, <2>2
    <3>2. ~ (n < Len(prog)) => n - Len(prog) + 1 \in 1 .. Len(stack)
      BY <2>1, <3>1
    <3> QED
      BY <1>2, <2>1, <3>2 DEF Image
  <2> QED
    BY <1>2, <2>1, <2>2, <2>3, <2>4
<1> QED
  BY <1>1, <1>2

\* A page from the allocator is one that nobody holds.
LEMMA UseGrows ==
  ASSUME LInv, OneUse, CallerAlloc, UNCHANGED drivers,
         \/ task' = task /\ prog' = Append(prog, Alloc) /\ stack' = stack /\ stack = <<>>
         \/ task' = task /\ prog' = prog /\ stack' = Append(stack, Alloc)
         \/ task' = task \cup {Alloc} /\ UNCHANGED <<prog, stack>>
  PROVE  /\ IInv' /\ OneUse' /\ UNCHANGED <<dirs, pde, pde_user, pte, pte_user, current_directory>>
         /\ prog' \in Seq(Pages) /\ stack' \in Seq(Pages) /\ task' \subseteq Pages
         /\ \A n \in ImagePages : Image(n)' = Image(n)
<1>0. prog \in Seq(Pages) /\ stack \in Seq(Pages) /\ task \subseteq Pages
  BY DEF LInv, LoaderTypeOK
<1>1. IInv' /\ UNCHANGED <<dirs, pde, pde_user, pte, pte_user, current_directory>>
  BY CallerAllocOK DEF LInv, CallerAlloc
<1>2. PICK x \in Pages : x = Alloc /\ x \notin held /\ held' = held \cup {x}
  <2>1. Alloc \in free
    BY AllocFacts DEF CallerAlloc
  <2> QED
    BY <2>1 DEF CallerAlloc, LInv, IInv, TypeOK, PagesAccounted
<1>3. /\ held = drivers \cup task \cup {Image(n) : n \in ImagePages}
      /\ \A m, n \in ImagePages : Image(m) = Image(n) => m = n
      /\ \A n \in ImagePages : Image(n) \notin drivers \cup task
      /\ drivers \cap task = {}
  BY DEF OneUse
<1>4. CASE task' = task \cup {Alloc} /\ UNCHANGED <<prog, stack>>
  <2>1. ImagePages' = ImagePages /\ \A n : Image(n)' = Image(n)
    BY <1>4, SameImage
  <2>2. held' = drivers' \cup task' \cup {Image(n)' : n \in ImagePages'}
    BY <1>2, <1>3, <1>4, <2>1
  <2>3. \A n \in ImagePages' : Image(n)' \notin drivers' \cup task'
    BY <1>2, <1>3, <1>4, <2>1
  <2>4. \A m, n \in ImagePages' : Image(m)' = Image(n)' => m = n
    BY <1>3, <2>1
  <2>5. drivers' \cap task' = {}
    BY <1>2, <1>3, <1>4
  <2>6. OneUse'
    BY <2>2, <2>3, <2>4, <2>5 DEF OneUse
  <2> QED
    BY <1>0, <1>1, <1>2, <1>4, <2>1, <2>6
<1>5. CASE ~ (task' = task \cup {Alloc} /\ UNCHANGED <<prog, stack>>)
  <2>0. PICK L \in Nat : L = Len(prog) + Len(stack)
    BY <1>0
  <2>1. /\ task' = task
        /\ \/ prog' = Append(prog, x) /\ stack' = stack /\ stack = <<>>
           \/ prog' = prog /\ stack' = Append(stack, x)
    BY <1>2, <1>5
  <2>2. /\ prog' \in Seq(Pages) /\ stack' \in Seq(Pages)
        /\ ImagePages = 0 .. L - 1 /\ ImagePages' = 0 .. L
        /\ Image(L)' = x
        /\ \A n \in ImagePages : Image(n)' = Image(n)
    BY <1>0, <2>0, <2>1, ImageGrows
  <2>3. ImagePages' = ImagePages \cup {L} /\ L \notin ImagePages
    BY <2>2
  <2>4. held' = drivers' \cup task' \cup {Image(n)' : n \in ImagePages'}
    BY <1>2, <1>3, <2>1, <2>2, <2>3
  <2>5. \A n \in ImagePages' : Image(n)' \notin drivers' \cup task'
    BY <1>2, <1>3, <2>1, <2>2, <2>3
  <2>6. \A n \in ImagePages : Image(n) \in held /\ Image(n) # x
    BY <1>2, <1>3
  <2>7. \A m, n \in ImagePages' : Image(m)' = Image(n)' => m = n
    BY <1>3, <2>2, <2>3, <2>6
  <2>8. OneUse'
    BY <1>3, <2>1, <2>4, <2>5, <2>7 DEF OneUse
  <2> QED
    BY <1>0, <1>1, <2>1, <2>2, <2>8
<1> QED
  BY <1>4, <1>5

\* An error exit: nothing that is given back is still mapped.
LEMMA FailOK ==
  ASSUME LInv, pc \in Early \cup Building, Closed, current_directory = KernelDir,
         NEW addrs \in SUBSET (Slots \X Indices), \A a \in addrs : a[1] >= kernel_pdes,
         NEW pages \in SUBSET held, Fail(addrs, pages),
         pc \in Building =>
           \A n \in 0 .. MappedCount - 1 : Image(n) \in pages => CodeAddr(n) \in addrs,
         (held \ pages) \ drivers \subseteq (IF dir = NoPage THEN {} ELSE task) \cup
                                         (IF loaded THEN ElementsOf(Tail(prog)) ELSE {})
  PROVE  LInv'
<1>0. /\ pc' = "failed" /\ UNCHANGED locals /\ UNCHANGED <<dirs, pde, pde_user, current_directory>>
      /\ free' = free \cup pages /\ held' = held \ pages
      /\ IF dir = NoPage THEN UNCHANGED <<pte, pte_user, tlb>> ELSE Cleared(dir, addrs)
      /\ IInv /\ NoPage \notin pages
  BY EntryFacts DEF Fail, Undo, LInv, IInv, TypeOK
<1>1. IInv' /\ Closed'
  <2>1. CASE pc \in Early
    <3>1. dir = NoPage /\ dirs = {} /\ UNCHANGED <<pte, pte_user, tlb>>
      BY <1>0, <2>1 DEF LInv, Stages
    <3>2. AllDirs = {KernelDir} /\ AllDirs' = AllDirs /\ \A d, s, i : Translation(d, s, i)' = Translation(d, s, i)
      BY <1>0, <3>1 DEF AllDirs, Translation
    <3>3. TypeOK'
      BY <1>0, <3>1, <3>2 DEF IInv, TypeOK
    <3>4. TlbCoherent' /\ Closed'
      BY <1>0, <3>1, <3>2 DEF IInv, TlbCoherent, Closed
    <3>5. MappedHeld'
      BY <3>2 DEF MappedHeld, Closed
    <3>6. free' \cup held' = free \cup held /\ free' \cap held' = {}
      BY <1>0 DEF IInv, PagesAccounted
    <3> QED
      BY <1>0, <3>1, <3>3, <3>4, <3>5, <3>6, PlainStep
  <2>2. CASE pc \in Building
    <3>1. dir \in Pages /\ dirs = {dir} /\ dir # NoPage /\ AllDirs = {dir, KernelDir}
      BY <1>0, <2>2, EntryFacts DEF LInv, Stages, AllDirs
    <3>2. Cleared(dir, addrs) /\ dir \in AllDirs /\ UNCHANGED pde /\ KernelDir # dir
      BY <1>0, <3>1, EntryFacts
    <3>3. \A e \in AllDirs, z \in Slots, k \in Indices :
            Translation(e, z, k)' = IF e = dir /\ <<z, k>> \in addrs THEN NoPage ELSE Translation(e, z, k)
      <4>1. \A e \in AllDirs, z \in Slots, k \in Indices :
              /\ Translation(e, z, k)' = IF e = dir /\ <<z, k>> \in addrs THEN NoPage ELSE Translation(e, z, k)
              /\ <<pde[e][z], k>> \in pte_user' =>
                   <<pde[e][z], k>> \in pte_user /\ ~ (e = dir /\ <<z, k>> \in addrs)
        BY <1>0, <3>2, ClearEffect
      <4> QED
        BY <4>1
    <3>4. Closed'
      BY <3>1, <3>2, <3>3 DEF Closed
    <3>5. PICK c \in {MappedCount} : ProgramAt(c) /\ \A n \in 0 .. c - 1 : Image(n) \in pages => CodeAddr(n) \in addrs
      BY <2>2 DEF LInv, ProgramOnly
    <3>6. ASSUME NEW e \in AllDirs, NEW s \in Slots, NEW i \in Indices, s >= num_page_tables,
                 Translation(e, s, i)' \in pages
          PROVE  FALSE
      <4>1. CASE e = KernelDir
        <5>1. Translation(KernelDir, s, i)' = NoPage
          BY <3>4, <3>6 DEF Closed
        <5> QED
          BY <1>0, <3>6, <4>1, <5>1
      <4>2. CASE e = dir
        <5>1. Translation(dir, s, i) # NoPage /\ <<s, i>> \notin addrs /\ Translation(dir, s, i) \in pages
          BY <1>0, <3>3, <3>6, <4>2
        <5>2. PICK n \in 0 .. c - 1 : <<s, i>> = CodeAddr(n)
          BY <3>5, <3>6, <5>1 DEF ProgramAt
        <5>3. Translation(dir, CodeAddr(n)[1], CodeAddr(n)[2]) = Image(n)
          BY <3>5, <5>2 DEF ProgramAt
        <5>4. CodeAddr(n)[1] = s /\ CodeAddr(n)[2] = i
          BY <5>2
        <5> QED
          BY <3>5, <5>1, <5>2, <5>3, <5>4
      <4> QED
        BY <3>1, <4>1, <4>2
    <3>7. IInv'
      BY <1>0, <3>2, <3>6, UndoOK
    <3> QED
      BY <3>4, <3>7
  <2> QED
    BY <2>1, <2>2
<1>2. LoaderTypeOK'
  <2>1. TypeOK'
    BY <1>1 DEF IInv
  <2> QED
    BY <1>0, <2>1 DEF LInv, LoaderTypeOK, locals, code_pages
<1>3. Stages' /\ HeldOnce' /\ ProgramOnly' /\ ExitReturnsAll'
  BY <1>0 DEF Stages, HeldOnce, ProgramOnly, ExitReturnsAll, Early, Building
<1>4. WindowOnly'
  BY <1>1, ClosedIsEnough
<1>5. FailureFrees'
  BY <1>0 DEF FailureFrees, locals, ElementsOf
<1> QED
  BY <1>1, <1>2, <1>3, <1>4, <1>5 DEF LInv

-----------------------------------------------------------------------------
(* The loader's steps, up to the new directory. *)

LEMMA LoaderInitOK ==
  ASSUME LoaderInit
  PROVE  LInv
<1>1. IInv
  BY InitOK DEF LoaderInit
<1>2. /\ pc = "drivers" /\ file_pages = 0 /\ prog = <<>> /\ stack = <<>> /\ task = {} /\ dir = NoPage
      /\ pi = 0 /\ loaded = FALSE /\ user_virt_pages = {} /\ drivers = {}
  BY DEF LoaderInit
<1>3. /\ held = {} /\ dirs = {} /\ current_directory = KernelDir
      /\ \A s \in Slots : s >= num_page_tables => pde[KernelDir][s] = NoPage
  <2>1. KernelDir \in Pages
    BY <1>1, EntryFacts
  <2>2. \A s \in Slots : s >= num_page_tables => ~ (s < num_page_tables)
    BY SlotFacts DEF Slots
  <2> QED
    BY <2>1, <2>2 DEF LoaderInit, Init
<1>4. LoaderTypeOK
  <2>1. TypeOK
    BY <1>1 DEF IInv
  <2>2. 0 \in 0 .. code_pages + 1
    BY <1>2, LoaderAssumption DEF code_pages
  <2>3. prog \in Seq(Pages) /\ stack \in Seq(Pages) /\ Len(stack) <= 2
    BY <1>2
  <2>4. /\ file_pages \in FileSizes \cup {0} /\ task \subseteq Pages /\ dir \in Pages \cup {NoPage}
        /\ loaded \in BOOLEAN /\ user_virt_pages \subseteq Slots \X Indices /\ drivers \subseteq Pages
    BY <1>2
  <2>5. pi \in 0 .. code_pages + 1
    BY <1>2, <2>2
  <2> QED
    BY <1>2, <2>1, <2>3, <2>4, <2>5 DEF LoaderTypeOK
<1>5. Stages
  BY <1>2, <1>3 DEF Stages, Early, Building
<1>6. HeldOnce
  <2>1. ImagePages = {}
    BY <1>2 DEF ImagePages
  <2> QED
    BY <1>2, <1>3, <2>1 DEF HeldOnce, OneUse
<1>7. WindowOnly
  BY <1>3 DEF WindowOnly, Translation
<1>8. ProgramOnly /\ FailureFrees /\ ExitReturnsAll
  BY <1>2 DEF ProgramOnly, Building, FailureFrees, ExitReturnsAll
<1> QED
  BY <1>1, <1>4, <1>5, <1>6, <1>7, <1>8 DEF LInv

LEMMA DriversOK ==
  ASSUME LInv, DriversBoot
  PROVE  LInv'
<1>0. /\ pc = "drivers" /\ pc' = "find" /\ drivers' \subseteq free /\ free' = free \ drivers' /\ held' = drivers'
      /\ UNCHANGED <<dirs, pde, pde_user, pte, pte_user, current_directory, tlb>>
      /\ UNCHANGED <<file_pages, prog, stack, task, dir, pi, loaded, user_virt_pages>>
  BY DEF DriversBoot
<1>1. drivers = {} /\ prog = <<>> /\ stack = <<>> /\ task = {} /\ dirs = {} /\ held = {}
  <2>1. OneUse /\ drivers = {} /\ prog = <<>> /\ stack = <<>> /\ task = {} /\ dirs = {}
    BY <1>0 DEF LInv, HeldOnce, Stages, Early
  <2>2. ImagePages = {}
    BY <2>1 DEF ImagePages
  <2> QED
    BY <2>1, <2>2 DEF OneUse
<1>2. AllDirs' = AllDirs /\ AllDirs = {KernelDir} /\ \A d, s, i : Translation(d, s, i)' = Translation(d, s, i)
  BY <1>0, <1>1 DEF AllDirs, Translation
<1>3. Closed
  BY <1>0, ClosedOutside DEF WindowPhases
<1>4. IInv'
  <2>1. TypeOK'
    BY <1>0, <1>2 DEF LInv, IInv, TypeOK
  <2>2. TlbCoherent'
    BY <1>0, <1>2 DEF LInv, IInv, TlbCoherent
  <2>3. MappedHeld'
    BY <1>2, <1>3 DEF MappedHeld, Closed
  <2>4. free' \cup held' = free \cup held /\ free' \cap held' = {}
    BY <1>0, <1>1
  <2> QED
    BY <1>0, <2>1, <2>2, <2>3, <2>4, PlainStep DEF LInv
<1>5. LoaderTypeOK'
  <2>1. TypeOK' /\ drivers' \subseteq Pages
    BY <1>0, <1>4 DEF LInv, IInv, TypeOK
  <2> QED
    BY <1>0, <2>1 DEF LInv, LoaderTypeOK, code_pages
<1>6. Stages'
  BY <1>0 DEF LInv, Stages, Early, Building, code_pages
<1>7. HeldOnce'
  <2>1. ImagePages' = {}
    BY <1>0, <1>1 DEF ImagePages
  <2> QED
    BY <1>0, <1>1, <2>1 DEF HeldOnce, OneUse
<1>8. WindowOnly'
  BY <1>0, <1>3, SameClosed, ClosedIsEnough
<1>9. ProgramOnly' /\ FailureFrees' /\ ExitReturnsAll'
  BY <1>0 DEF ProgramOnly, Building, FailureFrees, ExitReturnsAll
<1> QED
  BY <1>4, <1>5, <1>6, <1>7, <1>8, <1>9 DEF LInv

LEMMA PagesCount ==
  \A n \in Nat : 0 \in 0 .. n + BSS_PAGES + 1
BY LoaderAssumption

LEMMA FindOK ==
  ASSUME LInv, FindFile
  PROVE  LInv'
<1>0. /\ pc = "find" /\ UNCHANGED vars /\ UNCHANGED <<prog, stack, task, dir, pi, loaded, user_virt_pages, drivers>>
      /\ \/ pc' = "failed" /\ file_pages' = file_pages
         \/ /\ file_pages' \in FileSizes
            /\ pc' = "failed" \/ (pc' = "code" /\ file_pages' <= MAX_FILE_PAGES)
  <2>1. \A n \in FileSizes : ~ TooLarge(n) => n <= MAX_FILE_PAGES
    BY LoaderAssumption DEF TooLarge
  <2> QED
    BY <2>1 DEF FindFile
<1>1. IInv'
  BY <1>0, StutterOK DEF LInv
<1>2. OneUse /\ prog = <<>> /\ stack = <<>> /\ task = {} /\ dir = NoPage /\ ~ loaded
  BY <1>0 DEF LInv, HeldOnce, Stages, Early
<1>3. held = drivers
  <2>1. ImagePages = {}
    BY <1>2 DEF ImagePages
  <2> QED
    BY <1>2, <2>1 DEF OneUse
<1>4. LoaderTypeOK'
  <2>1. TypeOK'
    BY <1>1 DEF IInv
  <2>2. file_pages' \in FileSizes \cup {0} /\ pc' \in {"failed", "code"}
    BY <1>0 DEF LInv, LoaderTypeOK
  <2>3. file_pages' \in Nat /\ pi' = 0
    BY <1>0, <2>2, LoaderAssumption DEF LInv, Stages, Early
  <2>4. pi' \in 0 .. code_pages' + 1
    <3>1. 0 \in 0 .. file_pages' + BSS_PAGES + 1
      BY <2>3, PagesCount, Zenon
    <3> QED
      BY <2>3, <3>1 DEF code_pages
  <2> QED
    BY <1>0, <2>1, <2>2, <2>4 DEF LInv, LoaderTypeOK
<1>5. Stages'
  BY <1>0 DEF LInv, Stages, Early, Building, vars
<1>6. HeldOnce'
  BY <1>0, <1>2, SameUse DEF HeldOnce, vars
<1>7. WindowOnly'
  BY <1>0, ClosedOutside, SameClosed, ClosedIsEnough DEF WindowPhases, vars
<1>8. ProgramOnly' /\ ExitReturnsAll'
  BY <1>0 DEF ProgramOnly, Building, ExitReturnsAll
<1>9. FailureFrees'
  BY <1>0, <1>3 DEF FailureFrees, vars
<1> QED
  BY <1>1, <1>4, <1>5, <1>6, <1>7, <1>8, <1>9 DEF LInv

LEMMA SizeFacts ==
  ASSUME LInv, pc \in Building \cup {"code", "task", "dir"}
  PROVE  /\ file_pages \in Nat /\ file_pages <= MAX_FILE_PAGES /\ code_pages \in Nat \ {0}
         /\ prog \in Seq(Pages) /\ stack \in Seq(Pages) /\ Len(prog) \in Nat /\ Len(stack) \in Nat
         /\ ImagePages = 0 .. Len(prog) + Len(stack) - 1
<1>1. file_pages \in Nat /\ file_pages <= MAX_FILE_PAGES
  BY LoaderAssumption DEF LInv, LoaderTypeOK, Stages
<1>2. prog \in Seq(Pages) /\ stack \in Seq(Pages)
  BY DEF LInv, LoaderTypeOK
<1> QED
  BY <1>1, <1>2, LoaderAssumption DEF code_pages, ImagePages

\* A step that takes a page from the allocator.
LEMMA AllocOK ==
  ASSUME LInv, pc \in {"code", "task", "extra", "stack"}, pc' \in {"task", "dir", "extra", "stack"},
         CallerAlloc, UNCHANGED <<drivers, file_pages, dir, pi, loaded, user_virt_pages>>,
         \/ task' = task /\ prog' = Append(prog, Alloc) /\ stack' = stack /\ stack = <<>>
         \/ task' = task /\ prog' = prog /\ stack' = Append(stack, Alloc)
         \/ task' = task \cup {Alloc} /\ UNCHANGED <<prog, stack>>,
         Stages', Len(stack') <= 2,
         pc \in Early => pc' \in Early,
         pc \in Building => pc' = pc /\ (\A n \in 0 .. MappedCount - 1 : n \in ImagePages)
  PROVE  LInv'
<1>1. OneUse
  BY DEF LInv, HeldOnce, Early, Building
<1>2. /\ IInv' /\ OneUse' /\ UNCHANGED <<dirs, pde, pde_user, pte, pte_user, current_directory>>
      /\ prog' \in Seq(Pages) /\ stack' \in Seq(Pages) /\ task' \subseteq Pages
      /\ \A n \in ImagePages : Image(n)' = Image(n)
  BY <1>1, UseGrows
<1>3. LoaderTypeOK'
  <2>1. TypeOK'
    BY <1>2 DEF IInv
  <2> QED
    BY <1>2, <2>1 DEF LInv, LoaderTypeOK, code_pages
<1>4. HeldOnce'
  BY <1>2 DEF HeldOnce
<1>5. WindowOnly'
  BY <1>2, ClosedOutside, SameClosed, ClosedIsEnough DEF WindowPhases
<1>6. ProgramOnly'
  <2>1. CASE pc \in Early
    BY <2>1 DEF ProgramOnly, Early, Building
  <2>2. CASE pc \in Building
    <3>1. PICK k : k = MappedCount
      OBVIOUS
    <3>2. MappedCount' = MappedCount
      BY <2>2 DEF MappedCount, code_pages, Building
    <3>3. ProgramAt(k)
      BY <2>2, <3>1 DEF LInv, ProgramOnly
    <3>4. \A n \in 0 .. k - 1 : Image(n)' = Image(n)
      BY <1>2, <2>2, <3>1
    <3>5. ProgramAt(k)'
      BY <1>2, <3>3, <3>4, SameProgram
    <3> QED
      BY <3>1, <3>2, <3>5 DEF ProgramOnly
  <2> QED
    BY <2>1, <2>2 DEF Early, Building
<1>7. FailureFrees' /\ ExitReturnsAll'
  BY DEF FailureFrees, ExitReturnsAll
<1> QED
  BY <1>2, <1>3, <1>4, <1>5, <1>6, <1>7 DEF LInv

LEMMA AllocCodeOK ==
  ASSUME LInv, AllocCode
  PROVE  LInv'
<1>0. pc = "code" /\ prog = <<>> /\ stack = <<>> /\ task = {} /\ dir = NoPage /\ dirs = {} /\ ~ loaded
      /\ current_directory = KernelDir /\ OneUse
  BY DEF AllocCode, LInv, Stages, Early, HeldOnce
<1>1. CASE free = {} /\ Fail({}, {})
  <2>1. held = drivers
    <3>1. ImagePages = {}
      BY <1>0 DEF ImagePages
    <3> QED
      BY <1>0, <3>1 DEF OneUse
  <2>2. Closed
    BY <1>0, ClosedOutside DEF WindowPhases
  <2>3. (held \ {}) \ drivers \subseteq (IF dir = NoPage THEN {} ELSE task) \cup (IF loaded THEN ElementsOf(Tail(prog)) ELSE {})
    BY <2>1
  <2>4. pc \in Early \cup Building /\ pc \notin Building
    BY <1>0 DEF Early, Building
  <2> QED
    BY <1>0, <1>1, <2>2, <2>3, <2>4, FailOK
<1>2. CASE ~ (free = {} /\ Fail({}, {}))
  <2>1. /\ CallerAlloc /\ prog' = <<Alloc>> /\ pc' = "task"
        /\ UNCHANGED <<file_pages, stack, task, dir, pi, loaded, user_virt_pages, drivers>>
    BY <1>2 DEF AllocCode
  <2>2. prog' = Append(prog, Alloc) /\ Len(prog') = 1 /\ Len(stack') <= 2
    BY <1>0, <2>1
  <2>3. UNCHANGED <<dirs, pde, current_directory>>
    BY <2>1 DEF CallerAlloc
  <2>4. Stages'
    BY <1>0, <2>1, <2>2, <2>3 DEF LInv, Stages, Early, Building, code_pages
  <2>5. pc \notin Building /\ pc' \in Early
    BY <1>0, <2>1 DEF Early, Building
  <2> QED
    BY <1>0, <2>1, <2>2, <2>4, <2>5, AllocOK
<1> QED
  BY <1>1, <1>2

LEMMA CodeIsFirst ==
  ASSUME LInv, pc \in Building \cup {"task", "dir"}
  PROVE  /\ 0 \in ImagePages /\ Image(0) = prog[1] /\ Code = {Image(0)} /\ OneUse
         /\ Code \subseteq held /\ Len(prog) > 0
<1>0. /\ code_pages \in Nat \ {0} /\ Len(prog) \in Nat /\ Len(stack) \in Nat
      /\ ImagePages = 0 .. Len(prog) + Len(stack) - 1
  BY SizeFacts
<1>1. Len(prog) > 0
  <2>1. Len(prog) = 1 \/ Len(prog) \in 1 .. code_pages \/ Len(prog) = code_pages
    BY DEF LInv, Stages, Building
  <2>2. CASE Len(prog) = 1
    BY <2>2
  <2>3. CASE Len(prog) \in 1 .. code_pages
    BY <1>0, <2>3
  <2>4. CASE Len(prog) = code_pages
    BY <1>0, <2>4
  <2> QED
    BY <2>1, <2>2, <2>3, <2>4
<1>2. 0 \in ImagePages /\ Image(0) = prog[1]
  BY <1>0, <1>1 DEF Image
<1>3. OneUse
  BY DEF LInv, HeldOnce, Early
<1> QED
  BY <1>1, <1>2, <1>3 DEF Code, OneUse

LEMMA CreatePagesOK ==
  ASSUME LInv, CreatePages
  PROVE  LInv'
<1>0. pc = "task" /\ Len(prog) = 1 /\ stack = <<>> /\ dir = NoPage /\ dirs = {} /\ ~ loaded
      /\ current_directory = KernelDir /\ OneUse
  BY DEF CreatePages, LInv, Stages, Early, HeldOnce
<1>1. CASE free = {}
  <2>1. Fail({}, task \cup Code)
    BY <1>1 DEF CreatePages
  <2>2. Closed
    BY <1>0, ClosedOutside DEF WindowPhases
  <2>3. Code = {Image(0)} /\ Code \subseteq held /\ ImagePages = {0}
    BY <1>0, CodeIsFirst DEF ImagePages
  <2>4. held = drivers \cup task \cup Code
    BY <1>0, <2>3 DEF OneUse
  <2>5. pc \in Early \cup Building /\ pc \notin Building
    BY <1>0 DEF Early, Building
  <2>6. (held \ (task \cup Code)) \ drivers \subseteq (IF dir = NoPage THEN {} ELSE task) \cup (IF loaded THEN ElementsOf(Tail(prog)) ELSE {})
    BY <2>4
  <2>7. task \cup Code \in SUBSET held
    BY <2>4
  <2> QED
    BY <1>0, <2>1, <2>2, <2>5, <2>6, <2>7, FailOK
<1>2. CASE free # {}
  <2>1. /\ CallerAlloc /\ task' = task \cup {Alloc} /\ pc' \in {"task", "dir"}
        /\ UNCHANGED <<file_pages, prog, stack, dir, pi, loaded, user_virt_pages, drivers>>
    BY <1>2 DEF CreatePages
  <2>2. Len(stack') <= 2
    BY <1>0, <2>1
  <2>3. UNCHANGED <<dirs, pde, current_directory>>
    BY <2>1 DEF CallerAlloc
  <2>4. Stages'
    BY <1>0, <2>1, <2>3 DEF LInv, Stages, Early, Building, code_pages
  <2>5. pc \notin Building /\ pc' \in Early
    BY <1>0, <2>1 DEF Early, Building
  <2> QED
    BY <1>0, <2>1, <2>2, <2>4, <2>5, AllocOK
<1> QED
  BY <1>1, <1>2

LEMMA CreateDirectoryOK ==
  ASSUME LInv, CreateDirectory
  PROVE  LInv'
<1>0. /\ pc = "dir" /\ Len(prog) = 1 /\ stack = <<>> /\ dir = NoPage /\ dirs = {} /\ ~ loaded
      /\ current_directory = KernelDir /\ OneUse /\ IInv
      /\ \A s \in Slots : s >= num_page_tables => pde[KernelDir][s] = NoPage
  BY DEF CreateDirectory, LInv, Stages, Early, HeldOnce
<1>1. Closed
  BY <1>0, ClosedOutside DEF WindowPhases
<1>2. CASE free = {} /\ Fail({}, task \cup Code)
  <2>3. Code = {Image(0)} /\ Code \subseteq held /\ ImagePages = {0}
    BY <1>0, CodeIsFirst DEF ImagePages
  <2>4. held = drivers \cup task \cup Code
    BY <1>0, <2>3 DEF OneUse
  <2>5. pc \in Early \cup Building /\ pc \notin Building
    BY <1>0 DEF Early, Building
  <2>6. (held \ (task \cup Code)) \ drivers \subseteq (IF dir = NoPage THEN {} ELSE task) \cup (IF loaded THEN ElementsOf(Tail(prog)) ELSE {})
    BY <2>4
  <2>7. task \cup Code \in SUBSET held
    BY <2>4
  <2> QED
    BY <1>0, <1>1, <1>2, <2>5, <2>6, <2>7, FailOK
<1>3. CASE ~ (free = {} /\ Fail({}, task \cup Code))
  <2>1. /\ vmm_create_directory /\ dir' = Alloc /\ pc' = "map_code"
        /\ UNCHANGED <<file_pages, prog, stack, task, pi, loaded, user_virt_pages, drivers>>
    BY <1>3 DEF CreateDirectory
  <2>2. IInv'
    <3>1. \A s \in Slots : s >= kernel_pdes => pde[KernelDir][s] = NoPage
      BY <1>0, SlotFacts DEF Slots
    <3> QED
      BY <1>0, <2>1, <3>1, CreateOK
  <2>3. PICK x \in Pages : /\ x = Alloc /\ dir' = x /\ dirs' = {x} /\ x # KernelDir
                            /\ pde' = [pde EXCEPT ![x] = pde[KernelDir]]
                            /\ UNCHANGED <<held, pte, pte_user, current_directory>>
    <3>1. Alloc \in free /\ Alloc \in Pages /\ Alloc # KernelDir
      BY <1>0, <2>1, AllocFacts, EntryFacts DEF vmm_create_directory, IInv, TypeOK
    <3> QED
      BY <1>0, <2>1, <3>1 DEF vmm_create_directory, CopiedEntries
  <2>4. pde'[KernelDir] = pde[KernelDir] /\ pde'[x] = pde[KernelDir]
    BY <1>0, <2>3, EntryFacts DEF IInv, TypeOK
  <2>5. Closed'
    BY <1>1, <2>3, <2>4 DEF Closed, Translation
  <2>6. ProgramAt(0)'
    <3>1. \A s \in Slots, i \in Indices : s >= num_page_tables => pde'[x][s] = NoPage /\ <<NoPage, i>> \notin pte_user'
      BY <1>0, <2>3, <2>4, EntryFacts DEF IInv, TypeOK
    <3>2. \A s \in Slots, i \in Indices :
            s >= num_page_tables => Translation(dir, s, i)' = NoPage /\ <<pde'[dir'][s], i>> \notin pte_user'
      BY <2>3, <3>1 DEF Translation
    <3>3. ~ \E n : n \in 0 .. 0 - 1
      OBVIOUS
    <3> QED
      BY <3>2, <3>3 DEF ProgramAt
  <2>7. LoaderTypeOK'
    <3>1. TypeOK'
      BY <2>2 DEF IInv
    <3> QED
      BY <2>1, <2>3, <3>1 DEF LInv, LoaderTypeOK, code_pages
  <2>8. Stages'
    BY <1>0, <2>1, <2>3 DEF LInv, Stages, Early, Building, code_pages
  <2>9. HeldOnce'
    BY <1>0, <2>1, <2>3, SameUse DEF HeldOnce
  <2>10. WindowOnly'
    BY <2>5, ClosedIsEnough
  <2>11. ProgramOnly'
    <3>1. MappedCount' = 0
      BY <2>1 DEF MappedCount
    <3> QED
      BY <2>6, <3>1 DEF ProgramOnly
  <2>12. FailureFrees' /\ ExitReturnsAll'
    BY <2>1 DEF FailureFrees, ExitReturnsAll
  <2> QED
    BY <2>2, <2>7, <2>8, <2>9, <2>10, <2>11, <2>12 DEF LInv
<1> QED
  BY <1>2, <1>3

-----------------------------------------------------------------------------
(* The program's pages are mapped, one after the other. *)

LEMMA DirFacts ==
  ASSUME LInv, pc \in Building
  PROVE  /\ dir \in dirs /\ dir \in AllDirs /\ dir # KernelDir /\ dir # NoPage
         /\ AllDirs = {dir, KernelDir} /\ dirs = {dir} /\ IInv /\ OneUse /\ ProgramAt(MappedCount)
         /\ KernelDir \in AllDirs
<1>1. dirs = {dir} /\ dir \in Pages /\ IInv /\ OneUse
  BY DEF LInv, Stages, HeldOnce
<1> QED
  BY <1>1, EntryFacts DEF AllDirs, LInv, ProgramOnly

\* The next page of the program is mapped.
LEMMA MapNext ==
  ASSUME LInv, pc \in {"map_code", "map_extra", "map_stack"}, NEW k \in 0 .. code_pages + 1, k = MappedCount,
         k \in ImagePages, vmm_map_page(dir, CodeAddr(k)[1], CodeAddr(k)[2], Image(k), TRUE),
         UNCHANGED <<file_pages, prog, stack, task, dir, loaded, user_virt_pages, drivers>>,
         pc' \in {"extra", "map_extra", "map_stack", "launch"}, MappedCount' = k + 1,
         pi' \in 0 .. code_pages + 1, Stages'
  PROVE  LInv'
<1>0. /\ dir \in dirs /\ dir \in AllDirs /\ dir # KernelDir /\ AllDirs = {dir, KernelDir}
      /\ IInv /\ OneUse /\ ProgramAt(k)
  BY DirFacts DEF Building
<1>1. Closed
  BY ClosedOutside DEF WindowPhases
<1>2. /\ CodeAddr(k)[1] \in Slots /\ CodeAddr(k)[2] \in Indices /\ CodeAddr(k)[1] >= kernel_pdes
      /\ CodeAddr(k)[1] >= num_page_tables
      /\ CodeAddr(k) = <<CodeAddr(k)[1], CodeAddr(k)[2]>>
      /\ \A n \in 0 .. k - 1 : CodeAddr(n) # CodeAddr(k) /\ CodeAddr(n) = <<CodeAddr(n)[1], CodeAddr(n)[2]>>
                                /\ CodeAddr(n)[1] \in Slots /\ CodeAddr(n)[2] \in Indices
  <2>1. file_pages \in Nat /\ file_pages <= MAX_FILE_PAGES
    BY SizeFacts DEF Building
  <2>2. /\ code_pages \in Nat
        /\ \A n \in 0 .. code_pages + 1 : /\ CodeAddr(n) = <<CodeAddr(n)[1], CodeAddr(n)[2]>>
                                           /\ CodeAddr(n)[1] \in Slots /\ CodeAddr(n)[2] \in Indices
                                           /\ CodeAddr(n)[1] >= kernel_pdes
        /\ \A m, n \in 0 .. code_pages + 1 : CodeAddr(m) = CodeAddr(n) => m = n
    BY <2>1, CodeAddrs
  <2>3. \A n \in 0 .. k - 1 : n \in 0 .. code_pages + 1 /\ n # k
    BY <2>2
  <2>4. CodeAddr(k)[1] >= num_page_tables
    BY <2>2, SlotFacts DEF Slots
  <2> QED
    BY <2>2, <2>3, <2>4
<1>3. PICK s \in Slots, i \in Indices : s = CodeAddr(k)[1] /\ i = CodeAddr(k)[2]
  BY <1>2
<1>4. Translation(dir, s, i) = NoPage
  <2>1. <<s, i>> = CodeAddr(k) /\ s >= num_page_tables
    BY <1>2, <1>3
  <2>2. Translation(dir, s, i) # NoPage => \E n \in 0 .. k - 1 : <<s, i>> = CodeAddr(n)
    BY <1>0, <2>1 DEF ProgramAt
  <2> QED
    BY <1>2, <2>1, <2>2
<1>5. PICK p \in held : p = Image(k)
  BY <1>0 DEF OneUse
<1>6. vmm_map_page(dir, s, i, p, TRUE) /\ s >= kernel_pdes /\ s >= num_page_tables
  BY <1>2, <1>3, <1>5
<1>7. /\ UNCHANGED <<held, dirs, current_directory>>
      /\ \A e \in AllDirs, z \in Slots, j \in Indices :
           Translation(e, z, j)' = IF e = dir /\ z = s /\ j = i THEN p ELSE Translation(e, z, j)
      /\ \A e \in AllDirs, z \in Slots, j \in Indices :
           <<pde'[e][z], j>> \in pte_user' =>
             <<pde[e][z], j>> \in pte_user \/ Translation(e, z, j)' # NoPage
      /\ \A z \in Slots : z < kernel_pdes => pde'[KernelDir][z] = pde[KernelDir][z]
  BY <1>0, <1>4, <1>6, MapEffect
<1>8. IInv'
  <2>1. UserMap
    BY <1>0, <1>6 DEF UserMap
  <2> QED
    BY <1>0, <2>1, MapOK
<1>9. Closed'
  BY <1>0, <1>1, <1>7 DEF Closed
<1>10. ImagePages' = ImagePages /\ \A n : Image(n)' = Image(n)
  BY SameImage
<1>11. k + 1 - 1 = k /\ 0 .. k = (0 .. k - 1) \cup {k} /\ p # NoPage
  <2>1. p # NoPage
    BY <1>0, <1>5, EntryFacts DEF IInv, TypeOK
  <2>2. k \in Nat
    BY SizeFacts DEF Building
  <2> QED
    BY <2>1, <2>2
<1>12. ProgramAt(k + 1)'
  <2>1. ASSUME NEW n \in 0 .. k PROVE Translation(dir, CodeAddr(n)[1], CodeAddr(n)[2])' = Image(n)'
    <3>1. CASE n = k
      <4>1. Translation(dir, s, i)' = p
        BY <1>0, <1>7
      <4> QED
        BY <1>3, <1>5, <1>10, <3>1, <4>1 DEF Translation
    <3>2. CASE n # k
      <4>1. n \in 0 .. k - 1
        BY <1>11, <3>2
      <4>2. PICK z \in Slots, j \in Indices : z = CodeAddr(n)[1] /\ j = CodeAddr(n)[2] /\ <<z, j>> # <<s, i>>
        BY <1>2, <1>3, <4>1
      <4>3. Translation(dir, z, j)' = Translation(dir, z, j)
        BY <1>0, <1>7, <4>2
      <4>4. Translation(dir, z, j) = Image(n)
        BY <1>0, <4>1, <4>2 DEF ProgramAt
      <4> QED
        BY <1>10, <4>2, <4>3, <4>4 DEF Translation
    <3> QED
      BY <3>1, <3>2
  <2>2. ASSUME NEW z \in Slots, NEW j \in Indices, z >= num_page_tables
        PROVE  /\ Translation(dir, z, j)' # NoPage => \E n \in 0 .. k : <<z, j>> = CodeAddr(n)
               /\ <<pde'[dir'][z], j>> \in pte_user' => Translation(dir, z, j)' # NoPage
    <3>0. /\ Translation(dir, z, j) # NoPage => \E n \in 0 .. k - 1 : <<z, j>> = CodeAddr(n)
          /\ <<pde[dir][z], j>> \in pte_user => Translation(dir, z, j) # NoPage
      BY <1>0, <2>2 DEF ProgramAt
    <3>1. Translation(dir, z, j)' = IF z = s /\ j = i THEN p ELSE Translation(dir, z, j)
      BY <1>0, <1>7
    <3>2. Translation(dir, z, j)' # NoPage => \E n \in 0 .. k : <<z, j>> = CodeAddr(n)
      <4>1. CASE z = s /\ j = i
        BY <1>2, <1>3, <1>11, <4>1
      <4>2. CASE ~ (z = s /\ j = i)
        BY <1>11, <3>0, <3>1, <4>2
      <4> QED
        BY <4>1, <4>2
    <3>3. <<pde'[dir'][z], j>> \in pte_user' => Translation(dir, z, j)' # NoPage
      <4>1. <<pde'[dir][z], j>> \in pte_user' => <<pde[dir][z], j>> \in pte_user \/ Translation(dir, z, j)' # NoPage
        <5>1. PICK d \in AllDirs : d = dir
          BY <1>0
        <5>2. <<pde'[d][z], j>> \in pte_user' => <<pde[d][z], j>> \in pte_user \/ Translation(d, z, j)' # NoPage
          BY <1>7
        <5> QED
          BY <5>1, <5>2 DEF Translation
      <4> QED
        BY <1>11, <3>0, <3>1, <4>1
    <3> QED
      BY <3>2, <3>3
  <2>3. k + 1 - 1 = k
    BY <1>11
  <2> QED
    BY <2>1, <2>2, <2>3 DEF ProgramAt
<1>13. LoaderTypeOK'
  <2>1. TypeOK' /\ code_pages' = code_pages
    BY <1>8 DEF IInv, code_pages
  <2> QED
    BY <2>1 DEF LInv, LoaderTypeOK
<1>14. HeldOnce'
  BY <1>0, <1>7, SameUse DEF HeldOnce
<1>15. WindowOnly'
  BY <1>9, ClosedIsEnough
<1>16. ProgramOnly'
  BY <1>12 DEF ProgramOnly
<1>17. FailureFrees' /\ ExitReturnsAll'
  BY DEF FailureFrees, ExitReturnsAll
<1> QED
  BY <1>8, <1>13, <1>14, <1>15, <1>16, <1>17 DEF LInv

\* A step that leaves the tables and the program's pages alone.
LEMMA QuietOK ==
  ASSUME LInv, IInv', pc \in Building, pc' \in Building, UNCHANGED <<held, pde, pte, pte_user>>,
         UNCHANGED <<file_pages, prog, stack, task, dir, drivers>>, pi' \in 0 .. code_pages + 1,
         loaded' \in BOOLEAN, user_virt_pages' \subseteq Slots \X Indices, MappedCount' = MappedCount,
         Stages', WindowOnly'
  PROVE  LInv'
<1>0. OneUse /\ ProgramAt(MappedCount)
  BY DirFacts
<1>1. PICK k : k = MappedCount
  OBVIOUS
<1>2. ProgramAt(k)'
  BY <1>0, <1>1, SameProgram, SameImage
<1>3. ProgramOnly'
  BY <1>1, <1>2 DEF ProgramOnly
<1>4. HeldOnce'
  BY <1>0, SameUse DEF HeldOnce
<1>5. LoaderTypeOK'
  <2>1. TypeOK' /\ code_pages' = code_pages
    BY DEF IInv, code_pages
  <2>2. pc' \in {"drivers", "find", "code", "task", "dir", "map_code", "extra", "map_extra",
             "window", "load", "unwindow", "stack", "map_stack", "launch", "running",
             "zombie", "failed", "fault", "halted", "reaped"}
    BY DEF Building
  <2> QED
    BY <2>1, <2>2 DEF LInv, LoaderTypeOK
<1>6. FailureFrees' /\ ExitReturnsAll'
  BY DEF FailureFrees, ExitReturnsAll, Building
<1> QED
  BY <1>3, <1>4, <1>5, <1>6 DEF LInv

\* The pages of the program and of the stack, by their numbers.
LEMMA Elements ==
  ASSUME LInv, pc \in Building
  PROVE  /\ ElementsOf(prog) = {Image(n) : n \in 0 .. Len(prog) - 1}
         /\ ElementsOf(stack) = {Image(n) : n \in Len(prog) .. Len(prog) + Len(stack) - 1}
         /\ ElementsOf(prog) = Code \cup ElementsOf(Tail(prog))
         /\ held = drivers \cup task \cup ElementsOf(prog) \cup ElementsOf(stack)
<1>0. /\ prog \in Seq(Pages) /\ stack \in Seq(Pages) /\ Len(prog) \in Nat /\ Len(stack) \in Nat
      /\ ImagePages = 0 .. Len(prog) + Len(stack) - 1 /\ Len(prog) > 0 /\ OneUse
  BY SizeFacts, CodeIsFirst
<1>1. /\ \A n \in 0 .. Len(prog) - 1 : n + 1 \in DOMAIN prog /\ Image(n) = prog[n + 1]
      /\ \A n \in 0 .. Len(stack) - 1 : n + 1 \in DOMAIN stack /\ Image(Len(prog) + n) = stack[n + 1]
  BY <1>0, ImageFacts
<1>2. ElementsOf(prog) = {Image(n) : n \in 0 .. Len(prog) - 1}
  <2>1. ASSUME NEW m \in DOMAIN prog PROVE \E n \in 0 .. Len(prog) - 1 : prog[m] = Image(n)
    <3>1. m - 1 \in 0 .. Len(prog) - 1 /\ (m - 1) + 1 = m
      BY <1>0
    <3> QED
      BY <1>1, <3>1
  <2> QED
    BY <1>1, <2>1 DEF ElementsOf
<1>3. ElementsOf(stack) = {Image(n) : n \in Len(prog) .. Len(prog) + Len(stack) - 1}
  <2>1. ASSUME NEW m \in DOMAIN stack
        PROVE  \E n \in Len(prog) .. Len(prog) + Len(stack) - 1 : stack[m] = Image(n)
    <3>1. /\ m - 1 \in 0 .. Len(stack) - 1 /\ (m - 1) + 1 = m
          /\ Len(prog) + (m - 1) \in Len(prog) .. Len(prog) + Len(stack) - 1
      BY <1>0
    <3> QED
      BY <1>1, <3>1
  <2>2. ASSUME NEW n \in Len(prog) .. Len(prog) + Len(stack) - 1
        PROVE  \E m \in DOMAIN stack : stack[m] = Image(n)
    <3>1. n - Len(prog) \in 0 .. Len(stack) - 1 /\ Len(prog) + (n - Len(prog)) = n
      BY <1>0
    <3> QED
      BY <1>1, <3>1
  <2> QED
    BY <2>1, <2>2 DEF ElementsOf
<1>4. ElementsOf(prog) = Code \cup ElementsOf(Tail(prog))
  <2>1. /\ DOMAIN prog = 1 .. Len(prog) /\ DOMAIN Tail(prog) = 1 .. Len(prog) - 1
        /\ \A m \in 1 .. Len(prog) - 1 : Tail(prog)[m] = prog[m + 1]
    BY <1>0
  <2>2. ASSUME NEW m \in DOMAIN prog PROVE prog[m] = prog[1] \/ \E j \in DOMAIN Tail(prog) : Tail(prog)[j] = prog[m]
    <3>1. CASE m = 1
      BY <3>1
    <3>2. CASE m # 1
      <4>1. m - 1 \in 1 .. Len(prog) - 1 /\ (m - 1) + 1 = m
        BY <1>0, <2>1, <3>2
      <4> QED
        BY <2>1, <4>1
    <3> QED
      BY <3>1, <3>2
  <2>3. ASSUME NEW j \in DOMAIN Tail(prog) PROVE \E m \in DOMAIN prog : prog[m] = Tail(prog)[j]
    <3>1. j + 1 \in 1 .. Len(prog)
      BY <1>0, <2>1
    <3> QED
      BY <2>1, <3>1
  <2>4. 1 \in DOMAIN prog
    BY <1>0, <2>1
  <2> QED
    BY <2>2, <2>3, <2>4 DEF ElementsOf, Code
<1>5. held = drivers \cup task \cup ElementsOf(prog) \cup ElementsOf(stack)
  <2>1. ImagePages = (0 .. Len(prog) - 1) \cup (Len(prog) .. Len(prog) + Len(stack) - 1)
    BY <1>0
  <2> QED
    BY <1>0, <1>2, <1>3, <2>1 DEF OneUse
<1> QED
  BY <1>2, <1>3, <1>4, <1>5

LEMMA MapCodeOK ==
  ASSUME LInv, MapCode
  PROVE  LInv'
<1>0. /\ pc = "map_code" /\ Len(prog) = 1 /\ stack = <<>> /\ ~ loaded /\ current_directory = KernelDir
      /\ pc \in Building /\ MappedCount = 0
  BY DEF MapCode, LInv, Stages, Early, Building, MappedCount
<1>1. /\ code_pages \in Nat \ {0} /\ ImagePages = {0} /\ Image(0) = prog[1] /\ Code = {Image(0)}
      /\ Code \subseteq held /\ dir # NoPage /\ OneUse
  BY <1>0, SizeFacts, CodeIsFirst, DirFacts
<1>2. CASE MapFails(dir, CodeAddr(0))
  <2>1. Fail({}, Code)
    BY <1>2 DEF MapCode
  <2>2. Closed
    BY <1>0, ClosedOutside DEF WindowPhases
  <2>3. (held \ Code) \ drivers \subseteq (IF dir = NoPage THEN {} ELSE task) \cup (IF loaded THEN ElementsOf(Tail(prog)) ELSE {})
    BY <1>1 DEF OneUse
  <2>4. \A n \in 0 .. MappedCount - 1 : Image(n) \in Code => CodeAddr(n) \in {}
    BY <1>0
  <2> QED
    BY <1>0, <1>1, <2>1, <2>2, <2>3, <2>4, FailOK
<1>3. CASE ~ MapFails(dir, CodeAddr(0))
  <2>1. /\ vmm_map_page(dir, CodeAddr(0)[1], CodeAddr(0)[2], Image(0), TRUE)
        /\ pc' = "extra" /\ UNCHANGED locals
    BY <1>1, <1>3 DEF MapCode
  <2>2. MappedCount' = 0 + 1
    BY <2>1 DEF MappedCount
  <2>3. UNCHANGED <<dirs, current_directory>>
    BY <2>1 DEF vmm_map_page, MapFresh, MapExisting
  <2>4. Stages'
    <3>1. Len(prog) \in 1 .. code_pages
      BY <1>0, <1>1
    <3> QED
      BY <1>0, <2>1, <2>3, <3>1 DEF LInv, Stages, Early, Building, code_pages, locals
  <2>5. 0 \in 0 .. code_pages + 1 /\ 0 \in ImagePages /\ pi' \in 0 .. code_pages + 1
    BY <1>1, <2>1 DEF locals, LInv, LoaderTypeOK
  <2> QED
    BY <1>0, <2>1, <2>2, <2>4, <2>5, MapNext DEF locals
<1> QED
  BY <1>2, <1>3

\* The addresses that an error exit unmaps are the program's.
LEMMA UndoAddrs ==
  ASSUME LInv, pc \in Building, NEW N \in SUBSET (0 .. code_pages + 1), NEW addrs,
         addrs = {CodeAddr(n) : n \in N}
  PROVE  addrs \in SUBSET (Slots \X Indices) /\ \A a \in addrs : a[1] >= kernel_pdes
<1>1. file_pages \in Nat /\ file_pages <= MAX_FILE_PAGES
  BY SizeFacts
<1>2. \A n \in 0 .. code_pages + 1 : CodeAddr(n) \in Slots \X Indices /\ CodeAddr(n)[1] >= kernel_pdes
  BY <1>1, CodeAddrs
<1> QED
  BY <1>2

LEMMA AllocExtraOK ==
  ASSUME LInv, AllocExtra
  PROVE  LInv'
<1>0. /\ pc = "extra" /\ Len(prog) \in 1 .. code_pages /\ stack = <<>> /\ ~ loaded
      /\ current_directory = KernelDir /\ pc \in Building /\ MappedCount = 1
  BY DEF AllocExtra, LInv, Stages, Early, Building, MappedCount
<1>1. /\ code_pages \in Nat \ {0} /\ Len(stack) = 0 /\ ImagePages = 0 .. Len(prog) - 1 /\ Len(prog) \in Nat
      /\ dir # NoPage /\ OneUse /\ prog \in Seq(Pages) /\ IInv
  BY <1>0, SizeFacts, DirFacts
<1>2. Closed
  BY <1>0, ClosedOutside DEF WindowPhases
<1>3. CASE Len(prog) = code_pages
  <2>1. /\ pc' = "map_extra" /\ pi' = 1 /\ UNCHANGED vars
        /\ UNCHANGED <<file_pages, prog, stack, task, dir, loaded, user_virt_pages, drivers>>
    BY <1>3 DEF AllocExtra
  <2>2. IInv'
    BY <1>1, <2>1, StutterOK
  <2>3. MappedCount' = MappedCount
    BY <1>0, <2>1 DEF MappedCount
  <2>4. pi' \in 1 .. code_pages /\ pi' \in 0 .. code_pages + 1 /\ code_pages' = code_pages
    BY <1>1, <2>1 DEF code_pages
  <2>5. Stages'
    BY <1>0, <1>3, <2>1, <2>4 DEF LInv, Stages, Early, Building, vars
  <2>6. WindowOnly'
    BY <1>2, <2>1, SameClosed, ClosedIsEnough DEF vars
  <2>7. pc' \in Building /\ loaded' \in BOOLEAN /\ user_virt_pages' \subseteq Slots \X Indices
    BY <2>1 DEF Building, LInv, LoaderTypeOK
  <2> QED
    BY <1>0, <2>1, <2>2, <2>3, <2>4, <2>5, <2>6, <2>7, QuietOK DEF vars
<1>4. CASE Len(prog) # code_pages /\ free = {}
  <2>1. Fail({CodeAddr(0)}, ElementsOf(prog))
    BY <1>4 DEF AllocExtra, ExtraUndone
  <2>2. held = drivers \cup task \cup ElementsOf(prog)
    <3>1. ElementsOf(stack) = {}
      BY <1>0 DEF ElementsOf
    <3> QED
      BY <1>0, <3>1, Elements
  <2>3. (held \ ElementsOf(prog)) \ drivers \subseteq (IF dir = NoPage THEN {} ELSE task) \cup (IF loaded THEN ElementsOf(Tail(prog)) ELSE {})
    BY <1>1, <2>2
  <2>4. \A n \in 0 .. MappedCount - 1 : Image(n) \in ElementsOf(prog) => CodeAddr(n) \in {CodeAddr(0)}
    BY <1>0
  <2>5. {CodeAddr(0)} \in SUBSET (Slots \X Indices) /\ \A a \in {CodeAddr(0)} : a[1] >= kernel_pdes
    <3>1. {CodeAddr(0)} = {CodeAddr(n) : n \in {0}} /\ {0} \in SUBSET (0 .. code_pages + 1)
      BY <1>1
    <3> QED
      BY <1>0, <3>1, UndoAddrs
  <2> QED
    BY <1>0, <1>2, <2>1, <2>2, <2>3, <2>4, <2>5, FailOK
<1>5. CASE Len(prog) # code_pages /\ free # {}
  <2>1. /\ CallerAlloc /\ prog' = Append(prog, Alloc) /\ pc' = pc
        /\ UNCHANGED <<file_pages, stack, task, dir, pi, loaded, user_virt_pages, drivers>>
    BY <1>5 DEF AllocExtra
  <2>2. Len(prog') = Len(prog) + 1 /\ Len(stack') <= 2
    <3>1. Alloc \in Pages
      BY <1>1, <1>5, AllocFacts DEF IInv, TypeOK
    <3> QED
      BY <1>0, <1>1, <2>1, <3>1
  <2>3. UNCHANGED <<dirs, pde, current_directory>> /\ code_pages' = code_pages
    BY <2>1 DEF CallerAlloc, code_pages
  <2>4. Len(prog') \in 1 .. code_pages
    BY <1>0, <1>1, <1>5, <2>2
  <2>5. Stages'
    BY <1>0, <2>1, <2>3, <2>4 DEF LInv, Stages, Early, Building
  <2>6. \A n \in 0 .. MappedCount - 1 : n \in ImagePages
    BY <1>0, <1>1
  <2>7. pc \notin Early
    BY <1>0 DEF Early
  <2> QED
    BY <1>0, <2>1, <2>2, <2>5, <2>6, <2>7, AllocOK
<1> QED
  BY <1>3, <1>4, <1>5

LEMMA MapExtraOK ==
  ASSUME LInv, MapExtra
  PROVE  LInv'
<1>0. /\ pc = "map_extra" /\ Len(prog) = code_pages /\ stack = <<>> /\ ~ loaded /\ pi \in 1 .. code_pages
      /\ current_directory = KernelDir /\ pc \in Building /\ MappedCount = pi
  BY DEF MapExtra, LInv, Stages, Early, Building, MappedCount
<1>1. /\ code_pages \in Nat \ {0} /\ Len(stack) = 0 /\ ImagePages = 0 .. code_pages - 1
      /\ dir # NoPage /\ OneUse /\ prog \in Seq(Pages) /\ stack \in Seq(Pages) /\ IInv
  BY <1>0, SizeFacts, DirFacts
<1>2. Closed
  BY <1>0, ClosedOutside DEF WindowPhases
<1>3. CASE pi = code_pages
  <2>1. /\ pc' = "window" /\ pi' = 0 /\ UNCHANGED vars
        /\ UNCHANGED <<file_pages, prog, stack, task, dir, loaded, user_virt_pages, drivers>>
    BY <1>3 DEF MapExtra
  <2>2. IInv'
    BY <1>1, <2>1, StutterOK
  <2>3. MappedCount' = MappedCount
    BY <1>0, <1>3, <2>1 DEF MappedCount, code_pages
  <2>4. pi' \in 0 .. code_pages /\ pi' \in 0 .. code_pages + 1 /\ code_pages' = code_pages
    BY <1>1, <2>1 DEF code_pages
  <2>5. Stages'
    BY <1>0, <2>1, <2>4 DEF LInv, Stages, Early, Building, vars
  <2>6. WindowOnly'
    BY <1>2, <2>1, SameClosed, ClosedIsEnough DEF vars
  <2>7. pc' \in Building /\ loaded' \in BOOLEAN /\ user_virt_pages' \subseteq Slots \X Indices
    BY <2>1 DEF Building, LInv, LoaderTypeOK
  <2> QED
    BY <1>0, <2>1, <2>2, <2>3, <2>4, <2>5, <2>6, <2>7, QuietOK DEF vars
<1>4. CASE pi # code_pages /\ MapFails(dir, CodeAddr(pi))
  <2>1. Fail(MappedSoFar, ElementsOf(prog))
    BY <1>4 DEF MapExtra
  <2>2. held = drivers \cup task \cup ElementsOf(prog)
    <3>1. ElementsOf(stack) = {}
      BY <1>0 DEF ElementsOf
    <3> QED
      BY <1>0, <3>1, Elements
  <2>3. (held \ ElementsOf(prog)) \ drivers \subseteq (IF dir = NoPage THEN {} ELSE task) \cup (IF loaded THEN ElementsOf(Tail(prog)) ELSE {})
    BY <1>1, <2>2
  <2>4. \A n \in 0 .. MappedCount - 1 : Image(n) \in ElementsOf(prog) => CodeAddr(n) \in MappedSoFar
    BY <1>0 DEF MappedSoFar
  <2>5. MappedSoFar \in SUBSET (Slots \X Indices) /\ \A a \in MappedSoFar : a[1] >= kernel_pdes
    <3>1. PICK N \in SUBSET (0 .. code_pages + 1) : N = 0 .. pi - 1
      BY <1>0, <1>1
    <3>2. MappedSoFar = {CodeAddr(n) : n \in N}
      BY <3>1 DEF MappedSoFar
    <3> QED
      BY <1>0, <3>2, UndoAddrs
  <2> QED
    BY <1>0, <1>2, <2>1, <2>2, <2>3, <2>4, <2>5, FailOK
<1>5. CASE pi # code_pages /\ ~ MapFails(dir, CodeAddr(pi))
  <2>0. PICK k \in 0 .. code_pages + 1 : k = pi
    BY <1>0, <1>1
  <2>1. /\ vmm_map_page(dir, CodeAddr(k)[1], CodeAddr(k)[2], prog[k + 1], TRUE) /\ pi' = k + 1 /\ pc' = pc
        /\ UNCHANGED <<file_pages, prog, stack, task, dir, loaded, user_virt_pages, drivers>>
    BY <1>5, <2>0 DEF MapExtra
  <2>2. k \in ImagePages /\ k \in 0 .. Len(prog) - 1 /\ pi' \in 1 .. code_pages /\ pi' \in 0 .. code_pages + 1
    BY <1>0, <1>1, <1>5, <2>0, <2>1
  <2>3. Image(k) = prog[k + 1]
    BY <1>1, <2>2, ImageFacts
  <2>4. MappedCount' = k + 1
    BY <1>0, <2>1 DEF MappedCount
  <2>5. UNCHANGED <<dirs, current_directory>> /\ code_pages' = code_pages
    BY <2>1 DEF vmm_map_page, MapFresh, MapExisting, code_pages
  <2>6. Stages'
    BY <1>0, <2>1, <2>2, <2>5 DEF LInv, Stages, Early, Building
  <2> QED
    BY <1>0, <2>0, <2>1, <2>2, <2>3, <2>4, <2>6, MapNext
<1> QED
  BY <1>3, <1>4, <1>5

LEMMA AllocStackOK ==
  ASSUME LInv, AllocStack
  PROVE  LInv'
<1>0. /\ pc = "stack" /\ Len(prog) = code_pages /\ loaded
      /\ current_directory = KernelDir /\ pc \in Building /\ MappedCount = code_pages
  BY DEF AllocStack, LInv, Stages, Early, Building, MappedCount
<1>1. /\ code_pages \in Nat \ {0} /\ ImagePages = 0 .. Len(prog) + Len(stack) - 1 /\ Len(stack) \in Nat /\ Len(stack) <= 2
      /\ dir # NoPage /\ OneUse /\ stack \in Seq(Pages) /\ IInv
  BY <1>0, SizeFacts, DirFacts DEF LInv, LoaderTypeOK
<1>2. Closed
  BY <1>0, ClosedOutside DEF WindowPhases
<1>3. CASE Len(stack) = 2
  <2>1. /\ pc' = "map_stack" /\ pi' = 0 /\ UNCHANGED vars
        /\ UNCHANGED <<file_pages, prog, stack, task, dir, loaded, user_virt_pages, drivers>>
    BY <1>3 DEF AllocStack
  <2>2. IInv'
    BY <1>1, <2>1, StutterOK
  <2>3. code_pages' = code_pages
    BY <2>1 DEF code_pages
  <2>4. pi' \in 0 .. 1 /\ pi' \in 0 .. code_pages + 1 /\ code_pages + 0 = code_pages
    BY <1>1, <2>1
  <2>5. MappedCount' = MappedCount
    BY <1>0, <2>1, <2>3, <2>4 DEF MappedCount
  <2>6. Stages'
    BY <1>0, <1>3, <2>1, <2>3, <2>4 DEF LInv, Stages, Early, Building, vars
  <2>7. WindowOnly'
    BY <1>2, <2>1, SameClosed, ClosedIsEnough DEF vars
  <2>8. pc' \in Building /\ loaded' \in BOOLEAN /\ user_virt_pages' \subseteq Slots \X Indices
    BY <2>1 DEF Building, LInv, LoaderTypeOK
  <2> QED
    BY <1>0, <2>1, <2>2, <2>4, <2>5, <2>6, <2>7, <2>8, QuietOK DEF vars
<1>4. CASE Len(stack) # 2 /\ free = {}
  <2> DEFINE P == ElementsOf(stack) \cup Code
  <2>1. Fail({CodeAddr(0)}, P)
    BY <1>4 DEF AllocStack
  <2>2. /\ held = drivers \cup task \cup ElementsOf(prog) \cup ElementsOf(stack)
        /\ ElementsOf(prog) = Code \cup ElementsOf(Tail(prog))
        /\ ElementsOf(stack) = {Image(n) : n \in Len(prog) .. Len(prog) + Len(stack) - 1}
        /\ Code = {Image(0)} /\ 0 \in ImagePages
    BY <1>0, Elements, CodeIsFirst
  <2>3. (held \ P) \ drivers \subseteq (IF dir = NoPage THEN {} ELSE task) \cup (IF loaded THEN ElementsOf(Tail(prog)) ELSE {})
    BY <1>0, <1>1, <2>2
  <2>4. \A n \in 0 .. MappedCount - 1 : Image(n) \in P => CodeAddr(n) \in {CodeAddr(0)}
    <3> SUFFICES ASSUME NEW n \in 0 .. MappedCount - 1, Image(n) \in P PROVE n = 0
      OBVIOUS
    <3>1. n \in ImagePages /\ n < Len(prog)
      BY <1>0, <1>1
    <3>2. PICK m \in ImagePages : Image(n) = Image(m) /\ (m = 0 \/ m >= Len(prog))
      <4>1. CASE Image(n) \in Code
        BY <2>2, <4>1
      <4>2. CASE Image(n) \in ElementsOf(stack)
        <5>1. PICK m \in Len(prog) .. Len(prog) + Len(stack) - 1 : Image(n) = Image(m)
          BY <2>2, <4>2
        <5>2. m \in ImagePages /\ m >= Len(prog)
          BY <1>0, <1>1
        <5> QED
          BY <5>1, <5>2
      <4> QED
        BY <4>1, <4>2
    <3>3. n = m
      BY <1>1, <3>1, <3>2 DEF OneUse
    <3> QED
      BY <1>0, <1>1, <3>1, <3>2, <3>3
  <2>5. {CodeAddr(0)} \in SUBSET (Slots \X Indices) /\ \A a \in {CodeAddr(0)} : a[1] >= kernel_pdes
    <3>1. {CodeAddr(0)} = {CodeAddr(n) : n \in {0}} /\ {0} \in SUBSET (0 .. code_pages + 1)
      BY <1>1
    <3> QED
      BY <1>0, <3>1, UndoAddrs
  <2>6. P \in SUBSET held
    BY <2>2
  <2> HIDE DEF P
  <2> QED
    BY <1>0, <1>2, <2>1, <2>3, <2>4, <2>5, <2>6, FailOK
<1>5. CASE Len(stack) # 2 /\ free # {}
  <2>1. /\ CallerAlloc /\ stack' = Append(stack, Alloc) /\ pc' = pc
        /\ UNCHANGED <<file_pages, prog, task, dir, pi, loaded, user_virt_pages, drivers>>
    BY <1>5 DEF AllocStack
  <2>2. Len(stack') <= 2
    <3>1. Alloc \in Pages
      BY <1>1, <1>5, AllocFacts DEF IInv, TypeOK
    <3>2. Len(stack') = Len(stack) + 1
      BY <1>1, <2>1, <3>1
    <3>3. Len(stack) \in Nat /\ Len(stack) <= 2
      BY <1>1 DEF LInv, LoaderTypeOK
    <3>4. \A n \in Nat : n <= 2 /\ n # 2 => n + 1 <= 2
      OBVIOUS
    <3> QED
      BY <1>5, <3>2, <3>3, <3>4, Zenon
  <2>3. UNCHANGED <<dirs, pde, current_directory>> /\ code_pages' = code_pages
    BY <2>1 DEF CallerAlloc, code_pages
  <2>5. Stages'
    BY <1>0, <2>1, <2>3 DEF LInv, Stages, Early, Building
  <2>6. \A n \in 0 .. MappedCount - 1 : n \in ImagePages
    BY <1>0, <1>1
  <2>7. pc \notin Early
    BY <1>0 DEF Early
  <2> QED
    BY <1>0, <2>1, <2>2, <2>5, <2>6, <2>7, AllocOK
<1> QED
  BY <1>3, <1>4, <1>5

LEMMA MapStackOK ==
  ASSUME LInv, MapStack
  PROVE  LInv'
<1>0. /\ pc = "map_stack" /\ Len(prog) = code_pages /\ Len(stack) = 2 /\ loaded /\ pi \in 0 .. 1
      /\ current_directory = KernelDir /\ pc \in Building /\ MappedCount = code_pages + pi
  BY DEF MapStack, LInv, Stages, Early, Building, MappedCount
<1>1. /\ code_pages \in Nat \ {0} /\ ImagePages = 0 .. Len(prog) + Len(stack) - 1
      /\ dir # NoPage /\ OneUse /\ stack \in Seq(Pages) /\ prog \in Seq(Pages) /\ IInv
  BY <1>0, SizeFacts, DirFacts
<1>2. Closed
  BY <1>0, ClosedOutside DEF WindowPhases
<1>4. CASE MapFails(dir, StackAddr(pi))
  <2> DEFINE P == ElementsOf(stack) \cup Code
  <2>1. Fail(StackUndone, P)
    BY <1>4 DEF MapStack
  <2>2. /\ held = drivers \cup task \cup ElementsOf(prog) \cup ElementsOf(stack)
        /\ ElementsOf(prog) = Code \cup ElementsOf(Tail(prog))
        /\ ElementsOf(stack) = {Image(n) : n \in Len(prog) .. Len(prog) + Len(stack) - 1}
        /\ Code = {Image(0)} /\ 0 \in ImagePages
    BY <1>0, Elements, CodeIsFirst
  <2>3. (held \ P) \ drivers \subseteq (IF dir = NoPage THEN {} ELSE task) \cup (IF loaded THEN ElementsOf(Tail(prog)) ELSE {})
    BY <1>0, <1>1, <2>2
  <2>4. PICK N \in SUBSET (0 .. code_pages + 1) : N = {0} \cup (code_pages .. code_pages + pi - 1)
    <3>1. ASSUME NEW n \in {0} \cup (code_pages .. code_pages + pi - 1) PROVE n \in 0 .. code_pages + 1
      BY <1>0, <1>1
    <3> QED
      BY <3>1
  <2>5. StackUndone = {CodeAddr(n) : n \in N}
    <3>1. \A n \in 0 .. pi - 1 : StackAddr(n) = CodeAddr(code_pages + n) /\ code_pages + n \in N
      BY <1>0, <1>1, <2>4 DEF StackAddr
    <3>2. ASSUME NEW n \in code_pages .. code_pages + pi - 1 PROVE \E m \in 0 .. pi - 1 : CodeAddr(n) = StackAddr(m)
      <4>1. n - code_pages \in 0 .. pi - 1 /\ code_pages + (n - code_pages) = n
        BY <1>0, <1>1
      <4> QED
        BY <4>1 DEF StackAddr
    <3> QED
      BY <2>4, <3>1, <3>2 DEF StackUndone
  <2>6. StackUndone \in SUBSET (Slots \X Indices) /\ \A a \in StackUndone : a[1] >= kernel_pdes
    BY <1>0, <2>5, UndoAddrs
  <2>7. \A n \in 0 .. MappedCount - 1 : Image(n) \in P => CodeAddr(n) \in StackUndone
    <3> SUFFICES ASSUME NEW n \in 0 .. MappedCount - 1, Image(n) \in P PROVE n \in N
      BY <2>5
    <3>1. n \in ImagePages /\ n < code_pages + pi
      BY <1>0, <1>1
    <3>2. PICK m \in ImagePages : Image(n) = Image(m) /\ (m = 0 \/ m >= Len(prog))
      <4>1. CASE Image(n) \in Code
        BY <2>2, <4>1
      <4>2. CASE Image(n) \in ElementsOf(stack)
        <5>1. PICK m \in Len(prog) .. Len(prog) + Len(stack) - 1 : Image(n) = Image(m)
          BY <2>2, <4>2
        <5>2. m \in ImagePages /\ m >= Len(prog)
          BY <1>0, <1>1
        <5> QED
          BY <5>1, <5>2
      <4> QED
        BY <4>1, <4>2
    <3>3. n = m
      BY <1>1, <3>1, <3>2 DEF OneUse
    <3> QED
      BY <1>0, <1>1, <2>4, <3>1, <3>2, <3>3
  <2>8. P \in SUBSET held
    BY <2>2
  <2> HIDE DEF P
  <2> QED
    BY <1>0, <1>2, <2>1, <2>3, <2>6, <2>7, <2>8, FailOK
<1>5. CASE ~ MapFails(dir, StackAddr(pi))
  <2>0. PICK k \in 0 .. code_pages + 1 : k = code_pages + pi
    BY <1>0, <1>1
  <2>1. /\ vmm_map_page(dir, CodeAddr(k)[1], CodeAddr(k)[2], stack[pi + 1], TRUE) /\ pi' = pi + 1
        /\ pc' = IF pi = 1 THEN "launch" ELSE "map_stack"
        /\ UNCHANGED <<file_pages, prog, stack, task, dir, loaded, user_virt_pages, drivers>>
    BY <1>5, <2>0 DEF MapStack, StackAddr
  <2>2. k \in ImagePages /\ k = MappedCount /\ pi \in 0 .. Len(stack) - 1 /\ k = Len(prog) + pi
    BY <1>0, <1>1, <2>0
  <2>3. Image(k) = stack[pi + 1]
    BY <1>1, <2>2, ImageFacts
  <2>4. UNCHANGED <<dirs, current_directory>> /\ code_pages' = code_pages
    BY <2>1 DEF vmm_map_page, MapFresh, MapExisting, code_pages
  <2>5. pi' \in 0 .. code_pages + 1 /\ (pi # 1 => pi' = 1) /\ (pi = 1 => pi' = 2)
    BY <1>0, <1>1, <2>1
  <2>6. MappedCount' = k + 1
    <3>1. CASE pi = 1
      <4>1. k + 1 = code_pages + 2
        BY <1>1, <2>0, <3>1
      <4> QED
        BY <2>1, <2>4, <3>1, <4>1 DEF MappedCount
    <3>2. CASE pi # 1
      <4>1. k + 1 = code_pages + 1
        BY <1>0, <1>1, <2>0, <3>2
      <4> QED
        BY <2>1, <2>4, <2>5, <3>2, <4>1 DEF MappedCount
    <3> QED
      BY <3>1, <3>2
  <2>7. pc' \in {"map_stack", "launch"} /\ (pc' = "map_stack" => pi' \in 0 .. 1)
    BY <2>1, <2>5
  <2>8. Stages'
    BY <1>0, <2>1, <2>4, <2>7 DEF LInv, Stages, Early, Building
  <2> QED
    BY <1>0, <2>1, <2>2, <2>3, <2>5, <2>6, <2>7, <2>8, MapNext
<1> QED
  BY <1>4, <1>5

\* A page of the program is mapped in the window: the program's directory is untouched.
LEMMA WindowStep ==
  ASSUME LInv, pc = "window", NEW k \in 0 .. code_pages - 1, k = pi, pi' = pi + 1, pc' = pc,
         vmm_map_page(KernelDir, LoadAddr(k)[1], LoadAddr(k)[2], prog[k + 1], FALSE),
         UNCHANGED <<file_pages, prog, stack, task, dir, loaded, user_virt_pages, drivers>>
  PROVE  LInv'
<1>0. /\ Len(prog) = code_pages /\ current_directory = KernelDir /\ pc \in Building
      /\ MappedCount = code_pages
  BY DEF LInv, Stages, Early, Building, MappedCount
<1>1. /\ dir \in dirs /\ dir \in AllDirs /\ dir # KernelDir /\ AllDirs = {dir, KernelDir}
      /\ IInv /\ OneUse /\ ProgramAt(code_pages) /\ KernelDir \in AllDirs
  BY <1>0, DirFacts
<1>2. /\ code_pages \in Nat \ {0} /\ file_pages \in Nat /\ file_pages <= MAX_FILE_PAGES
      /\ prog \in Seq(Pages) /\ stack \in Seq(Pages) /\ ImagePages = 0 .. Len(prog) + Len(stack) - 1
  BY <1>0, SizeFacts
<1>3. /\ LoadAddr(k) = <<LoadAddr(k)[1], LoadAddr(k)[2]>>
      /\ LoadAddr(k)[1] \in Slots /\ LoadAddr(k)[2] \in Indices /\ LoadAddr(k)[1] >= kernel_pdes
      /\ \A m \in 0 .. code_pages - 1 : LoadAddr(m) = LoadAddr(k) => m = k
  BY <1>2, CodeAddrs
<1>4. PICK s \in Slots, i \in Indices : s = LoadAddr(k)[1] /\ i = LoadAddr(k)[2]
  BY <1>3
<1>5. <<s, i>> = LoadAddr(k) /\ s >= kernel_pdes /\ s >= num_page_tables
  BY <1>3, <1>4, SlotFacts DEF Slots
<1>6. PICK p \in held : p = prog[k + 1]
  <2>1. k \in ImagePages /\ k \in 0 .. Len(prog) - 1
    BY <1>0, <1>2, ImageFacts
  <2>2. Image(k) = prog[k + 1]
    BY <1>2, <2>1, ImageFacts
  <2> QED
    BY <1>1, <2>1, <2>2 DEF OneUse
<1>7. Translation(KernelDir, s, i) = NoPage
  <2>1. Translation(KernelDir, s, i) # NoPage => \E n \in 0 .. code_pages - 1 : <<s, i>> = LoadAddr(n) /\ n < pi
    BY <1>5 DEF LInv, WindowOnly
  <2>2. ~ (k < pi)
    BY <1>2
  <2> QED
    BY <1>3, <1>5, <2>1, <2>2
<1>8. vmm_map_page(KernelDir, s, i, p, FALSE)
  BY <1>4, <1>6
<1>9. /\ UNCHANGED <<held, dirs, current_directory>>
      /\ \A e \in AllDirs, z \in Slots, j \in Indices :
           Translation(e, z, j)' = IF e = KernelDir /\ z = s /\ j = i THEN p ELSE Translation(e, z, j)
      /\ \A e \in AllDirs, z \in Slots, j \in Indices :
           <<pde'[e][z], j>> \in pte_user' =>
             <<pde[e][z], j>> \in pte_user \/ Translation(e, z, j)' # NoPage
      /\ \A z \in Slots : z < kernel_pdes => pde'[KernelDir][z] = pde[KernelDir][z]
  BY <1>1, <1>5, <1>7, <1>8, MapEffect
<1>10. IInv'
  <2>1. WindowMap
    BY <1>5, <1>8 DEF WindowMap
  <2> QED
    BY <1>1, <2>1, MapOK
<1>11. ImagePages' = ImagePages /\ \A n : Image(n)' = Image(n)
  BY SameImage
<1>12. code_pages' = code_pages /\ MappedCount' = code_pages
  BY DEF code_pages, MappedCount
<1>13. \A z \in Slots, j \in Indices :
         /\ Translation(dir, z, j)' = Translation(dir, z, j)
         /\ <<pde'[dir'][z], j>> \in pte_user' => <<pde[dir][z], j>> \in pte_user \/ Translation(dir, z, j)' # NoPage
  <2>1. PICK d \in AllDirs : d = dir /\ d # KernelDir /\ d = dir'
    BY <1>1
  <2>2. \A z \in Slots, j \in Indices :
          /\ Translation(d, z, j)' = Translation(d, z, j)
          /\ <<pde'[d][z], j>> \in pte_user' => <<pde[d][z], j>> \in pte_user \/ Translation(d, z, j)' # NoPage
    BY <1>9, <2>1
  <2> QED
    BY <2>1, <2>2 DEF Translation
<1>14. PICK c \in Nat : c = code_pages
  BY <1>2
<1>15. ProgramAt(c)'
  <2>1. ASSUME NEW n \in 0 .. c - 1 PROVE Translation(dir, CodeAddr(n)[1], CodeAddr(n)[2])' = Image(n)'
    <3>1. n \in 0 .. code_pages + 1
      BY <1>2, <1>14
    <3>2. CodeAddr(n)[1] \in Slots /\ CodeAddr(n)[2] \in Indices
      BY <1>2, <3>1, CodeAddrs
    <3>3. Translation(dir, CodeAddr(n)[1], CodeAddr(n)[2]) = Image(n)
      BY <1>1, <1>14 DEF ProgramAt
    <3>4. PICK z \in Slots, j \in Indices : z = CodeAddr(n)[1] /\ j = CodeAddr(n)[2]
      BY <3>2
    <3>5. Translation(dir, z, j)' = Image(n)
      BY <1>13, <3>3, <3>4
    <3> QED
      BY <1>11, <3>4, <3>5 DEF Translation
  <2>2. ASSUME NEW z \in Slots, NEW j \in Indices, z >= num_page_tables
        PROVE  /\ Translation(dir, z, j)' # NoPage => \E n \in 0 .. c - 1 : <<z, j>> = CodeAddr(n)
               /\ <<pde'[dir'][z], j>> \in pte_user' => Translation(dir, z, j)' # NoPage
    <3>0. /\ Translation(dir, z, j) # NoPage => \E n \in 0 .. c - 1 : <<z, j>> = CodeAddr(n)
          /\ <<pde[dir][z], j>> \in pte_user => Translation(dir, z, j) # NoPage
      BY <1>1, <1>14, <2>2 DEF ProgramAt
    <3> QED
      BY <1>13, <3>0
  <2> QED
    BY <2>1, <2>2 DEF ProgramAt
<1>16. ProgramOnly'
  BY <1>12, <1>14, <1>15 DEF ProgramOnly
<1>17. WindowOnly'
  <2> SUFFICES ASSUME NEW z \in Slots, NEW j \in Indices, z >= num_page_tables, Translation(KernelDir, z, j)' # NoPage
               PROVE  \E n \in 0 .. code_pages - 1 : /\ <<z, j>> = LoadAddr(n)
                                                      /\ Translation(KernelDir, z, j)' = prog[n + 1]
                                                      /\ n < pi + 1
    BY <1>12 DEF WindowOnly
  <2>1. Translation(KernelDir, z, j)' = IF z = s /\ j = i THEN p ELSE Translation(KernelDir, z, j)
    BY <1>1, <1>9
  <2>2. CASE z = s /\ j = i
    <3>1. <<z, j>> = LoadAddr(k) /\ Translation(KernelDir, z, j)' = prog[k + 1] /\ k < pi + 1
      BY <1>2, <1>5, <1>6, <2>1, <2>2
    <3> QED
      BY <3>1
  <2>3. CASE ~ (z = s /\ j = i)
    <3>1. PICK n \in 0 .. code_pages - 1 : <<z, j>> = LoadAddr(n) /\ Translation(KernelDir, z, j) = prog[n + 1] /\ n < pi
      BY <2>1, <2>3 DEF LInv, WindowOnly
    <3>2. n < pi + 1
      BY <1>2, <3>1
    <3> QED
      BY <2>1, <2>3, <3>1, <3>2
  <2> QED
    BY <2>2, <2>3
<1>18. LoaderTypeOK'
  <2>1. TypeOK' /\ pi' \in 0 .. code_pages + 1
    BY <1>2, <1>10 DEF IInv
  <2> QED
    BY <1>12, <2>1 DEF LInv, LoaderTypeOK
<1>19. Stages'
  <2>1. pi' \in 0 .. code_pages
    BY <1>2
  <2> QED
    BY <1>9, <1>12, <2>1 DEF LInv, Stages, Early, Building
<1>20. HeldOnce'
  BY <1>1, <1>9, SameUse DEF HeldOnce
<1>21. FailureFrees' /\ ExitReturnsAll'
  BY DEF FailureFrees, ExitReturnsAll
<1> QED
  BY <1>10, <1>16, <1>17, <1>18, <1>19, <1>20, <1>21 DEF LInv

LEMMA MapWindowOK ==
  ASSUME LInv, MapWindow
  PROVE  LInv'
<1>0. /\ pc = "window" /\ current_directory = KernelDir /\ pc \in Building /\ pi \in 0 .. code_pages
      /\ UNCHANGED <<file_pages, prog, stack, task, dir, loaded, user_virt_pages, drivers>>
      /\ loaded \in BOOLEAN /\ user_virt_pages \subseteq Slots \X Indices
  BY DEF MapWindow, LInv, Stages, Early, Building, LoaderTypeOK
<1>1. code_pages \in Nat \ {0} /\ IInv /\ code_pages' = code_pages
  BY <1>0, SizeFacts DEF LInv, code_pages
<1>2. ASSUME UNCHANGED vars, pc' \in {"window", "load"}, pi' \in 0 .. code_pages, pi <= pi'
      PROVE  LInv'
  <2>1. IInv'
    BY <1>1, <1>2, StutterOK
  <2>2. MappedCount' = MappedCount /\ pi' \in 0 .. code_pages + 1 /\ pc' \in Building
    BY <1>0, <1>1, <1>2 DEF MappedCount, Building
  <2>3. UNCHANGED <<held, dirs, pde, pte, pte_user, current_directory>>
    BY <1>2 DEF vars
  <2>4. Stages'
    BY <1>0, <1>1, <1>2, <2>3 DEF LInv, Stages, Early, Building
  <2>5. WindowOnly'
    <3>1. \A s, i : Translation(KernelDir, s, i)' = Translation(KernelDir, s, i)
      BY <2>3 DEF Translation
    <3>2. \A n \in 0 .. code_pages - 1 : n < pi => n < pi'
      BY <1>0, <1>1, <1>2
    <3> QED
      BY <1>0, <1>1, <1>2, <3>1, <3>2 DEF LInv, WindowOnly
  <2> QED
    BY <1>0, <2>1, <2>2, <2>3, <2>4, <2>5, QuietOK
<1>3. CASE pi = code_pages
  <2>1. UNCHANGED vars /\ pc' = "load" /\ pi' = pi
    BY <1>3 DEF MapWindow
  <2>2. pi' \in 0 .. code_pages /\ pi <= pi'
    BY <1>0, <1>1, <2>1
  <2> QED
    BY <1>2, <2>1, <2>2
<1>4. CASE pi # code_pages /\ UNCHANGED vars
  <2>1. pc' = "window" /\ pi' = pi + 1
    BY <1>0, <1>4 DEF MapWindow
  <2>2. pi' \in 0 .. code_pages /\ pi <= pi'
    BY <1>0, <1>1, <1>4, <2>1
  <2> QED
    BY <1>2, <1>4, <2>1, <2>2
<1>5. CASE pi # code_pages /\ ~ UNCHANGED vars
  <2>1. PICK k \in 0 .. code_pages - 1 : k = pi
    BY <1>0, <1>1, <1>5
  <2>2. /\ vmm_map_page(KernelDir, LoadAddr(k)[1], LoadAddr(k)[2], prog[k + 1], FALSE)
        /\ pi' = pi + 1 /\ pc' = pc
    BY <1>0, <1>5, <2>1 DEF MapWindow, WindowPage
  <2> QED
    BY <1>0, <2>1, <2>2, WindowStep
<1> QED
  BY <1>3, <1>4, <1>5

LEMMA LoadFileOK ==
  ASSUME LInv, LoadFile
  PROVE  LInv'
<1>0. /\ pc = "load" /\ pc \in Building /\ UNCHANGED <<file_pages, prog, stack, task, dir, user_virt_pages, drivers>>
      /\ UNCHANGED vars /\ pi' = pi /\ pc' \in {"fault", "unwindow"} /\ loaded' \in BOOLEAN
      /\ user_virt_pages \subseteq Slots \X Indices /\ pi \in 0 .. code_pages + 1
  BY DEF LoadFile, LInv, LoaderTypeOK, Building
<1>1. IInv' /\ code_pages' = code_pages
  BY <1>0, StutterOK DEF LInv, code_pages
<1>2. MappedCount' = MappedCount /\ pc' \in Building
  BY <1>0, <1>1 DEF MappedCount, Building
<1>3. UNCHANGED <<held, dirs, pde, pte, pte_user, current_directory>>
  BY <1>0 DEF vars
<1>4. Stages'
  BY <1>0, <1>1, <1>3 DEF LInv, Stages, Early, Building
<1>5. WindowOnly'
  <2>1. \A s, i : Translation(KernelDir, s, i)' = Translation(KernelDir, s, i)
    BY <1>3 DEF Translation
  <2> QED
    BY <1>0, <1>1, <2>1 DEF LInv, WindowOnly
<1> QED
  BY <1>0, <1>1, <1>2, <1>3, <1>4, <1>5, QuietOK

\* The window is taken down; the program's directory is untouched.
LEMMA UnmapWindowOK ==
  ASSUME LInv, UnmapWindow
  PROVE  LInv'
<1>0. /\ pc = "unwindow" /\ pc \in Building /\ current_directory = KernelDir /\ MappedCount = code_pages
      /\ Cleared(KernelDir, WindowAddrs) /\ pc' = IF loaded THEN "stack" ELSE "halted"
      /\ UNCHANGED <<free, held, dirs, pde, pde_user, current_directory>>
      /\ UNCHANGED <<file_pages, prog, stack, task, dir, pi, loaded, user_virt_pages, drivers>>
  BY DEF UnmapWindow, LInv, Stages, Early, Building, MappedCount, locals
<1>1. /\ dir \in dirs /\ dir \in AllDirs /\ dir # KernelDir /\ AllDirs = {dir, KernelDir}
      /\ IInv /\ OneUse /\ ProgramAt(code_pages) /\ KernelDir \in AllDirs
  BY <1>0, DirFacts
<1>2. code_pages \in Nat \ {0} /\ file_pages \in Nat /\ file_pages <= MAX_FILE_PAGES
  BY <1>0, SizeFacts
<1>3. PICK W \in SUBSET (Slots \X Indices) : W = WindowAddrs /\ \A a \in W : a[1] >= kernel_pdes
  <2>1. \A n \in 0 .. code_pages - 1 : LoadAddr(n) \in Slots \X Indices /\ LoadAddr(n)[1] >= kernel_pdes
    BY <1>2, CodeAddrs
  <2>2. WindowAddrs \in SUBSET (Slots \X Indices)
    BY <2>1 DEF WindowAddrs
  <2>3. \A a \in WindowAddrs : a[1] >= kernel_pdes
    BY <2>1 DEF WindowAddrs
  <2> QED
    BY <2>2, <2>3
<1>4. Cleared(KernelDir, W) /\ UNCHANGED pde
  BY <1>0, <1>3
<1>5. /\ \A e \in AllDirs, z \in Slots, k \in Indices :
           /\ Translation(e, z, k)' = IF e = KernelDir /\ <<z, k>> \in W THEN NoPage ELSE Translation(e, z, k)
           /\ <<pde[e][z], k>> \in pte_user' =>
                <<pde[e][z], k>> \in pte_user /\ ~ (e = KernelDir /\ <<z, k>> \in W)
  BY <1>1, <1>3, <1>4, ClearEffect
<1>6. IInv'
  <2>1. PICK P \in SUBSET held : P = {}
    OBVIOUS
  <2>2. free' = free \cup P /\ held' = held \ P
    BY <1>0, <2>1
  <2>3. \A e \in AllDirs, s \in Slots, i \in Indices : s >= num_page_tables => Translation(e, s, i)' \notin P
    BY <2>1
  <2>4. UNCHANGED <<dirs, pde, pde_user, current_directory>>
    BY <1>0
  <2> QED
    BY <1>1, <1>3, <1>4, <2>2, <2>3, <2>4, UndoOK
<1>7. Closed'
  <2> SUFFICES ASSUME NEW s \in Slots, NEW i \in Indices, s >= num_page_tables PROVE Translation(KernelDir, s, i)' = NoPage
    BY DEF Closed
  <2>1. Translation(KernelDir, s, i) # NoPage => <<s, i>> \in W
    BY <1>3 DEF LInv, WindowOnly, WindowAddrs
  <2> QED
    BY <1>1, <1>5, <2>1
<1>8. code_pages' = code_pages /\ pc' \in {"stack", "halted"} /\ (pc' = "stack" => loaded)
  BY <1>0 DEF code_pages
<1>9. MappedCount' = code_pages
  BY <1>8 DEF MappedCount
<1>10. PICK c \in Nat : c = code_pages
  BY <1>2
<1>11. ProgramAt(c)'
  <2>0. PICK d \in AllDirs : d = dir /\ d # KernelDir /\ d = dir'
    BY <1>0, <1>1
  <2>1. \A z \in Slots, j \in Indices :
          /\ Translation(d, z, j)' = Translation(d, z, j)
          /\ <<pde[d][z], j>> \in pte_user' => <<pde[d][z], j>> \in pte_user
    BY <1>5, <2>0
  <2>2. ASSUME NEW n \in 0 .. c - 1 PROVE Translation(dir, CodeAddr(n)[1], CodeAddr(n)[2])' = Image(n)'
    <3>1. n \in 0 .. code_pages + 1
      BY <1>2, <1>10
    <3>2. CodeAddr(n)[1] \in Slots /\ CodeAddr(n)[2] \in Indices
      BY <1>2, <3>1, CodeAddrs
    <3>3. Translation(dir, CodeAddr(n)[1], CodeAddr(n)[2]) = Image(n)
      BY <1>1, <1>10 DEF ProgramAt
    <3>4. PICK z \in Slots, j \in Indices : z = CodeAddr(n)[1] /\ j = CodeAddr(n)[2]
      BY <3>2
    <3>5. Translation(d, z, j)' = Image(n)
      BY <2>0, <2>1, <3>3, <3>4
    <3>6. Image(n)' = Image(n)
      BY <1>0, SameImage
    <3> QED
      BY <2>0, <3>4, <3>5, <3>6 DEF Translation
  <2>3. ASSUME NEW z \in Slots, NEW j \in Indices, z >= num_page_tables
        PROVE  /\ Translation(dir, z, j)' # NoPage => \E n \in 0 .. c - 1 : <<z, j>> = CodeAddr(n)
               /\ <<pde'[dir'][z], j>> \in pte_user' => Translation(dir, z, j)' # NoPage
    <3>0. /\ Translation(d, z, j) # NoPage => \E n \in 0 .. c - 1 : <<z, j>> = CodeAddr(n)
          /\ <<pde[d][z], j>> \in pte_user => Translation(d, z, j) # NoPage
      BY <1>1, <1>10, <2>0, <2>3 DEF ProgramAt
    <3>1. Translation(dir, z, j)' = Translation(d, z, j)' /\ pde'[dir'][z] = pde[d][z]
      BY <1>0, <2>0 DEF Translation
    <3> QED
      BY <2>1, <3>0, <3>1
  <2> QED
    BY <2>2, <2>3 DEF ProgramAt
<1>12. ProgramOnly'
  BY <1>9, <1>10, <1>11 DEF ProgramOnly
<1>13. WindowOnly'
  BY <1>7, ClosedIsEnough
<1>14. LoaderTypeOK'
  <2>1. TypeOK'
    BY <1>6 DEF IInv
  <2> QED
    BY <1>0, <1>8, <2>1 DEF LInv, LoaderTypeOK
<1>15. Stages'
  BY <1>0, <1>8 DEF LInv, Stages, Early, Building
<1>16. HeldOnce'
  BY <1>0, <1>1, SameUse DEF HeldOnce
<1>17. FailureFrees' /\ ExitReturnsAll'
  BY <1>8 DEF FailureFrees, ExitReturnsAll
<1> QED
  BY <1>6, <1>12, <1>13, <1>14, <1>15, <1>16, <1>17 DEF LInv

\* The program starts, and the processor leaves it: only the directory changes.
LEMMA LaunchOK ==
  ASSUME LInv, LaunchShell
  PROVE  LInv'
<1>0. /\ pc = "launch" /\ pc' = "running" /\ pc \in Building /\ pc' \in Building /\ vmm_switch_directory(dir)
      /\ UNCHANGED <<file_pages, prog, stack, task, dir, pi, loaded, drivers>> /\ user_virt_pages' = Registered
      /\ pi \in 0 .. code_pages + 1 /\ loaded \in BOOLEAN
  BY DEF LaunchShell, LInv, LoaderTypeOK, Building
<1>1. dir \in AllDirs /\ IInv
  BY <1>0, DirFacts
<1>2. IInv'
  BY <1>0, <1>1, SwitchToOK DEF SwitchTo
<1>3. UNCHANGED <<free, held, dirs, pde, pde_user, pte, pte_user>> /\ current_directory' = dir
  BY <1>0 DEF vmm_switch_directory
<1>4. /\ code_pages \in Nat \ {0} /\ code_pages + 2 <= USER_VIRT /\ USER_VIRT \in Nat
      /\ \A n \in 0 .. code_pages + 1 : CodeAddr(n) \in Slots \X Indices
  <2>1. file_pages \in Nat /\ file_pages <= MAX_FILE_PAGES
    BY <1>0, SizeFacts
  <2> QED
    BY <2>1, CodeAddrs, LoaderAssumption
<1>5. user_virt_pages' = {CodeAddr(n) : n \in 0 .. code_pages + 1}
  <2>1. \A n \in 0 .. code_pages + 1 : n < USER_VIRT
    BY <1>4
  <2> QED
    BY <1>0, <2>1 DEF Registered
<1>6. user_virt_pages' \subseteq Slots \X Indices
  BY <1>4, <1>5
<1>7. code_pages' = code_pages
  BY <1>0 DEF code_pages
<1>8. MappedCount' = MappedCount
  BY <1>0, <1>7 DEF MappedCount
<1>9. Stages'
  BY <1>0, <1>3, <1>5, <1>7 DEF LInv, Stages, Early, Building
<1>10. WindowOnly'
  BY <1>0, <1>3, ClosedOutside, SameClosed, ClosedIsEnough DEF WindowPhases
<1> QED
  BY <1>0, <1>2, <1>3, <1>6, <1>8, <1>9, <1>10, QuietOK

LEMMA LeaveOK ==
  ASSUME LInv, LeaveTask
  PROVE  LInv'
<1>0. /\ pc = "running" /\ pc' = "zombie" /\ pc \in Building /\ pc' \in Building /\ vmm_switch_directory(KernelDir)
      /\ UNCHANGED <<file_pages, prog, stack, task, dir, pi, loaded, user_virt_pages, drivers>>
      /\ pi \in 0 .. code_pages + 1 /\ loaded \in BOOLEAN /\ user_virt_pages \subseteq Slots \X Indices
  BY DEF LeaveTask, LInv, LoaderTypeOK, Building, locals
<1>1. KernelDir \in AllDirs /\ IInv
  BY <1>0, DirFacts
<1>2. IInv'
  BY <1>0, <1>1, SwitchToOK DEF SwitchTo
<1>3. UNCHANGED <<free, held, dirs, pde, pde_user, pte, pte_user>> /\ current_directory' = KernelDir
  BY <1>0 DEF vmm_switch_directory
<1>7. code_pages' = code_pages
  BY <1>0 DEF code_pages
<1>8. MappedCount' = MappedCount
  BY <1>0, <1>7 DEF MappedCount
<1>9. Stages'
  BY <1>0, <1>3, <1>7 DEF LInv, Stages, Early, Building
<1>10. WindowOnly'
  BY <1>0, <1>3, ClosedOutside, SameClosed, ClosedIsEnough DEF WindowPhases
<1> QED
  BY <1>0, <1>2, <1>3, <1>8, <1>9, <1>10, QuietOK

\* The program's pages go, with its directory and its tables.
LEMMA FreeTaskOK ==
  ASSUME LInv, free_task
  PROVE  LInv'
<1> DEFINE backed == {a \in user_virt_pages : Translation(dir, a[1], a[2]) # NoPage}
           pages == {Translation(dir, a[1], a[2]) : a \in backed} \cup task
<1>0. /\ pc = "zombie" /\ pc' = "reaped" /\ Cleared(dir, backed) /\ held' = held \ pages
      /\ free' = (free \cup pages) \cup FreedWith(dir) /\ dirs' = dirs \ {dir}
      /\ UNCHANGED <<pde, pde_user, current_directory>>
      /\ UNCHANGED <<file_pages, prog, stack, task, dir, pi, loaded, user_virt_pages, drivers>>
  BY DEF free_task, locals
<1>1. /\ pc \in Building /\ current_directory = KernelDir /\ Len(prog) = code_pages /\ Len(stack) = 2
      /\ user_virt_pages = {CodeAddr(n) : n \in 0 .. code_pages + 1} /\ MappedCount = code_pages + 2
  BY <1>0 DEF LInv, Stages, Early, Building, MappedCount
<1>2. /\ dir \in dirs /\ dirs = {dir} /\ IInv /\ OneUse /\ ProgramAt(code_pages + 2)
  BY <1>1, DirFacts
<1>3. /\ code_pages \in Nat \ {0} /\ file_pages \in Nat /\ file_pages <= MAX_FILE_PAGES
      /\ prog \in Seq(Pages) /\ stack \in Seq(Pages) /\ ImagePages = 0 .. Len(prog) + Len(stack) - 1
  BY <1>1, SizeFacts
<1>4. ImagePages = 0 .. code_pages + 1 /\ (code_pages + 2) - 1 = code_pages + 1
  BY <1>1, <1>3
<1>5. \A n \in 0 .. code_pages + 1 : /\ Translation(dir, CodeAddr(n)[1], CodeAddr(n)[2]) = Image(n)
                                     /\ Image(n) \in Pages /\ Image(n) # NoPage
  <2>1. \A n \in ImagePages : Image(n) \in Pages
    BY <1>3, ImageFacts
  <2> QED
    BY <1>2, <1>4, <2>1, EntryFacts DEF ProgramAt
<1>6. backed = user_virt_pages
  BY <1>1, <1>5
<1>7. pages = {Image(n) : n \in 0 .. code_pages + 1} \cup task
  BY <1>1, <1>5, <1>6
<1>8. pages \in SUBSET held /\ held \ pages = drivers
  BY <1>2, <1>4, <1>7 DEF OneUse
<1>9. backed \in SUBSET (Slots \X Indices) /\ \A a \in backed : a[1] >= kernel_pdes
  <2>1. \A n \in 0 .. code_pages + 1 : CodeAddr(n) \in Slots \X Indices /\ CodeAddr(n)[1] >= kernel_pdes
    BY <1>3, CodeAddrs
  <2> QED
    BY <1>1, <1>6, <2>1
<1>10. Closed
  BY <1>0, ClosedOutside DEF WindowPhases
<1> HIDE DEF backed, pages
<1>11. \A s \in Slots, i \in Indices : s >= num_page_tables => Translation(KernelDir, s, i) = NoPage
  BY <1>10 DEF Closed
<1>12. PICK d \in dirs : d = dir
  BY <1>2
<1>13. /\ IInv' /\ dirs' = {}
       /\ \A s \in Slots, i \in Indices : s >= num_page_tables => Translation(KernelDir, s, i)' = NoPage
  BY <1>0, <1>1, <1>2, <1>8, <1>9, <1>11, <1>12, ReapOK
<1>14. WindowOnly'
  BY <1>13, ClosedIsEnough DEF Closed
<1>15. Stages'
  <2>1. code_pages' = code_pages
    BY <1>0 DEF code_pages
  <2> QED
    BY <1>0, <1>1, <1>13, <2>1 DEF LInv, Stages, Early, Building
<1>16. LoaderTypeOK'
  <2>1. TypeOK' /\ code_pages' = code_pages
    BY <1>0, <1>13 DEF IInv, code_pages
  <2> QED
    BY <1>0, <2>1 DEF LInv, LoaderTypeOK
<1>17. HeldOnce' /\ ProgramOnly' /\ FailureFrees'
  BY <1>0 DEF HeldOnce, ProgramOnly, FailureFrees, Early, Building
<1>18. held' = drivers'
  BY <1>0, <1>8
<1>19. free' = Pages \ (0 .. KernelPages - 1 \cup drivers' \cup TablesOf(KernelDir)')
  <2>1. AllDirs' = {KernelDir} /\ Tables' = TablesOf(KernelDir)'
    BY <1>13 DEF AllDirs, Tables
  <2>2. free' \cap held' = {} /\ free' \cap TablesOf(KernelDir)' = {} /\ free' \subseteq Pages
    BY <1>13, <2>1 DEF IInv, PagesAccounted, TablesLive, TypeOK
  <2>3. KernelPages .. MemPages - 1 \subseteq free' \cup held' \cup TablesOf(KernelDir)'
    BY <1>13, <2>1 DEF IInv, PagesAccounted
  <2>4. \A p \in free' : p >= KernelPages
    BY <1>13 DEF IInv, Apart
  <2>5. \A p \in Pages : p \in 0 .. KernelPages - 1 \/ p \in KernelPages .. MemPages - 1
    BY SlotFacts DEF Pages
  <2>6. \A p \in Pages : p >= KernelPages => p \notin 0 .. KernelPages - 1
    BY SlotFacts DEF Pages
  <2> QED
    BY <1>18, <2>2, <2>3, <2>4, <2>5, <2>6
<1>20. ExitReturnsAll'
  BY <1>13, <1>18, <1>19 DEF ExitReturnsAll
<1> QED
  BY <1>13, <1>14, <1>15, <1>16, <1>17, <1>20 DEF LInv

LEMMA LoaderStutterOK ==
  ASSUME LInv, UNCHANGED lvars
  PROVE  LInv'
<1>0. /\ UNCHANGED vars
      /\ UNCHANGED <<free, held, dirs, pde, pde_user, pte, pte_user, current_directory, tlb>>
      /\ UNCHANGED <<pc, file_pages, prog, stack, task, dir, pi, loaded, user_virt_pages, drivers>>
  BY DEF lvars, locals, vars
<1>1. IInv'
  BY <1>0, StutterOK DEF LInv
<1>2. code_pages' = code_pages /\ MappedCount' = MappedCount
  BY <1>0 DEF code_pages, MappedCount
<1>3. \A d, s, i : Translation(d, s, i)' = Translation(d, s, i)
  BY <1>0 DEF Translation
<1>4. LoaderTypeOK' /\ Stages'
  BY <1>0, <1>1, <1>2 DEF LInv, LoaderTypeOK, IInv, Stages
<1>5. HeldOnce'
  BY <1>0, SameUse DEF LInv, HeldOnce
<1>6. WindowOnly'
  BY <1>0, <1>2, <1>3 DEF LInv, WindowOnly
<1>7. ProgramOnly'
  <2>1. PICK k : k = MappedCount
    OBVIOUS
  <2>2. ProgramAt(k) => ProgramAt(k)'
    BY <1>0, SameProgram, SameImage
  <2> QED
    BY <1>0, <1>2, <2>1, <2>2 DEF LInv, ProgramOnly
<1>8. FailureFrees' /\ ExitReturnsAll'
  BY <1>0 DEF LInv, FailureFrees, ExitReturnsAll, ElementsOf, TablesOf
<1> QED
  BY <1>1, <1>4, <1>5, <1>6, <1>7, <1>8 DEF LInv

\* The invariant holds through the whole life of a program.
THEOREM LoaderInvariance == LoaderSpec => []LInv
<1>1. LoaderInit => LInv
  BY LoaderInitOK
<1>2. LInv /\ [LoaderNext]_lvars => LInv'
  <2> SUFFICES ASSUME LInv, [LoaderNext]_lvars PROVE LInv'
    OBVIOUS
  <2>1. CASE DriversBoot
    BY <2>1, DriversOK
  <2>2. CASE FindFile
    BY <2>2, FindOK
  <2>3. CASE AllocCode
    BY <2>3, AllocCodeOK
  <2>4. CASE CreatePages
    BY <2>4, CreatePagesOK
  <2>5. CASE CreateDirectory
    BY <2>5, CreateDirectoryOK
  <2>6. CASE MapCode
    BY <2>6, MapCodeOK
  <2>7. CASE AllocExtra
    BY <2>7, AllocExtraOK
  <2>8. CASE MapExtra
    BY <2>8, MapExtraOK
  <2>9. CASE MapWindow
    BY <2>9, MapWindowOK
  <2>10. CASE LoadFile
    BY <2>10, LoadFileOK
  <2>11. CASE UnmapWindow
    BY <2>11, UnmapWindowOK
  <2>12. CASE AllocStack
    BY <2>12, AllocStackOK
  <2>13. CASE MapStack
    BY <2>13, MapStackOK
  <2>14. CASE LaunchShell
    BY <2>14, LaunchOK
  <2>15. CASE LeaveTask
    BY <2>15, LeaveOK
  <2>16. CASE free_task
    BY <2>16, FreeTaskOK
  <2>17. CASE Finished \/ UNCHANGED lvars
    BY <2>17, LoaderStutterOK DEF Finished
  <2> QED
    BY <2>1, <2>2, <2>3, <2>4, <2>5, <2>6, <2>7, <2>8, <2>9, <2>10, <2>11, <2>12, <2>13,
       <2>14, <2>15, <2>16, <2>17 DEF LoaderNext
<1> QED
  BY <1>1, <1>2, PTL DEF LoaderSpec

LEMMA FaithfulFromInvariant == LInv => ProgramFaithful
<1> SUFFICES ASSUME LInv PROVE WindowFaithful /\ ProgramComplete
  BY DEF ProgramFaithful
<1>1. WindowFaithful
  <2> SUFFICES ASSUME pc \in {"window", "load"}, NEW n \in 0 .. code_pages - 1, Window(n) # NoPage
               PROVE  n + 1 \in DOMAIN prog /\ Window(n) = prog[n + 1]
    BY DEF WindowFaithful
  <2>1. pc \in Building /\ Len(prog) = code_pages
    BY DEF LInv, Stages, Building
  <2>2. /\ code_pages \in Nat \ {0} /\ file_pages \in Nat /\ file_pages <= MAX_FILE_PAGES
        /\ prog \in Seq(Pages) /\ stack \in Seq(Pages)
    BY <2>1, SizeFacts
  <2>3. /\ LoadAddr(n) = <<LoadAddr(n)[1], LoadAddr(n)[2]>>
        /\ LoadAddr(n)[1] \in Slots /\ LoadAddr(n)[2] \in Indices /\ LoadAddr(n)[1] >= kernel_pdes
        /\ \A m \in 0 .. code_pages - 1 : LoadAddr(n) = LoadAddr(m) => m = n
    BY <2>2, CodeAddrs
  <2>4. PICK s \in Slots, i \in Indices : s = LoadAddr(n)[1] /\ i = LoadAddr(n)[2]
    BY <2>3
  <2>5. <<s, i>> = LoadAddr(n) /\ s >= num_page_tables /\ Window(n) = Translation(KernelDir, s, i)
    BY <2>3, <2>4, SlotFacts DEF Slots, Window
  <2>6. PICK m \in 0 .. code_pages - 1 : <<s, i>> = LoadAddr(m) /\ Translation(KernelDir, s, i) = prog[m + 1]
    BY <2>5 DEF LInv, WindowOnly
  <2>7. m = n
    BY <2>3, <2>5, <2>6
  <2>8. n + 1 \in DOMAIN prog
    BY <2>1, <2>2
  <2> QED
    BY <2>5, <2>6, <2>7, <2>8
<1>2. ProgramComplete
  <2> SUFFICES ASSUME pc = "running"
               PROVE  /\ current_directory = dir
                      /\ \A n \in 0 .. code_pages + 1 :
                           Translation(dir, CodeAddr(n)[1], CodeAddr(n)[2]) = (prog \o stack)[n + 1]
                      /\ \A s \in Slots, i \in Indices :
                           (<<dir, s>> \in pde_user /\ <<pde[dir][s], i>> \in pte_user) =>
                             \E n \in 0 .. code_pages + 1 : <<s, i>> = CodeAddr(n)
    BY DEF ProgramComplete
  <2>1. /\ pc \in Building /\ Len(prog) = code_pages /\ Len(stack) = 2 /\ current_directory = dir
        /\ MappedCount = code_pages + 2
    BY DEF LInv, Stages, Building, MappedCount
  <2>2. code_pages \in Nat \ {0} /\ prog \in Seq(Pages) /\ stack \in Seq(Pages)
    BY <2>1, SizeFacts
  <2>3. ProgramAt(code_pages + 2) /\ IInv /\ dir \in AllDirs /\ code_pages + 2 - 1 = code_pages + 1
    BY <2>1, <2>2, DirFacts
  <2>4. ASSUME NEW n \in 0 .. code_pages + 1 PROVE Image(n) = (prog \o stack)[n + 1]
    <3>1. /\ n + 1 \in 1 .. Len(prog) + Len(stack)
          /\ n < Len(prog) => n + 1 <= Len(prog)
          /\ ~ (n < Len(prog)) => ~ (n + 1 <= Len(prog)) /\ (n + 1) - Len(prog) = n - Len(prog) + 1
      BY <2>1, <2>2
    <3>2. (prog \o stack)[n + 1] = IF n + 1 <= Len(prog) THEN prog[n + 1] ELSE stack[(n + 1) - Len(prog)]
      BY <2>2, <3>1
    <3> QED
      BY <3>1, <3>2 DEF Image
  <2>5. /\ \A n \in 0 .. code_pages + 1 : Translation(dir, CodeAddr(n)[1], CodeAddr(n)[2]) = Image(n)
        /\ \A s \in Slots, i \in Indices :
             s >= num_page_tables =>
               /\ Translation(dir, s, i) # NoPage => \E n \in 0 .. code_pages + 1 : <<s, i>> = CodeAddr(n)
               /\ <<pde[dir][s], i>> \in pte_user => Translation(dir, s, i) # NoPage
    <3>1. PICK k \in Nat : k = code_pages + 2 /\ k - 1 = code_pages + 1
      BY <2>2
    <3>2. ProgramAt(k)
      BY <2>3, <3>1
    <3> QED
      BY <3>1, <3>2 DEF ProgramAt
  <2>6. ASSUME NEW s \in Slots, NEW i \in Indices, <<dir, s>> \in pde_user, <<pde[dir][s], i>> \in pte_user
        PROVE  \E n \in 0 .. code_pages + 1 : <<s, i>> = CodeAddr(n)
    <3>1. CASE s < num_page_tables
      <4>1. pde[dir][s] # NoPage /\ pde[dir][s] = pde[KernelDir][s]
        BY <2>3, <3>1 DEF IInv, SharedBelow
      <4> QED
        BY <2>3, <2>6, <4>1 DEF IInv, SharedNeverUser
    <3>2. CASE s >= num_page_tables
      BY <2>5, <2>6, <3>2
    <3> QED
      BY <3>1, <3>2, SlotFacts DEF Slots
  <2> QED
    BY <2>1, <2>4, <2>5, <2>6
<1> QED
  BY <1>1, <1>2

\* For every size of the file and of the memory: through the window the file's pages
\* land in the program's pages in order, and the program that runs finds all of them,
\* its bss and its stack, and has nothing else open to it (load_and_run_shell).
THEOREM ProgramAlwaysFaithful == LoaderSpec => []ProgramFaithful
BY LoaderInvariance, FaithfulFromInvariant, PTL

\* Whichever step of load_and_run_shell finds no page, the error exit frees the code page
\* and the stack's; and after free_task all the program's pages are free.
THEOREM PagesAlwaysReturned == LoaderSpec => []PagesReturned
<1>1. LInv => PagesReturned
  BY DEF LInv, PagesReturned
<1> QED
  BY <1>1, LoaderInvariance, PTL

\* The paging structures stay sound through the loading and its error exits, and the
\* window is taken down completely (load_and_run_shell, free_task).
THEOREM PagingAlwaysSound == LoaderSpec => []PagingSound
<1>1. LInv => PagingSound
  BY DEF LInv, IInv, PagingSound, WindowOnly, WindowClosed
<1> QED
  BY <1>1, LoaderInvariance, PTL

=============================================================================
