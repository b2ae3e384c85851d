--------------------------------- MODULE Vmm ---------------------------------
(***************************************************************************)
(* Paging: mm/vmm.c.  Page directories and page tables are physical pages; *)
(* the tables of the identity mapping are shared by all directories, the   *)
(* others belong to one.  Beside the tables the model has the processor's  *)
(* translation cache, which vmm.c must keep in step with them, and the     *)
(* callers, who allocate pages, map, unmap and free them.                  *)
(*                                                                         *)
(* Pages are numbered; an address is a directory slot s and a table index  *)
(* i.  Interrupts are off in the kernel, so each function is one step.     *)
(***************************************************************************)
EXTENDS Integers

CONSTANTS
  MemPages,     (* size of the physical memory                             *)
  Entries,      (* entries of a table (1024)                               *)
  NSlots,       (* entries of a directory (1024)                           *)
  KernelPages,  (* pages below this one are never free (the kernel image)  *)
  LateDirectories (* FALSE: no directory is created once the kernel's own  *)
                  (* has tables above the identity mapping (one program is *)
                  (* loaded, and its directory made before the window its  *)
                  (* file is loaded through)                               *)

Pages == 0 .. MemPages - 1
Slots == 0 .. NSlots - 1
Indices == 0 .. Entries - 1
NoPage == -1

\* kernel_page_directory is a page of the kernel image.
KernelDir == 0

num_page_tables == (MemPages + Entries - 1) \div Entries
kernel_pdes == (MemPages \div Entries) + 1

ASSUME VmmAssumption ==
  /\ MemPages \in Nat /\ Entries \in Nat \ {0} /\ NSlots \in Nat
  /\ KernelPages \in Nat \ {0}
  /\ KernelPages + num_page_tables < MemPages
  /\ kernel_pdes <= NSlots
  /\ LateDirectories \in BOOLEAN

VARIABLES
  free,      (* what pmm_alloc_page can return                             *)
  held,      (* pages the callers of vmm.c allocated                       *)
  dirs,      (* user directories                                           *)
  pde,       (* directory entries: the table of every slot, or NoPage      *)
  pde_user,  (* <<d, s>> whose entry has PAGE_USER                         *)
  pte,       (* table entries: the page of every index, or NoPage          *)
  pte_user,  (* <<t, i>> whose entry has PAGE_USER                         *)
  current_directory,
  tlb        (* cached translations <<s, i, page>>                         *)

vars == <<free, held, dirs, pde, pde_user, pte, pte_user, current_directory, tlb>>

AllDirs == dirs \cup {KernelDir}
TablesOf(d) == {pde[d][s] : s \in Slots} \ {NoPage}
Tables == UNION {TablesOf(d) : d \in AllDirs}

-----------------------------------------------------------------------------
\* vmm_init: the identity mapping.  The first pages stand for whatever pages
\* the allocator returned.
Init ==
  LET table(s) == KernelPages + s
  IN  /\ free = KernelPages + num_page_tables .. MemPages - 1
      /\ held = {} /\ dirs = {}
      /\ pde = [d \in Pages |-> [s \in Slots |->
                  IF d = KernelDir /\ s < num_page_tables THEN table(s) ELSE NoPage]]
      /\ pte = [t \in Pages |-> [i \in Indices |->
                  LET p == (t - KernelPages) * Entries + i
                  IN  IF t \in KernelPages .. KernelPages + num_page_tables - 1
                         /\ p < MemPages
                      THEN p ELSE NoPage]]
      /\ pde_user = {} /\ pte_user = {}
      /\ current_directory = KernelDir
      /\ tlb = {}

\* The page the allocator returns; no code depends on which one it is.
Alloc == CHOOSE p \in free : TRUE

CopiedEntries == pde[KernelDir]

vmm_create_directory ==
  /\ LateDirectories \/ \A s \in Slots : s >= kernel_pdes => pde[KernelDir][s] = NoPage
  /\ free # {}
  /\ free' = free \ {Alloc}
  /\ dirs' = dirs \cup {Alloc}
  /\ pde' = [pde EXCEPT ![Alloc] = CopiedEntries]
  /\ pde_user' = {e \in pde_user : e[1] # Alloc}
                   \cup {<<Alloc, s>> : s \in {s \in Slots : <<KernelDir, s>> \in pde_user}}
  /\ UNCHANGED <<held, pte, pte_user, current_directory, tlb>>

\* The tables that vmm_destroy_directory and vmm_map_page take for shared.
\* Mutant of KernelTables: slot 0 only (an earlier version).
KernelTablesFirst == {pde[KernelDir][0]} \ {NoPage}
KernelTables == {pde[KernelDir][k] : k \in {k \in Slots : k < kernel_pdes}} \ {NoPage}

\* Tables are freed, then the directory.
FreedWith(d) == {d} \cup (TablesOf(d) \ KernelTables)

\* free_task calls this for a directory that is not the current one.
vmm_destroy_directory(d) ==
  /\ d # current_directory
  /\ free' = free \cup FreedWith(d)
  /\ dirs' = dirs \ {d}
  /\ UNCHANGED <<held, pde, pde_user, pte, pte_user, current_directory, tlb>>

-----------------------------------------------------------------------------
(***************************************************************************)
(* vmm_map_page, one action for each way through it that changes anything. *)
(***************************************************************************)

\* Mutant of invlpg: the cached translation is kept.
invlpg_missing(s, i) == tlb
invlpg(s, i) == {e \in tlb : e[1] # s \/ e[2] # i}

UserBit(user, e) == IF user THEN {e} ELSE {}

\* The slot is empty: allocate a table.  (Without a free page: no change.)
MapFresh(d, s, i, p, user) ==
  /\ pde[d][s] = NoPage
  /\ free # {}
  /\ free' = free \ {Alloc}
  /\ pde' = [pde EXCEPT ![d][s] = Alloc]
  /\ pde_user' = (pde_user \ {<<d, s>>}) \cup UserBit(user, <<d, s>>)
  /\ pte' = [pte EXCEPT ![Alloc] = [k \in Indices |-> IF k = i THEN p ELSE NoPage]]
  /\ pte_user' = {e \in pte_user : e[1] # Alloc} \cup UserBit(user, <<Alloc, i>>)
  /\ tlb' = invlpg(s, i)
  /\ UNCHANGED <<held, dirs, current_directory>>

\* A user mapping through a shared table is refused.
\* Mutant of Refused: not refused.
NeverRefused(d, s, user) == FALSE
Refused(d, s, user) == user /\ pde[d][s] \in KernelTables

\* The table exists.  An entry that is present is not overwritten, but by
\* then the directory entry has got its USER bit.
MapExisting(d, s, i, p, user) ==
  LET t == pde[d][s]
  IN  /\ t # NoPage
      /\ ~ Refused(d, s, user)
      /\ pde_user' = pde_user \cup UserBit(user, <<d, s>>)
      /\ IF pte[t][i] # NoPage
         THEN UNCHANGED <<pte, pte_user, tlb>>
         ELSE /\ pte' = [pte EXCEPT ![t][i] = p]
              /\ pte_user' = (pte_user \ {<<t, i>>}) \cup UserBit(user, <<t, i>>)
              /\ tlb' = invlpg(s, i)
      /\ UNCHANGED <<free, held, dirs, pde, current_directory>>

vmm_map_page(d, s, i, p, user) ==
  MapFresh(d, s, i, p, user) \/ MapExisting(d, s, i, p, user)

vmm_unmap_page(d, s, i) ==
  LET t == pde[d][s]
  IN  /\ t # NoPage
      /\ pte[t][i] # NoPage
      /\ pte' = [pte EXCEPT ![t][i] = NoPage]
      /\ pte_user' = pte_user \ {<<t, i>>}
      /\ tlb' = invlpg(s, i)
      /\ UNCHANGED <<free, held, dirs, pde, pde_user, current_directory>>

\* Writing CR3 empties the cache.
Flushed == {}
vmm_switch_directory(d) ==
  /\ current_directory' = d
  /\ tlb' = Flushed
  /\ UNCHANGED <<free, held, dirs, pde, pde_user, pte, pte_user>>

\* vmm_get_phys_addr, and what the processor finds.
Translation(d, s, i) ==
  IF pde[d][s] = NoPage THEN NoPage ELSE pte[pde[d][s]][i]

\* The processor may cache any translation of the current directory.
TlbFill(s, i) ==
  /\ Translation(current_directory, s, i) # NoPage
  /\ tlb' = tlb \cup {<<s, i, Translation(current_directory, s, i)>>}
  /\ UNCHANGED <<free, held, dirs, pde, pde_user, pte, pte_user, current_directory>>

-----------------------------------------------------------------------------
(***************************************************************************)
(* The callers: user pages are mapped for user directories, the kernel's   *)
(* own windows above the identity mapping in its directory; a page is      *)
(* freed when none of these mappings is left.                              *)
(***************************************************************************)

CallerAlloc ==
  /\ free # {}
  /\ free' = free \ {Alloc}
  /\ held' = held \cup {Alloc}
  /\ UNCHANGED <<dirs, pde, pde_user, pte, pte_user, current_directory, tlb>>

Mapped(p) == \E d \in AllDirs, s \in Slots, i \in Indices :
               s >= num_page_tables /\ Translation(d, s, i) = p

CallerFree(p) ==
  /\ ~ Mapped(p)
  /\ free' = free \cup {p}
  /\ held' = held \ {p}
  /\ UNCHANGED <<dirs, pde, pde_user, pte, pte_user, current_directory, tlb>>

UserMap == \E d \in dirs, s \in Slots, i \in Indices, p \in held :
             vmm_map_page(d, s, i, p, TRUE)
WindowMap == \E s \in Slots, i \in Indices, p \in held :
               s >= num_page_tables /\ vmm_map_page(KernelDir, s, i, p, FALSE)
Unmap == \E d \in AllDirs, s \in Slots, i \in Indices :
           s >= num_page_tables /\ vmm_unmap_page(d, s, i)
Destroy == \E d \in dirs : vmm_destroy_directory(d)
SwitchTo == \E d \in AllDirs : vmm_switch_directory(d)
Fill == \E s \in Slots, i \in Indices : TlbFill(s, i)
Release == \E p \in held : CallerFree(p)

Next ==
  \/ vmm_create_directory \/ Destroy
  \/ UserMap \/ WindowMap \/ Unmap
  \/ SwitchTo \/ Fill
  \/ CallerAlloc \/ Release

Spec == Init /\ [][Next]_vars

-----------------------------------------------------------------------------
(***************************************************************************)
(* Properties                                                              *)
(***************************************************************************)

\* Every variable has its type.
TypeOK ==
  /\ free \subseteq Pages /\ held \subseteq Pages /\ dirs \subseteq Pages
  /\ pde \in [Pages -> [Slots -> Pages \cup {NoPage}]]
  /\ pte \in [Pages -> [Indices -> Pages \cup {NoPage}]]
  /\ pde_user \subseteq Pages \X Slots
  /\ pte_user \subseteq Pages \X Indices
  /\ current_directory \in AllDirs
  /\ tlb \subseteq Slots \X Indices \X Pages

\* A page table belongs to one slot of one directory, or it is one of the
\* kernel's that sits at the same slot of the kernel's directory
\* ("the tables that equal the kernel's are shared", vmm_create_directory).
TablesOwned ==
  \A d, e \in AllDirs, s, z \in Slots :
    (pde[d][s] = pde[e][z] /\ pde[d][s] # NoPage) =>
      /\ s = z
      /\ d = e \/ pde[KernelDir][s] = pde[d][s]

\* Shared tables are never freed: no table and no directory that is in use
\* is free, or in the hands of a caller.
TablesLive == (free \cup held) \cap (Tables \cup AllDirs) = {}

\* Sharing of page tables is sound: a table has one owner, or it is the kernel's
\* and stays, whatever directories come and go (vmm_destroy_directory).
TablesSound == TablesOwned /\ TablesLive

\* No page is lost: what is neither free nor a caller's is a directory or a
\* table of one, or never was free.  Destroying a directory gives back its
\* private tables.
PagesAccounted ==
  /\ KernelPages .. MemPages - 1 \subseteq free \cup held \cup dirs \cup Tables
  /\ free \cap held = {}

\* Under every directory the kernel sees all memory at its own address: the
\* stacks, the tables and the directories it works on stay reachable when
\* CR3 changes.
KernelMapped ==
  \A d \in AllDirs, s \in Slots, i \in Indices :
    s * Entries + i < MemPages => Translation(d, s, i) = s * Entries + i

\* No USER bit on a shared table, neither in a directory nor in the table
\* ("never add the USER bit to a shared kernel table", vmm_map_page).
SharedNeverUser ==
  \A d \in AllDirs, s \in Slots :
    (pde[d][s] # NoPage /\ pde[d][s] = pde[KernelDir][s]) =>
      /\ <<d, s>> \notin pde_user
      /\ \A i \in Indices : <<pde[d][s], i>> \notin pte_user

\* Ring 3 reaches pages that callers hold and nothing else: no table, no
\* directory, no free page and nothing of the kernel.
UserIsolation ==
  \A d \in dirs, s \in Slots, i \in Indices :
    ( /\ <<d, s>> \in pde_user
      /\ <<pde[d][s], i>> \in pte_user
      /\ Translation(d, s, i) # NoPage ) => Translation(d, s, i) \in held

\* Ring 3 is confined: to pages that callers hold, and away from every shared
\* table, whatever vmm_map_page was asked for before.
RingThreeConfined == SharedNeverUser /\ UserIsolation

\* The processor never uses a translation that the current directory no
\* longer has.
TlbCoherent ==
  \A e \in tlb : Translation(current_directory, e[1], e[2]) = e[3]
-----------------------------------------------------------------------------
(***************************************************************************)
(* The inductive invariant behind the properties (VmmProofs).              *)
(***************************************************************************)

\* Directories are not used as tables, and both are pages that were free.
Apart ==
  /\ \A d \in AllDirs, s \in Slots :
       pde[d][s] \notin AllDirs /\ (pde[d][s] # NoPage => pde[d][s] >= KernelPages)
  /\ \A p \in free \cup held \cup dirs : p >= KernelPages

\* The identity mapping is shared by all directories, and no table above
\* kernel_pdes is shared by any: the test of vmm_destroy_directory and
\* vmm_map_page finds every shared table.
SharedBelow ==
  \A d \in AllDirs, s \in Slots :
    /\ s < num_page_tables => pde[d][s] = pde[KernelDir][s] /\ pde[d][s] # NoPage
    /\ (d # KernelDir /\ pde[d][s] # NoPage /\ pde[d][s] = pde[KernelDir][s]) =>
         s < kernel_pdes

\* Above the identity mapping only pages that callers hold are mapped.
MappedHeld ==
  \A d \in AllDirs, s \in Slots, i \in Indices :
    (s >= num_page_tables /\ Translation(d, s, i) # NoPage) =>
      Translation(d, s, i) \in held

IInv == /\ TypeOK /\ TablesOwned /\ TablesLive /\ PagesAccounted /\ KernelMapped
        /\ SharedNeverUser /\ TlbCoherent /\ Apart /\ SharedBelow /\ MappedHeld
=============================================================================
