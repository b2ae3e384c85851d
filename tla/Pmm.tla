--------------------------------- MODULE Pmm ---------------------------------
(***************************************************************************)
(* The physical page allocator of mm/pmm.c.                                *)
(*                                                                         *)
(* The allocator keeps one bit per 4 KB page (1 = free) and threads a      *)
(* singly linked list through the free pages themselves: the first word of *)
(* a free page holds the index of the next one.  The same word belongs to  *)
(* whoever owns the page once it is handed out, so here link is the first  *)
(* word of EVERY page and owners overwrite theirs at will.                 *)
(*                                                                         *)
(* The loops of pmm_init and pmm_alloc_contiguous are taken one iteration  *)
(* per step (pc says which loop is running, i, j, prev and cur are its     *)
(* local variables); pmm_alloc_page and pmm_free_page are single steps.    *)
(* Nothing interleaves with a loop: the kernel calls the allocator with    *)
(* interrupts disabled, or before the first task exists.                   *)
(***************************************************************************)
EXTENDS Integers, Sequences, FiniteSets

CONSTANTS
  TotalPages,   (* total_pages                                             *)
  LowPages,     (* pages below 1 MB (0x100000 / 4096)                      *)
  KernelEnd,    (* page of _end - 1                                        *)
  BitmapStart,  (* page of _end, where the bitmap starts                   *)
  BitmapEnd,    (* page of the bitmap's last byte                          *)
  MemoryMaps,   (* the Multiboot memory maps a boot loader may pass        *)
  MaxRun,       (* bound: largest count given to pmm_alloc_contiguous      *)
  Words         (* bound: first words an owner writes into its page        *)

Nil == -1       \* (uint32_t)-1, the end of the free list

Pages == 0 .. TotalPages - 1
KernelPages == LowPages .. KernelEnd
BitmapPages == BitmapStart .. BitmapEnd
Link == Pages \cup {Nil}

ASSUME GeometryAssumption ==
  /\ TotalPages \in Nat
  /\ LowPages \in 1 .. TotalPages
  /\ KernelEnd \in Nat /\ LowPages <= KernelEnd
  /\ BitmapStart \in {KernelEnd, KernelEnd + 1}
  /\ BitmapEnd \in Nat /\ BitmapStart <= BitmapEnd
  /\ MaxRun \in Nat
  /\ Words \subseteq Link

\* A memory map as the boot loader lays it out: base and length in pages and
\* the type (1 = available).  Its last entry is not the one at address 0.
ASSUME MemoryMapAssumption ==
  \A m \in MemoryMaps :
    /\ m \in Seq([base : Nat, length : Nat \ {0}, type : 1 .. 5])
    /\ m # <<>> => m[Len(m)].base # 0

VARIABLES
  pc,           (* the running loop, "ready" between calls, "halt"         *)
  mmap,         (* the memory map handed over by the boot loader           *)
  bitmap,       (* the pages whose bit is 1                                *)
  link,         (* the first word of every page                            *)
  head,         (* free_list_head                                          *)
  free_pages,
  i, j,         (* loop variables                                          *)
  count,        (* argument of pmm_alloc_contiguous                        *)
  prev, cur,    (* the walk along the list in pmm_alloc_contiguous         *)
  owned,        (* history: pages handed out and not given back            *)
  chain, pos    (* history: the pages on the list, in order, and the place *)
                (* of cur in it                                            *)

vars == <<pc, mmap, bitmap, link, head, free_pages, i, j, count, prev, cur,
          owned, chain, pos>>

walk == <<j, count, prev, cur, pos>>

\* The local variables die when a call returns.
DropLocals ==
  i' = 0 /\ j' = 0 /\ count' = 0 /\ prev' = Nil /\ cur' = Nil /\ pos' = 1

-----------------------------------------------------------------------------
(***************************************************************************)
(* pmm_init                                                                *)
(***************************************************************************)

\* Every bit 0, then everything from 1 MB up marked free.
Init ==
  /\ pc = "mmap" /\ i = 1
  /\ mmap \in MemoryMaps
  /\ bitmap = Pages \ 0 .. LowPages - 1
  /\ link = [p \in Pages |-> Nil]
  /\ head = Nil
  /\ free_pages = 0
  /\ j = 0 /\ count = 0 /\ prev = Nil /\ cur = Nil
  /\ owned = {} /\ chain = <<>> /\ pos = 1

\* One entry of the memory map.  multiboot_mmap_entry_t declares 8-byte
\* fields for the halves of base and length, so what the code reads as the
\* length is the entry's type (1 .. 5 bytes: one page) and what it reads as
\* the type is the low word of the NEXT entry's length, never 1 for a region
\* of whole pages; after the last entry it is whatever memory follows.
MarkEntry ==
  /\ pc = "mmap" /\ i <= Len(mmap)
  /\ \E seen_available \in IF i = Len(mmap) THEN {TRUE, FALSE} ELSE {FALSE} :
       bitmap' = IF seen_available THEN bitmap \cup ({mmap[i].base} \cap Pages)
                                   ELSE bitmap \ {mmap[i].base}
  /\ i' = i + 1
  /\ UNCHANGED <<pc, mmap, link, head, free_pages, walk, owned, chain>>

\* The counting loop.
CountFree ==
  /\ pc = "mmap" /\ i > Len(mmap)
  /\ free_pages' = Cardinality(bitmap)
  /\ pc' = "kernel" /\ i' = LowPages
  /\ UNCHANGED <<mmap, bitmap, link, head, walk, owned, chain>>

\* The loop that takes the pages of [1 MB, _end) out, then the one that takes
\* out the bitmap's own pages; each is cut off at total_pages.
ReservePage(loop, last, next, first) ==
  /\ pc = loop
  /\ IF i <= last /\ i < TotalPages
       THEN /\ bitmap' = bitmap \ {i}
            /\ free_pages' = IF i \in bitmap THEN free_pages - 1 ELSE free_pages
            /\ i' = i + 1
            /\ UNCHANGED pc
       ELSE /\ pc' = IF next = "build" /\ free_pages = 0 THEN "halt" ELSE next
            /\ i' = first
            /\ UNCHANGED <<bitmap, free_pages>>
  /\ UNCHANGED <<mmap, link, head, walk, owned, chain>>

ReserveKernel == ReservePage("kernel", KernelEnd, "bitmap", BitmapStart)
\* Mutant of ReserveBitmap: the bitmap's own pages stay allocatable.
ReserveBitmapMissing == ReservePage("bitmap", BitmapStart - 1, "build", 0)
ReserveBitmap == ReservePage("bitmap", BitmapEnd, "build", 0)

\* Thread the free pages, lowest first, each in front of the list.
BuildList ==
  /\ pc = "build"
  /\ IF i < TotalPages
       THEN /\ IF i \in bitmap
                 THEN /\ link' = [link EXCEPT ![i] = head]
                      /\ head' = i
                      /\ chain' = <<i>> \o chain
                 ELSE UNCHANGED <<link, head, chain>>
            /\ i' = i + 1
            /\ UNCHANGED pc
       ELSE /\ pc' = "ready" /\ i' = 0
            /\ UNCHANGED <<link, head, chain>>
  /\ UNCHANGED <<mmap, bitmap, free_pages, walk, owned>>

\* No free page at all: while (1) hlt.
Halted == pc = "halt" /\ UNCHANGED vars

-----------------------------------------------------------------------------
(***************************************************************************)
(* pmm_alloc_page and pmm_free_page                                        *)
(***************************************************************************)

\* A page at address 0 is indistinguishable from the NULL of a failed call:
\* the caller owns nothing.
HandOut(p) == IF p = 0 THEN owned ELSE owned \cup {p}

AllocPage ==
  /\ pc = "ready" /\ head # Nil
  /\ head' = link[head]
  /\ bitmap' = bitmap \ {head}
  /\ free_pages' = free_pages - 1
  /\ owned' = HandOut(head)
  /\ chain' = Tail(chain)
  /\ UNCHANGED <<pc, mmap, link, i, walk>>

\* Mutant of InUse: neither the range nor the bit is consulted.
InUseUnchecked(p) == TRUE

\* What pmm_free_page acts on; other indices are ignored.
InUse(p) == p < TotalPages /\ p \notin bitmap

FreePage(p) ==
  /\ pc = "ready"
  /\ IF InUse(p)
       THEN /\ bitmap' = bitmap \cup {p}
            /\ link' = [link EXCEPT ![p] = head]
            /\ head' = p
            /\ free_pages' = free_pages + 1
            /\ owned' = owned \ {p}
            /\ chain' = <<p>> \o chain
       ELSE UNCHANGED <<bitmap, link, head, free_pages, owned, chain>>
  /\ UNCHANGED <<pc, mmap, i, walk>>

\* An owner stores into the first word of its page.
WriteOwned(p, w) ==
  /\ pc = "ready" /\ p \in owned
  /\ link' = [link EXCEPT ![p] = w]
  /\ UNCHANGED <<pc, mmap, bitmap, head, free_pages, i, walk, owned, chain>>

-----------------------------------------------------------------------------
(***************************************************************************)
(* pmm_alloc_contiguous                                                    *)
(***************************************************************************)

StartScan(n) ==
  /\ pc = "ready"
  /\ pc' = "scan" /\ count' = n /\ i' = 0
  /\ UNCHANGED <<mmap, bitmap, link, head, free_pages, j, prev, cur, owned,
                 chain, pos>>

\* The outer loop: skip used pages; NULL at the end of memory.
ScanPage ==
  /\ pc = "scan"
  /\ IF i >= TotalPages
       THEN pc' = "ready" /\ DropLocals
       ELSE /\ IF i \in bitmap THEN pc' = "extend" /\ j' = 1 /\ UNCHANGED i
                               ELSE i' = i + 1 /\ UNCHANGED <<pc, j>>
            /\ UNCHANGED <<count, prev, cur, pos>>
  /\ UNCHANGED <<mmap, bitmap, link, head, free_pages, owned, chain>>

\* Mutant of SkipRun: one page too many is skipped.
SkipRunTooFar == pc' = "scan" /\ i' = i + j + 2 /\ j' = 0

\* Go on behind the page that cut the run short (i += j, then i++).
SkipRun == pc' = "scan" /\ i' = i + j + 1 /\ j' = 0

\* The inner loop: grow the run at i until it is long enough or stops short.
ExtendRun ==
  /\ pc = "extend"
  /\ IF j < count /\ i + j < TotalPages /\ i + j \in bitmap
       THEN j' = j + 1 /\ UNCHANGED <<pc, i, prev, cur, pos>>
       ELSE IF j = count
              THEN /\ pc' = "unlink" /\ j' = 0 /\ UNCHANGED i
                   /\ prev' = Nil /\ cur' = head /\ pos' = 1
              ELSE SkipRun /\ UNCHANGED <<prev, cur, pos>>
  /\ UNCHANGED <<mmap, bitmap, link, head, free_pages, count, owned, chain>>

\* Walk to page i + j ...
WalkList ==
  /\ pc = "unlink" /\ j < count
  /\ cur # Nil /\ cur # i + j
  /\ prev' = cur /\ cur' = link[cur] /\ pos' = pos + 1
  /\ UNCHANGED <<pc, mmap, bitmap, link, head, free_pages, i, j, count, owned,
                 chain>>

\* Mutant of BypassCur: the head is moved whether or not cur is the first.
BypassCurMovesHead ==
  /\ head' = link[cur] /\ UNCHANGED link
  /\ chain' = SubSeq(chain, pos + 1, Len(chain))

\* Join the two neighbours of cur.
BypassCur ==
  /\ IF prev = Nil
       THEN head' = link[cur] /\ UNCHANGED link
       ELSE link' = [link EXCEPT ![prev] = link[cur]] /\ UNCHANGED head
  /\ chain' = SubSeq(chain, 1, pos - 1) \o SubSeq(chain, pos + 1, Len(chain))

\* ... take it off the list if it is there, clear its bit, and start over
\* from the head for the next page of the run.
UnlinkPage ==
  /\ pc = "unlink" /\ j < count
  /\ cur = Nil \/ cur = i + j
  /\ IF cur = Nil THEN UNCHANGED <<head, link, chain>> ELSE BypassCur
  /\ bitmap' = bitmap \ {i + j}
  /\ free_pages' = free_pages - 1
  /\ j' = j + 1 /\ prev' = Nil /\ cur' = head' /\ pos' = 1
  /\ UNCHANGED <<pc, mmap, i, count, owned>>

ReturnRun ==
  /\ pc = "unlink" /\ j = count
  /\ pc' = "ready" /\ DropLocals
  /\ owned' = IF i = 0 THEN owned ELSE owned \cup i .. i + count - 1
  /\ UNCHANGED <<mmap, bitmap, link, head, free_pages, chain>>

-----------------------------------------------------------------------------
Boot == MarkEntry \/ CountFree \/ ReserveKernel \/ ReserveBitmap \/ BuildList

AllocContiguous == ScanPage \/ ExtendRun \/ WalkList \/ UnlinkPage \/ ReturnRun

\* Callers give back pages they own; a page freed twice, and an address
\* beyond the memory, reach pmm_free_page too.
Next ==
  \/ Boot
  \/ Halted
  \/ AllocPage
  \/ \E p \in owned \cup bitmap \cup {TotalPages} : FreePage(p)
  \/ \E p \in owned, w \in Words : WriteOwned(p, w)
  \/ \E n \in 1 .. MaxRun : StartScan(n)
  \/ AllocContiguous

Spec == Init /\ [][Next]_vars

-----------------------------------------------------------------------------
(***************************************************************************)
(* Properties                                                              *)
(***************************************************************************)

TypeOK ==
  /\ pc \in {"mmap", "kernel", "bitmap", "build", "ready", "halt", "scan",
             "extend", "unlink"}
  /\ mmap \in MemoryMaps
  /\ bitmap \subseteq Pages
  /\ link \in [Pages -> Link]
  /\ head \in Link
  /\ free_pages \in Nat
  /\ i \in Nat /\ j \in Nat /\ count \in 0 .. MaxRun
  /\ prev \in Link /\ cur \in Link
  /\ owned \subseteq Pages
  /\ chain \in Seq(Pages)
  /\ pos \in Nat \ {0}

Booted == pc \in {"ready", "scan", "extend", "unlink"}

OnList == {chain[n] : n \in 1 .. Len(chain)}

\* Following the words stored in the free pages from free_list_head visits
\* exactly the pages of chain and then ends, no page twice.
ListLinked ==
  /\ head = IF chain = <<>> THEN Nil ELSE chain[1]
  /\ \A n \in 1 .. Len(chain) :
       link[chain[n]] = IF n = Len(chain) THEN Nil ELSE chain[n + 1]
  /\ \A m, n \in 1 .. Len(chain) : chain[m] = chain[n] => m = n

\* The list threaded through the free pages and the bitmap never disagree
\* once pmm_init has built the list: whatever owners write into their pages
\* and however often a page is freed, the list is acyclic and holds exactly
\* the pages whose bit is 1.
FreeListMatchesBitmap == Booted => ListLinked /\ OnList = bitmap

\* Pages kept from the callers for good: the part of memory below 1 MB that
\* the map does not release, the kernel image and the bitmap.
Reserved == KernelPages \cup BitmapPages

\* A page is never in two hands: what the list offers next is neither owned
\* by a caller nor part of the kernel image or the bitmap, and no caller owns
\* a page of those.
NoPageInTwoHands ==
  Booted => /\ OnList \cap owned = {}
            /\ (OnList \cup owned) \cap Reserved = {}

\* The pages of a run that pmm_alloc_contiguous has taken and not returned yet.
InTransit == IF pc = "unlink" THEN {i + n : n \in 0 .. j - 1} ELSE {}

\* No page is lost: outside the pages pmm_init withheld, a page is free, owned,
\* or being handed out, whatever the order of calls; and free_pages, which
\* pmm_get_free_pages reports, is the number of free ones.
Withheld == Pages \ (OnList \cup owned \cup InTransit)
NoPageLost == [][Booted /\ Booted' => Withheld' = Withheld]_vars
FreePagesExact ==
  pc \notin {"mmap"} => free_pages = Cardinality(bitmap)

IsRun(b, n) == \A k \in 0 .. n - 1 : b + k \in bitmap

\* pmm_alloc_contiguous is first fit: the run it takes is the lowest one, and it
\* returns NULL only when memory holds no run of that length, although the
\* scan jumps over i += j pages at a time.
ContiguousFirstFit ==
  /\ pc \in {"scan", "extend"} => \A b \in Pages : b < i => ~IsRun(b, count)
  /\ pc = "extend" => IsRun(i, j)

\* A page the memory map gives a type other than "available" is never offered:
\* what the comment on the else branch of pmm_init's loop requires.
UnusableNeverFree ==
  Booted => \A e \in {mmap[n] : n \in 1 .. Len(mmap)} :
              e.type # 1 => OnList \cap (e.base .. e.base + e.length - 1) = {}

-----------------------------------------------------------------------------
(***************************************************************************)
(* The inductive invariant behind the properties (PmmProofs).              *)
(***************************************************************************)

PastCount == pc # "mmap"
PastReserve == pc \in {"build", "halt"} \/ Booted

CountInv == PastCount => free_pages = Cardinality(bitmap)

ReserveInv ==
  /\ 0 \notin bitmap
  /\ pc = "mmap" => i >= 1
  /\ pc = "kernel" => i >= LowPages
  /\ pc = "bitmap" => i >= BitmapStart
  /\ \A p \in KernelPages :
       PastReserve \/ pc = "bitmap" \/ (pc = "kernel" /\ p < i) => p \notin bitmap
  /\ \A p \in BitmapPages :
       PastReserve \/ (pc = "bitmap" /\ p < i) => p \notin bitmap

ListInv ==
  /\ ListLinked
  /\ OnList = IF pc = "build" THEN {p \in bitmap : p < i}
                              ELSE IF Booted THEN bitmap ELSE {}

OwnerInv ==
  /\ ~Booted => owned = {}
  /\ owned \cap bitmap = {}
  /\ owned \cap Reserved = {}
  /\ 0 \notin owned

ScanInv ==
  /\ ContiguousFirstFit
  /\ pc \in {"scan", "extend", "unlink"} => count >= 1
  /\ pc = "extend" => j >= 1 /\ j <= count

UnlinkInv ==
  pc = "unlink" =>
    /\ j <= count /\ i # 0
    /\ pos <= Len(chain) + 1
    /\ cur = IF pos <= Len(chain) THEN chain[pos] ELSE Nil
    /\ prev = IF pos = 1 THEN Nil ELSE chain[pos - 1]
    /\ \A n \in 1 .. pos - 1 : chain[n] # i + j
    /\ \A k \in j .. count - 1 : i + k \in bitmap
    /\ InTransit \cap (bitmap \cup owned \cup Reserved) = {}
    /\ InTransit \subseteq Pages

IInv == /\ TypeOK /\ CountInv /\ ReserveInv /\ ListInv /\ OwnerInv /\ ScanInv
        /\ UnlinkInv

-----------------------------------------------------------------------------
\* The allocator implements the abstract one: the pages of a run being unlinked
\* still count as free until pmm_alloc_contiguous returns them.
Allocator == INSTANCE PageAllocator WITH
  up <- Booted,
  free <- IF Booted THEN bitmap \cup InTransit ELSE {}

\* Every call of the real allocator, loops and list surgery included, is one
\* Take, TakeRun or Give of the abstract allocator or changes nothing a caller
\* can see.
ImplementsAllocator == Allocator!Spec
=============================================================================
