---------------------------------- MODULE Fat ----------------------------------
(***************************************************************************)
(* The FAT16 driver, fs/fat.c: the allocation table, the fixed root        *)
(* directory, subdirectories in cluster chains and the operations that     *)
(* change them, one disk write per step.  A write may fail and the machine *)
(* may be switched off between two writes, as far as Faults allows.        *)
(*                                                                         *)
(* A cluster is one sector; the second copy of the table is written and    *)
(* never read, and is left out but for one thing, see write_fat_entry.     *)
(* Calls that return false before they have written anything are left out. *)
(***************************************************************************)
EXTENDS Integers, Sequences, FiniteSets

CONSTANTS
  NClusters,    (* clusters of the volume                                  *)
  RootSlots,    (* entries of the root directory (512)                     *)
  PerCluster,   (* directory entries in a cluster (32)                     *)
  SCAN,         (* entries that a search for a name looks at (128)         *)
  Struck,       (* the cluster that a write of table entry 0xFFF8 hits, or *)
                (* 0: see write_fat_entry                                  *)
  Files,        (* names of files                                          *)
  SubFiles,     (* those that subdirectories contain, too                  *)
  Dirs,         (* names of directories                                    *)
  WrittenTo,    (* names in the root that files are written to             *)
  MaxSize,      (* size of a file in clusters, at most                     *)
  Modes,        (* values of the borrowed permission fields                *)
  Overwrite,    (* TRUE: files are overwritten, too                        *)
  Deletes,      (* TRUE: files and directories are deleted                 *)
  Readings,     (* as how many entries a sector of a file's data may read  *)
  Faults,       (* what may happen: "cut", or a failing write of "data",   *)
                (* of an "entry" or of the zeros of a new directory        *)
  MaxFaults

max_cluster == 2 + NClusters
Clusters == 2 .. max_cluster - 1
Eoc == 65528

ASSUME FatAssumption ==
  /\ NClusters \in Nat /\ max_cluster < Eoc
  /\ RootSlots \in Nat /\ PerCluster \in Nat /\ PerCluster > 2 /\ SCAN \in Nat
  /\ Struck \in Clusters \cup {0} /\ Readings \subseteq 0 .. PerCluster
  /\ MaxSize \in Nat /\ MaxFaults \in Nat

VARIABLES
  fat,     (* the allocation table                                         *)
  root,    (* the entries of the root directory                            *)
  data,    (* the clusters: entries of a directory, or part of a file      *)
  op,      (* the operation in progress                                    *)
  faults,  (* how many faults there were                                   *)
  last,    (* of every path what was written there last, if not deleted    *)
  ruined   (* has a stray write cleared a directory?  See Watch            *)

vars == <<fat, root, data, op, faults, last, ruined>>

Entry(n, d, f, s, m) == [name |-> n, dir |-> d, first |-> f, size |-> s, mode |-> m]
End == Entry("end", FALSE, 0, 0, 0)
Deleted == Entry("deleted", FALSE, 0, 0, 0)
Live(e) == e # End /\ e # Deleted

\* What the bytes of a file look like where a directory is expected: the name,
\* the clusters and the size are anything.  No operation uses the name, so
\* nothing looks at the rest.
Junk == Entry("junk", FALSE, 0, 0, 0)
Stale(e) == e = Junk

Empty == [slots |-> [i \in 1 .. PerCluster |-> End], owner |-> <<>>, part |-> 0]
\* Part k of the file p.  Its bytes read as n entries, up to the zeros that the
\* last sector of a file is filled with.
FilePart(p, k, n) ==
  [slots |-> [i \in 1 .. PerCluster |-> IF i <= n THEN Junk ELSE End], owner |-> p, part |-> k]
\* A sector with the first two entries set.
Dots(old, c, parent) ==
  [Empty EXCEPT !.slots = [old.slots EXCEPT ![1] = Entry(".", TRUE, c, 0, 0),
                                            ![2] = Entry("..", TRUE, parent, 0, 0)]]

Idle == [pc |-> "idle"]
Nothing == [size |-> -1, mode |-> 0]
Paths == {<<n>> : n \in Files} \cup {<<d, n>> : d \in Dirs, n \in SubFiles}

Init ==
  /\ fat = [c \in Clusters |-> 0]
  /\ root = [i \in 1 .. RootSlots |-> End]
  /\ data = [c \in Clusters |-> Empty]
  /\ op = Idle /\ faults = 0
  /\ last = [p \in Paths |-> Nothing]
  /\ ruined = FALSE

-----------------------------------------------------------------------------
(***************************************************************************)
(* Reading                                                                 *)
(***************************************************************************)

\* The table is longer than the volume needs, and entry 0xFFF8 lies behind
\* what it uses: it reads as 0.
read_fat_entry(c) == IF c \in Clusters THEN fat[c] ELSE 0

\* The code compares with 0x0FFFFFF8 whatever the type of the volume.
AtEnd(v) == v >= 268435448

\* What a table leads to from a cluster, step by step.
Reached(t, first) ==
  LET nth[n \in 0 .. NClusters] ==
        IF n = 0 THEN first ELSE IF nth[n - 1] \in Clusters THEN t[nth[n - 1]] ELSE 0
  IN  nth

\* A chain is what is reached as long as that are clusters.
ChainIn(t, first) ==
  LET nth == Reached(t, first)
      len == Cardinality({n \in 0 .. NClusters - 1 : \A k \in 0 .. n : nth[k] \in Clusters})
  IN  [i \in 1 .. len |-> nth[i - 1]]
Chain(first) == ChainIn(fat, first)
InChain(first) == LET s == Chain(first) IN {s[i] : i \in DOMAIN s}

\* Positions <<cluster, index>> of the entries of a directory; cluster 0 is
\* the root.
Positions(d) ==
  IF d = 0 THEN [i \in 1 .. RootSlots |-> <<0, i>>]
  ELSE LET ch == Chain(d)
       IN  [i \in 1 .. Len(ch) * PerCluster |->
              <<ch[((i - 1) \div PerCluster) + 1], ((i - 1) % PerCluster) + 1>>]
Slot(p) == IF p[1] = 0 THEN root[p[2]] ELSE data[p[1]].slots[p[2]]

\* What a sequence has at the first of some of its indices, as a set, which is
\* empty if there is none of them.
FirstOf(s, I) == {s[i] : i \in {i \in I : \A j \in I : i <= j}}

\* Where fat_read_dir looks.  A subdirectory without an end mark goes on through the
\* end of its chain: 0xFFF8 is taken for a cluster, it cannot be read, and its
\* table entry 0 is the root directory.
Walked(d) == Positions(d) \o (IF d = 0 THEN <<>> ELSE Positions(0))

\* fat_read_dir: the places of the first SCAN entries before the end mark.
fat_read_dir(d) ==
  LET all == Walked(d)
      seen == {i \in DOMAIN all : Slot(all[i]) # Deleted /\ \A j \in 1 .. i : Slot(all[j]) # End}
  IN  {i \in seen : Cardinality({j \in seen : j <= i}) <= SCAN}

dir_find_name(d, n) ==
  LET all == Walked(d) IN FirstOf(all, {i \in fat_read_dir(d) : Slot(all[i]).name = n})

\* dir_find_slot: the name, or a free slot, whichever comes first.  At the
\* end of a chain it tries to read 0xFFF8, too, and finds nothing.
dir_find_slot(d, n) ==
  LET all == Positions(d)
  IN  FirstOf(all, {i \in DOMAIN all : ~ Live(Slot(all[i])) \/ Slot(all[i]).name = n})

\* fat_resolve_parent: the directory of a path.
Parent(p) ==
  IF Len(p) = 1 THEN {0}
  ELSE {Slot(q).first : q \in {q \in dir_find_name(0, p[1]) : Slot(q).dir}}
Name(p) == p[Len(p)]
Lookup(p) == UNION {dir_find_name(d, Name(p)) : d \in Parent(p)}
FindSlot(p) == UNION {dir_find_slot(d, Name(p)) : d \in Parent(p)}

-----------------------------------------------------------------------------
(***************************************************************************)
(* Writing                                                                 *)
(***************************************************************************)

\* Entry 0xFFF8 is at sector 255 of the table, which for the volumes that
\* create_disk.sh makes (128 sectors per copy) is padding of the second
\* copy; the mirror of that sector lies 128 sectors further, in the data
\* area, and is overwritten.
write_fat_entry(c, v) ==
  IF c \in Clusters
  THEN fat' = [fat EXCEPT ![c] = v] /\ UNCHANGED data
  ELSE /\ UNCHANGED fat
       /\ data' = IF Struck = 0 THEN data ELSE [data EXCEPT ![Struck] = Empty]

WriteSlot(p, e) ==
  IF p[1] = 0 THEN root' = [root EXCEPT ![p[2]] = e] /\ UNCHANGED data
  ELSE data' = [data EXCEPT ![p[1]].slots[p[2]] = e] /\ UNCHANGED root

Fault(kind) == kind \in Faults /\ faults < MaxFaults /\ faults' = faults + 1

\* Free clusters from c on, in the order of the scan.
FreeFrom(c) == {k \in Clusters : k >= c /\ fat[k] = 0}
Least(S) == CHOOSE k \in S : \A j \in S : k <= j

\* fat_free_chain, one table entry at a time; then the operation goes on.
FreeThen(c, then) == [pc |-> "free", c |-> c, then |-> then]
fat_free_chain ==
  /\ op.pc = "free"
  /\ IF op.c < 2 \/ AtEnd(op.c)
     THEN op' = op.then /\ UNCHANGED <<fat, data>>
     ELSE /\ op' = [op EXCEPT !.c = read_fat_entry(op.c)]
          /\ write_fat_entry(op.c, 0)
  /\ UNCHANGED <<root, faults, last>>

-----------------------------------------------------------------------------
\* fat_write_file: the slot.  A name found is overwritten unless it is a
\* directory.  (A full directory: see dir_extend below.)
fat_write_file(p, size) ==
  /\ op.pc = "idle"
  /\ \E pos \in FindSlot(p) :
       LET named == Slot(pos).name = Name(p)
       IN  /\ named => Overwrite /\ ~ Slot(pos).dir
           /\ op' = [pc |-> "alloc", path |-> p, pos |-> pos, size |-> size,
                     old |-> IF named THEN Slot(pos).first ELSE 0, chain |-> <<>>]
  /\ UNCHANGED <<fat, root, data, faults, last>>

\* Is the end of the table reached: undo.  Enough clusters: mark the end,
\* free the old chain, write the data.
OldFreed == FreeThen(op.old, [op EXCEPT !.pc = "data"])
\* Mutant of NoSpace: the wrong chain is freed.
NoSpaceOld == FreeThen(op.old, Idle)
NoSpace == FreeThen(IF op.chain = <<>> THEN 0 ELSE op.chain[1], Idle)
Tail1 == op.chain[Len(op.chain)]
AllocStep ==
  /\ op.pc = "alloc" /\ Len(op.chain) < op.size
  /\ LET from == IF op.chain = <<>> THEN 2 ELSE Tail1 + 1
         c == Least(FreeFrom(from))
     IN  IF FreeFrom(from) = {}
         THEN op' = NoSpace /\ UNCHANGED <<fat, data>>
         ELSE /\ op' = [op EXCEPT !.chain = Append(@, c)]
              /\ IF op.chain = <<>> THEN UNCHANGED <<fat, data>>
                 ELSE write_fat_entry(Tail1, c)
  /\ UNCHANGED <<root, faults, last>>

AllocDone ==
  /\ op.pc = "alloc" /\ Len(op.chain) = op.size
  /\ op' = OldFreed
  /\ IF op.size = 0 THEN UNCHANGED <<fat, data>> ELSE write_fat_entry(Tail1, Eoc)
  /\ UNCHANGED <<root, faults, last>>

\* The data, a cluster at a time; op.size counts what is left.
Part == Len(op.chain) - op.size + 1
\* Mutant of DataFails: the entry is written all the same.
DataFailsUnnoticed == [op EXCEPT !.size = 0]
DataFails == FreeThen(op.chain[1], Idle)
DataStep ==
  /\ op.pc = "data" /\ op.size > 0
  /\ \/ /\ \E n \in Readings : data' = [data EXCEPT ![op.chain[Part]] = FilePart(op.path, Part, n)]
        /\ op' = [op EXCEPT !.size = @ - 1]
        /\ UNCHANGED faults
     \/ /\ Fault("data")
        /\ op' = DataFails
        /\ UNCHANGED data
  /\ UNCHANGED <<fat, root, last>>

\* The directory entry, with the default permissions.
NewEntry == Entry(Name(op.path), FALSE, IF op.chain = <<>> THEN 0 ELSE op.chain[1],
                  Len(op.chain), 0)
EntryStep ==
  /\ op.pc = "data" /\ op.size = 0
  /\ \/ /\ WriteSlot(op.pos, NewEntry)
        /\ last' = IF op.path \in Paths
                   THEN [last EXCEPT ![op.path] = [size |-> Len(op.chain), mode |-> 0]]
                   ELSE last
        /\ UNCHANGED faults
     \/ Fault("entry") /\ UNCHANGED <<root, data, last>>
  /\ op' = Idle
  /\ UNCHANGED fat

\* dir_extend: where the search for the end of a chain ends.  Through 0xFFF8
\* it ends at 0, and there is no extension.
ChainEnd(d) ==
  LET walk[n \in 0 .. NClusters + 2, c \in Clusters \cup {0, Eoc}] ==
        IF n = 0 \/ c < 2 \/ AtEnd(read_fat_entry(c)) THEN c
        ELSE walk[n - 1, read_fat_entry(c)]
  IN  walk[NClusters + 2, d]

-----------------------------------------------------------------------------
\* fat_delete_file.  The name must be found by both searches; a directory
\* must be empty.
EmptyDir(d) ==
  LET all == Walked(d) IN \A i \in fat_read_dir(d) : Slot(all[i]).name \in {".", ".."}
\* Mutant of ChainOf: nothing is freed.
ChainOfNothing(e) == FreeThen(0, Idle)
ChainOf(e) == FreeThen(e.first, Idle)
fat_delete_file(p) ==
  /\ op.pc = "idle" /\ Deletes
  /\ Lookup(p) # {}
  /\ \E pos \in FindSlot(p) :
       LET e == Slot(pos)
       IN  /\ e.name = Name(p)
           /\ (e.dir /\ e.first >= 2) => EmptyDir(e.first)
           /\ \/ /\ WriteSlot(pos, Deleted)
                 /\ op' = ChainOf(e)
                 /\ last' = IF p \in Paths THEN [last EXCEPT ![p] = Nothing] ELSE last
                 /\ UNCHANGED faults
              \/ Fault("entry") /\ UNCHANGED <<root, data, op, last>>
  /\ UNCHANGED fat

\* fat_mkdir: a cluster, zeros, the entries "." and "..", the parent's entry.
fat_mkdir(n) ==
  /\ op.pc = "idle"
  /\ dir_find_name(0, n) = {}
  /\ FreeFrom(2) # {}
  /\ write_fat_entry(Least(FreeFrom(2)), Eoc)
  /\ op' = [pc |-> "zero", path |-> <<n>>, c |-> Least(FreeFrom(2))]
  /\ UNCHANGED <<root, faults, last>>

\* The zeros.  The result of the write is ignored: if it fails, the directory
\* begins with what the cluster held before.
ZeroStep ==
  /\ op.pc = "zero"
  /\ op' = [op EXCEPT !.pc = "dots"]
  /\ \/ data' = [data EXCEPT ![op.c] = Empty] /\ UNCHANGED faults
     \/ Fault("zero") /\ UNCHANGED data
  /\ UNCHANGED <<fat, root, last>>

\* The sector is read again and gets the two entries.
DotsStep ==
  /\ op.pc = "dots"
  /\ \/ /\ data' = [data EXCEPT ![op.c] = Dots(@, op.c, 0)]
        /\ op' = [op EXCEPT !.pc = "link"]
        /\ UNCHANGED faults
     \/ Fault("data") /\ op' = FreeThen(op.c, Idle) /\ UNCHANGED data
  /\ UNCHANGED <<fat, root, last>>

LinkFails == FreeThen(op.c, Idle)
LinkStep ==
  LET slots == {pos \in dir_find_slot(0, Name(op.path)) : Slot(pos).name # Name(op.path)}
  IN  /\ op.pc = "link"
      /\ \/ /\ slots = {}
            /\ op' = LinkFails
            /\ UNCHANGED <<root, data, faults>>
         \/ \E pos \in slots :
              \/ /\ WriteSlot(pos, Entry(Name(op.path), TRUE, op.c, 0, 0))
                 /\ op' = Idle
                 /\ UNCHANGED faults
              \/ Fault("entry") /\ op' = LinkFails /\ UNCHANGED <<root, data>>
      /\ UNCHANGED <<fat, last>>

\* fat_set_file_meta.
fat_set_file_meta(p, m) ==
  /\ op.pc = "idle"
  /\ Lookup(p) # {}
  /\ \E pos \in FindSlot(p) :
       /\ Slot(pos).name = Name(p)
       /\ \/ /\ WriteSlot(pos, [Slot(pos) EXCEPT !.mode = m])
             /\ last' = IF last[p] = Nothing THEN last ELSE [last EXCEPT ![p].mode = m]
             /\ UNCHANGED faults
          \/ Fault("entry") /\ UNCHANGED <<root, data, last>>
  /\ UNCHANGED <<fat, op>>

\* The machine is switched off in the middle of an operation.
PowerCut ==
  /\ op.pc # "idle"
  /\ Fault("cut")
  /\ op' = Idle
  /\ UNCHANGED <<fat, root, data, last>>

WriteAny == \E p \in Paths \cup {<<n>> : n \in WrittenTo}, size \in 0 .. MaxSize :
              fat_write_file(p, size)
DeleteAny == \E p \in Paths \cup {<<n>> : n \in Dirs} : fat_delete_file(p)
MkdirAny == \E n \in Dirs : fat_mkdir(n)
SetModeAny == \E p \in Paths, m \in Modes : fat_set_file_meta(p, m)

Step ==
  \/ WriteAny \/ AllocStep \/ AllocDone \/ DataStep \/ EntryStep
  \/ DeleteAny \/ fat_free_chain
  \/ MkdirAny \/ ZeroStep \/ DotsStep \/ LinkStep
  \/ SetModeAny
  \/ PowerCut

\* For the properties: has write_fat_entry cleared a sector that a directory is in?
Watch ==
  ruined' = \/ ruined
            \/ /\ Struck # 0 /\ data'[Struck] = Empty
               /\ \E i \in 1 .. RootSlots : root[i].dir /\ root[i].first = Struck

Next == Step /\ Watch

Spec == Init /\ [][Next]_vars

-----------------------------------------------------------------------------
(***************************************************************************)
(* Properties                                                              *)
(***************************************************************************)

\* The table, the directories and the clusters have their types.
TypeOK ==
  LET entry(e) == /\ e.name \in Files \cup Dirs \cup {".", "..", "end", "deleted", "junk"}
                  /\ e.dir \in BOOLEAN /\ e.first \in Clusters \cup {0}
                  /\ e.size \in 0 .. MaxSize /\ e.mode \in Modes \cup {0}
  IN  /\ fat \in [Clusters -> Clusters \cup {0, Eoc}]
      /\ DOMAIN root = 1 .. RootSlots /\ \A i \in DOMAIN root : entry(root[i])
      /\ DOMAIN data = Clusters
      /\ \A c \in Clusters : \A i \in 1 .. PerCluster : entry(data[c].slots[i])
      /\ faults \in 0 .. MaxFaults
      /\ DOMAIN last = Paths

\* The positions of the entries that the driver has written to the root and to its
\* subdirectories, dots apart.
RootLive == {p \in {<<0, i>> : i \in 1 .. RootSlots} : Live(Slot(p))}
SubLive == UNION {{q \in InChain(Slot(p).first) \X (3 .. PerCluster) :
                      Live(Slot(q)) /\ ~ Stale(Slot(q))} : p \in {p \in RootLive : Slot(p).dir}}
AllLive == RootLive \cup SubLive

\* The entry that an operation in progress is about to replace.
Target == IF op.pc \in {"alloc", "data"} THEN {op.pos}
          ELSE IF op.pc = "free" /\ op.then.pc = "data" THEN {op.then.pos} ELSE {}

\* Every entry has a chain of its own as long as the file, ended by the mark;
\* no cluster is in two chains and none of them is free for the allocator.
\* The one entry that is being overwritten is left aside.
ChainsSound ==
  /\ TypeOK
  /\ \A p \in AllLive \ Target :
       LET ch == Chain(Slot(p).first)
       IN  /\ Len(ch) = (IF Slot(p).dir THEN 1 ELSE Slot(p).size)
           /\ ch # <<>> => fat[ch[Len(ch)]] = Eoc
  /\ \A p, q \in AllLive \ Target :
       p # q => InChain(Slot(p).first) \cap InChain(Slot(q).first) = {}

\* The same between operations for every entry: a failed or interrupted
\* operation leaves no entry without its clusters ("free the old chain after
\* the new one is allocated, so that a failure on the way loses no data",
\* fat_write_file).
NoDangling == op.pc = "idle" => ChainsSound

\* Between operations every cluster in use belongs to an entry, unless a stray write
\* (see write_fat_entry) has cleared a directory.
NoLeak ==
  op.pc = "idle" /\ ~ ruined =>
    {c \in Clusters : fat[c] # 0} \subseteq UNION {InChain(Slot(p).first) : p \in AllLive}

\* What was written last is what a reader finds: the name leads to an entry
\* of the size and mode written, and its chain to the data.  Neither later
\* operations on other files nor a failed one on this file change that, but for
\* the one sector that stray writes clear.
Holds(p) ==
  \E pos \in Lookup(p) :
    LET e == Slot(pos)
        ch == Chain(e.first)
    IN  /\ e.size = last[p].size /\ e.mode = last[p].mode /\ ~ e.dir
        /\ Len(ch) = e.size
        /\ \A k \in DOMAIN ch :
             ch[k] = Struck \/ (data[ch[k]].owner = p /\ data[ch[k]].part = k)
LastWriteFound ==
  \A p \in Paths : last[p] # Nothing => Holds(p) \/ Lookup(p) \cap Target # {}

\* The files on the volume are intact: every entry has its own chain and every
\* file holds what was written to it last, as long as no stray write has cleared
\* a directory.
FilesIntact == ruined \/ (ChainsSound /\ LastWriteFound)

\* The stray write of write_fat_entry clears nothing that is in use.
NothingStruck ==
  ~ ruined /\ \A p \in AllLive \ Target :
                 ~ Slot(p).dir /\ op.pc = "idle" =>
                   \A c \in InChain(Slot(p).first) : data[c] # Empty

\* A new directory has no entries but its dots.
NewDirEmpty ==
  op.pc = "link" => \A i \in 3 .. PerCluster : ~ Live(data[op.c].slots[i])

\* A name that is found is also found by the search for its slot, so it can
\* be deleted, overwritten and given another mode.
FoundIsSlot ==
  \A p \in Paths :
    Lookup(p) # {} => \E pos \in FindSlot(p) : Slot(pos).name = Name(p)

\* What was deleted is gone.
DeletedGone == op.pc = "idle" => \A p \in Paths : last[p] = Nothing => Lookup(p) = {}

\* A name looked up in a subdirectory is an entry of that subdirectory.
LookupStays == \A p \in Paths : Len(p) = 2 => \A pos \in Lookup(p) : pos[1] # 0

\* A full subdirectory can be extended.
FullIsExtended ==
  \A p \in Paths : (Len(p) = 2 /\ FindSlot(p) = {}) => \A d \in Parent(p) : ChainEnd(d) >= 2
================================================================================
