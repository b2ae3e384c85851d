---------------------------------- MODULE MCVfs --------------------------------
(* Vfs with two devices and a few nested points, and the routing compared   *)
(* with its definition by path components.                                  *)
EXTENDS Vfs, SequencesExt

CONSTANTS d1, d2, d3

Sector == [sig |-> TRUE, label |-> "FAT", bps |-> 512, spc |-> 2, nfats |-> 2,
           fatsz |-> 128, total |-> 65535]
\* A volume without partitions, one in a partition, and one that is
\* recognised but not mounted (sectors of 1024 bytes).
MCDisk ==
  [d \in Devices |->
     CASE d = d1 -> [boot |-> Sector, parts |-> <<>>]
       [] d = d2 -> [boot |-> [Sector EXCEPT !.label = "none", !.bps = 0],
                     parts |-> <<[fat |-> TRUE, boot |-> Sector]>>]
       [] d = d3 -> [boot |-> [Sector EXCEPT !.label = "none", !.bps = 1024], parts |-> <<>>]]
MCPoints == {Root, <<"/", "a">>, <<"/", "a", "b">>, <<"/", "a", "/", "b">>}
MCLongPoints == {Root, <<"/", "a", "/", "b", "b">>}

\* Slots that are not mounted are overwritten before they are read, devices are
\* looked up by name, and slots by their points: the order of either does not matter.
View == <<Registered, Cardinality(Free), {mounts[i] : i \in Slots \ Free}>>

\* All the disks that differ in what Probe looks at, with up to two
\* partitions.
Sectors == [sig : BOOLEAN, label : {"FAT", "none", "other"}, bps : {0, 512, 1024},
            spc : {0, 2, 3, 128}, nfats : {0, 2}, fatsz : {0, 128}, total : {65535}]
Blank == [Sector EXCEPT !.label = "none", !.bps = 0, !.spc = 0, !.fatsz = 0]
PartitionEntries == [fat : BOOLEAN, boot : {Blank, Sector, [Sector EXCEPT !.label = "none"]}]
Disks == [boot : Sectors, parts : UNION {[1 .. n -> PartitionEntries] : n \in 0 .. 2}]

\* A disk as formatting and partitioning tools leave it is recognised by
\* fs_probe if and only if fat_mount then mounts it.  It is a statement about
\* disks alone, evaluated in the state in which no device is registered.
ProbeAgrees ==
  devs = <<>> =>
    \A disk \in Disks : WellFormed(disk) => (fs_probe(disk) <=> fat_mount(disk))

\* The numeric test of fs_probe is the one of fat_mount.
NumericMirrors ==
  devs = <<>> => \A s \in Sectors : probe_fat_numeric(s) <=> detect_fat_type(s)

\* No doubled and no trailing separators.
Clean(p) ==
  /\ \A i \in 1 .. Len(p) - 1 : p[i] = "/" => p[i + 1] # "/"
  /\ Len(p) > 1 => p[Len(p)] # "/"

\* The clean paths of up to six characters.
Paths == {p \in UNION {[1 .. n -> {"/", "a", "b"}] : n \in 0 .. 6} : Clean(p)}

\* A path cut into its components, up to each of its characters: one that follows a
\* separator begins a component, any other goes on with the last.
Cut(p, i, c) ==
  IF p[i] = "/" THEN c
  ELSE IF i = 1 \/ p[i - 1] = "/" THEN Append(c, <<p[i]>>)
  ELSE Append(Front(c), Append(Last(c), p[i]))
CutUpTo(p) ==
  LET cut[i \in 0 .. Len(p)] == IF i = 0 THEN <<>> ELSE Cut(p, i, cut[i - 1])
  IN  cut
Components(p) == CutUpTo(p)[Len(p)]

\* An absolute path is routed to the mounted point with the most components
\* that begins it, all others to the root, and the rest of the path names
\* the components that are left (vfs_resolve).
ResolvesByComponents(path) ==
  LET r == vfs_resolve(path)
      c == Components(path)
      covers(i) == /\ mounts[i].mounted
                   /\ path # <<>> /\ path[1] = "/"
                   /\ IsPrefix(Components(mounts[i].point), c)
      depth(i) == Len(Components(mounts[i].point))
  IN  IF \E i \in Slots : covers(i)
      THEN /\ r.slot # 0 /\ covers(r.slot)
           /\ \A i \in Slots : covers(i) => depth(i) <= depth(r.slot)
           /\ Components(r.sub) = SubSeq(c, depth(r.slot) + 1, Len(c))
      ELSE /\ r.slot = RootSlot
           /\ r.slot # 0 => Components(r.sub) = c

\* Every path reaches the point it names: the table has a point once, whatever
\* mounts have failed there, and vfs_resolve picks the right one.
RoutesRight == TableSound /\ \A path \in Paths : ResolvesByComponents(path)
================================================================================
