--------------------------------- MODULE Probe ---------------------------------
(***************************************************************************)
(* How a disk is recognised: fs_probe of fs/probe.c, which decides whether *)
(* vfs_mount goes on, and fat_mount of fs/fat.c, which reads the disk once *)
(* more and decides by itself.                                             *)
(*                                                                         *)
(* A sector is described by what the two look at:                          *)
(*   sig                        the mark 0x55AA at its end                 *)
(*   label                      the name at offset 54, or the name of a    *)
(*                              file system that is not supported          *)
(*   bps, spc, nfats, fatsz, total   fields of a FAT boot sector           *)
(* and a disk by its first sector, boot, and by parts, the entries of the  *)
(* partition table in that sector, each with a type (fat or not) and the   *)
(* first sector of the partition.                                          *)
(***************************************************************************)
EXTENDS Integers, Sequences

-----------------------------------------------------------------------------
\* fs_probe, with FAT12, FAT16 and FAT32 taken together: they are equally
\* good to vfs_mount.

PowersOfTwo == {1, 2, 4, 8, 16, 32, 64, 128}
probe_fat_numeric(s) ==
  /\ s.bps \in {512, 1024, 2048, 4096}
  /\ s.spc \in PowersOfTwo
  /\ s.nfats # 0 /\ s.fatsz # 0 /\ s.total # 0
Recognised(s) == s.label = "FAT" \/ probe_fat_numeric(s)

fs_probe(disk) ==
  /\ disk.boot.label # "other"
  /\ \/ Recognised(disk.boot)
     \/ /\ disk.boot.sig
        /\ \E i \in DOMAIN disk.parts : disk.parts[i].fat /\ Recognised(disk.parts[i].boot)

-----------------------------------------------------------------------------
\* fat_mount.

detect_fat_type(s) == s.bps = 512 /\ s.spc \in 1 .. 64 /\ s.fatsz # 0
fat_bpb_load(s) == s.sig /\ (s.label = "FAT" \/ detect_fat_type(s))

\* The index of the first FAT partition, or 0.
mbr_find_fat_partition(disk) ==
  LET fat == {i \in DOMAIN disk.parts : disk.parts[i].fat}
  IN  IF ~ disk.boot.sig \/ fat = {} THEN 0
      ELSE CHOOSE i \in fat : \A j \in fat : i <= j

\* Mutant of fat_mount: the first sector is tried before the partitions.
fat_mount_raw(disk) == fat_bpb_load(disk.boot)
fat_mount(disk) ==
  LET part == mbr_find_fat_partition(disk)
  IN  IF part = 0 THEN fat_bpb_load(disk.boot) ELSE fat_bpb_load(disk.parts[part].boot)

-----------------------------------------------------------------------------
\* A sector that is the first of a FAT volume, and one that is not.
FatSector(s) ==
  /\ s.sig /\ s.bps = 512 /\ s.spc \in PowersOfTwo \ {128}
  /\ s.nfats # 0 /\ s.fatsz # 0 /\ s.total # 0
  /\ s.label # "other"
NotFat(s) == s.label # "FAT" /\ s.bps = 0 /\ s.spc = 0 /\ s.fatsz = 0

\* Disks as partitioning and formatting tools leave them: a volume that
\* starts with the first sector, or a table of partitions of which those
\* with a FAT type hold a FAT volume.
WellFormed(disk) ==
  \/ FatSector(disk.boot) /\ disk.parts = <<>>
  \/ /\ NotFat(disk.boot) /\ disk.boot.label = "none"
     /\ \A i \in DOMAIN disk.parts :
          IF disk.parts[i].fat THEN FatSector(disk.parts[i].boot) ELSE NotFat(disk.parts[i].boot)
  \/ NotFat(disk.boot) /\ disk.parts = <<>>
================================================================================
