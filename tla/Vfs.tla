---------------------------------- MODULE Vfs ----------------------------------
(***************************************************************************)
(* The mount table of fs/vfs.c: devices are registered, mounted, remounted *)
(* and unmounted at points of the name space, and a path is routed to the  *)
(* file system of the longest point that covers it.                        *)
(*                                                                         *)
(* Paths and points are sequences of characters, because the routing is a  *)
(* comparison of characters; "/" is the separator.                         *)
(***************************************************************************)
EXTENDS Probe, FiniteSets

CONSTANTS
  Devices,         (* block devices                                        *)
  NoDevice,
  Disk,            (* what is on each device (see Probe)                   *)
  MAX_MOUNTS,      (* VFS_MAX_MOUNTS, 8                                    *)
  MAX_DEVS,        (* VFS_MAX_DEVS, 8                                      *)
  POINT_MAX,       (* characters of a stored mount point, 31               *)
  Points           (* mount points that are asked for                      *)

Root == <<"/">>

ASSUME VfsAssumption ==
  /\ NoDevice \notin Devices
  /\ MAX_MOUNTS \in Nat /\ MAX_DEVS \in Nat /\ POINT_MAX \in Nat
  /\ \A p \in Points : p \in Seq(STRING) /\ p # <<>>

Slots == 1 .. MAX_MOUNTS

VARIABLES
  devs,     (* the registered devices, in order                            *)
  mounts    (* the slots: mounted, point, dev, and the file system inside: *)
            (* fsdev, the device it reads, and vol, the device from which   *)
            (* it has geometry and offset, NoDevice if they do not belong  *)
            (* together                                                    *)

vars == <<devs, mounts>>

Init ==
  /\ devs = <<>>
  /\ mounts = [i \in Slots |-> [mounted |-> FALSE, point |-> <<>>, dev |-> NoDevice,
                                fsdev |-> NoDevice, vol |-> NoDevice]]

Registered == {devs[i] : i \in DOMAIN devs}

\* vfs_register_device.
vfs_register_device(d) ==
  /\ d \notin Registered
  /\ Len(devs) < MAX_DEVS
  /\ devs' = Append(devs, d)
  /\ UNCHANGED mounts

-----------------------------------------------------------------------------
\* The slot for a point: the one that is mounted there, or a free one.
\* Mutant of At: points that begin with p.
AtPrefix(p) ==
  {i \in Slots : /\ mounts[i].mounted /\ Len(p) <= Len(mounts[i].point)
                 /\ SubSeq(mounts[i].point, 1, Len(p)) = p}
At(p) == {i \in Slots : mounts[i].mounted /\ mounts[i].point = p}
Free == {i \in Slots : ~ mounts[i].mounted}
First(S) == CHOOSE i \in S : \A j \in S : i <= j
SlotFor(p) == IF At(p) # {} THEN First(At(p)) ELSE First(Free)

Stored(p) == IF Len(p) > POINT_MAX THEN SubSeq(p, 1, POINT_MAX) ELSE p

\* The point is stored before anything is known about the device.
CanMount(p, d) == d \in Registered /\ (At(p) # {} \/ Free # {})

\* vfs_mount: not recognised, or sector 0 cannot be read.
MountUnsupported(p, d) ==
  /\ CanMount(p, d)
  /\ mounts' = [mounts EXCEPT ![SlotFor(p)].point = Stored(p)]
  /\ UNCHANGED devs

\* Recognised, but fat_mount fails, because it decides otherwise or a read
\* fails.  By then it has changed the device of the file system in the slot,
\* which may be in use: a failed read of sector 0 can leave the geometry as it
\* was, a boot sector that is refused has replaced it in part.
Failed(s, p, d, v) == [s EXCEPT !.point = Stored(p), !.fsdev = d, !.vol = v]
MountFails(p, d) ==
  /\ CanMount(p, d) /\ fs_probe(Disk[d])
  /\ \E v \in {mounts[SlotFor(p)].vol, NoDevice} :
       mounts' = [mounts EXCEPT ![SlotFor(p)] = Failed(@, p, d, v)]
  /\ UNCHANGED devs

Mounted(p, d) == [mounted |-> TRUE, point |-> Stored(p), dev |-> d, fsdev |-> d, vol |-> d]
MountDone(p, d) ==
  /\ CanMount(p, d) /\ fs_probe(Disk[d]) /\ fat_mount(Disk[d])
  /\ mounts' = [mounts EXCEPT ![SlotFor(p)] = Mounted(p, d)]
  /\ UNCHANGED devs

\* vfs_umount.
vfs_umount(p) ==
  /\ At(p) # {}
  /\ mounts' = [mounts EXCEPT ![First(At(p))].mounted = FALSE]
  /\ UNCHANGED devs

RegisterAny == \E d \in Devices : vfs_register_device(d)
MountAny == \E p \in Points, d \in Devices :
              MountUnsupported(p, d) \/ MountFails(p, d) \/ MountDone(p, d)
UnmountAny == \E p \in Points : vfs_umount(p)

Next == RegisterAny \/ MountAny \/ UnmountAny

Spec == Init /\ [][Next]_vars

-----------------------------------------------------------------------------
(***************************************************************************)
(* vfs_resolve: the slot, 0 for none, and what is left of the path         *)
(***************************************************************************)

RootSlot == IF At(Root) = {} THEN 0 ELSE First(At(Root))

\* strncmp and the character behind the prefix.
\* Mutant of Matches: the character behind the prefix is not looked at.
MatchesPrefix(m, path) == Len(m) <= Len(path) /\ SubSeq(path, 1, Len(m)) = m
Matches(m, path) ==
  /\ Len(m) <= Len(path) /\ SubSeq(path, 1, Len(m)) = m
  /\ Len(path) = Len(m) \/ path[Len(m) + 1] = "/"

\* The first slot with the longest matching point.
Best(path) ==
  LET all == {i \in Slots : mounts[i].mounted /\ Matches(mounts[i].point, path)}
  IN  {i \in all : \A j \in all : Len(mounts[j].point) <= Len(mounts[i].point)}

vfs_resolve(path) ==
  IF path = <<>> THEN [slot |-> RootSlot, sub |-> <<>>]
  ELSE IF Best(path) # {}
  THEN LET i == First(Best(path))
       IN  [slot |-> i, sub |-> SubSeq(path, Len(mounts[i].point) + 2, Len(path))]
  ELSE [slot |-> RootSlot,
        sub |-> IF RootSlot # 0 /\ path[1] = "/" THEN Tail(path)
                ELSE IF RootSlot # 0 THEN path ELSE <<>>]

-----------------------------------------------------------------------------
(***************************************************************************)
(* Properties                                                              *)
(***************************************************************************)

\* The table has its type.
TypeOK ==
  /\ Registered \subseteq Devices /\ Len(devs) <= MAX_DEVS
  /\ DOMAIN mounts = Slots
  /\ \A i \in Slots :
       /\ mounts[i].mounted \in BOOLEAN
       /\ mounts[i].mounted => mounts[i].dev \in Devices
       /\ {mounts[i].dev, mounts[i].fsdev, mounts[i].vol} \subseteq Devices \cup {NoDevice}

\* A point is mounted once, however often it is mounted, remounted and
\* unmounted (vfs_mount: "the same mount_point is mounted again").
PointsDistinct ==
  \A i, j \in Slots :
    (mounts[i].mounted /\ mounts[j].mounted /\ mounts[i].point = mounts[j].point) => i = j

TableSound == TypeOK /\ PointsDistinct

\* A mounted file system reads the device that its slot names, with the
\* geometry of that device ("find the device, then fat_mount, then take the
\* slot", vfs_mount).
ReachesItsDevice ==
  \A i \in Slots :
    mounts[i].mounted => mounts[i].fsdev = mounts[i].dev /\ mounts[i].vol = mounts[i].dev

\* The table implements the abstract one: a point has the device that was
\* mounted there last with success, however many mounts fail and wherever,
\* and its file system reads that device unless a mount has failed at this
\* very point since.
Table ==
  [p \in Points |->
     IF \E i \in Slots : mounts[i].mounted /\ mounts[i].point = p
     THEN mounts[CHOOSE i \in Slots : mounts[i].mounted /\ mounts[i].point = p].dev
     ELSE NoDevice]
Broken ==
  {p \in Points : \E i \in At(p) : mounts[i].fsdev # mounts[i].dev \/ mounts[i].vol # mounts[i].dev}
Abstract == INSTANCE MountTable WITH
  Capacity <- MAX_MOUNTS, known <- Registered, at <- Table, broken <- Broken
ImplementsMountTable == Abstract!Spec
================================================================================
