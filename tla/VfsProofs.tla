------------------------------- MODULE VfsProofs -------------------------------
(* The mount table keeps its promise for any devices, points and numbers of slots, *)
(* a disk is recognised if and only if it can be mounted, and every path is routed *)
(* to the point that its components name.                                          *)
(*                                                                                 *)
(* A slot is written before it is known whether the mount will succeed.  It is     *)
(* either free, and nobody sees what a failed mount has left in it, or that of the *)
(* same point: then point and device stay, and what is lost is the file system     *)
(* inside, at this point and at no other.                                          *)
EXTENDS MCVfs, FiniteSetTheorems, FunctionTheorems, SequenceTheorems, WellFoundedInduction,
        TLAPS

--------------------------------------------------------------------------------
(* The first of a set of slots. *)

LEMMA LeastExists ==
  ASSUME NEW S \in SUBSET Nat, S # {}
  PROVE  \E i \in S : \A j \in S : i <= j
<1>1. PICK m \in S : \A k \in S : ~ (<<k, m>> \in OpToRel(<, Nat))
  BY WFMin, NatLessThanWellFounded, Zenon
<1>2. \A k \in S : ~ (k < m)
  BY <1>1, Zenon DEF OpToRel
<1>3. \A k \in S : m <= k
  BY <1>2
<1> QED
  BY <1>3

LEMMA FirstIn ==
  ASSUME NEW S \in SUBSET Slots, S # {}
  PROVE  First(S) \in S /\ First(S) \in Slots
<1>1. S \in SUBSET Nat
  BY VfsAssumption DEF Slots
<1>2. \E i \in S : \A j \in S : i <= j
  BY <1>1, LeastExists
<1> QED
  BY <1>2, Zenon DEF First

--------------------------------------------------------------------------------
(* The inductive invariant. *)

\* Points are stored whole.
PointsFit == \A p \in Points : Len(p) <= POINT_MAX

Slot == [mounted : BOOLEAN, point : Points \cup {<<>>}, dev : Devices \cup {NoDevice},
         fsdev : Devices \cup {NoDevice}, vol : Devices \cup {NoDevice}]

VfsInv ==
  /\ devs \in Seq(Devices) /\ Len(devs) <= MAX_DEVS
  /\ mounts \in [Slots -> Slot]
  /\ \A i \in Slots : mounts[i].mounted => mounts[i].point \in Points /\ mounts[i].dev \in Devices
  /\ PointsDistinct

LEMMA StoredWhole ==
  ASSUME PointsFit, NEW p \in Points
  PROVE  Stored(p) = p
<1>1. Len(p) <= POINT_MAX /\ Len(p) \in Nat /\ POINT_MAX \in Nat
  BY VfsAssumption DEF PointsFit
<1>2. ~ (Len(p) > POINT_MAX)
  BY <1>1
<1> QED
  BY <1>2 DEF Stored

\* The slot that a mount writes is free or mounted at the same point.
LEMMA SlotForOwn ==
  ASSUME NEW p, NEW d, CanMount(p, d)
  PROVE  /\ SlotFor(p) \in Slots
         /\ At(p) # {} => mounts[SlotFor(p)].mounted /\ mounts[SlotFor(p)].point = p
         /\ At(p) = {} => ~ mounts[SlotFor(p)].mounted
<1>1. At(p) \in SUBSET Slots /\ Free \in SUBSET Slots
  BY DEF At, Free
<1>2. CASE At(p) # {}
  <2>1. SlotFor(p) = First(At(p))
    BY <1>2 DEF SlotFor
  <2>2. First(At(p)) \in At(p) /\ First(At(p)) \in Slots
    BY <1>1, <1>2, FirstIn
  <2> QED
    BY <1>2, <2>1, <2>2 DEF At
<1>3. CASE At(p) = {}
  <2>1. SlotFor(p) = First(Free) /\ Free # {}
    BY <1>3 DEF SlotFor, CanMount
  <2>2. First(Free) \in Free /\ First(Free) \in Slots
    BY <1>1, <2>1, FirstIn
  <2> QED
    BY <1>3, <2>1, <2>2 DEF Free
<1> QED
  BY <1>2, <1>3

\* What each action does to the slots, with the slot named.
LEMMA Writes ==
  ASSUME PointsFit, VfsInv, NEW p \in Points, NEW d \in Devices,
         MountUnsupported(p, d) \/ (MountFails(p, d) /\ At(p) = {})
  PROVE  /\ devs' = devs
         /\ \E i \in Slots :
              /\ \/ mounts[i].mounted /\ mounts' = mounts
                 \/ /\ ~ mounts[i].mounted
                    /\ \E s \in Slot : ~ s.mounted /\ mounts' = [mounts EXCEPT ![i] = s]
<1>0. mounts \in [Slots -> Slot] /\ Stored(p) = p
  BY StoredWhole DEF VfsInv
<1>1. CanMount(p, d) /\ devs' = devs
  BY DEF MountUnsupported, MountFails
<1> DEFINE i == SlotFor(p)
<1>2. /\ i \in Slots
      /\ At(p) # {} => mounts[i].mounted /\ mounts[i].point = p
      /\ At(p) = {} => ~ mounts[i].mounted
  BY <1>1, SlotForOwn
<1>3. mounts[i] \in Slot
  BY <1>0, <1>2
<1>4. CASE MountUnsupported(p, d)
  <2>1. mounts' = [mounts EXCEPT ![i].point = p]
    BY <1>0, <1>4 DEF MountUnsupported
  <2> HIDE DEF i
  <2>2. CASE At(p) # {}
    <3>1. mounts[i].point = p /\ mounts[i].mounted
      BY <1>2, <2>2
    <3>2. [mounts[i] EXCEPT !.point = p] = mounts[i]
      BY <1>3, <3>1 DEF Slot
    <3>3. mounts' = mounts
      BY <1>0, <1>2, <2>1, <3>2
    <3> QED
      BY <1>1, <1>2, <3>1, <3>3
  <2>3. CASE At(p) = {}
    <3> DEFINE s == [mounts[i] EXCEPT !.point = p]
    <3>1. s \in Slot /\ s.mounted = mounts[i].mounted
      BY <1>3 DEF Slot
    <3>2. mounts' = [mounts EXCEPT ![i] = s]
      BY <1>0, <1>2, <2>1
    <3> HIDE DEF s
    <3> QED
      BY <1>1, <1>2, <2>3, <3>1, <3>2
  <2> QED
    BY <2>2, <2>3
<1>5. CASE MountFails(p, d) /\ At(p) = {}
  <2>1. PICK v \in {mounts[i].vol, NoDevice} : mounts' = [mounts EXCEPT ![i] = Failed(@, p, d, v)]
    BY <1>5 DEF MountFails
  <2> HIDE DEF i
  <2> DEFINE s == [mounts[i] EXCEPT !.point = p, !.fsdev = d, !.vol = v]
  <2>2. v \in Devices \cup {NoDevice}
    BY <1>3, <2>1 DEF Slot
  <2>3. s \in Slot /\ s.mounted = mounts[i].mounted
    BY <1>3, <2>2 DEF Slot
  <2>4. mounts' = [mounts EXCEPT ![i] = s]
    BY <1>0, <1>2, <2>1 DEF Failed
  <2> HIDE DEF s
  <2> QED
    BY <1>1, <1>2, <1>5, <2>3, <2>4
<1> QED
  BY <1>4, <1>5

\* A mount that fails at a point in use changes the file system there.
LEMMA WritesFailed ==
  ASSUME PointsFit, VfsInv, NEW p \in Points, NEW d \in Devices, MountFails(p, d), At(p) # {}
  PROVE  /\ devs' = devs /\ d \in Registered
         /\ \E i \in Slots, s \in Slot :
              /\ mounts' = [mounts EXCEPT ![i] = s]
              /\ mounts[i].mounted /\ mounts[i].point = p
              /\ s.mounted /\ s.point = p /\ s.dev = mounts[i].dev /\ s.fsdev = d
<1>0. mounts \in [Slots -> Slot] /\ Stored(p) = p
  BY StoredWhole DEF VfsInv
<1>1. CanMount(p, d) /\ devs' = devs /\ d \in Registered
  BY DEF MountFails, CanMount
<1> DEFINE i == SlotFor(p)
<1>2. i \in Slots /\ mounts[i].mounted /\ mounts[i].point = p
  BY <1>1, SlotForOwn
<1>3. PICK v \in {mounts[i].vol, NoDevice} : mounts' = [mounts EXCEPT ![i] = Failed(@, p, d, v)]
  BY DEF MountFails
<1> HIDE DEF i
<1>4. mounts[i] \in Slot
  BY <1>0, <1>2
<1> DEFINE s == [mounts[i] EXCEPT !.point = p, !.fsdev = d, !.vol = v]
<1>5. v \in Devices \cup {NoDevice}
  BY <1>3, <1>4 DEF Slot
<1>6. s \in Slot /\ s.mounted /\ s.point = p /\ s.dev = mounts[i].dev /\ s.fsdev = d
  BY <1>2, <1>4, <1>5 DEF Slot
<1>7. mounts' = [mounts EXCEPT ![i] = s]
  BY <1>0, <1>2, <1>3 DEF Failed
<1> HIDE DEF s
<1> QED
  BY <1>1, <1>2, <1>6, <1>7

LEMMA WritesDone ==
  ASSUME PointsFit, VfsInv, NEW p \in Points, NEW d \in Devices, MountDone(p, d)
  PROVE  /\ devs' = devs /\ d \in Registered
         /\ \E i \in Slots :
              /\ mounts' = [mounts EXCEPT ![i] = [mounted |-> TRUE, point |-> p, dev |-> d,
                                                  fsdev |-> d, vol |-> d]]
              /\ \A j \in Slots : mounts[j].mounted /\ mounts[j].point = p => j = i
              /\ mounts[i].mounted => mounts[i].point = p
<1>1. CanMount(p, d) /\ devs' = devs /\ d \in Registered
  BY DEF MountDone, CanMount
<1> DEFINE i == SlotFor(p)
<1>2. /\ i \in Slots
      /\ At(p) # {} => mounts[i].mounted /\ mounts[i].point = p
      /\ At(p) = {} => ~ mounts[i].mounted
  BY <1>1, SlotForOwn
<1>3. mounts' = [mounts EXCEPT ![i] = [mounted |-> TRUE, point |-> p, dev |-> d, fsdev |-> d, vol |-> d]]
  BY StoredWhole DEF MountDone, Mounted
<1> HIDE DEF i
<1>4. \A j \in Slots : mounts[j].mounted /\ mounts[j].point = p => j = i
  <2> SUFFICES ASSUME NEW j \in Slots, mounts[j].mounted, mounts[j].point = p PROVE j = i
    OBVIOUS
  <2>1. At(p) # {}
    BY DEF At
  <2> QED
    BY <1>2, <2>1 DEF VfsInv, PointsDistinct
<1>5. mounts[i].mounted => mounts[i].point = p
  BY <1>2
<1> QED
  BY <1>1, <1>2, <1>3, <1>4, <1>5

LEMMA WritesUnmount ==
  ASSUME VfsInv, NEW p \in Points, vfs_umount(p)
  PROVE  /\ devs' = devs
         /\ \E i \in Slots :
              /\ mounts' = [mounts EXCEPT ![i] = [mounts[i] EXCEPT !.mounted = FALSE]]
              /\ mounts[i].mounted /\ mounts[i].point = p
<1>1. At(p) \in SUBSET Slots /\ At(p) # {} /\ devs' = devs
  BY DEF At, vfs_umount
<1> DEFINE i == First(At(p))
<1>2. i \in At(p) /\ i \in Slots
  BY <1>1, FirstIn
<1>3. mounts' = [mounts EXCEPT ![i].mounted = FALSE]
  BY DEF vfs_umount
<1> HIDE DEF i
<1>4. mounts' = [mounts EXCEPT ![i] = [mounts[i] EXCEPT !.mounted = FALSE]]
  BY <1>2, <1>3 DEF VfsInv
<1> QED
  BY <1>1, <1>2, <1>4 DEF At

--------------------------------------------------------------------------------
(* The invariant is kept. *)

\* A slot is written that is not mounted afterwards.
LEMMA KeptFree ==
  ASSUME VfsInv, devs' = devs, NEW i \in Slots, NEW s \in Slot, ~ s.mounted,
         mounts' = [mounts EXCEPT ![i] = s]
  PROVE  VfsInv'
<1>1. mounts \in [Slots -> Slot] /\ mounts' \in [Slots -> Slot]
  BY DEF VfsInv
<1>2. \A j \in Slots : mounts'[j].mounted => mounts'[j] = mounts[j]
  BY <1>1
<1>3. PointsDistinct'
  BY <1>2 DEF VfsInv, PointsDistinct, Slots
<1>4. \A j \in Slots : mounts'[j].mounted => mounts'[j].point \in Points /\ mounts'[j].dev \in Devices
  BY <1>2 DEF VfsInv
<1> QED
  BY <1>1, <1>3, <1>4 DEF VfsInv, Slots

\* A slot keeps its point and its device.
LEMMA KeptMounted ==
  ASSUME VfsInv, devs' = devs, NEW i \in Slots, NEW s \in Slot,
         mounts' = [mounts EXCEPT ![i] = s],
         mounts[i].mounted, s.point = mounts[i].point, s.dev = mounts[i].dev
  PROVE  VfsInv'
<1>1. mounts \in [Slots -> Slot] /\ mounts' \in [Slots -> Slot]
  BY DEF VfsInv
<1>2. \A j \in Slots : mounts'[j].mounted =>
        /\ mounts[j].mounted
        /\ mounts'[j].point = mounts[j].point /\ mounts'[j].dev = mounts[j].dev
  BY <1>1
<1>3. PointsDistinct'
  BY <1>2 DEF VfsInv, PointsDistinct, Slots
<1>4. \A j \in Slots : mounts'[j].mounted => mounts'[j].point \in Points /\ mounts'[j].dev \in Devices
  BY <1>2 DEF VfsInv
<1> QED
  BY <1>1, <1>3, <1>4 DEF VfsInv, Slots

LEMMA VfsStep ==
  ASSUME PointsFit, VfsInv, [Next]_vars
  PROVE  VfsInv'
<1>0. mounts \in [Slots -> Slot] /\ devs \in Seq(Devices) /\ Len(devs) <= MAX_DEVS
  BY DEF VfsInv
<1>1. ASSUME NEW d \in Devices, vfs_register_device(d) PROVE VfsInv'
  <2>1. devs' = Append(devs, d) /\ mounts' = mounts /\ Len(devs) < MAX_DEVS
    BY <1>1 DEF vfs_register_device
  <2>2. devs' \in Seq(Devices) /\ Len(devs') = Len(devs) + 1 /\ Len(devs) \in Nat
    BY <1>0, <2>1
  <2>3. Len(devs') <= MAX_DEVS
    BY <2>1, <2>2, VfsAssumption
  <2> QED
    BY <2>1, <2>2, <2>3 DEF VfsInv, PointsDistinct, Slots
<1>2. ASSUME NEW p \in Points, NEW d \in Devices,
             MountUnsupported(p, d) \/ (MountFails(p, d) /\ At(p) = {})
      PROVE  VfsInv'
  <2>1. devs' = devs
    BY <1>2, Writes
  <2>2. PICK i \in Slots :
          \/ mounts[i].mounted /\ mounts' = mounts
          \/ ~ mounts[i].mounted /\ \E s \in Slot : ~ s.mounted /\ mounts' = [mounts EXCEPT ![i] = s]
    BY <1>2, Writes
  <2>3. CASE mounts' = mounts
    BY <2>1, <2>3 DEF VfsInv, PointsDistinct, Slots
  <2>4. CASE mounts' # mounts
    BY <2>1, <2>2, <2>4, KeptFree
  <2> QED
    BY <2>3, <2>4
<1>6. ASSUME NEW p \in Points, NEW d \in Devices, MountFails(p, d), At(p) # {}
      PROVE  VfsInv'
  <2>1. devs' = devs
    BY <1>6, WritesFailed
  <2>2. PICK i \in Slots, s \in Slot :
          /\ mounts' = [mounts EXCEPT ![i] = s]
          /\ mounts[i].mounted /\ mounts[i].point = p
          /\ s.point = p /\ s.dev = mounts[i].dev
    BY <1>6, WritesFailed
  <2> QED
    BY <2>1, <2>2, KeptMounted
<1>3. ASSUME NEW p \in Points, NEW d \in Devices, MountDone(p, d) PROVE VfsInv'
  <2> DEFINE m == [mounted |-> TRUE, point |-> p, dev |-> d, fsdev |-> d, vol |-> d]
  <2>1. devs' = devs
    BY <1>3, WritesDone
  <2>2. PICK i \in Slots :
          /\ mounts' = [mounts EXCEPT ![i] = m]
          /\ \A j \in Slots : mounts[j].mounted /\ mounts[j].point = p => j = i
    BY <1>3, WritesDone
  <2>3. m \in Slot /\ m.mounted /\ m.point = p /\ m.dev = d /\ m.fsdev = d /\ m.vol = d
    BY DEF Slot
  <2> HIDE DEF m
  <2>4. mounts' \in [Slots -> Slot]
    BY <1>0, <2>2, <2>3
  <2>5. mounts'[i] = m /\ \A j \in Slots : j # i => mounts'[j] = mounts[j]
    BY <1>0, <2>2
  <2>6. PointsDistinct'
    <3> SUFFICES ASSUME NEW j \in Slots, NEW k \in Slots, mounts'[j].mounted, mounts'[k].mounted,
                        mounts'[j].point = mounts'[k].point
                 PROVE  j = k
      BY DEF PointsDistinct, Slots
    <3>1. CASE j # i /\ k # i
      BY <2>5, <3>1 DEF VfsInv, PointsDistinct
    <3>2. CASE j = i /\ k # i
      BY <2>2, <2>3, <2>5, <3>2
    <3>3. CASE k = i /\ j # i
      BY <2>2, <2>3, <2>5, <3>3
    <3> QED
      BY <3>1, <3>2, <3>3
  <2>8. \A j \in Slots : mounts'[j].mounted => mounts'[j].point \in Points /\ mounts'[j].dev \in Devices
    BY <2>3, <2>5 DEF VfsInv
  <2> QED
    BY <1>0, <2>1, <2>4, <2>6, <2>8 DEF VfsInv, Slots
<1>4. ASSUME NEW p \in Points, vfs_umount(p) PROVE VfsInv'
  <2>1. devs' = devs
    BY <1>4, WritesUnmount
  <2>2. PICK i \in Slots : mounts' = [mounts EXCEPT ![i] = [mounts[i] EXCEPT !.mounted = FALSE]]
    BY <1>4, WritesUnmount
  <2> DEFINE s == [mounts[i] EXCEPT !.mounted = FALSE]
  <2>3. s \in Slot /\ ~ s.mounted
    BY <1>0 DEF Slot
  <2> QED
    BY <2>1, <2>2, <2>3, KeptFree
<1>5. CASE UNCHANGED vars
  BY <1>5 DEF vars, VfsInv, PointsDistinct, Slots
<1> QED
  BY <1>1, <1>2, <1>3, <1>4, <1>5, <1>6 DEF Next, RegisterAny, MountAny, UnmountAny

LEMMA VfsInitial ==
  ASSUME Init
  PROVE  VfsInv
<1>1. devs \in Seq(Devices) /\ Len(devs) <= MAX_DEVS
  BY VfsAssumption DEF Init
<1>2. mounts \in [Slots -> Slot] /\ \A i \in Slots : ~ mounts[i].mounted
  BY DEF Init, Slot
<1> QED
  BY <1>1, <1>2 DEF VfsInv, PointsDistinct

LEMMA RegisteredType ==
  ASSUME VfsInv
  PROVE  Registered \subseteq Devices
BY DEF VfsInv, Registered

\* A point is mounted once, whatever mounts fail, at new points and at points in use.
THEOREM TableAlwaysSound ==
  ASSUME PointsFit
  PROVE  Spec => []TableSound
<1>1. Init => VfsInv
  BY VfsInitial
<1>2. VfsInv /\ [Next]_vars => VfsInv'
  BY VfsStep
<1>3. VfsInv => TableSound
  <2> SUFFICES ASSUME VfsInv PROVE TableSound
    OBVIOUS
  <2>1. mounts \in [Slots -> Slot]
    BY DEF VfsInv
  <2>2. \A i \in Slots : /\ mounts[i].mounted \in BOOLEAN
                         /\ {mounts[i].dev, mounts[i].fsdev, mounts[i].vol} \subseteq Devices \cup {NoDevice}
    BY <2>1 DEF Slot
  <2>3. TypeOK
    BY <2>1, <2>2, RegisteredType DEF TypeOK, VfsInv
  <2> QED
    BY <2>3 DEF TableSound, VfsInv
<1> QED
  BY <1>1, <1>2, <1>3, PTL DEF Spec

--------------------------------------------------------------------------------
(* The refinement. *)

\* The file system of a slot does not read the device of the slot.
Lost(m) == m.fsdev # m.dev \/ m.vol # m.dev

\* What a lookup in the table finds, and that no more points are mounted than
\* there are slots.
Lookup ==
  /\ Table \in [Points -> Devices \cup {NoDevice}]
  /\ \A p \in Points, i \in Slots :
       mounts[i].mounted /\ mounts[i].point = p => Table[p] = mounts[i].dev /\ mounts[i].dev \in Devices
  /\ \A p \in Points :
       (\A i \in Slots : mounts[i].mounted => mounts[i].point # p) => Table[p] = NoDevice
  /\ \A p \in Points, i \in Slots :
       mounts[i].mounted /\ mounts[i].point = p => (p \in Broken <=> Lost(mounts[i]))
  /\ \A p \in Points :
       (\A i \in Slots : mounts[i].mounted => mounts[i].point # p) => p \notin Broken
Fits == Cardinality({q \in Points : Table[q] # NoDevice}) <= MAX_MOUNTS

LEMMA TableAt == VfsInv => Lookup
<1> SUFFICES ASSUME VfsInv PROVE Lookup
  OBVIOUS
<1> DEFINE Here(p, i) == mounts[i].mounted /\ mounts[i].point = p
<1>1. ASSUME NEW p \in Points, NEW i \in Slots, Here(p, i)
      PROVE  Table[p] = mounts[i].dev /\ mounts[i].dev \in Devices
  <2>1. (CHOOSE j \in Slots : Here(p, j)) \in Slots /\ Here(p, CHOOSE j \in Slots : Here(p, j))
    BY <1>1, Zenon
  <2>2. (CHOOSE j \in Slots : Here(p, j)) = i
    BY <1>1, <2>1 DEF VfsInv, PointsDistinct
  <2>3. Table[p] = mounts[CHOOSE j \in Slots : Here(p, j)].dev
    BY <1>1 DEF Table
  <2>4. mounts[i].dev \in Devices
    BY <1>1 DEF VfsInv
  <2> QED
    BY <2>2, <2>3, <2>4
<1>2. ASSUME NEW p \in Points, \A i \in Slots : mounts[i].mounted => mounts[i].point # p
      PROVE  Table[p] = NoDevice
  BY <1>2 DEF Table
<1>3. \A p \in Points : Table[p] \in Devices \cup {NoDevice}
  <2> TAKE p \in Points
  <2>1. CASE \E i \in Slots : Here(p, i)
    BY <1>1, <2>1
  <2>2. CASE ~ \E i \in Slots : Here(p, i)
    BY <1>2, <2>2
  <2> QED
    BY <2>1, <2>2
<1>4. Table = [p \in Points |-> Table[p]]
  BY DEF Table
<1>5. Table \in [Points -> Devices \cup {NoDevice}]
  BY <1>3, <1>4
<1>6. ASSUME NEW p \in Points, NEW i \in Slots, Here(p, i)
      PROVE  p \in Broken <=> Lost(mounts[i])
  <2>1. At(p) = {i}
    BY <1>6 DEF At, VfsInv, PointsDistinct
  <2> QED
    BY <2>1 DEF Broken, Lost
<1>7. ASSUME NEW p \in Points, \A i \in Slots : mounts[i].mounted => mounts[i].point # p
      PROVE  p \notin Broken
  BY <1>7 DEF Broken, At
<1> QED
  BY <1>1, <1>2, <1>5, <1>6, <1>7 DEF Lookup

LEMMA FewEnough == VfsInv => Fits
<1> SUFFICES ASSUME VfsInv PROVE Fits
  OBVIOUS
<1> DEFINE T == {q \in Points : Table[q] # NoDevice}
<1> DEFINE f == [q \in T |-> CHOOSE i \in Slots : mounts[i].mounted /\ mounts[i].point = q]
<1>1. \A q \in T : f[q] \in Slots /\ mounts[f[q]].point = q
  <2> SUFFICES ASSUME NEW q \in T PROVE f[q] \in Slots /\ mounts[f[q]].point = q
    OBVIOUS
  <2>1. \E i \in Slots : mounts[i].mounted /\ mounts[i].point = q
    BY TableAt DEF Lookup
  <2> QED
    BY <2>1, Zenon
<1>2. f \in [T -> Slots] /\ \A a, b \in T : f[a] = f[b] => a = b
  <2>1. f = [q \in T |-> f[q]]
    OBVIOUS
  <2> HIDE DEF f
  <2> QED
    BY <1>1, <2>1
<1> HIDE DEF f
<1>3. f \in Injection(T, Slots)
  BY <1>2, Fun_IsInj
<1>4. IsFiniteSet(Slots) /\ Cardinality(Slots) = MAX_MOUNTS
  <2>1. IsFiniteSet(1 .. MAX_MOUNTS) /\ Cardinality(1 .. MAX_MOUNTS) = IF 1 > MAX_MOUNTS THEN 0 ELSE MAX_MOUNTS - 1 + 1
    BY VfsAssumption, FS_Interval
  <2> QED
    BY <2>1, VfsAssumption DEF Slots
<1>5. Cardinality(T) <= Cardinality(Slots)
  BY <1>3, <1>4, FS_Injection
<1> QED
  BY <1>4, <1>5 DEF Fits

LEMMA TableAtNext == VfsInv' => Lookup' /\ Fits'
BY TableAt, FewEnough, PTL

LEMMA TableUnchanged ==
  ASSUME VfsInv, VfsInv',
         \A i \in Slots : mounts'[i].mounted <=> mounts[i].mounted,
         \A i \in Slots : mounts[i].mounted => mounts'[i] = mounts[i]
  PROVE  Table' = Table /\ Broken' = Broken
<1>1. Lookup /\ Lookup'
  BY TableAt, TableAtNext
<1>2. ASSUME NEW p \in Points PROVE Table'[p] = Table[p]
  <2>1. CASE \E i \in Slots : mounts[i].mounted /\ mounts[i].point = p
    BY <1>1, <2>1 DEF Lookup, Slots
  <2>2. CASE ~ \E i \in Slots : mounts[i].mounted /\ mounts[i].point = p
    BY <1>1, <2>2 DEF Lookup, Slots
  <2> QED
    BY <2>1, <2>2
<1>3. ASSUME NEW p \in Points PROVE p \in Broken' <=> p \in Broken
  <2>1. CASE \E i \in Slots : mounts[i].mounted /\ mounts[i].point = p
    <3>1. PICK i \in Slots : mounts[i].mounted /\ mounts[i].point = p
      BY <2>1
    <3>2. mounts'[i] = mounts[i]
      BY <3>1
    <3>3. p \in Broken' <=> Lost(mounts'[i])
      BY <1>1, <3>1, <3>2 DEF Lookup, Slots, Lost
    <3> QED
      BY <1>1, <3>1, <3>2, <3>3 DEF Lookup
  <2>2. CASE ~ \E i \in Slots : mounts[i].mounted /\ mounts[i].point = p
    BY <1>1, <2>2 DEF Lookup, Slots
  <2> QED
    BY <2>1, <2>2
<1>4. Broken \subseteq Points /\ Broken' \subseteq Points
  BY DEF Broken
<1>5. Broken' = Broken
  BY <1>3, <1>4
<1> QED
  BY <1>1, <1>2, <1>5 DEF Lookup

\* A step that changes the slot of one point, or mounts or unmounts it.
LEMMA BrokenElsewhere ==
  ASSUME VfsInv, VfsInv', NEW p, NEW i \in Slots,
         mounts[i].mounted => mounts[i].point = p, mounts'[i].mounted => mounts'[i].point = p,
         \A j \in Slots : j # i => mounts'[j] = mounts[j]
  PROVE  \A q \in Points : q # p => (q \in Broken' <=> q \in Broken)
<1>1. Lookup /\ Lookup'
  BY TableAt, TableAtNext
<1> SUFFICES ASSUME NEW q \in Points, q # p PROVE q \in Broken' <=> q \in Broken
  OBVIOUS
<1>2. CASE \E j \in Slots : mounts[j].mounted /\ mounts[j].point = q
  <2>1. PICK j \in Slots : mounts[j].mounted /\ mounts[j].point = q
    BY <1>2
  <2>2. mounts'[j] = mounts[j]
    BY <2>1
  <2>3. q \in Broken' <=> Lost(mounts'[j])
    BY <1>1, <2>1, <2>2 DEF Lookup, Slots, Lost
  <2> QED
    BY <1>1, <2>1, <2>2, <2>3 DEF Lookup
<1>3. CASE ~ \E j \in Slots : mounts[j].mounted /\ mounts[j].point = q
  <2>1. \A j \in Slots : mounts'[j].mounted => mounts'[j].point # q
    BY <1>3
  <2> QED
    BY <1>1, <1>3, <2>1 DEF Lookup, Slots
<1> QED
  BY <1>2, <1>3

LEMMA RegisteredSame ==
  ASSUME devs' = devs
  PROVE  Registered' = Registered
BY DEF Registered

\* The instance of the abstract table has a Cardinality of its own.
LEMMA SameCardinality ==
  ASSUME NEW S
  PROVE  Abstract!Cardinality(S) = Cardinality(S)
BY DEF Cardinality, Abstract!Cardinality

LEMMA MountStep ==
  ASSUME PointsFit, VfsInv, VfsInv', [Next]_vars
  PROVE  [Abstract!Next]_<<Registered, Table, Broken>>
<1>0. mounts \in [Slots -> Slot] /\ devs \in Seq(Devices) /\ Lookup /\ Lookup' /\ Fits'
  BY TableAt, TableAtNext DEF VfsInv
<1>1. ASSUME NEW d \in Devices, vfs_register_device(d) PROVE Abstract!Next
  <2>1. devs' = Append(devs, d) /\ mounts' = mounts
    BY <1>1 DEF vfs_register_device
  <2>2. Table' = Table /\ Broken' = Broken
    BY <2>1, TableUnchanged
  <2>3. DOMAIN devs = 1 .. Len(devs) /\ Len(devs) \in Nat
    BY <1>0
  <2>4. /\ DOMAIN devs' = 1 .. Len(devs) + 1 /\ devs'[Len(devs) + 1] = d
        /\ \A i \in 1 .. Len(devs) : devs'[i] = devs[i]
    BY <1>0, <2>1
  <2>5. Registered' = Registered \cup {d}
    BY <2>3, <2>4 DEF Registered
  <2> QED
    BY <2>2, <2>5 DEF Abstract!Next, Abstract!Register
<1>2. ASSUME NEW p \in Points, NEW d \in Devices,
             MountUnsupported(p, d) \/ (MountFails(p, d) /\ At(p) = {})
      PROVE  UNCHANGED <<Registered, Table, Broken>>
  <2>1. Registered' = Registered
    BY <1>2, Writes, RegisteredSame
  <2>2. PICK i \in Slots :
          \/ mounts[i].mounted /\ mounts' = mounts
          \/ ~ mounts[i].mounted /\ \E s \in Slot : ~ s.mounted /\ mounts' = [mounts EXCEPT ![i] = s]
    BY <1>2, Writes
  <2>3. /\ \A j \in Slots : mounts'[j].mounted <=> mounts[j].mounted
        /\ \A j \in Slots : mounts[j].mounted => mounts'[j] = mounts[j]
    BY <1>0, <2>2
  <2>4. Table' = Table /\ Broken' = Broken
    BY <2>3, TableUnchanged
  <2> QED
    BY <2>1, <2>4
<1>6. ASSUME NEW p \in Points, NEW d \in Devices, MountFails(p, d), At(p) # {}
      PROVE  Abstract!Next
  <2>1. Registered' = Registered /\ d \in Registered
    BY <1>6, WritesFailed, RegisteredSame
  <2>2. PICK i \in Slots, s \in Slot :
          /\ mounts' = [mounts EXCEPT ![i] = s]
          /\ mounts[i].mounted /\ mounts[i].point = p
          /\ s.mounted /\ s.point = p /\ s.dev = mounts[i].dev /\ s.fsdev = d
    BY <1>6, WritesFailed
  <2>3. mounts'[i] = s /\ \A j \in Slots : j # i => mounts'[j] = mounts[j]
    BY <1>0, <2>2
  <2>4. \A j \in Slots : /\ mounts'[j].mounted <=> mounts[j].mounted
                         /\ mounts[j].mounted => /\ mounts'[j].point = mounts[j].point
                                                /\ mounts'[j].dev = mounts[j].dev
    BY <2>2, <2>3
  <2>5. \A q \in Points : Table'[q] = Table[q]
    <3> SUFFICES ASSUME NEW q \in Points PROVE Table'[q] = Table[q]
      OBVIOUS
    <3>1. CASE \E j \in Slots : mounts[j].mounted /\ mounts[j].point = q
      BY <1>0, <2>4, <3>1 DEF Lookup, Slots
    <3>2. CASE ~ \E j \in Slots : mounts[j].mounted /\ mounts[j].point = q
      BY <1>0, <2>4, <3>2 DEF Lookup, Slots
    <3> QED
      BY <3>1, <3>2
  <2>6. Table' = Table
    BY <1>0, <2>5 DEF Lookup
  <2>7. Table[p] = s.dev /\ Table[p] # NoDevice
    BY <1>0, <2>2, VfsAssumption DEF Lookup
  <2>8. \A q \in Points : q # p => (q \in Broken' <=> q \in Broken)
    BY <2>2, <2>3, BrokenElsewhere
  <2>9. p \in Broken' <=> Lost(s)
    BY <1>0, <2>2, <2>3 DEF Lookup, Slots, Lost
  <2>10. Broken \subseteq Points /\ Broken' \subseteq Points
    BY DEF Broken
  <2>11. CASE Lost(s)
    <3>1. Broken' = Broken \cup {p}
      BY <2>8, <2>9, <2>10, <2>11
    <3>2. Abstract!Fail(p, d)
      BY <2>1, <2>6, <2>7, <3>1 DEF Abstract!Fail
    <3> QED
      BY <3>2 DEF Abstract!Next
  <2>12. CASE ~ Lost(s)
    <3>1. Broken' = Broken \ {p} /\ d = Table[p]
      BY <2>2, <2>7, <2>8, <2>9, <2>10, <2>12 DEF Lost
    <3>2. Abstract!Fail(p, d)
      BY <2>1, <2>6, <2>7, <3>1 DEF Abstract!Fail
    <3> QED
      BY <3>2 DEF Abstract!Next
  <2> QED
    BY <2>11, <2>12
<1>3. ASSUME NEW p \in Points, NEW d \in Devices, MountDone(p, d) PROVE Abstract!Next
  <2> DEFINE m == [mounted |-> TRUE, point |-> p, dev |-> d, fsdev |-> d, vol |-> d]
  <2>1. Registered' = Registered /\ d \in Registered
    BY <1>3, WritesDone, RegisteredSame
  <2>2. PICK i \in Slots :
          /\ mounts' = [mounts EXCEPT ![i] = m]
          /\ \A j \in Slots : mounts[j].mounted /\ mounts[j].point = p => j = i
          /\ mounts[i].mounted => mounts[i].point = p
    BY <1>3, WritesDone
  <2>3. m.mounted /\ m.point = p /\ m.dev = d /\ ~ Lost(m)
    BY DEF Lost
  <2> HIDE DEF m
  <2>4. mounts'[i] = m /\ \A j \in Slots : j # i => mounts'[j] = mounts[j]
    BY <1>0, <2>2
  <2>5. Table'[p] = d
    BY <1>0, <2>3, <2>4 DEF Lookup, Slots
  <2>6. ASSUME NEW q \in Points, q # p PROVE Table'[q] = Table[q]
    <3>1. CASE \E j \in Slots : mounts[j].mounted /\ mounts[j].point = q
      <4>1. PICK j \in Slots : mounts[j].mounted /\ mounts[j].point = q
        BY <3>1
      <4>2. j # i
        BY <2>2, <2>6, <4>1
      <4>3. mounts'[j] = mounts[j]
        BY <2>4, <4>2
      <4> QED
        BY <1>0, <4>1, <4>3 DEF Lookup, Slots
    <3>2. CASE ~ \E j \in Slots : mounts[j].mounted /\ mounts[j].point = q
      <4>1. \A j \in Slots : mounts'[j].mounted => mounts'[j].point # q
        BY <2>3, <2>4, <2>6, <3>2
      <4> QED
        BY <1>0, <3>2, <4>1 DEF Lookup, Slots
    <3> QED
      BY <3>1, <3>2
  <2>7. Table' = [Table EXCEPT ![p] = d]
    BY <1>0, <2>5, <2>6 DEF Lookup
  <2>8. Abstract!Cardinality({q \in Points : Table'[q] # NoDevice}) <= MAX_MOUNTS
    BY <1>0, SameCardinality DEF Fits
  <2>9. Broken' = Broken \ {p}
    <3>1. \A q \in Points : q # p => (q \in Broken' <=> q \in Broken)
      BY <2>2, <2>3, <2>4, BrokenElsewhere
    <3>2. p \notin Broken'
      BY <1>0, <2>3, <2>4 DEF Lookup, Slots, Lost
    <3> QED
      BY <3>1, <3>2 DEF Broken
  <2>10. Abstract!Mount(p, d)
    BY <2>1, <2>7, <2>8, <2>9 DEF Abstract!Mount
  <2> QED
    BY <2>10 DEF Abstract!Next
<1>4. ASSUME NEW p \in Points, vfs_umount(p) PROVE Abstract!Next
  <2>1. Registered' = Registered
    BY <1>4, WritesUnmount, RegisteredSame
  <2>2. PICK i \in Slots : /\ mounts' = [mounts EXCEPT ![i] = [mounts[i] EXCEPT !.mounted = FALSE]]
                           /\ mounts[i].mounted /\ mounts[i].point = p
    BY <1>4, WritesUnmount
  <2>3. ~ mounts'[i].mounted /\ \A j \in Slots : j # i => mounts'[j] = mounts[j]
    <3>1. mounts[i] \in Slot
      BY <1>0
    <3>2. ~ [mounts[i] EXCEPT !.mounted = FALSE].mounted
      BY <3>1 DEF Slot
    <3> QED
      BY <1>0, <2>2, <3>2
  <2>4. Table[p] # NoDevice
    BY <1>0, <2>2, VfsAssumption DEF Lookup
  <2>5. \A j \in Slots : mounts'[j].mounted => mounts'[j].point # p
    BY <2>2, <2>3 DEF VfsInv, PointsDistinct
  <2>6. Table'[p] = NoDevice
    BY <1>0, <2>5 DEF Lookup, Slots
  <2>7. ASSUME NEW q \in Points, q # p PROVE Table'[q] = Table[q]
    <3>1. CASE \E j \in Slots : mounts[j].mounted /\ mounts[j].point = q
      <4>1. PICK j \in Slots : mounts[j].mounted /\ mounts[j].point = q
        BY <3>1
      <4>2. mounts'[j] = mounts[j]
        BY <2>2, <2>3, <2>7, <4>1
      <4> QED
        BY <1>0, <4>1, <4>2 DEF Lookup, Slots
    <3>2. CASE ~ \E j \in Slots : mounts[j].mounted /\ mounts[j].point = q
      <4>1. \A j \in Slots : mounts'[j].mounted => mounts'[j].point # q
        BY <2>3, <3>2
      <4> QED
        BY <1>0, <3>2, <4>1 DEF Lookup, Slots
    <3> QED
      BY <3>1, <3>2
  <2>8. Table' = [Table EXCEPT ![p] = NoDevice]
    BY <1>0, <2>6, <2>7 DEF Lookup
  <2>9. Broken' = Broken \ {p}
    <3>1. \A q \in Points : q # p => (q \in Broken' <=> q \in Broken)
      BY <2>2, <2>3, BrokenElsewhere
    <3>2. p \notin Broken'
      BY <1>0, <2>5 DEF Lookup, Slots
    <3> QED
      BY <3>1, <3>2 DEF Broken
  <2>10. Abstract!Unmount(p)
    BY <2>1, <2>4, <2>8, <2>9 DEF Abstract!Unmount
  <2> QED
    BY <2>10 DEF Abstract!Next
<1>5. CASE UNCHANGED vars
  <2>1. mounts' = mounts /\ devs' = devs
    BY <1>5 DEF vars
  <2>2. Table' = Table /\ Broken' = Broken
    BY <2>1, TableUnchanged
  <2> QED
    BY <2>1, <2>2, RegisteredSame
<1> QED
  BY <1>1, <1>2, <1>3, <1>4, <1>5, <1>6 DEF Next, RegisterAny, MountAny, UnmountAny

\* The table of vfs.c implements the abstract one, with mounts failing anywhere: a
\* lookup finds the device that was mounted last with success, a failed mount changes
\* no other point, the file system at a point is lost by a failed mount at this very
\* point or not at all, and there are never more points than slots.
THEOREM ImplementsTable ==
  ASSUME PointsFit
  PROVE  Spec => ImplementsMountTable
<1>1. Init => VfsInv
  BY VfsInitial
<1>2. VfsInv /\ [Next]_vars => VfsInv'
  BY VfsStep
<1>3. Init => Abstract!Init
  <2> SUFFICES ASSUME Init PROVE Abstract!Init
    OBVIOUS
  <2>1. Registered = {}
    BY DEF Init, Registered
  <2>2. \A i \in Slots : ~ mounts[i].mounted
    BY DEF Init
  <2>3. Table = [p \in Points |-> NoDevice]
    BY <2>2 DEF Table
  <2>4. Broken = {}
    BY <2>2 DEF Broken, At
  <2> QED
    BY <2>1, <2>3, <2>4 DEF Abstract!Init
<1>4. VfsInv /\ VfsInv' /\ [Next]_vars => [Abstract!Next]_<<Registered, Table, Broken>>
  BY MountStep
<1> QED
  BY <1>1, <1>2, <1>3, <1>4, PTL DEF Spec, ImplementsMountTable, Abstract!Spec

--------------------------------------------------------------------------------
(* A disk is recognised if and only if it is mounted. *)

LEMMA FatIsBoth ==
  ASSUME NEW s, FatSector(s)
  PROVE  Recognised(s) /\ fat_bpb_load(s)
<1>1. s.bps = 512 /\ s.spc \in PowersOfTwo /\ s.nfats # 0 /\ s.fatsz # 0 /\ s.total # 0 /\ s.sig
  BY DEF FatSector
<1>2. s.spc \in 1 .. 64
  BY DEF FatSector, PowersOfTwo
<1> QED
  BY <1>1, <1>2 DEF Recognised, probe_fat_numeric, fat_bpb_load, detect_fat_type

LEMMA NotFatIsNeither ==
  ASSUME NEW s, NotFat(s)
  PROVE  ~ Recognised(s) /\ ~ fat_bpb_load(s)
<1>1. s.label # "FAT" /\ s.bps = 0
  BY DEF NotFat
<1> QED
  BY <1>1 DEF Recognised, probe_fat_numeric, fat_bpb_load, detect_fat_type

\* fs_probe (probe.c) and fat_mount (fat.c) decide alike on every disk as formatting
\* and partitioning tools leave it, whatever the number of its partitions and their order.
THEOREM Agreement ==
  ASSUME NEW disk, DOMAIN disk.parts \in SUBSET (Nat \ {0}), WellFormed(disk),
         disk.parts = <<>> => DOMAIN disk.parts = {}
  PROVE  fs_probe(disk) <=> fat_mount(disk)
<1> DEFINE F == {i \in DOMAIN disk.parts : disk.parts[i].fat}
<1> DEFINE part == mbr_find_fat_partition(disk)
<1>1. CASE ~ disk.boot.sig \/ F = {}
  <2>1. part = 0
    BY <1>1 DEF mbr_find_fat_partition
  <2>2. fat_mount(disk) <=> fat_bpb_load(disk.boot)
    BY <2>1 DEF fat_mount
  <2>3. fs_probe(disk) <=> disk.boot.label # "other" /\ Recognised(disk.boot)
    BY <1>1 DEF fs_probe
  <2>4. CASE FatSector(disk.boot)
    BY <2>2, <2>3, <2>4, FatIsBoth DEF FatSector
  <2>5. CASE NotFat(disk.boot)
    BY <2>2, <2>3, <2>5, NotFatIsNeither
  <2> QED
    BY <2>4, <2>5 DEF WellFormed
<1>2. CASE disk.boot.sig /\ F # {}
  <2>1. PICK i \in F : \A j \in F : i <= j
    BY <1>2, LeastExists
  <2>2. part \in F
    <3>1. part = CHOOSE k \in F : \A j \in F : k <= j
      BY <1>2 DEF mbr_find_fat_partition
    <3> HIDE DEF F
    <3> QED
      BY <2>1, <3>1, Zenon
  <2>3. part # 0
    BY <2>2
  <2>4. fat_mount(disk) <=> fat_bpb_load(disk.parts[part].boot)
    BY <2>3 DEF fat_mount
  <2> HIDE DEF part
  <2>5. /\ NotFat(disk.boot) /\ disk.boot.label = "none"
        /\ \A k \in F : FatSector(disk.parts[k].boot)
    BY <1>2 DEF WellFormed
  <2>6. fat_mount(disk)
    BY <2>2, <2>4, <2>5, FatIsBoth
  <2>7. Recognised(disk.parts[part].boot)
    BY <2>2, <2>5, FatIsBoth
  <2>8. fs_probe(disk)
    BY <1>2, <2>2, <2>5, <2>7 DEF fs_probe
  <2> QED
    BY <2>6, <2>8
<1> QED
  BY <1>1, <1>2

\* vfs_mount never gives up on a good disk after fs_probe has accepted it, and never
\* turns one away that fat_mount would have taken.
THEOREM ProbeAlwaysAgrees ==
  Spec => []ProbeAgrees
<1>1. ASSUME NEW disk \in Disks, WellFormed(disk) PROVE fs_probe(disk) <=> fat_mount(disk)
  <2>1. PICK n \in 0 .. 2 : disk.parts \in [1 .. n -> PartitionEntries]
    BY DEF Disks
  <2>2. DOMAIN disk.parts = 1 .. n
    BY <2>1
  <2>3. DOMAIN disk.parts \in SUBSET (Nat \ {0})
    BY <2>2
  <2>4. disk.parts = <<>> => DOMAIN disk.parts = {}
    OBVIOUS
  <2> QED
    BY <1>1, <2>3, <2>4, Agreement
<1>2. ProbeAgrees
  BY <1>1 DEF ProbeAgrees
<1> QED
  BY <1>2, PTL DEF Spec

--------------------------------------------------------------------------------
(* The components of a path. *)

\* Induction over the natural numbers, for a set.
LEMMA Induction ==
  ASSUME NEW S, 0 \in S, \A n \in Nat : n \in S => n + 1 \in S
  PROVE  \A n \in Nat : n \in S
<1> DEFINE T == {n \in Nat : n \notin S}
<1> SUFFICES ASSUME T # {} PROVE FALSE
  OBVIOUS
<1>1. PICK m \in T : \A k \in T : m <= k
  BY LeastExists
<1>2. m \in Nat \ {0} /\ m - 1 \in Nat /\ ~ (m <= m - 1) /\ (m - 1) + 1 = m
  OBVIOUS
<1>3. m - 1 \in S
  BY <1>1, <1>2
<1> QED
  BY <1>2, <1>3

\* Characters.  The letters that Paths uses are named, because the provers do not
\* know of a given string that it is one.
Char == STRING \cup {"/", "a", "b"}
Text == Seq(Char)
Names == Seq(Text)

\* Appending to the second of two joined sequences.
LEMMA AppendConcat ==
  ASSUME NEW a \in Names, NEW b \in Names, NEW w \in Text
  PROVE  Append(a \o b, w) = a \o Append(b, w)
<1>1. <<w>> \in Seq(Text) /\ a \o b \in Seq(Text) /\ a \in Seq(Text) /\ b \in Seq(Text)
  BY DEF Names
<1>2. Append(a \o b, w) = (a \o b) \o <<w>> /\ Append(b, w) = b \o <<w>>
  BY <1>1, AppendIsConcat
<1>3. (a \o b) \o <<w>> = a \o (b \o <<w>>)
  BY <1>1, ConcatAssociative
<1> QED
  BY <1>2, <1>3

\* Texts of one character are equal if the characters are.
LEMMA OfOne ==
  ASSUME NEW a \in Text, NEW b \in Text, Len(a) = 1, Len(b) = 1, a[1] = b[1]
  PROVE  a = b
<1>1. \A i \in 1 .. Len(a) : a[i] = b[i]
  OBVIOUS
<1> QED
  BY <1>1, SeqEqual DEF Text

\* The last element of two joined sequences, and what is in front of it.
LEMMA FrontConcat ==
  ASSUME NEW S, NEW a \in Seq(S), NEW b \in Seq(S), b # <<>>
  PROVE  /\ Front(b) \in Seq(S) /\ Last(b) \in S
         /\ Last(a \o b) = Last(b) /\ Front(a \o b) = a \o Front(b)
<1>0. Len(a) \in Nat /\ Len(b) \in Nat \ {0}
  OBVIOUS
<1>a. ASSUME NEW s \in Seq(S), Len(s) > 0
      PROVE  /\ Front(s) \in Seq(S) /\ Len(Front(s)) = Len(s) - 1
             /\ \A i \in 1 .. Len(s) - 1 : Front(s)[i] = s[i]
  <2>1. Len(s) \in Nat /\ Len(s) - 1 \in Nat /\ \A i \in 1 .. Len(s) - 1 : s[i] \in S
    BY <1>a
  <2>2. /\ Front(s) \in Seq(S) /\ Len(Front(s)) = IF 1 <= Len(s) - 1 THEN (Len(s) - 1) - 1 + 1 ELSE 0
        /\ \A i \in 1 .. (Len(s) - 1) - 1 + 1 : Front(s)[i] = s[1 + i - 1]
    BY <2>1, SubSeqProperties DEF Front
  <2>3. \A i \in 1 .. Len(s) - 1 : i \in 1 .. (Len(s) - 1) - 1 + 1 /\ 1 + i - 1 = i
    BY <2>1
  <2>4. (IF 1 <= Len(s) - 1 THEN (Len(s) - 1) - 1 + 1 ELSE 0) = Len(s) - 1
    <3>1. \A k \in Nat : (IF 1 <= k THEN k - 1 + 1 ELSE 0) = k
      OBVIOUS
    <3> QED
      BY <2>1, <3>1
  <2>5. \A i \in 1 .. Len(s) - 1 : Front(s)[i] = s[i]
    <3> TAKE i \in 1 .. Len(s) - 1
    <3>1. Front(s)[i] = s[1 + i - 1]
      BY <2>2, <2>3
    <3> QED
      BY <2>3, <3>1
  <2> QED
    BY <2>2, <2>4, <2>5
<1>1. Front(b) \in Seq(S) /\ Len(Front(b)) = Len(b) - 1 /\ Last(b) \in S
  <2>1. b[Len(b)] \in S
    BY <1>0
  <2> QED
    BY <1>0, <1>a, <2>1 DEF Last
<1>2. /\ a \o b \in Seq(S) /\ Len(a \o b) = Len(a) + Len(b)
      /\ \A i \in 1 .. Len(a) + Len(b) : (a \o b)[i] = IF i <= Len(a) THEN a[i] ELSE b[i - Len(a)]
  BY ConcatProperties
<1>3. /\ a \o Front(b) \in Seq(S) /\ Len(a \o Front(b)) = Len(a) + (Len(b) - 1)
      /\ \A i \in 1 .. Len(a) + (Len(b) - 1) :
           (a \o Front(b))[i] = IF i <= Len(a) THEN a[i] ELSE Front(b)[i - Len(a)]
  BY <1>1, ConcatProperties
<1>5. Len(a) + Len(b) > 0 /\ (Len(a) + Len(b)) - 1 = Len(a) + (Len(b) - 1)
  BY <1>0
<1>6. /\ Front(a \o b) \in Seq(S) /\ Len(Front(a \o b)) = Len(a) + (Len(b) - 1)
      /\ \A i \in 1 .. Len(a) + (Len(b) - 1) : Front(a \o b)[i] = (a \o b)[i]
  BY <1>2, <1>a, <1>5
<1>7. \A i \in 1 .. Len(b) - 1 : Front(b)[i] = b[i]
  BY <1>0, <1>a
<1>8. ASSUME NEW i \in 1 .. Len(a) + (Len(b) - 1)
      PROVE  Front(a \o b)[i] = (a \o Front(b))[i]
  <2>1. i \in 1 .. Len(a) + Len(b)
    BY <1>0
  <2>2. CASE i <= Len(a)
    <3>1. (a \o b)[i] = a[i]
      BY <1>2, <2>1, <2>2
    <3>2. (a \o Front(b))[i] = a[i]
      BY <1>3, <2>2
    <3> QED
      BY <1>6, <3>1, <3>2
  <2>3. CASE ~ (i <= Len(a))
    <3>1. (a \o b)[i] = b[i - Len(a)]
      BY <1>2, <2>1, <2>3
    <3>2. (a \o Front(b))[i] = Front(b)[i - Len(a)]
      BY <1>3, <2>3
    <3>3. i - Len(a) \in 1 .. Len(b) - 1
      BY <1>0, <2>3
    <3> QED
      BY <1>6, <1>7, <3>1, <3>2, <3>3
  <2> QED
    BY <2>2, <2>3
<1>9. Front(a \o b) = a \o Front(b)
  BY <1>3, <1>6, <1>8, SeqEqual
<1>10. Last(a \o b) = Last(b)
  BY <1>0, <1>2 DEF Last
<1> QED
  BY <1>1, <1>9, <1>10

\* Cutting is the recursion that its definition says.
LEMMA CutExists ==
  ASSUME NEW p \in Text
  PROVE  /\ CutUpTo(p)[0] = <<>>
         /\ \A i \in 1 .. Len(p) : CutUpTo(p)[i] = Cut(p, i, CutUpTo(p)[i - 1])
<1> DEFINE Step(f, i) == IF i = 0 THEN <<>> ELSE Cut(p, i, f[i - 1])
           Upto(n, f) == f = [i \in 0 .. n |-> Step(f, i)]
           N == {n \in Nat : \E f : Upto(n, f)}
<1>0. Len(p) \in Nat
  BY DEF Text
<1>1. 0 \in N
  <2> DEFINE g == [i \in 0 .. 0 |-> <<>>]
  <2>1. Upto(0, g)
    OBVIOUS
  <2> QED
    BY <2>1
<1>2. ASSUME NEW n \in Nat, n \in N PROVE n + 1 \in N
  <2>1. PICK f : Upto(n, f)
    BY <1>2
  <2> HIDE DEF Step
  <2> DEFINE g == [i \in 0 .. n + 1 |-> IF i <= n THEN f[i] ELSE Step(f, i)]
  <2>2. \A i \in 0 .. n : g[i] = f[i] /\ f[i] = Step(f, i)
    BY <2>1
  <2>3. g[n + 1] = Step(f, n + 1)
    OBVIOUS
  <2> HIDE DEF g
  <2>4. \A i \in 0 .. n + 1 : Step(g, i) = Step(f, i)
    <3>1. \A i \in 0 .. n + 1 : i # 0 => i - 1 \in 0 .. n
      OBVIOUS
    <3> QED
      BY <2>2, <3>1 DEF Step
  <2>5. \A i \in 0 .. n + 1 : g[i] = Step(g, i)
    BY <2>2, <2>3, <2>4
  <2>6. Upto(n + 1, g)
    BY <2>5 DEF g
  <2> QED
    BY <2>6
<1>3. \A n \in Nat : n \in N
  <2> HIDE DEF N
  <2> QED
    BY <1>1, <1>2, Induction
<1>4. PICK f : Upto(Len(p), f)
  BY <1>3, <1>0
<1>5. Upto(Len(p), CutUpTo(p))
  <2> DEFINE Body(g) == [i \in 0 .. Len(p) |-> IF i = 0 THEN <<>> ELSE Cut(p, i, g[i - 1])]
  <2>1. CutUpTo(p) = CHOOSE g : g = Body(g)
    BY Zenon DEF CutUpTo
  <2>2. f = Body(f)
    BY <1>4
  <2> HIDE DEF Body
  <2>3. CutUpTo(p) = Body(CutUpTo(p))
    BY <2>1, <2>2, Zenon
  <2> QED
    BY <2>3, Zenon DEF Body
<1> DEFINE h == CutUpTo(p)
<1>6. h = [i \in 0 .. Len(p) |-> Step(h, i)]
  BY <1>5
<1> HIDE DEF h, Step
<1>7. \A i \in 0 .. Len(p) : h[i] = Step(h, i)
  BY <1>6
<1>8. h[0] = Step(h, 0) /\ \A i \in 1 .. Len(p) : h[i] = Step(h, i)
  BY <1>0, <1>7
<1> QED
  BY <1>8 DEF h, Step

\* Every component is one character or longer, and there is one where the path does
\* not end with a separator.
LEMMA CutType ==
  ASSUME NEW p \in Text
  PROVE  /\ Components(p) \in Names
         /\ \A i \in 0 .. Len(p) : CutUpTo(p)[i] \in Names
         /\ \A i \in 1 .. Len(p) : p[i] # "/" => CutUpTo(p)[i] # <<>>
<1> DEFINE f == CutUpTo(p)
<1>0. Len(p) \in Nat /\ \A i \in 1 .. Len(p) : p[i] \in Char
  BY DEF Text
<1>1. f[0] = <<>> /\ \A i \in 1 .. Len(p) : f[i] = Cut(p, i, f[i - 1])
  BY CutExists
<1> HIDE DEF f
<1> DEFINE Good(i) == f[i] \in Names /\ (i > 0 /\ p[i] # "/" => f[i] # <<>>)
           N == {n \in Nat : n <= Len(p) => Good(n)}
<1>2. 0 \in N
  <2>1. f[0] \in Names
    BY <1>1 DEF Names
  <2> QED
    BY <2>1
<1>3. ASSUME NEW n \in Nat, n \in N PROVE n + 1 \in N
  <2> SUFFICES ASSUME n + 1 <= Len(p) PROVE Good(n + 1)
    OBVIOUS
  <2>1. /\ Good(n) /\ n + 1 \in 1 .. Len(p) /\ (n + 1) - 1 = n
        /\ (n + 1 = 1) = (n = 0) /\ p[n + 1] \in Char
    BY <1>0, <1>3
  <2>2. f[n + 1] = Cut(p, n + 1, f[n])
    BY <1>1, <2>1
  <2> HIDE DEF N
  <2> PICK c \in Names : c = f[n]
    BY <2>1
  <2>3. CASE p[n + 1] = "/"
    BY <2>1, <2>2, <2>3 DEF Cut
  <2>4. CASE p[n + 1] # "/" /\ (n = 0 \/ p[n] = "/")
    <3>1. f[n + 1] = Append(c, <<p[n + 1]>>)
      BY <2>1, <2>2, <2>4 DEF Cut
    <3>2. <<p[n + 1]>> \in Text
      BY <2>1 DEF Text
    <3>3. Append(c, <<p[n + 1]>>) \in Names /\ Append(c, <<p[n + 1]>>) # <<>>
      BY <3>2 DEF Names
    <3> QED
      BY <3>1, <3>3
  <2>5. CASE p[n + 1] # "/" /\ ~ (n = 0 \/ p[n] = "/")
    <3>1. f[n + 1] = Append(Front(c), Append(Last(c), p[n + 1]))
      BY <2>1, <2>2, <2>5 DEF Cut
    <3>2. c # <<>>
      BY <2>1, <2>5
    <3>3. Front(c) \in Names /\ Last(c) \in Text
      BY <3>2 DEF Names, Front, Last
    <3>4. Append(Last(c), p[n + 1]) \in Text
      BY <2>1, <3>3 DEF Text
    <3>5. ASSUME NEW a \in Names, NEW b \in Text PROVE Append(a, b) \in Names /\ Append(a, b) # <<>>
      BY DEF Names
    <3> QED
      BY <3>1, <3>3, <3>4, <3>5
  <2> QED
    BY <2>3, <2>4, <2>5
<1>4. \A n \in Nat : n \in N
  <2> HIDE DEF N
  <2> QED
    BY <1>2, <1>3, Induction
<1>5. \A i \in 0 .. Len(p) : Good(i)
  BY <1>0, <1>4
<1> QED
  BY <1>0, <1>5 DEF f, Components

\* What follows does not change what has been cut.
LEMMA CutPrefix ==
  ASSUME NEW p \in Text, NEW m \in Text, Len(m) <= Len(p),
         \A i \in 1 .. Len(m) : m[i] = p[i]
  PROVE  Components(m) = CutUpTo(p)[Len(m)]
<1> DEFINE f == CutUpTo(p)
           g == CutUpTo(m)
<1>0. Len(p) \in Nat /\ Len(m) \in Nat
  BY DEF Text
<1>1. /\ f[0] = <<>> /\ \A i \in 1 .. Len(p) : f[i] = Cut(p, i, f[i - 1])
      /\ g[0] = <<>> /\ \A i \in 1 .. Len(m) : g[i] = Cut(m, i, g[i - 1])
  BY CutExists
<1> HIDE DEF f, g
<1> DEFINE N == {n \in Nat : n <= Len(m) => f[n] = g[n]}
<1>2. 0 \in N
  BY <1>1
<1>3. ASSUME NEW n \in Nat, n \in N PROVE n + 1 \in N
  <2> SUFFICES ASSUME n + 1 <= Len(m) PROVE f[n + 1] = g[n + 1]
    OBVIOUS
  <2>1. /\ f[n] = g[n] /\ n + 1 \in 1 .. Len(m) /\ n + 1 \in 1 .. Len(p) /\ (n + 1) - 1 = n
        /\ m[n + 1] = p[n + 1] /\ (n + 1 # 1 => m[n] = p[n])
    BY <1>0, <1>3
  <2>2. f[n + 1] = Cut(p, n + 1, f[n]) /\ g[n + 1] = Cut(m, n + 1, f[n])
    BY <1>1, <2>1
  <2>3. ASSUME NEW c PROVE Cut(p, n + 1, c) = Cut(m, n + 1, c)
    BY <2>1 DEF Cut
  <2> QED
    BY <2>2, <2>3
<1>4. \A n \in Nat : n \in N
  <2> HIDE DEF N
  <2> QED
    BY <1>2, <1>3, Induction
<1> QED
  BY <1>0, <1>4 DEF f, g, Components

\* The components of two parts that a separator joins.
LEMMA Split ==
  ASSUME NEW p \in Text, NEW L \in Nat, L < Len(p), p[L + 1] = "/"
  PROVE  Components(p) = Components(SubSeq(p, 1, L)) \o Components(SubSeq(p, L + 2, Len(p)))
<1> DEFINE a == SubSeq(p, 1, L)
           q == SubSeq(p, L + 2, Len(p))
           f == CutUpTo(p)
           g == CutUpTo(q)
<1>0. Len(p) \in Nat
  BY DEF Text
<1>1. a \in Text /\ Len(a) = L /\ \A i \in 1 .. L : a[i] = p[i]
  BY <1>0 DEF Text
<1>2. /\ q \in Text /\ Len(q) = Len(p) - (L + 1)
      /\ \A i \in 1 .. Len(q) : q[i] = p[(L + 1) + i]
  <2>1. q \in Text /\ Len(q) = Len(p) - (L + 1)
    BY <1>0 DEF Text
  <2>2. \A i \in 1 .. Len(q) : q[i] = p[(L + 2) + i - 1]
    BY <1>0, <2>1 DEF Text
  <2> QED
    BY <1>0, <2>1, <2>2
<1> HIDE DEF a, q
<1>3. /\ f[0] = <<>> /\ \A i \in 1 .. Len(p) : f[i] = Cut(p, i, f[i - 1])
      /\ g[0] = <<>> /\ \A i \in 1 .. Len(q) : g[i] = Cut(q, i, g[i - 1])
  BY <1>2, CutExists
<1>4. /\ \A i \in 0 .. Len(q) : g[i] \in Names
      /\ \A i \in 1 .. Len(q) : q[i] # "/" => g[i] # <<>>
  BY <1>2, CutType
<1>5. Components(a) = f[L] /\ Components(a) \in Names
  BY <1>0, <1>1, CutPrefix, CutType
<1> HIDE DEF f, g
<1> PICK A \in Names : A = Components(a)
  BY <1>5
<1> DEFINE N == {n \in Nat : n <= Len(q) => f[(L + 1) + n] = A \o g[n]}
<1>6. 0 \in N
  <2>1. L + 1 \in 1 .. Len(p) /\ (L + 1) - 1 = L /\ (L + 1) + 0 = L + 1
    BY <1>0
  <2>2. f[L + 1] = Cut(p, L + 1, A)
    BY <1>3, <1>5, <2>1
  <2>3. f[L + 1] = A
    BY <2>2 DEF Cut
  <2>4. A \o <<>> = A
    BY ConcatEmptySeq DEF Names
  <2> QED
    BY <1>3, <2>1, <2>3, <2>4
<1>7. ASSUME NEW n \in Nat, n \in N PROVE n + 1 \in N
  <2> SUFFICES ASSUME n + 1 <= Len(q) PROVE f[(L + 1) + (n + 1)] = A \o g[n + 1]
    OBVIOUS
  <2> PICK k \in Nat : k = (L + 1) + n
    OBVIOUS
  <2>1. /\ f[k] = A \o g[n] /\ n + 1 \in 1 .. Len(q) /\ (n + 1) - 1 = n
        /\ (L + 1) + (n + 1) = k + 1 /\ (k + 1) - 1 = k /\ k + 1 \in 1 .. Len(p) /\ k + 1 # 1
        /\ n \in 0 .. Len(q)
    BY <1>0, <1>2, <1>7
  <2>2. q[n + 1] = p[k + 1] /\ (n # 0 => q[n] = p[k]) /\ (n = 0 => p[k] = "/")
    <3>1. q[n + 1] = p[k + 1]
      BY <1>2, <2>1
    <3>2. n # 0 => n \in 1 .. Len(q)
      BY <2>1
    <3>3. n # 0 => q[n] = p[k]
      BY <1>2, <3>2
    <3>4. n = 0 => k = L + 1
      OBVIOUS
    <3> QED
      BY <3>1, <3>3, <3>4
  <2> PICK c \in Names : c = g[n]
    BY <1>4, <2>1
  <2>3. f[k + 1] = Cut(p, k + 1, A \o c) /\ g[n + 1] = Cut(q, n + 1, c)
    BY <1>3, <2>1
  <2>4. n # 0 /\ q[n] # "/" => c # <<>>
    <3>1. n # 0 => n \in 1 .. Len(q)
      BY <2>1
    <3> QED
      BY <1>4, <3>1
  <2>5. p[k + 1] \in Char
    BY <2>1 DEF Text
  <2> PICK x \in Char : x = p[k + 1]
    BY <2>5
  <2> HIDE DEF N
  <2>6. CASE x = "/"
    BY <2>1, <2>2, <2>3, <2>6 DEF Cut
  <2>7. CASE x # "/" /\ p[k] = "/"
    <3>1. f[k + 1] = Append(A \o c, <<x>>) /\ g[n + 1] = Append(c, <<x>>)
      <4>1. n + 1 = 1 \/ q[n] = "/"
        BY <2>2, <2>7
      <4>2. q[n + 1] = x /\ q[(n + 1) - 1] = q[n] /\ p[(k + 1) - 1] = p[k] /\ p[k + 1] = x
        BY <2>1, <2>2
      <4>3. ASSUME NEW b PROVE Cut(p, k + 1, b) = Append(b, <<x>>) /\ Cut(q, n + 1, b) = Append(b, <<x>>)
        BY <2>7, <4>1, <4>2 DEF Cut
      <4> QED
        BY <2>3, <4>3
    <3>2. <<x>> \in Text
      BY DEF Text
    <3>3. Append(A \o c, <<x>>) = A \o Append(c, <<x>>)
      BY <3>2, AppendConcat
    <3> QED
      BY <2>1, <3>1, <3>2, <3>3
  <2>8. CASE x # "/" /\ p[k] # "/"
    <3>1. n # 0 /\ q[n] # "/" /\ c # <<>>
      BY <2>2, <2>4, <2>8
    <3>2. /\ f[k + 1] = Append(Front(A \o c), Append(Last(A \o c), x))
          /\ g[n + 1] = Append(Front(c), Append(Last(c), x))
      <4>1. n + 1 # 1 /\ k + 1 # 1 /\ q[n + 1] = x /\ p[k + 1] = x
        BY <2>1, <2>2, <3>1
      <4>2. q[(n + 1) - 1] # "/" /\ p[(k + 1) - 1] # "/"
        BY <2>1, <2>8, <3>1
      <4>3. ASSUME NEW b PROVE /\ Cut(p, k + 1, b) = Append(Front(b), Append(Last(b), x))
                               /\ Cut(q, n + 1, b) = Append(Front(b), Append(Last(b), x))
        BY <2>8, <4>1, <4>2 DEF Cut
      <4> QED
        BY <2>3, <4>3
    <3>3. Last(A \o c) = Last(c) /\ Last(c) \in Text
      BY <3>1, FrontConcat DEF Names
    <3>4. Front(A \o c) = A \o Front(c) /\ Front(c) \in Names
      BY <3>1, FrontConcat DEF Names
    <3>6. Append(Last(c), x) \in Text
      BY <3>3 DEF Text
    <3> PICK w \in Text : w = Append(Last(c), x)
      BY <3>6
    <3> PICK b \in Names : b = Front(c)
      BY <3>4
    <3>7. Append(A \o b, w) = A \o Append(b, w)
      BY AppendConcat
    <3>8. f[k + 1] = Append(A \o b, w) /\ g[n + 1] = Append(b, w)
      BY <3>2, <3>3, <3>4
    <3> QED
      BY <2>1, <3>7, <3>8
  <2> QED
    BY <2>6, <2>7, <2>8
<1>8. \A n \in Nat : n \in N
  <2> HIDE DEF N
  <2> QED
    BY <1>6, <1>7, Induction
<1>9. Len(q) \in Nat /\ (L + 1) + Len(q) = Len(p)
  BY <1>0, <1>2
<1>10. f[(L + 1) + Len(q)] = A \o g[Len(q)]
  BY <1>8, <1>9
<1> QED
  BY <1>9, <1>10 DEF f, g, a, q, Components

\* A text without separators is its only component.
LEMMA Single ==
  ASSUME NEW x \in Text, x # <<>>, \A i \in 1 .. Len(x) : x[i] # "/"
  PROVE  Components(x) = <<x>>
<1> DEFINE f == CutUpTo(x)
<1>0. Len(x) \in Nat \ {0}
  BY DEF Text
<1>1. f[0] = <<>> /\ \A i \in 1 .. Len(x) : f[i] = Cut(x, i, f[i - 1])
  BY CutExists
<1> HIDE DEF f
<1> DEFINE N == {n \in Nat : n + 1 <= Len(x) => f[n + 1] = <<SubSeq(x, 1, n + 1)>>}
<1>2. 0 \in N
  <2>1. f[1] = Cut(x, 1, <<>>)
    <3>1. 1 \in 1 .. Len(x) /\ 1 - 1 = 0
      BY <1>0
    <3> QED
      BY <1>1, <3>1
  <2>2. f[1] = Append(<<>>, <<x[1]>>)
    BY <1>0, <2>1 DEF Cut
  <2>3. SubSeq(x, 1, 1) = <<x[1]>>
    <3>1. x[1] \in Char
      BY <1>0 DEF Text
    <3>2. SubSeq(x, 1, 1) \in Text /\ Len(SubSeq(x, 1, 1)) = 1 /\ SubSeq(x, 1, 1)[1] = x[1]
      BY <1>0 DEF Text
    <3>3. <<x[1]>> \in Text /\ Len(<<x[1]>>) = 1 /\ <<x[1]>>[1] = x[1]
      BY <3>1 DEF Text
    <3> QED
      BY <3>2, <3>3, OfOne
  <2>4. f[0 + 1] = <<SubSeq(x, 1, 0 + 1)>>
    BY <2>2, <2>3
  <2> QED
    BY <2>4
<1>3. ASSUME NEW n \in Nat, n \in N PROVE n + 1 \in N
  <2> SUFFICES ASSUME (n + 1) + 1 <= Len(x) PROVE f[(n + 1) + 1] = <<SubSeq(x, 1, (n + 1) + 1)>>
    OBVIOUS
  <2> PICK k \in Nat : k = n + 1
    OBVIOUS
  <2> PICK w \in Text : w = SubSeq(x, 1, k)
    <3>1. SubSeq(x, 1, k) \in Text
      BY <1>0 DEF Text
    <3> QED
      BY <3>1
  <2>1. f[k] = <<w>> /\ k + 1 \in 1 .. Len(x) /\ (k + 1) - 1 = k /\ k \in 1 .. Len(x) /\ k + 1 # 1
    BY <1>0, <1>3
  <2>2. x[k + 1] # "/" /\ x[(k + 1) - 1] # "/"
    BY <2>1
  <2>3. f[k + 1] = Append(Front(<<w>>), Append(Last(<<w>>), x[k + 1]))
    <3>1. f[k + 1] = Cut(x, k + 1, <<w>>)
      BY <1>1, <2>1
    <3>2. ASSUME NEW c PROVE Cut(x, k + 1, c) = Append(Front(c), Append(Last(c), x[k + 1]))
      BY <2>1, <2>2 DEF Cut
    <3> QED
      BY <3>1, <3>2
  <2>4. Front(<<w>>) = <<>> /\ Last(<<w>>) = w
    BY DEF Front, Last
  <2>5. Append(w, x[k + 1]) = SubSeq(x, 1, k + 1)
    BY <1>0, <2>1 DEF Text
  <2> HIDE DEF N
  <2>6. f[k + 1] = <<SubSeq(x, 1, k + 1)>>
    <3>1. ASSUME NEW y PROVE Append(<<>>, y) = <<y>>
      OBVIOUS
    <3> QED
      BY <2>3, <2>4, <2>5, <3>1
  <2> QED
    BY <2>6
<1>4. \A n \in Nat : n \in N
  <2> HIDE DEF N
  <2> QED
    BY <1>2, <1>3, Induction
<1>5. Len(x) - 1 \in Nat /\ (Len(x) - 1) + 1 = Len(x)
  BY <1>0
<1>6. f[Len(x)] = <<SubSeq(x, 1, Len(x))>>
  BY <1>0, <1>4, <1>5
<1>7. SubSeq(x, 1, Len(x)) = x
  BY DEF Text
<1> QED
  BY <1>6, <1>7 DEF f, Components

\* The root, and what is left of a path that is a point, have no components.
LEMMA ComponentsOfRoot ==
  /\ Components(<<>>) = <<>>
  /\ Root \in Text => Components(Root) = <<>>
<1>1. <<>> \in Text /\ Len(<<>>) = 0 /\ Len(Root) = 1 /\ Root[1] = "/"
  BY DEF Text, Root
<1>2. Components(<<>>) = <<>>
  BY <1>1, CutExists DEF Components
<1>3. SubSeq(Root, 1, 0) = <<>> /\ SubSeq(Root, 2, 1) = <<>>
  BY DEF Root
<1>4. ASSUME Root \in Text PROVE Components(Root) = <<>> \o <<>>
  <2>1. 0 \in Nat /\ 0 < Len(Root) /\ Root[0 + 1] = "/" /\ 0 + 2 = 2
    BY <1>1
  <2>2. Components(Root) = Components(SubSeq(Root, 1, 0)) \o Components(SubSeq(Root, 0 + 2, Len(Root)))
    BY <1>1, <1>4, <2>1, Split
  <2> QED
    BY <1>1, <1>2, <1>3, <2>1, <2>2
<1> QED
  BY <1>2, <1>4

\* The separator in front does not count.
LEMMA ComponentsOfTail ==
  ASSUME NEW p \in Text, p # <<>>, p[1] = "/"
  PROVE  Components(p) = Components(SubSeq(p, 2, Len(p)))
<1> DEFINE q == SubSeq(p, 2, Len(p))
<1>1. Len(p) \in Nat \ {0} /\ 0 \in Nat /\ 0 < Len(p) /\ p[0 + 1] = "/" /\ 0 + 2 = 2
  BY DEF Text
<1>2. Components(p) = Components(SubSeq(p, 1, 0)) \o Components(SubSeq(p, 0 + 2, Len(p)))
  BY <1>1, Split
<1>3. SubSeq(p, 1, 0) = <<>>
  BY DEF Text
<1>4. q \in Text
  BY <1>1 DEF Text
<1> HIDE DEF q
<1>5. Components(q) \in Names
  BY <1>4, CutType
<1>6. <<>> \o Components(q) = Components(q)
  BY <1>5, ConcatEmptySeq DEF Names
<1> QED
  BY <1>1, <1>2, <1>3, <1>6, ComponentsOfRoot DEF q

--------------------------------------------------------------------------------
(* A point covers a path if and only if its components begin those of the path. *)

Absolute(p) == p \in Text /\ p # <<>> /\ p[1] = "/" /\ Clean(p)

\* A part of a text, character by character.
LEMMA Part ==
  ASSUME NEW p \in Text, NEW a \in Nat, NEW b \in Nat, a <= b, b <= Len(p)
  PROVE  /\ SubSeq(p, a + 1, b) \in Text /\ Len(SubSeq(p, a + 1, b)) = b - a
         /\ \A i \in 1 .. b - a : SubSeq(p, a + 1, b)[i] = p[a + i]
<1>0. Len(p) \in Nat /\ \A i \in 1 .. Len(p) : p[i] \in Char
  BY DEF Text
<1>1. a + 1 \in Int /\ b \in Int /\ \A i \in a + 1 .. b : p[i] \in Char
  BY <1>0
<1> DEFINE q == SubSeq(p, a + 1, b)
<1>2. /\ q \in Seq(Char) /\ Len(q) = IF a + 1 <= b THEN b - (a + 1) + 1 ELSE 0
      /\ \A i \in 1 .. b - (a + 1) + 1 : q[i] = p[(a + 1) + i - 1]
  BY <1>1, SubSeqProperties
<1> HIDE DEF q
<1>3. (IF a + 1 <= b THEN b - (a + 1) + 1 ELSE 0) = b - a
  OBVIOUS
<1>4. \A i \in 1 .. b - a : q[i] = p[a + i]
  <2> TAKE i \in 1 .. b - a
  <2>1. i \in 1 .. b - (a + 1) + 1 /\ (a + 1) + i - 1 = a + i
    OBVIOUS
  <2> QED
    BY <1>2, <2>1
<1> QED
  BY <1>2, <1>3, <1>4 DEF q, Text

\* A part of a part.
LEMMA PartOfPart ==
  ASSUME NEW p \in Text, NEW a \in Nat, NEW b \in Nat, a <= b, b <= Len(p),
         NEW c \in Nat, NEW d \in Nat, c <= d, d <= b - a
  PROVE  SubSeq(SubSeq(p, a + 1, b), c + 1, d) = SubSeq(p, (a + c) + 1, a + d)
<1> DEFINE q == SubSeq(p, a + 1, b)
           s == SubSeq(q, c + 1, d)
           t == SubSeq(p, (a + c) + 1, a + d)
<1>1. q \in Text /\ Len(q) = b - a /\ \A i \in 1 .. b - a : q[i] = p[a + i]
  BY Part
<1> HIDE DEF q
<1>2. s \in Text /\ Len(s) = d - c /\ \A i \in 1 .. d - c : s[i] = q[c + i]
  BY <1>1, Part
<1>3. t \in Text /\ Len(t) = (a + d) - (a + c) /\ \A i \in 1 .. (a + d) - (a + c) : t[i] = p[(a + c) + i]
  <2>0. Len(p) \in Nat
    BY DEF Text
  <2>1. a + c \in Nat /\ a + d \in Nat /\ a + c <= a + d /\ a + d <= Len(p)
    BY <2>0
  <2> QED
    BY <2>1, Part
<1> HIDE DEF s, t
<1>4. (a + d) - (a + c) = d - c
  OBVIOUS
<1>5. ASSUME NEW i \in 1 .. Len(s) PROVE s[i] = t[i]
  <2>1. i \in 1 .. d - c /\ c + i \in 1 .. b - a /\ a + (c + i) = (a + c) + i
    BY <1>2
  <2>2. s[i] = p[a + (c + i)]
    BY <1>1, <1>2, <2>1
  <2>3. t[i] = p[(a + c) + i]
    BY <1>3, <1>4, <2>1
  <2> QED
    BY <2>1, <2>2, <2>3
<1>6. s = t
  <2>1. Len(s) = Len(t)
    BY <1>2, <1>3, <1>4
  <2> QED
    BY <1>2, <1>3, <1>5, <2>1, SeqEqual DEF Text
<1> QED
  BY <1>6 DEF q, s, t

\* The first component of a path ends at e.
FirstEnds(m, e) ==
  /\ \A i \in 2 .. e : m[i] # "/"
  /\ \/ e = Len(m) /\ Components(m) = <<SubSeq(m, 2, e)>>
     \/ /\ e < Len(m) /\ m[e + 1] = "/"
        /\ Absolute(SubSeq(m, e + 1, Len(m))) /\ e + 1 < Len(m)
        /\ Components(m) = <<SubSeq(m, 2, e)>> \o Components(SubSeq(m, e + 1, Len(m)))

\* Every path but the root is its first component and the path behind it.
LEMMA FirstComponent ==
  ASSUME NEW m, Absolute(m), Len(m) > 1
  PROVE  \E e \in 2 .. Len(m) : FirstEnds(m, e)
<1>0. /\ m \in Text /\ Len(m) \in Nat /\ m[1] = "/" /\ m # <<>> /\ m[2] # "/" /\ m[Len(m)] # "/"
      /\ \A i \in 1 .. Len(m) - 1 : m[i] = "/" => m[i + 1] # "/"
  <2>1. m \in Text /\ Len(m) \in Nat /\ m[1] = "/" /\ m # <<>> /\ Clean(m)
    BY DEF Absolute, Text
  <2>2. \A i \in 1 .. Len(m) - 1 : m[i] = "/" => m[i + 1] # "/"
    BY <2>1 DEF Clean
  <2>3. 1 \in 1 .. Len(m) - 1 /\ 1 + 1 = 2
    BY <2>1
  <2>4. m[Len(m)] # "/"
    BY <2>1 DEF Clean
  <2> QED
    BY <2>1, <2>2, <2>3, <2>4
<1> DEFINE S == {k \in 2 .. Len(m) : k = Len(m) \/ m[k + 1] = "/"}
<1>1. S \in SUBSET Nat /\ Len(m) \in S
  BY <1>0
<1>2. PICK e \in S : \A k \in S : e <= k
  BY <1>1, LeastExists
<1>3. e \in 2 .. Len(m) /\ e \in Nat /\ (e = Len(m) \/ m[e + 1] = "/")
  BY <1>0, <1>2
<1>4. ASSUME NEW i \in 2 .. e PROVE m[i] # "/"
  <2>1. CASE i = 2
    BY <1>0, <2>1
  <2>2. CASE i # 2
    <3>1. i - 1 \in 2 .. Len(m) /\ i - 1 # Len(m) /\ ~ (e <= i - 1) /\ (i - 1) + 1 = i
      BY <1>0, <1>3, <2>2
    <3>2. i - 1 \notin S
      BY <1>2, <3>1
    <3>3. m[(i - 1) + 1] # "/"
      BY <3>1, <3>2
    <3> QED
      BY <3>1, <3>3
  <2> QED
    BY <2>1, <2>2
<1> HIDE DEF S
<1> DEFINE x == SubSeq(m, 2, e)
<1>5. x \in Text /\ Len(x) = e - 1 /\ \A i \in 1 .. e - 1 : x[i] = m[1 + i]
  <2>1. 1 \in Nat /\ 1 <= e /\ e <= Len(m) /\ 1 + 1 = 2
    BY <1>0, <1>3
  <2>2. /\ SubSeq(m, 1 + 1, e) \in Text /\ Len(SubSeq(m, 1 + 1, e)) = e - 1
        /\ \A i \in 1 .. e - 1 : SubSeq(m, 1 + 1, e)[i] = m[1 + i]
    BY <1>0, <1>3, <2>1, Part
  <2> QED
    BY <2>1, <2>2
<1>6. Components(x) = <<x>>
  <2>1. \A i \in 1 .. Len(x) : x[i] # "/"
    <3> SUFFICES ASSUME NEW i \in 1 .. e - 1 PROVE x[i] # "/"
      BY <1>5
    <3>1. 1 + i \in 2 .. e
      BY <1>3
    <3> QED
      BY <1>4, <1>5, <3>1
  <2>2. Len(x) # 0
    BY <1>3, <1>5
  <2> HIDE DEF x
  <2>3. x # <<>>
    BY <2>2
  <2> QED
    BY <1>5, <2>1, <2>3, Single
<1>7. CASE e = Len(m)
  <2>1. Components(m) = <<x>>
    BY <1>0, <1>6, <1>7, ComponentsOfTail
  <2> QED
    BY <1>3, <1>4, <1>7, <2>1 DEF FirstEnds
<1>8. CASE e # Len(m)
  <2>0. e < Len(m) /\ m[e + 1] = "/"
    BY <1>0, <1>3, <1>8
  <2>1. e + 1 < Len(m)
    <3>1. e + 1 # Len(m)
      BY <1>0, <2>0
    <3> QED
      BY <1>0, <1>3, <2>0, <3>1
  <2> DEFINE a == SubSeq(m, 1, e)
             r == SubSeq(m, e + 1, Len(m))
  <2>2. Components(m) = Components(a) \o Components(SubSeq(m, e + 2, Len(m)))
    BY <1>0, <1>3, <2>0, Split
  <2>3. Components(a) = <<x>>
    <3>1. 0 \in Nat /\ 0 <= e /\ e <= Len(m) /\ 0 + 1 = 1 /\ e - 0 = e
      BY <1>0, <1>3
    <3>2. SubSeq(m, 0 + 1, e) \in Text /\ Len(SubSeq(m, 0 + 1, e)) = e - 0 /\
            \A i \in 1 .. e - 0 : SubSeq(m, 0 + 1, e)[i] = m[0 + i]
      BY <1>0, <1>3, <3>1, Part
    <3>3. a \in Text /\ Len(a) = e /\ a[1] = m[1]
      <4>1. 1 \in 1 .. e - 0 /\ 0 + 1 = 1
        BY <1>3
      <4>2. SubSeq(m, 0 + 1, e) = a
        BY <3>1
      <4>3. a \in Text /\ Len(a) = e - 0 /\ \A i \in 1 .. e - 0 : a[i] = m[0 + i]
        BY <3>2, <4>2
      <4> HIDE DEF a
      <4>4. a[1] = m[0 + 1]
        BY <4>1, <4>3
      <4> QED
        BY <3>1, <4>3, <4>4
    <3>4. SubSeq(a, 2, e) = x
      <4>1. 1 \in Nat /\ 1 <= e /\ e <= e - 0 /\ (0 + 1) + 1 = 2 /\ 0 + e = e /\ 1 + 1 = 2
        BY <1>3
      <4>2. SubSeq(SubSeq(m, 0 + 1, e), 1 + 1, e) = SubSeq(m, (0 + 1) + 1, 0 + e)
        BY <1>0, <1>3, <3>1, <4>1, PartOfPart
      <4> QED
        BY <3>1, <4>1, <4>2
    <3> HIDE DEF a, x
    <3>5. a # <<>>
      BY <1>3, <3>3
    <3>6. Components(a) = Components(SubSeq(a, 2, Len(a)))
      BY <1>0, <3>3, <3>5, ComponentsOfTail
    <3> QED
      BY <1>6, <3>3, <3>4, <3>6
  <2>4. /\ r \in Text /\ Len(r) = Len(m) - e
        /\ \A i \in 1 .. Len(m) - e : r[i] = m[e + i]
    BY <1>0, <1>3, <2>0, Part
  <2>5. Components(r) = Components(SubSeq(m, e + 2, Len(m)))
    <3>1. SubSeq(r, 2, Len(r)) = SubSeq(m, e + 2, Len(m))
      <4>1. /\ 1 \in Nat /\ Len(m) - e \in Nat /\ 1 <= Len(m) - e /\ Len(m) - e <= Len(m) - e
            /\ (e + 1) + 1 = e + 2 /\ e + (Len(m) - e) = Len(m) /\ 1 + 1 = 2 /\ e <= Len(m)
        BY <1>0, <1>3, <2>0
      <4> PICK k \in Nat : k = Len(m) - e
        BY <4>1
      <4>2. SubSeq(SubSeq(m, e + 1, Len(m)), 1 + 1, k) = SubSeq(m, (e + 1) + 1, e + k)
        BY <1>0, <1>3, <4>1, PartOfPart
      <4> QED
        BY <2>4, <4>1, <4>2
    <3>2. r[1] = "/" /\ r # <<>>
      <4>1. 1 \in 1 .. Len(m) - e /\ Len(r) # 0
        BY <1>0, <1>3, <2>0, <2>4
      <4> HIDE DEF r
      <4>2. r # <<>>
        BY <4>1
      <4> QED
        BY <2>0, <2>4, <4>1, <4>2
    <3> HIDE DEF r
    <3>3. Components(r) = Components(SubSeq(r, 2, Len(r)))
      BY <2>4, <3>2, ComponentsOfTail
    <3> QED
      BY <3>1, <3>3
  <2>6. Absolute(r)
    <3> HIDE DEF r
    <3>1. Len(r) \in Nat /\ Len(r) > 1
      BY <1>0, <1>3, <2>1, <2>4
    <3>2. r[1] = "/" /\ r # <<>>
      <4>1. 1 \in 1 .. Len(m) - e
        BY <2>4, <3>1
      <4> QED
        BY <2>0, <2>4, <3>1, <4>1
    <3>3. r[Len(r)] # "/"
      <4>1. Len(r) \in 1 .. Len(m) - e /\ e + Len(r) = Len(m)
        BY <1>0, <1>3, <2>4, <3>1
      <4> QED
        BY <1>0, <2>4, <4>1
    <3>4. ASSUME NEW i \in 1 .. Len(r) - 1, r[i] = "/" PROVE r[i + 1] # "/"
      <4>1. /\ i \in 1 .. Len(m) - e /\ i + 1 \in 1 .. Len(m) - e /\ e + i \in 1 .. Len(m) - 1
            /\ e + (i + 1) = (e + i) + 1
        BY <1>0, <1>3, <2>4, <3>1
      <4>2. r[i] = m[e + i] /\ r[i + 1] = m[(e + i) + 1]
        BY <2>4, <4>1
      <4> QED
        BY <1>0, <3>4, <4>1, <4>2
    <3> QED
      BY <2>4, <3>2, <3>3, <3>4 DEF Absolute, Clean
  <2> HIDE DEF r, a, x
  <2>7. Components(m) = <<x>> \o Components(r)
    BY <2>2, <2>3, <2>5
  <2> QED
    BY <1>3, <1>4, <2>0, <2>1, <2>6, <2>7 DEF FirstEnds, r, x
<1> QED
  BY <1>7, <1>8

\* The comparison of vfs_resolve, character by character.
LEMMA MatchesPointwise ==
  ASSUME NEW m \in Text, NEW p \in Text
  PROVE  Matches(m, p) <=>
           /\ Len(m) <= Len(p) /\ \A i \in 1 .. Len(m) : p[i] = m[i]
           /\ Len(p) = Len(m) \/ p[Len(m) + 1] = "/"
<1>0. Len(m) \in Nat /\ Len(p) \in Nat
  BY DEF Text
<1> SUFFICES ASSUME Len(m) <= Len(p)
             PROVE  SubSeq(p, 1, Len(m)) = m <=> \A i \in 1 .. Len(m) : p[i] = m[i]
  BY DEF Matches
<1> DEFINE q == SubSeq(p, 1, Len(m))
<1>1. q \in Text /\ Len(q) = Len(m) /\ \A i \in 1 .. Len(m) : q[i] = p[i]
  <2>1. 0 \in Nat /\ 0 <= Len(m) /\ 0 + 1 = 1 /\ Len(m) - 0 = Len(m)
    BY <1>0
  <2>2. /\ SubSeq(p, 0 + 1, Len(m)) \in Text /\ Len(SubSeq(p, 0 + 1, Len(m))) = Len(m) - 0
        /\ \A i \in 1 .. Len(m) - 0 : SubSeq(p, 0 + 1, Len(m))[i] = p[0 + i]
    BY <1>0, <2>1, Part
  <2>3. \A i \in 1 .. Len(m) - 0 : 0 + i = i
    BY <1>0
  <2>4. q = SubSeq(p, 0 + 1, Len(m))
    BY <2>1
  <2> HIDE DEF q
  <2> QED
    BY <2>1, <2>2, <2>3, <2>4
<1> HIDE DEF q
<1>2. ASSUME q = m PROVE \A i \in 1 .. Len(m) : p[i] = m[i]
  BY <1>1, <1>2
<1>3. ASSUME \A i \in 1 .. Len(m) : p[i] = m[i] PROVE q = m
  <2>1. \A i \in 1 .. Len(q) : q[i] = m[i]
    BY <1>1, <1>3
  <2> QED
    BY <1>1, <2>1, SeqEqual DEF Text
<1> QED
  BY <1>2, <1>3 DEF q

\* A component in front of others.
LEMMA FirstOf ==
  ASSUME NEW x, NEW s \in Names, x \in Text
  PROVE  /\ <<x>> \o s \in Names /\ Len(<<x>> \o s) = Len(s) + 1 /\ (<<x>> \o s)[1] = x
         /\ \A i \in 1 .. Len(s) : (<<x>> \o s)[i + 1] = s[i]
<1>1. <<x>> \in Seq(Text) /\ Len(<<x>>) = 1 /\ s \in Seq(Text) /\ Len(s) \in Nat /\ <<x>>[1] = x
  BY DEF Names
<1> PICK a \in Seq(Text) : a = <<x>>
  BY <1>1
<1>2. /\ a \o s \in Seq(Text) /\ Len(a \o s) = Len(a) + Len(s)
      /\ \A i \in 1 .. Len(a) + Len(s) : (a \o s)[i] = IF i <= Len(a) THEN a[i] ELSE s[i - Len(a)]
  BY <1>1, ConcatProperties
<1>3. Len(a) = 1 /\ a[1] = x
  BY <1>1
<1>4. (a \o s)[1] = x
  BY <1>1, <1>2, <1>3
<1>5. ASSUME NEW i \in 1 .. Len(s) PROVE (a \o s)[i + 1] = s[i]
  <2>1. i + 1 \in 1 .. 1 + Len(s) /\ ~ (i + 1 <= 1) /\ (i + 1) - 1 = i
    BY <1>1
  <2> QED
    BY <1>2, <1>3, <2>1
<1> QED
  BY <1>1, <1>2, <1>3, <1>4, <1>5 DEF Names

\* The beginning of a sequence of components, one by one.
LEMMA PrefixPointwise ==
  ASSUME NEW s \in Names, NEW t \in Names
  PROVE  IsPrefix(s, t) <=> Len(s) <= Len(t) /\ \A i \in 1 .. Len(s) : s[i] = t[i]
<1>0. Len(s) \in Nat /\ Len(t) \in Nat /\ s \in Seq(Text) /\ t \in Seq(Text)
  BY DEF Names
<1> SUFFICES ASSUME Len(s) <= Len(t)
             PROVE  SubSeq(s, 1, Len(s)) = SubSeq(t, 1, Len(s)) <=> \A i \in 1 .. Len(s) : s[i] = t[i]
  BY DEF IsPrefix
<1> DEFINE u == SubSeq(t, 1, Len(s))
<1>1. SubSeq(s, 1, Len(s)) = s
  BY <1>0, SubSeqFull
<1>2. u \in Seq(Text) /\ Len(u) = Len(s) /\ \A i \in 1 .. Len(s) : u[i] = t[i]
  BY <1>0
<1> HIDE DEF u
<1>3. ASSUME s = u PROVE \A i \in 1 .. Len(s) : s[i] = t[i]
  BY <1>2, <1>3
<1>4. ASSUME \A i \in 1 .. Len(s) : s[i] = t[i] PROVE s = u
  BY <1>0, <1>2, <1>4, SeqEqual
<1> QED
  BY <1>1, <1>3, <1>4 DEF u

\* Only the root has no components.
LEMMA NotRoot ==
  ASSUME NEW m, Absolute(m), Len(m) > 1
  PROVE  Components(m) # <<>>
<1>1. m \in Text /\ Len(m) \in 1 .. Len(m) /\ m[Len(m)] # "/"
  BY DEF Absolute, Clean, Text
<1> QED
  BY <1>1, CutType DEF Components

\* The same beginning, and the same behind it.
LEMMA MatchesBehind ==
  ASSUME NEW m \in Text, NEW p \in Text, NEW e \in Nat, e < Len(m), e < Len(p),
         \A i \in 1 .. e : p[i] = m[i],
         Matches(SubSeq(m, e + 1, Len(m)), SubSeq(p, e + 1, Len(p)))
  PROVE  Matches(m, p)
<1> DEFINE r == SubSeq(m, e + 1, Len(m))
           q == SubSeq(p, e + 1, Len(p))
<1>0. Len(m) \in Nat /\ Len(p) \in Nat
  BY DEF Text
<1>1. r \in Text /\ Len(r) = Len(m) - e /\ \A i \in 1 .. Len(m) - e : r[i] = m[e + i]
  BY <1>0, Part
<1>2. q \in Text /\ Len(q) = Len(p) - e /\ \A i \in 1 .. Len(p) - e : q[i] = p[e + i]
  BY <1>0, Part
<1>3. Matches(r, q)
  OBVIOUS
<1> HIDE DEF r, q
<1>4. /\ Len(r) <= Len(q) /\ \A i \in 1 .. Len(r) : q[i] = r[i]
      /\ Len(q) = Len(r) \/ q[Len(r) + 1] = "/"
  BY <1>1, <1>2, <1>3, MatchesPointwise
<1>5. Len(m) <= Len(p)
  BY <1>0, <1>1, <1>2, <1>4
<1>6. ASSUME NEW i \in 1 .. Len(m) PROVE p[i] = m[i]
  <2>1. CASE i <= e
    BY <2>1
  <2>2. CASE i > e
    <3>1. PICK k \in Nat : k = i - e
      BY <2>2
    <3>2. k \in 1 .. Len(r) /\ k \in 1 .. Len(m) - e /\ k \in 1 .. Len(p) - e /\ e + k = i
      BY <1>0, <1>1, <1>5, <2>2, <3>1
    <3>3. q[k] = r[k] /\ r[k] = m[e + k] /\ q[k] = p[e + k]
      BY <1>1, <1>2, <1>4, <3>2
    <3> QED
      BY <3>2, <3>3
  <2> QED
    BY <2>1, <2>2
<1>7. Len(p) = Len(m) \/ p[Len(m) + 1] = "/"
  <2>0. Len(r) \in Nat /\ Len(q) \in Nat /\ Len(m) = e + Len(r) /\ Len(p) = e + Len(q)
    BY <1>0, <1>1, <1>2
  <2>1. CASE Len(q) = Len(r)
    BY <2>0, <2>1
  <2>2. CASE Len(q) # Len(r)
    <3>1. PICK k \in Nat : k = Len(r) + 1
      BY <2>0
    <3>2. k \in 1 .. Len(p) - e /\ e + k = Len(m) + 1
      BY <1>4, <2>0, <2>2, <3>1
    <3>3. q[k] = "/" /\ q[k] = p[e + k]
      BY <1>2, <1>4, <2>2, <3>1, <3>2
    <3> QED
      BY <3>2, <3>3
  <2> QED
    BY <2>1, <2>2
<1> QED
  BY <1>5, <1>6, <1>7, MatchesPointwise

\* The components decide: no point covers a path by an accident of its characters.
LEMMA Covered ==
  ASSUME NEW m, NEW p, Absolute(m), Absolute(p), Len(m) > 1, IsPrefix(Components(m), Components(p))
  PROVE  Matches(m, p)
<1> DEFINE Holds(a, b) ==
             Absolute(a) /\ Absolute(b) /\ Len(a) > 1 /\ IsPrefix(Components(a), Components(b))
               => Matches(a, b)
           N == {n \in Nat : \A a, b : Len(a) <= n => Holds(a, b)}
<1>1. 0 \in N
  <2> SUFFICES ASSUME NEW a, NEW b, Len(a) <= 0, Len(a) > 1, Absolute(a) PROVE FALSE
    OBVIOUS
  <2>1. Len(a) \in Nat
    BY DEF Absolute, Text
  <2> QED
    BY <2>1
<1>2. ASSUME NEW n \in Nat, n \in N PROVE n + 1 \in N
  <2> SUFFICES ASSUME NEW a, NEW b, Len(a) <= n + 1, Absolute(a), Absolute(b), Len(a) > 1,
                      IsPrefix(Components(a), Components(b))
               PROVE  Matches(a, b)
    OBVIOUS
  <2>0. /\ a \in Text /\ b \in Text /\ Len(a) \in Nat /\ Len(b) \in Nat \ {0}
        /\ a[1] = "/" /\ b[1] = "/"
    BY DEF Absolute, Text
  <2> DEFINE C == Components(a)
             D == Components(b)
  <2>1. C \in Names /\ D \in Names /\ Len(C) \in Nat /\ Len(D) \in Nat
    <3>1. C \in Names /\ D \in Names
      BY <2>0, CutType
    <3> HIDE DEF C, D
    <3> QED
      BY <3>1 DEF Names
  <2>2. Len(C) <= Len(D) /\ \A i \in 1 .. Len(C) : C[i] = D[i]
    BY <2>1, PrefixPointwise
  <2>3. C # <<>>
    BY NotRoot
  <2>4. Len(C) > 0
    <3> HIDE DEF C, D
    <3> QED
      BY <2>1, <2>3 DEF Names
  <2>5. Len(b) > 1
    <3>0. Len(b) \in Nat /\ Len(b) # 0
      BY <2>0
    <3> PICK l \in Nat : l = Len(b) /\ l # 0
      BY <3>0
    <3> SUFFICES ASSUME l = 1 PROVE FALSE
      OBVIOUS
    <3>1. SubSeq(b, 2, Len(b)) = <<>>
      BY <2>0
    <3>2. b # <<>>
      BY DEF Absolute
    <3>3. D = <<>>
      BY <2>0, <3>1, <3>2, ComponentsOfTail, ComponentsOfRoot
    <3> HIDE DEF C, D
    <3> QED
      BY <2>2, <2>4, <3>3
  <2>6. PICK e \in 2 .. Len(a) : FirstEnds(a, e)
    BY FirstComponent
  <2>7. PICK h \in 2 .. Len(b) : FirstEnds(b, h)
    BY <2>5, FirstComponent
  <2> DEFINE x == SubSeq(a, 2, e)
             y == SubSeq(b, 2, h)
             r == SubSeq(a, e + 1, Len(a))
             q == SubSeq(b, h + 1, Len(b))
  <2>8. /\ x \in Text /\ Len(x) = e - 1 /\ \A i \in 1 .. e - 1 : x[i] = a[1 + i]
        /\ y \in Text /\ Len(y) = h - 1 /\ \A i \in 1 .. h - 1 : y[i] = b[1 + i]
    <3>1. 1 \in Nat /\ 1 + 1 = 2 /\ e \in Nat /\ h \in Nat /\ 1 <= e /\ 1 <= h /\ e <= Len(a) /\ h <= Len(b)
      BY <2>0
    <3>2. /\ SubSeq(a, 1 + 1, e) \in Text /\ Len(SubSeq(a, 1 + 1, e)) = e - 1
          /\ \A i \in 1 .. e - 1 : SubSeq(a, 1 + 1, e)[i] = a[1 + i]
      BY <2>0, <3>1, Part
    <3>3. /\ SubSeq(b, 1 + 1, h) \in Text /\ Len(SubSeq(b, 1 + 1, h)) = h - 1
          /\ \A i \in 1 .. h - 1 : SubSeq(b, 1 + 1, h)[i] = b[1 + i]
      BY <2>0, <3>1, Part
    <3> QED
      BY <3>1, <3>2, <3>3
  <2>9. /\ \/ e = Len(a) /\ C = <<x>>
           \/ e < Len(a) /\ a[e + 1] = "/" /\ Absolute(r) /\ e + 1 < Len(a) /\ C = <<x>> \o Components(r)
        /\ \/ h = Len(b) /\ D = <<y>>
           \/ h < Len(b) /\ b[h + 1] = "/" /\ Absolute(q) /\ h + 1 < Len(b) /\ D = <<y>> \o Components(q)
    BY <2>6, <2>7 DEF FirstEnds
  <2>10. ASSUME Absolute(r) PROVE Components(r) \in Names
    BY <2>10, CutType DEF Absolute
  <2>11. ASSUME Absolute(q) PROVE Components(q) \in Names
    BY <2>11, CutType DEF Absolute
  <2> HIDE DEF C, D, x, y, r, q, N
  <2>12. C[1] = x /\ D[1] = y
    <3>1. ASSUME NEW z PROVE <<z>>[1] = z
      OBVIOUS
    <3>2. C = <<x>> \/ (Absolute(r) /\ C = <<x>> \o Components(r))
      BY <2>9
    <3>3. D = <<y>> \/ (Absolute(q) /\ D = <<y>> \o Components(q))
      BY <2>9
    <3>4. ASSUME Absolute(r) PROVE (<<x>> \o Components(r))[1] = x
      BY <2>8, <2>10, <3>4, FirstOf
    <3>5. ASSUME Absolute(q) PROVE (<<y>> \o Components(q))[1] = y
      BY <2>8, <2>11, <3>5, FirstOf
    <3>6. C[1] = x
      BY <3>1, <3>2, <3>4, Zenon
    <3>7. D[1] = y
      BY <3>1, <3>3, <3>5, Zenon
    <3> QED
      BY <3>6, <3>7
  <2>13. x = y /\ e = h
    <3>1. 1 \in 1 .. Len(C)
      BY <2>1, <2>4
    <3>2. x = y
      BY <2>2, <2>12, <3>1
    <3> QED
      BY <2>8, <3>2
  <2>14. ASSUME NEW i \in 1 .. e PROVE b[i] = a[i]
    <3>1. CASE i = 1
      BY <2>0, <3>1
    <3>2. CASE i # 1
      <4>1. PICK k \in Nat : k = i - 1
        BY <3>2
      <4>2. k \in 1 .. e - 1 /\ k \in 1 .. h - 1 /\ 1 + k = i
        BY <2>13, <3>2, <4>1
      <4> QED
        BY <2>8, <2>13, <4>2
    <3> QED
      BY <3>1, <3>2
  <2>15. CASE e = Len(a)
    <3>1. Len(a) <= Len(b) /\ \A i \in 1 .. Len(a) : b[i] = a[i]
      BY <2>0, <2>13, <2>14, <2>15
    <3>2. Len(b) = Len(a) \/ b[Len(a) + 1] = "/"
      BY <2>9, <2>13, <2>15
    <3> QED
      BY <2>0, <3>1, <3>2, MatchesPointwise
  <2>16. CASE e # Len(a)
    <3>1. Absolute(r) /\ e + 1 < Len(a) /\ C = <<x>> \o Components(r) /\ e < Len(a)
      BY <2>9, <2>16
    <3>2. r \in Text /\ Len(r) = Len(a) - e
      BY <2>0, <3>1, Part DEF r
    <3>3. Len(r) > 1 /\ Len(r) <= n
      BY <2>0, <3>1, <3>2
    <3> DEFINE R == Components(r)
               Q == Components(q)
    <3>4. R \in Names /\ Len(R) \in Nat \ {0} /\ Len(C) = Len(R) + 1
          /\ \A i \in 1 .. Len(R) : C[i + 1] = R[i]
      <4>1. R # <<>>
        BY <3>1, <3>3, NotRoot
      <4>2. R \in Names
        BY <2>10, <3>1
      <4> HIDE DEF R
      <4>3. Len(R) \in Nat \ {0}
        BY <4>1, <4>2 DEF Names
      <4> QED
        BY <2>8, <3>1, <4>2, <4>3, FirstOf DEF R
    <3>5. Absolute(q) /\ h < Len(b) /\ D = <<y>> \o Q
      <4>1. D # <<y>>
        <5>1. Len(<<y>>) = 1
          OBVIOUS
        <5>2. Len(D) > 1
          <6> HIDE DEF R
          <6> QED
            BY <2>1, <2>2, <3>4
        <5>3. ASSUME D = <<y>> PROVE Len(D) = 1
          BY <5>1, <5>3, Zenon
        <5>4. Len(D) # 1
          <6>1. \A l \in Nat : l > 1 => l # 1
            OBVIOUS
          <6> QED
            BY <2>1, <5>2, <6>1, Zenon
        <5> QED
          BY <5>3, <5>4, Zenon
      <4> QED
        BY <2>9, <4>1
    <3>6. Q \in Names /\ Len(Q) \in Nat /\ Len(D) = Len(Q) + 1 /\ \A i \in 1 .. Len(Q) : D[i + 1] = Q[i]
      <4>1. Q \in Names
        BY <2>11, <3>5
      <4>2. Len(Q) \in Nat
        <5> HIDE DEF Q
        <5> QED
          BY <4>1 DEF Names
      <4> QED
        BY <2>8, <3>5, <4>1, <4>2, FirstOf
    <3>7. IsPrefix(R, Q)
      <4> HIDE DEF R, Q
      <4>1. Len(R) <= Len(Q)
        BY <2>1, <2>2, <3>4, <3>6
      <4>2. ASSUME NEW i \in 1 .. Len(R) PROVE R[i] = Q[i]
        <5>1. i \in 1 .. Len(Q) /\ i + 1 \in 1 .. Len(C)
          BY <3>4, <3>6, <4>1
        <5> QED
          BY <2>2, <3>4, <3>6, <5>1
      <4> QED
        BY <3>4, <3>6, <4>1, <4>2, PrefixPointwise
    <3>8. Matches(r, q)
      <4>1. Holds(r, q)
        BY <1>2, <3>3 DEF N
      <4> QED
        BY <3>1, <3>3, <3>5, <3>7, <4>1
    <3>9. e \in Nat /\ e < Len(b)
      BY <2>13, <3>5
    <3>10. Matches(SubSeq(a, e + 1, Len(a)), SubSeq(b, e + 1, Len(b)))
      BY <2>13, <3>8 DEF r, q
    <3> QED
      BY <2>0, <2>14, <3>1, <3>9, <3>10, MatchesBehind
  <2> QED
    BY <2>15, <2>16
<1>3. \A n \in Nat : n \in N
  <2> HIDE DEF N
  <2> QED
    BY <1>1, <1>2, Induction
<1>4. Len(m) \in Nat /\ Len(m) <= Len(m)
  BY DEF Absolute, Text
<1>5. Holds(m, p)
  BY <1>3, <1>4
<1> QED
  BY <1>5

\* What a point that covers a path leaves over.
LEMMA Remainder ==
  ASSUME NEW m \in Text, NEW p \in Text, Matches(m, p)
  PROVE  LET sub == SubSeq(p, Len(m) + 2, Len(p))
         IN  /\ IsPrefix(Components(m), Components(p))
             /\ Len(Components(m)) <= Len(Components(p))
             /\ Components(sub) = SubSeq(Components(p), Len(Components(m)) + 1, Len(Components(p)))
<1> DEFINE sub == SubSeq(p, Len(m) + 2, Len(p))
           A == Components(m)
           B == Components(sub)
           C == Components(p)
<1>0. Len(m) \in Nat /\ Len(p) \in Nat
  BY DEF Text
<1>1. /\ Len(m) <= Len(p) /\ SubSeq(p, 1, Len(m)) = m
      /\ Len(p) = Len(m) \/ p[Len(m) + 1] = "/"
  BY DEF Matches
<1>2. sub \in Text /\ C = A \o B
  <2>1. CASE Len(p) = Len(m)
    <3>1. sub = <<>>
      BY <1>0, <2>1, SubSeqEmpty
    <3>2. p = m
      <4>1. SubSeq(p, 1, Len(p)) = p
        BY SubSeqFull DEF Text
      <4> QED
        BY <1>1, <2>1, <4>1
    <3>3. A \in Names
      BY CutType
    <3>4. A \o <<>> = A
      <4> HIDE DEF A
      <4> QED
        BY <3>3, ConcatEmptySeq DEF Names
    <3>5. <<>> \in Text
      BY DEF Text
    <3> QED
      BY <3>1, <3>2, <3>4, <3>5, ComponentsOfRoot
  <2>2. CASE Len(p) # Len(m)
    <3>1. Len(m) < Len(p) /\ p[Len(m) + 1] = "/"
      BY <1>0, <1>1, <2>2
    <3>2. C = Components(SubSeq(p, 1, Len(m))) \o Components(SubSeq(p, Len(m) + 2, Len(p)))
      BY <1>0, <3>1, Split
    <3>3. sub \in Text
      <4>1. Len(m) + 1 \in Nat /\ Len(m) + 1 <= Len(p) /\ (Len(m) + 1) + 1 = Len(m) + 2
        BY <1>0, <3>1
      <4> PICK k \in Nat : k = Len(m) + 1
        BY <4>1
      <4>2. k <= Len(p) /\ Len(p) <= Len(p) /\ Len(p) \in Nat
        BY <1>0, <4>1
      <4>3. SubSeq(p, k + 1, Len(p)) \in Text
        BY <4>2, Part
      <4> QED
        BY <4>1, <4>3
    <3> QED
      BY <1>1, <3>2, <3>3
  <2> QED
    BY <2>1, <2>2
<1>3. A \in Names /\ B \in Names /\ C \in Names
  BY <1>2, CutType
<1> HIDE DEF A, B, C, sub
<1>4. /\ Len(A) \in Nat /\ Len(B) \in Nat /\ Len(C) = Len(A) + Len(B)
      /\ \A i \in 1 .. Len(A) + Len(B) : C[i] = IF i <= Len(A) THEN A[i] ELSE B[i - Len(A)]
  <2>1. A \in Seq(Text) /\ B \in Seq(Text)
    BY <1>3 DEF Names
  <2> QED
    BY <1>2, <2>1, ConcatProperties
<1>5. Len(A) <= Len(C) /\ IsPrefix(A, C)
  <2>1. Len(A) <= Len(C) /\ \A i \in 1 .. Len(A) : A[i] = C[i]
    BY <1>4
  <2> QED
    BY <1>3, <2>1, PrefixPointwise
<1>6. B = SubSeq(C, Len(A) + 1, Len(C))
  <2> DEFINE u == SubSeq(C, Len(A) + 1, Len(C))
  <2>1. \A i \in Len(A) + 1 .. Len(C) : C[i] \in Text
    BY <1>3, <1>4 DEF Names
  <2>2. Len(A) + 1 \in Int /\ Len(C) \in Int
    BY <1>4
  <2>3. /\ u \in Seq(Text)
        /\ Len(u) = IF Len(A) + 1 <= Len(C) THEN Len(C) - (Len(A) + 1) + 1 ELSE 0
        /\ \A i \in 1 .. Len(C) - (Len(A) + 1) + 1 : u[i] = C[(Len(A) + 1) + i - 1]
    BY <2>1, <2>2, SubSeqProperties
  <2> HIDE DEF u
  <2>4. Len(u) = Len(B)
    <3>1. \A a, b \in Nat : (IF a + 1 <= a + b THEN (a + b) - (a + 1) + 1 ELSE 0) = b
      OBVIOUS
    <3> QED
      BY <1>4, <2>3, <3>1
  <2>5. ASSUME NEW i \in 1 .. Len(B) PROVE B[i] = u[i]
    <3>1. i \in 1 .. Len(C) - (Len(A) + 1) + 1 /\ (Len(A) + 1) + i - 1 = Len(A) + i
      BY <1>4
    <3>2. u[i] = C[Len(A) + i]
      BY <2>3, <3>1
    <3>3. Len(A) + i \in 1 .. Len(A) + Len(B) /\ ~ (Len(A) + i <= Len(A)) /\ (Len(A) + i) - Len(A) = i
      BY <1>4
    <3>4. C[Len(A) + i] = B[(Len(A) + i) - Len(A)]
      BY <1>4, <3>3
    <3> QED
      BY <3>2, <3>3, <3>4
  <2>6. B = u
    BY <1>3, <2>3, <2>4, <2>5, SeqEqual DEF Names
  <2> QED
    BY <2>6 DEF u
<1> QED
  BY <1>5, <1>6 DEF A, B, C, sub

\* Of two points that cover a path, the longer one is the deeper one.
LEMMA LongerIsDeeper ==
  ASSUME NEW p \in Text, NEW m \in Text, NEW k \in Text, Matches(m, p), Matches(k, p), Len(m) <= Len(k)
  PROVE  Len(Components(m)) <= Len(Components(k))
<1>0. Len(m) \in Nat /\ Len(k) \in Nat /\ Len(p) \in Nat
  BY DEF Text
<1>1. /\ \A i \in 1 .. Len(m) : p[i] = m[i]
      /\ Len(p) = Len(m) \/ p[Len(m) + 1] = "/"
      /\ Len(k) <= Len(p) /\ \A i \in 1 .. Len(k) : p[i] = k[i]
  BY MatchesPointwise
<1>2. \A i \in 1 .. Len(m) : k[i] = m[i]
  BY <1>0, <1>1
<1>3. Len(k) = Len(m) \/ k[Len(m) + 1] = "/"
  <2> SUFFICES ASSUME Len(k) # Len(m) PROVE k[Len(m) + 1] = "/"
    OBVIOUS
  <2>1. Len(m) + 1 \in 1 .. Len(k) /\ Len(p) # Len(m)
    BY <1>0, <1>1
  <2> QED
    BY <1>1, <2>1
<1>4. Matches(m, k)
  BY <1>2, <1>3, MatchesPointwise
<1> QED
  BY <1>4, Remainder

\* If a point covers the path, there is a longest one.
LEMMA BestExists ==
  ASSUME NEW path \in Text, NEW i \in Slots, mounts[i].mounted, Matches(mounts[i].point, path),
         \A j \in Slots : mounts[j].mounted => mounts[j].point \in Text
  PROVE  Best(path) # {}
<1> DEFINE all == {j \in Slots : mounts[j].mounted /\ Matches(mounts[j].point, path)}
           left(j) == Len(path) - Len(mounts[j].point)
           S == {n \in Nat : \E j \in all : n = left(j)}
<1>0. Len(path) \in Nat
  BY DEF Text
<1>1. \A j \in all : Len(mounts[j].point) \in Nat /\ Len(mounts[j].point) <= Len(path)
  BY DEF Text, Matches
<1>2. \A j \in all : left(j) \in Nat
  BY <1>0, <1>1
<1>3. S # {} /\ S \in SUBSET Nat
  <2>1. i \in all
    OBVIOUS
  <2>2. left(i) \in S
    BY <1>2, <2>1
  <2> QED
    BY <2>2
<1>4. PICK n \in S : \A k \in S : n <= k
  BY <1>3, LeastExists
<1>5. PICK j \in all : n = left(j)
  OBVIOUS
<1>6. ASSUME NEW k \in all PROVE Len(mounts[k].point) <= Len(mounts[j].point)
  <2>1. left(k) \in S
    BY <1>2
  <2>2. left(j) <= left(k)
    BY <1>4, <1>5, <2>1
  <2> HIDE DEF all
  <2> QED
    BY <1>0, <1>1, <2>2
<1>7. j \in Best(path)
  BY <1>6 DEF Best
<1> QED
  BY <1>7

--------------------------------------------------------------------------------
(* Routing. *)

\* vfs_resolve does what the components say, in every state of the table and for every
\* path without doubled or trailing separators.
LEMMA Routed ==
  ASSUME VfsInv, \A q \in Points : Absolute(q), NEW path \in Text, Clean(path)
  PROVE  ResolvesByComponents(path)
<1> DEFINE r == vfs_resolve(path)
           c == Components(path)
           depth(i) == Len(Components(mounts[i].point))
           covers(i) == /\ mounts[i].mounted
                        /\ path # <<>> /\ path[1] = "/"
                        /\ IsPrefix(Components(mounts[i].point), c)
           Right == IF \E i \in Slots : covers(i)
                    THEN /\ r.slot # 0 /\ covers(r.slot)
                         /\ \A i \in Slots : covers(i) => depth(i) <= depth(r.slot)
                         /\ Components(r.sub) = SubSeq(c, depth(r.slot) + 1, Len(c))
                    ELSE /\ r.slot = RootSlot
                         /\ r.slot # 0 => Components(r.sub) = c
<1> SUFFICES Right
  BY DEF ResolvesByComponents
<1>0. /\ \A i \in Slots : mounts[i].mounted => mounts[i].point \in Text /\ Absolute(mounts[i].point)
      /\ Len(path) \in Nat /\ \A i \in Slots : i # 0
  <2>1. \A i \in Slots : mounts[i].mounted => Absolute(mounts[i].point)
    BY DEF VfsInv
  <2>2. \A i \in Slots : i # 0
    BY VfsAssumption DEF Slots
  <2> QED
    BY <2>1, <2>2 DEF Absolute, Text
<1>1. c \in Names /\ Len(c) \in Nat /\ SubSeq(c, 1, Len(c)) = c
  <2>1. c \in Names
    BY CutType
  <2> HIDE DEF c
  <2> QED
    BY <2>1, SubSeqFull DEF Names
<1>2. RootSlot # 0 => RootSlot \in Slots /\ mounts[RootSlot].mounted /\ mounts[RootSlot].point = Root
  <2> SUFFICES ASSUME RootSlot # 0
               PROVE  RootSlot \in Slots /\ mounts[RootSlot].mounted /\ mounts[RootSlot].point = Root
    OBVIOUS
  <2>1. At(Root) # {} /\ RootSlot = First(At(Root)) /\ At(Root) \in SUBSET Slots
    BY DEF RootSlot, At
  <2>2. First(At(Root)) \in At(Root)
    BY <2>1, FirstIn
  <2> QED
    BY <2>1, <2>2 DEF At
<1>3. \A i \in Slots : mounts[i].mounted /\ mounts[i].point = Root => RootSlot # 0 /\ depth(i) = 0
  <2> SUFFICES ASSUME NEW i \in Slots, mounts[i].mounted, mounts[i].point = Root
               PROVE  RootSlot # 0 /\ depth(i) = 0
    OBVIOUS
  <2>1. At(Root) # {} /\ At(Root) \in SUBSET Slots
    BY DEF At
  <2>2. First(At(Root)) \in Slots
    BY <2>1, FirstIn
  <2>3. RootSlot # 0
    BY <1>0, <2>1, <2>2 DEF RootSlot
  <2>4. Components(Root) = <<>>
    BY <1>0, ComponentsOfRoot
  <2> QED
    BY <2>3, <2>4
<1>4. ASSUME NEW i \in Slots, mounts[i].mounted, mounts[i].point # Root
      PROVE  Len(mounts[i].point) > 1
  <2>1. /\ mounts[i].point \in Text /\ Len(mounts[i].point) \in Nat \ {0}
        /\ mounts[i].point[1] = "/"
    BY <1>0, <1>4 DEF Absolute, Text
  <2> PICK q \in Text : q = mounts[i].point
    BY <2>1
  <2>2. ASSUME Len(q) = 1 PROVE FALSE
    <3>1. Len(Root) = 1 /\ Root[1] = "/" /\ Root \in Text
      <4>1. "/" \in Char
        BY DEF Char
      <4>2. ASSUME NEW y \in Char PROVE <<y>> \in Seq(Char)
        <5> HIDE DEF Char
        <5> QED
          OBVIOUS
      <4> QED
        BY <4>1, <4>2 DEF Root, Text
    <3>2. q = Root
      BY <2>1, <2>2, <3>1, OfOne
    <3> QED
      BY <1>4, <3>2
  <2>3. \A l \in Nat : l # 0 /\ l # 1 => l > 1
    OBVIOUS
  <2>4. Len(q) \in Nat /\ Len(q) # 0 /\ Len(q) # 1
    BY <2>1, <2>2
  <2> QED
    BY <2>3, <2>4
<1>5. CASE path = <<>>
  <2>1. r = [slot |-> RootSlot, sub |-> <<>>]
    BY <1>5 DEF vfs_resolve
  <2>2. ~ \E i \in Slots : covers(i)
    BY <1>5
  <2>3. r.slot = RootSlot /\ Components(r.sub) = c
    BY <1>5, <2>1
  <2> QED
    BY <2>2, <2>3
<1>6. CASE path # <<>> /\ path[1] # "/"
  <2>1. Best(path) = {}
    <3> SUFFICES ASSUME NEW i \in Slots, mounts[i].mounted, Matches(mounts[i].point, path) PROVE FALSE
      BY DEF Best
    <3>1. /\ mounts[i].point \in Text /\ mounts[i].point[1] = "/" /\ 1 \in 1 .. Len(mounts[i].point)
      BY <1>0 DEF Absolute, Text
    <3>2. path[1] = mounts[i].point[1]
      BY <3>1, MatchesPointwise
    <3> QED
      BY <1>6, <3>1, <3>2
  <2>2. r = [slot |-> RootSlot, sub |-> IF RootSlot # 0 THEN path ELSE <<>>]
    BY <1>6, <2>1 DEF vfs_resolve
  <2>3. ~ \E i \in Slots : covers(i)
    BY <1>6
  <2>4. r.slot = RootSlot /\ (RootSlot # 0 => r.sub = path)
    BY <2>2
  <2> HIDE DEF r
  <2> QED
    BY <2>3, <2>4
<1>7. CASE path # <<>> /\ path[1] = "/" /\ Best(path) # {}
  <2> DEFINE i == First(Best(path))
  <2>1. Best(path) \in SUBSET Slots
    BY DEF Best
  <2>2. i \in Best(path) /\ i \in Slots
    BY <1>7, <2>1, FirstIn
  <2>3. r = [slot |-> i, sub |-> SubSeq(path, Len(mounts[i].point) + 2, Len(path))]
    BY <1>7 DEF vfs_resolve
  <2> HIDE DEF i
  <2>4. /\ mounts[i].mounted /\ Matches(mounts[i].point, path)
        /\ \A j \in Slots : mounts[j].mounted /\ Matches(mounts[j].point, path)
                              => Len(mounts[j].point) <= Len(mounts[i].point)
    BY <2>2 DEF Best
  <2>5. mounts[i].point \in Text
    BY <1>0, <2>2, <2>4
  <2>6. r.slot = i /\ r.sub = SubSeq(path, Len(mounts[i].point) + 2, Len(path))
    BY <2>3
  <2> HIDE DEF r
  <2>7. IsPrefix(Components(mounts[i].point), c) /\ Components(r.sub) = SubSeq(c, depth(i) + 1, Len(c))
    BY <2>4, <2>5, <2>6, Remainder
  <2>8. covers(i)
    BY <1>7, <2>4, <2>7
  <2>9. ASSUME NEW j \in Slots, covers(j) PROVE depth(j) <= depth(i)
    <3>0. depth(i) \in Nat
      <4>1. Components(mounts[i].point) \in Names
        BY <2>5, CutType
      <4> QED
        BY <4>1 DEF Names
    <3>1. CASE mounts[j].point = Root
      BY <1>3, <2>9, <3>0, <3>1
    <3>2. CASE mounts[j].point # Root
      <4>1. Len(mounts[j].point) > 1 /\ Absolute(mounts[j].point) /\ mounts[j].point \in Text
        BY <1>0, <1>4, <2>9, <3>2
      <4>2. Absolute(path)
        BY <1>7 DEF Absolute
      <4>3. Matches(mounts[j].point, path)
        BY <2>9, <4>1, <4>2, Covered
      <4>4. Len(mounts[j].point) <= Len(mounts[i].point)
        BY <2>4, <2>9, <4>3
      <4> QED
        BY <2>4, <2>5, <4>1, <4>3, <4>4, LongerIsDeeper
    <3> QED
      BY <3>1, <3>2
  <2>10. \E j \in Slots : covers(j)
    BY <2>2, <2>8
  <2>11. r.slot # 0
    BY <1>0, <2>2, <2>6
  <2> HIDE DEF covers, depth
  <2> QED
    BY <2>6, <2>7, <2>8, <2>9, <2>10, <2>11
<1>8. CASE path # <<>> /\ path[1] = "/" /\ Best(path) = {}
  <2>1. \A i \in Slots : mounts[i].mounted => ~ Matches(mounts[i].point, path)
    BY <1>0, <1>8, BestExists
  <2>2. ASSUME NEW i \in Slots, covers(i) PROVE mounts[i].point = Root
    <3> SUFFICES ASSUME mounts[i].point # Root PROVE FALSE
      OBVIOUS
    <3>1. Len(mounts[i].point) > 1 /\ Absolute(mounts[i].point)
      BY <1>0, <1>4, <2>2
    <3>2. Absolute(path)
      BY <1>8 DEF Absolute
    <3>3. Matches(mounts[i].point, path)
      BY <2>2, <3>1, <3>2, Covered
    <3> QED
      BY <2>1, <2>2, <3>3
  <2>3. r = [slot |-> RootSlot, sub |-> IF RootSlot # 0 THEN Tail(path) ELSE <<>>]
    BY <1>8 DEF vfs_resolve
  <2>4. r.slot = RootSlot /\ (RootSlot # 0 => r.sub = Tail(path))
    BY <2>3
  <2> HIDE DEF r
  <2>5. Components(Tail(path)) = c
    <3>1. Tail(path) = SubSeq(path, 2, Len(path))
      BY <1>8, TailIsSubSeq DEF Text
    <3> QED
      BY <1>8, <3>1, ComponentsOfTail
  <2>6. CASE \E i \in Slots : covers(i)
    <3>1. PICK i \in Slots : covers(i)
      BY <2>6
    <3>2. mounts[i].point = Root /\ mounts[i].mounted
      BY <2>2, <3>1
    <3>3. RootSlot # 0
      BY <1>3, <3>2
    <3>4. RootSlot \in Slots /\ mounts[RootSlot].mounted /\ mounts[RootSlot].point = Root
      BY <1>2, <3>3
    <3>5. depth(RootSlot) = 0
      BY <1>3, <3>4
    <3>6. covers(RootSlot)
      BY <3>1, <3>2, <3>4
    <3>7. ASSUME NEW j \in Slots, covers(j) PROVE depth(j) <= depth(RootSlot)
      <4>1. depth(j) = 0
        BY <1>3, <2>2, <3>7
      <4> QED
        BY <3>5, <4>1
    <3>8. Components(r.sub) = SubSeq(c, depth(RootSlot) + 1, Len(c))
      <4>1. depth(RootSlot) + 1 = 1
        BY <3>5
      <4> HIDE DEF depth, c
      <4> QED
        BY <1>1, <2>4, <2>5, <3>3, <4>1
    <3> HIDE DEF covers, depth
    <3> QED
      BY <2>4, <2>6, <3>3, <3>6, <3>7, <3>8
  <2>7. CASE ~ \E i \in Slots : covers(i)
    <3> HIDE DEF covers, depth
    <3> QED
      BY <2>4, <2>5, <2>7
  <2> QED
    BY <2>6, <2>7
<1> HIDE DEF Right
<1> QED
  BY <1>5, <1>6, <1>7, <1>8

\* Every path reaches the volume it names: vfs_resolve compares characters, and yet
\* for every table that can come about and every path without doubled or trailing
\* separators it finds the deepest point whose components begin the path, and hands
\* over exactly the components that are left.
THEOREM EveryPathRouted ==
  ASSUME PointsFit, \A q \in Points : Absolute(q)
  PROVE  Spec => [](\A path \in Text : Clean(path) => ResolvesByComponents(path))
<1>1. Init => VfsInv
  BY VfsInitial
<1>2. VfsInv /\ [Next]_vars => VfsInv'
  BY VfsStep
<1>3. VfsInv => \A path \in Text : Clean(path) => ResolvesByComponents(path)
  BY Routed
<1> QED
  BY <1>1, <1>2, <1>3, PTL DEF Spec

\* The same for the paths that the model checker tries, with the soundness of the table.
THEOREM RoutesAlwaysRight ==
  ASSUME PointsFit, \A q \in Points : Absolute(q)
  PROVE  Spec => []RoutesRight
<1>1. Paths \subseteq Text
  <2> SUFFICES ASSUME NEW n \in 0 .. 6, NEW p \in [1 .. n -> {"/", "a", "b"}] PROVE p \in Text
    BY DEF Paths
  <2>1. {"/", "a", "b"} \subseteq Char
    BY DEF Char
  <2>2. p \in [1 .. n -> Char] /\ n \in Nat
    BY <2>1
  <2> QED
    BY <2>2 DEF Text
<1>2. \A p \in Paths : Clean(p)
  BY DEF Paths
<1>3. (\A path \in Text : Clean(path) => ResolvesByComponents(path))
        => \A path \in Paths : ResolvesByComponents(path)
  BY <1>1, <1>2
<1>4. Spec => [](\A path \in Text : Clean(path) => ResolvesByComponents(path))
  BY EveryPathRouted
<1>5. Spec => []TableSound
  BY TableAlwaysSound
<1>6. TableSound /\ (\A path \in Text : Clean(path) => ResolvesByComponents(path)) => RoutesRight
  BY <1>3 DEF RoutesRight
<1> QED
  BY <1>4, <1>5, <1>6, PTL
================================================================================
