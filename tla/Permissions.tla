------------------------------ MODULE Permissions ------------------------------
(* Credentials of tasks and permissions of files: the calls of syscall/syscall.c  *)
(* that check or change them, on the meta data that fs/fat.c keeps in unused      *)
(* fields of a directory entry.                                                   *)
(*                                                                                *)
(* The gate of int 0x80 is an interrupt gate and none of these calls sleeps, so   *)
(* each is one step.  Calls that fail change nothing and are left out, but for    *)
(* those that succeed while the write of the meta data fails (MetaFails): their   *)
(* result is not looked at.  A path is the sequence of its components; contents   *)
(* are a bit that every write changes.                                            *)
EXTENDS Integers, Sequences

CONSTANTS
  Callers,     \* tasks
  Users,       \* user numbers that callers pass, 32 bits wide; 0 is root
  Groups,      \* group numbers
  STORED,      \* numbers that an entry can hold: 2^16
  Files,       \* paths of the files that callers work with
  Dirs,        \* paths of the directories
  Modes,       \* modes that callers pass to chmod
  MetaFails    \* calls whose fat_set_file_meta may fail: "write", "mkdir", "change"

Bits == SUBSET {"r", "w"}        \* the x bit is stored and never checked
ModeType == [u : Bits, g : Bits, o : Bits]
Root == <<>>
Paths == Files \cup Dirs

ASSUME PermissionsAssumption ==
  /\ 0 \in Users /\ Users \subseteq Nat
  /\ 0 \in Groups /\ Groups \subseteq Nat
  /\ STORED \in Nat /\ STORED > 1
  /\ Modes \subseteq ModeType
  /\ Paths \subseteq Seq(STRING) /\ Root \notin Paths /\ Files \cap Dirs = {}

VARIABLES
  cred,     \* uid, gid, euid and egid in the PCB of a task
  node,     \* directory entries
  data,     \* contents
  owner,    \* history: the user who made a file or to whom root has given it
  last      \* history: the task of the last call, and the path it read

perm_vars == <<cred, node, data, owner, last>>

NoMeta == [magic |-> FALSE]
Meta(mode, uid, gid) == [magic |-> TRUE, mode |-> mode, uid |-> uid, gid |-> gid]
Absent == [kind |-> "absent"]
Entry(kind, meta) == [kind |-> kind, meta |-> meta]

rw == {"r", "w"}
Mode644 == [u |-> rw, g |-> {"r"}, o |-> {"r"}]    \* 0644 and, x apart, 0755

Exists(p) == node[p].kind # "absent"
Parent(p) == SubSeq(p, 1, Len(p) - 1)
KindOf(p) == IF p \in Files THEN "file" ELSE "dir"

\* fat_resolve_parent finds a directory.
ParentIsDir(p) == Parent(p) = Root \/ (Parent(p) \in Paths /\ node[Parent(p)].kind = "dir")

\* Meta data of an entry; an entry without the mark is root's.
fat_entry_unix_meta(e) == IF e.meta.magic THEN e.meta ELSE Meta(Mode644, 0, 0)

\* Tasks are made by the kernel and start as root (the PCB is zeroed).  The volume
\* holds whatever was put there without meta data.
PermInit ==
  /\ cred = [t \in Callers |-> [uid |-> 0, gid |-> 0, euid |-> 0, egid |-> 0]]
  /\ node \in [Paths -> {Absent, Entry("file", NoMeta), Entry("dir", NoMeta)}]
  /\ \A p \in Paths : Exists(p) => ParentIsDir(p) /\ node[p].kind = KindOf(p)
  /\ data = [p \in Paths |-> 0]
  /\ owner = [p \in Paths |-> 0]
  /\ last \in [task : Callers, read : {Root}]

--------------------------------------------------------------------------------
(* Checks. *)

sys_check_entry(t, e, mask) ==
  LET m == fat_entry_unix_meta(e)
  IN  \/ cred[t].euid = 0
      \/ mask \in (IF cred[t].euid = m.uid THEN m.mode.u
                   ELSE IF cred[t].egid = m.gid THEN m.mode.g
                   ELSE m.mode.o)

\* The root directory has no entry; one without meta data stands in for it.
sys_root_entry == Entry("dir", NoMeta)

\* Mutant of sys_check_parent_writable: it is enough that the directory can be read.
sys_check_parent_readable(t, p) ==
  \/ Parent(p) = Root /\ sys_check_entry(t, sys_root_entry, "r")
  \/ /\ Parent(p) \in Paths /\ Exists(Parent(p))
     /\ sys_check_entry(t, node[Parent(p)], "r")

sys_check_parent_writable(t, p) ==
  \/ Parent(p) = Root /\ sys_check_entry(t, sys_root_entry, "w")
  \/ /\ Parent(p) \in Paths /\ Exists(Parent(p))
     /\ sys_check_entry(t, node[Parent(p)], "w")

Stored(id) == id % STORED          \* (uint16_t)
KEEP == STORED - 1                 \* 0xFFFF

Called(t, p) == last' = [task |-> t, read |-> p]

--------------------------------------------------------------------------------
(* Credentials. *)

\* Mutant of sys_setuid: root changes its effective user only.
sys_setuidEffective(t, id) ==
  /\ cred' = [cred EXCEPT ![t].euid = id]
  /\ cred[t].euid = 0 \/ id = cred[t].uid
  /\ Called(t, Root)
  /\ UNCHANGED <<node, data, owner>>

sys_setuid(t, id) ==
  /\ cred' = [cred EXCEPT ![t] =
        IF @.euid = 0 THEN [@ EXCEPT !.uid = id, !.euid = id] ELSE [@ EXCEPT !.euid = id]]
  /\ cred[t].euid = 0 \/ id = cred[t].uid
  /\ Called(t, Root)
  /\ UNCHANGED <<node, data, owner>>

sys_setgid(t, id) ==
  /\ cred' = [cred EXCEPT ![t] =
        IF @.euid = 0 THEN [@ EXCEPT !.gid = id, !.egid = id] ELSE [@ EXCEPT !.egid = id]]
  /\ cred[t].euid = 0 \/ id = cred[t].gid
  /\ Called(t, Root)
  /\ UNCHANGED <<node, data, owner>>

--------------------------------------------------------------------------------
(* Files.  fat_set_file_meta follows the call that made the entry. *)

\* The entry after fat_set_file_meta in a call of that kind.
SetMeta(call, e, mode, uid, gid) ==
  {Entry(e.kind, Meta(mode, uid, gid))} \cup (IF call \in MetaFails THEN {e} ELSE {})

CreateEntry(t, call, p) ==
  /\ ~ Exists(p) /\ ParentIsDir(p)
  /\ sys_check_parent_writable(t, p)
  /\ \E e \in SetMeta(call, Entry(KindOf(p), NoMeta), Mode644,
                      Stored(cred[t].uid), Stored(cred[t].gid)) :
        node' = [node EXCEPT ![p] = e]
  /\ data' = [data EXCEPT ![p] = 1 - @]
  /\ owner' = [owner EXCEPT ![p] = cred[t].euid]
  /\ Called(t, Root)
  /\ UNCHANGED cred

\* Mutant of Overwrite: the new entry belongs to the writer.
OverwriteTakes(t, p) ==
  /\ node[p].kind = "file"
  /\ sys_check_entry(t, node[p], "w")
  /\ \E e \in SetMeta("write", Entry("file", NoMeta), Mode644,
                      Stored(cred[t].uid), Stored(cred[t].gid)) :
        node' = [node EXCEPT ![p] = e]
  /\ data' = [data EXCEPT ![p] = 1 - @]
  /\ Called(t, Root)
  /\ UNCHANGED <<cred, owner>>

\* fat_write_file makes the entry anew, without meta data; the old ones are put back.
Overwrite(t, p) ==
  /\ node[p].kind = "file"
  /\ sys_check_entry(t, node[p], "w")
  /\ LET m == fat_entry_unix_meta(node[p])
     IN  \E e \in SetMeta("write", Entry("file", NoMeta), m.mode, m.uid, m.gid) :
            node' = [node EXCEPT ![p] = e]
  /\ data' = [data EXCEPT ![p] = 1 - @]
  /\ Called(t, Root)
  /\ UNCHANGED <<cred, owner>>

sys_write_file(t, p) == CreateEntry(t, "write", p) \/ Overwrite(t, p)

sys_mkdir(t, p) == CreateEntry(t, "mkdir", p)

\* sys_read_file, sys_read_file_off; sys_list of a directory.
sys_read_file(t, p) ==
  /\ Exists(p)
  /\ sys_check_entry(t, node[p], "r")
  /\ Called(t, p)
  /\ UNCHANGED <<cred, node, data, owner>>

sys_delete_file(t, p) ==
  /\ Exists(p)
  /\ sys_check_parent_writable(t, p)
  /\ \A q \in Paths : Exists(q) => Parent(q) # p
  /\ node' = [node EXCEPT ![p] = Absent]
  /\ data' = [data EXCEPT ![p] = 0]
  /\ owner' = [owner EXCEPT ![p] = 0]
  /\ Called(t, Root)
  /\ UNCHANGED cred

\* Here a failure of fat_set_file_meta is the result of the call.
Change(t, p, mode, uid, gid) ==
  /\ \E e \in SetMeta("change", node[p], mode, uid, gid) : node' = [node EXCEPT ![p] = e]
  /\ Called(t, Root)
  /\ UNCHANGED <<cred, data>>

sys_chmod(t, p, mode) ==
  /\ Exists(p)
  /\ LET m == fat_entry_unix_meta(node[p])
     IN  /\ cred[t].euid \in {0, m.uid}
         /\ Change(t, p, mode, m.uid, m.gid)
  /\ UNCHANGED owner

sys_chown(t, p, uid, gid) ==
  /\ cred[t].euid = 0
  /\ Exists(p)
  /\ LET m == fat_entry_unix_meta(node[p])
     IN  Change(t, p, m.mode, IF uid = KEEP THEN m.uid ELSE Stored(uid),
                              IF gid = KEEP THEN m.gid ELSE Stored(gid))
  /\ owner' = IF uid = KEEP \/ node' = node THEN owner ELSE [owner EXCEPT ![p] = uid]

PermNext ==
  \E t \in Callers :
     \/ \E id \in Users : sys_setuid(t, id)
     \/ \E id \in Groups : sys_setgid(t, id)
     \/ \E p \in Files : sys_write_file(t, p)
     \/ \E p \in Dirs : sys_mkdir(t, p)
     \/ \E p \in Paths :
           \/ sys_read_file(t, p) \/ sys_delete_file(t, p)
           \/ \E mode \in Modes : sys_chmod(t, p, mode)
           \/ \E uid \in Users, gid \in Groups : sys_chown(t, p, uid, gid)

PermSpec == PermInit /\ [][PermNext]_perm_vars

--------------------------------------------------------------------------------
(* Properties. *)

MetaType == [magic : {FALSE}] \cup
            [magic : {TRUE}, mode : ModeType, uid : 0 .. STORED - 1, gid : 0 .. STORED - 1]
NodeType == {Absent} \cup [kind : {"file", "dir"}, meta : MetaType]

PermTypeOK ==
  /\ cred \in [Callers -> [uid : Users, gid : Groups, euid : Users, egid : Groups]]
  /\ node \in [Paths -> NodeType]
  /\ data \in [Paths -> {0, 1}] /\ owner \in [Paths -> Users]
  /\ last \in [task : Callers, read : Paths \cup {Root}]

\* Giving up root is final: whatever sequence of setuid and setgid follows, a task
\* whose effective user is not root never changes its identity again.
DropIsFinal ==
  [][\A t \in Callers : cred[t].euid # 0 => cred'[t] = cred[t]]_perm_vars

\* The owner that the disk names is the user who made the file, under the identity
\* that the permission checks use, or to whom root has given it: through overwriting
\* by others (the entry is made anew), chmod, deletion and making it again, and
\* although files are stamped with the real user, cut to 16 bits.
OwnerTrue ==
  \A p \in Paths : Exists(p) => fat_entry_unix_meta(node[p]).uid = owner[p]

\* A file that is private to its owner, in a directory that only the owner or root
\* can change, is neither read nor changed nor replaced by another user.
OnlyOwner(p) == LET m == fat_entry_unix_meta(node[p]).mode IN m.g = {} /\ m.o = {}
OnlyOwnerChanges(p) ==
  Parent(p) # Root =>
    LET m == fat_entry_unix_meta(node[Parent(p)])
    IN  "w" \notin m.mode.g \cup m.mode.o /\ m.uid \in {0, fat_entry_unix_meta(node[p]).uid}

PrivateKept ==
  [][\A p \in Paths :
        (/\ Exists(p) /\ OnlyOwner(p) /\ OnlyOwnerChanges(p)
         /\ cred[last'.task].euid \notin {0, fat_entry_unix_meta(node[p]).uid})
        => node'[p] = node[p] /\ data'[p] = data[p] /\ last'.read # p]_perm_vars

\* The real identity is always the effective one: only root can set them, and sets
\* both.  OwnerTrue and DropIsFinal rest on it.
RealIsEffective ==
  \A t \in Callers : cred[t].uid = cred[t].euid /\ cred[t].gid = cred[t].egid

\* User numbers fit the entry, and no entry is left without its meta data.
Fits == Users \subseteq 0 .. STORED - 1 /\ MetaFails \subseteq {"change"}

PermInv == PermTypeOK /\ RealIsEffective /\ OwnerTrue
================================================================================
