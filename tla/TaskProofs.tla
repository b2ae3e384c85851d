------------------------------ MODULE TaskProofs ------------------------------
(***************************************************************************)
(* Tasks: how they are scheduled and what they may do, for any number of   *)
(* them.                                                                   *)
(*                                                                         *)
(* The safety properties of Sched are parts or consequences of its         *)
(* inductive invariant IInv; one lemma per action, or per group of actions *)
(* that leave the same state alone, shows that it is preserved.            *)
(*                                                                         *)
(* Of the properties of Permissions, for any users, groups, modes and any  *)
(* tree of paths, PrivateKept needs no more than the checks of the call    *)
(* that is made; DropIsFinal and OwnerTrue need that the real identity of  *)
(* a task is always its effective one, which with the types makes up the   *)
(* inductive invariant PermInv.                                            *)
(***************************************************************************)
EXTENDS Sched, Permissions, SequenceTheorems, TLAPS

-----------------------------------------------------------------------------
(***************************************************************************)
(* Lists                                                                   *)
(***************************************************************************)

\* Taking the element at place i out of a sequence.
LEMMA RemoveSeq ==
  ASSUME NEW S, NEW s \in Seq(S), NEW i \in 1 .. Len(s)
  PROVE  LET r == SubSeq(s, 1, i - 1) \o SubSeq(s, i + 1, Len(s))
         IN  /\ r \in Seq(S)
             /\ Len(r) = Len(s) - 1
             /\ \A n \in 1 .. Len(r) : r[n] = IF n < i THEN s[n] ELSE s[n + 1]
<1> DEFINE a == SubSeq(s, 1, i - 1)
           b == SubSeq(s, i + 1, Len(s))
<1>1. a \in Seq(S) /\ Len(a) = i - 1 /\ \A n \in 1 .. i - 1 : a[n] = s[n]
  OBVIOUS
<1>2. b \in Seq(S) /\ Len(b) = Len(s) - i
      /\ \A n \in 1 .. Len(s) - i : b[n] = s[n + i]
  OBVIOUS
<1> HIDE DEF a, b
<1>3. a \o b \in Seq(S) /\ Len(a \o b) = Len(s) - 1
  <2>1. a \o b \in Seq(S) /\ Len(a \o b) = Len(a) + Len(b)
    BY <1>1, <1>2, ConcatProperties
  <2>2. Len(s) \in Nat
    OBVIOUS
  <2> QED
    BY <1>1, <1>2, <2>1, <2>2
<1>4. ASSUME NEW n \in 1 .. Len(s) - 1
      PROVE  (a \o b)[n] = IF n < i THEN s[n] ELSE s[n + 1]
  <2>1. CASE n < i
    BY <1>1, <1>2, <2>1
  <2>2. CASE ~(n < i)
    <3>1. (a \o b)[n] = b[n - (i - 1)]
      BY <1>1, <1>2, <2>2
    <3>2. n - (i - 1) \in 1 .. Len(s) - i /\ (n - (i - 1)) + i = n + 1
      BY <2>2
    <3> QED
      BY <1>2, <2>2, <3>1, <3>2
  <2> QED
    BY <2>1, <2>2
<1> QED
  BY <1>3, <1>4 DEF a, b

LEMMA UnlinkedFacts ==
  ASSUME task_list \in Seq(Tasks), NEW i \in 1 .. Len(task_list)
  PROVE  /\ Unlinked(i) \in Seq(Tasks) /\ Len(Unlinked(i)) = Len(task_list) - 1
         /\ \A k \in 1 .. Len(Unlinked(i)) :
              Unlinked(i)[k] = IF k < i THEN task_list[k] ELSE task_list[k + 1]
<1> DEFINE r == SubSeq(task_list, 1, i - 1) \o SubSeq(task_list, i + 1, Len(task_list))
<1>1. /\ r \in Seq(Tasks) /\ Len(r) = Len(task_list) - 1
      /\ \A n \in 1 .. Len(r) : r[n] = IF n < i THEN task_list[n] ELSE task_list[n + 1]
  BY RemoveSeq, Zenon
<1> QED
  BY <1>1, Zenon DEF Unlinked

USE TaskAssumption

\* What the list and the states say about a listed task.
LEMMA ListedFacts ==
  ASSUME IInv
  PROVE  /\ Listed \subseteq Tasks
         /\ Idle \in Listed /\ state[Idle] = "RUNNING"
         /\ \A t \in Tasks : state[t] = "READY" =>
              t \in Listed /\ t # current_task /\ t # Idle
         /\ at # "leave" => current_task \in Listed
         /\ at = "leave" => current_task \in zombie_list
         /\ Listed \cap (zombie_list \cup freed) = {}
<1>1. task_list \in Seq(Tasks)
  BY DEF IInv, TypeOK
<1>2. Listed \subseteq Tasks
  BY <1>1 DEF Listed
<1>3. Idle \in Listed
  <2>1. Len(task_list) \in DOMAIN task_list /\ task_list[Len(task_list)] = Idle
    BY <1>1 DEF IInv, ListsSound
  <2> QED
    BY <2>1 DEF Listed
<1>4. state[Idle] = "RUNNING"
  BY <1>3 DEF IInv, OneRunner
<1>5. ASSUME NEW t \in Tasks, state[t] = "READY"
      PROVE  t \in Listed /\ t # current_task /\ t # Idle
  <2>1. t \in Created
    BY <1>5 DEF Created
  <2>2. t \in Listed
    BY <1>5, <2>1 DEF IInv, ListsSound, ControlInv
  <2> QED
    BY <1>5, <2>2 DEF IInv, OneRunner
<1> QED
  BY <1>2, <1>3, <1>4, <1>5 DEF IInv, ListsSound

\* While some other listed task is READY the search of schedule succeeds: all
\* listed tasks but idle and the running one are READY, so one of the first
\* two places it looks at is, and MAX_TASKS never cuts it short.
LEMMA SearchSucceeds ==
  ASSUME IInv, at = "schedule", NEW i \in DOMAIN task_list,
         task_list[i] = current_task, NoneFound(i)
  PROVE  \A t \in Tasks : state[t] # "READY"
<1> DEFINE n == Len(task_list)
<1>1. /\ task_list \in Seq(Tasks) /\ DOMAIN task_list = 1 .. n /\ n \in Nat
      /\ current_task # Idle /\ MAX_TASKS \in Nat \ {0}
  BY DEF IInv, TypeOK, ControlInv
<1>2. \A p \in 1 .. n : p # i => task_list[p] # current_task
  BY <1>1 DEF IInv, ListsSound
<1>3. task_list[n] = Idle /\ n > 0 /\ i \in 1 .. n
      /\ \A p, q \in 1 .. n : task_list[p] = task_list[q] => p = q
  BY <1>1 DEF IInv, ListsSound
<1> HIDE DEF n
<1>4. \A p \in 1 .. n : p # n => task_list[p] # Idle
  BY <1>1, <1>3
<1>5. \A p \in 1 .. n : p # i /\ p # n <=> state[task_list[p]] = "READY"
  <2>1. \A p \in 1 .. n : task_list[p] \in Listed
    BY <1>1 DEF Listed
  <2>2. \A p \in 1 .. n : p # i /\ p # n => state[task_list[p]] = "READY"
    BY <1>2, <1>4, <2>1 DEF IInv, OneRunner
  <2>3. state[task_list[n]] # "READY"
    BY <1>3, ListedFacts
  <2>4. state[task_list[i]] # "READY"
    BY <1>1, ListedFacts DEF IInv, TypeOK
  <2> QED
    BY <2>2, <2>3, <2>4, <1>1
<1> SUFFICES ASSUME NEW t \in Tasks, state[t] = "READY" PROVE FALSE
  OBVIOUS
<1>6. PICK q \in 1 .. n : task_list[q] = t
  BY <1>1, ListedFacts DEF Listed
<1>7. q # i /\ q # n /\ i # n
  BY <1>1, <1>3, <1>5, <1>6
<1>8. \A p \in 1 .. n : Distance(i, p) \in Nat /\ Distance(i, p) >= 1
  BY <1>1, <1>3 DEF Distance, n
<1>9. CASE i + 1 # n
  <2>1. i + 1 \in 1 .. n /\ Distance(i, i + 1) = 1
    BY <1>1, <1>3, <1>7 DEF Distance
  <2>2. FoundAt(i, i + 1)
    BY <1>1, <1>5, <1>8, <1>9, <2>1 DEF FoundAt
  <2> QED
    BY <1>1, <2>1, <2>2 DEF NoneFound
<1>10. CASE i + 1 = n
  <2>1. i > 1 /\ 1 \in 1 .. n /\ 1 # i /\ 1 # n
    BY <1>1, <1>3, <1>6, <1>7, <1>10
  <2>2. Distance(i, 1) = 2
    BY <1>1, <1>3, <1>10, <2>1 DEF Distance, n
  <2>3. ASSUME NEW p \in 1 .. n, p # i, p # n PROVE Distance(i, p) >= 2
    <3>1. ~(p > i) /\ p - i + n >= 2
      BY <1>1, <1>3, <1>10, <2>3
    <3> QED
      BY <3>1 DEF Distance, n
  <2>4. FoundAt(i, 1)
    BY <1>1, <1>5, <1>8, <2>1, <2>2, <2>3 DEF FoundAt
  <2> QED
    BY <1>1, <2>1, <2>4 DEF NoneFound
<1> QED
  BY <1>9, <1>10

-----------------------------------------------------------------------------
(***************************************************************************)
(* The actions                                                             *)
(***************************************************************************)

LEMMA InitOK == Init => IInv
<1> SUFFICES ASSUME Init PROVE IInv
  OBVIOUS
<1>1. Listed = {Idle} /\ Created = {Idle}
  <2>1. task_list = <<Idle>> /\ Idle \in Tasks
    BY DEF Init, Tasks
  <2>2. DOMAIN task_list = {1} /\ task_list[1] = Idle
    BY <2>1
  <2>3. Listed = {Idle}
    BY <2>2 DEF Listed
  <2>4. \A t \in Tasks : state[t] # "none" <=> t = Idle
    BY DEF Init
  <2> QED
    BY <2>1, <2>3, <2>4 DEF Created
<1>2. TypeOK
  BY DEF Init, TypeOK, Tasks, Frames, ToKernel
<1>3. ListsSound
  BY <1>1 DEF Init, ListsSound
<1>4. OneRunner /\ AddressSpace /\ NoDirectoryLeaked /\ IdleOnlyWhenNothingReady
  BY <1>1 DEF Init, OneRunner, AddressSpace, NoDirectoryLeaked, IdleOnlyWhenNothingReady, Tasks
<1>5. ControlInv
  BY DEF Init, ControlInv, InterruptsOn
<1>6. FrameInv
  BY <1>1 DEF Init, FrameInv, FramesFit, ToKernel, Tasks
<1>7. LoneExitInv
  BY <1>1 DEF Init, LoneExitInv, StacksPrivate, Tasks
<1> QED
  BY <1>2, <1>3, <1>4, <1>5, <1>6, <1>7 DEF IInv

\* A step that leaves the lists, the states and the address spaces alone and
\* only moves the current task between ring 3, the kernel and schedule.
LEMMA QuietStep ==
  ASSUME IInv, TypeOK', current_task # Idle, at \notin {"boot", "switch", "leave"},
         UNCHANGED <<task_list, zombie_list, current_task, state, page_directory,
                     cr3, esp0, next, freed, destroyed>>,
         \A t \in Tasks \ {current_task} : esp'[t] = esp[t],
         at' \in {"user", "getchar", "kernel", "schedule"},
         at' \in {"user", "getchar"} => current_task \in UserTasks,
         at' = "kernel" => current_task \notin UserTasks,
         at' # "schedule" => state[current_task] # "TERMINATED",
         (current_task \in UserTasks /\ at' = "schedule") =>
            esp'[current_task].kind = "iret" /\ esp'[current_task].to # "kernel",
         LoneExits => /\ current_task \in UserTasks => esp0 = current_task
                      /\ at' # "user" => stack' = current_task
                      /\ (current_task \in UserTasks /\ at' = "schedule") =>
                           esp'[current_task].on = current_task
  PROVE  IInv'
<1>1. Listed' = Listed /\ Created' = Created
  BY DEF Listed, Created
<1>2. ListsSound'
  BY <1>1 DEF IInv, ListsSound
<1>3. current_task \in Listed /\ Listed \subseteq Tasks /\ Idle \in Listed
      /\ \A t \in Listed : state[t] = "READY" \/ t = Idle => t # current_task
  BY ListedFacts DEF IInv, TypeOK
<1>4. OneRunner'
  BY <1>1, <1>3 DEF IInv, OneRunner
<1>5. AddressSpace'
  BY <1>1 DEF IInv, AddressSpace
<1>6. NoDirectoryLeaked'
  BY DEF IInv, NoDirectoryLeaked
<1>7. IdleOnlyWhenNothingReady'
  BY DEF IdleOnlyWhenNothingReady
<1>8. ControlInv'
  BY <1>1 DEF IInv, ControlInv, InterruptsOn
<1>9. FrameInv'
  BY <1>1, <1>3 DEF IInv, FrameInv, FramesFit
<1>10. LoneExitInv'
  BY <1>1, <1>3 DEF IInv, LoneExitInv, StacksPrivate
<1> QED
  BY <1>2, <1>4, <1>5, <1>6, <1>7, <1>8, <1>9, <1>10 DEF IInv

\* What the entry code leaves behind.
LEMMA EntryFacts ==
  ASSUME IInv, InterruptsOn, Enter
  PROVE  /\ current_task \in UserTasks /\ current_task # Idle
         /\ state[current_task] = "RUNNING"
         /\ esp' \in [Tasks -> Frames] /\ stack' \in Tasks \cup {Boot}
         /\ \A t \in Tasks \ {current_task} : esp'[t] = esp[t]
         /\ esp'[current_task].kind = "iret" /\ esp'[current_task].to = at
         /\ LoneExits => /\ stack' = current_task /\ esp'[current_task].on = current_task
                         /\ esp0 = current_task
<1>1. current_task \in UserTasks /\ current_task # Idle /\ current_task \in Tasks
  BY DEF IInv, ControlInv, Tasks
<1>2. state[current_task] = "RUNNING"
  BY <1>1, ListedFacts DEF IInv, OneRunner, InterruptsOn
<1>3. EntryStack \in Tasks \cup {Boot}
  BY DEF IInv, TypeOK, EntryStack
<1>4. LoneExits => EntryStack = current_task /\ esp0 = current_task
  BY <1>1 DEF IInv, LoneExitInv, StacksPrivate, EntryStack, InterruptsOn
<1>5. esp' \in [Tasks -> Frames] /\ stack' \in Tasks \cup {Boot}
  BY <1>1, <1>3 DEF Enter, IInv, TypeOK, Frames, InterruptsOn
<1>6. /\ \A t \in Tasks \ {current_task} : esp'[t] = esp[t]
      /\ esp'[current_task] = [kind |-> "iret", on |-> EntryStack, to |-> at]
      /\ stack' = EntryStack
  BY <1>1 DEF Enter, IInv, TypeOK
<1> QED
  BY <1>1, <1>2, <1>4, <1>5, <1>6

LEMMA TickOK == ASSUME IInv, Tick PROVE IInv'
<1> USE DEF Tick
<1>1. InterruptsOn /\ Enter
  OBVIOUS
<1>2. ticks_used' \in [Tasks -> 0 .. TIME_SLICE_TICKS - 1]
  BY DEF IInv, TypeOK, SliceOver
<1>3. TypeOK'
  BY <1>1, <1>2, EntryFacts DEF IInv, TypeOK, lists, memory, InterruptsOn
<1>4. at \in {"user", "getchar"} /\ at' \in {at, "schedule"}
  BY <1>1 DEF InterruptsOn
<1> QED
  BY <1>1, <1>3, <1>4, EntryFacts, QuietStep DEF lists, memory

LEMMA OtherIrqOK == ASSUME IInv, OtherIrq PROVE IInv'
<1> USE DEF OtherIrq
<1>1. TypeOK'
  BY EntryFacts DEF IInv, TypeOK, lists, memory, InterruptsOn
<1> QED
  BY <1>1, EntryFacts, QuietStep DEF lists, memory, InterruptsOn

LEMMA SysCallOK == ASSUME IInv, SysYield \/ SysGetKey PROVE IInv'
<1> USE DEF SysYield, SysGetKey, Syscall
<1>1. InterruptsOn /\ Enter
  BY DEF InterruptsOn
<1>2. TypeOK'
  BY <1>1, EntryFacts DEF IInv, TypeOK, lists, memory
<1> QED
  BY <1>1, <1>2, EntryFacts, QuietStep DEF lists, memory

LEMMA KeyArrivesOK == ASSUME IInv, KeyArrives PROVE IInv'
<1> USE DEF KeyArrives
<1>1. TypeOK'
  BY DEF IInv, TypeOK, lists, memory
<1>2. current_task \in UserTasks /\ current_task # Idle /\ current_task \in Listed
  BY ListedFacts DEF IInv, ControlInv, InterruptsOn
<1>3. state[current_task] # "TERMINATED"
  BY <1>2 DEF IInv, OneRunner
<1>4. LoneExits => esp0 = current_task
  BY <1>2 DEF IInv, LoneExitInv
<1> QED
  BY <1>1, <1>2, <1>3, <1>4, QuietStep DEF lists, memory

LEMMA KernelYieldOK == ASSUME IInv, KernelYield PROVE IInv'
<1> USE DEF KernelYield, KernelCall
<1>1. TypeOK'
  BY DEF IInv, TypeOK, lists, memory
<1>2. current_task \notin UserTasks /\ (LoneExits => stack = current_task)
  BY DEF IInv, ControlInv, LoneExitInv, StacksPrivate
<1> QED
  BY <1>1, <1>2, QuietStep DEF lists, memory

LEMMA KeepRunningOK == ASSUME IInv, KeepRunning PROVE IInv'
<1> USE DEF KeepRunning
<1>1. current_task \in Tasks /\ current_task # Idle
  BY DEF IInv, TypeOK, ControlInv
<1>2. current_task \in UserTasks => at' \in {"user", "getchar"}
  <2>1. esp[current_task] \in Frames
    BY <1>1 DEF IInv, TypeOK
  <2> QED
    BY <2>1 DEF IInv, FrameInv, Frames
<1>3. current_task \notin UserTasks => at' = "kernel"
  OBVIOUS
<1>4. TypeOK'
  BY <1>2, <1>3 DEF IInv, TypeOK, lists, memory
<1>5. LoneExits => /\ current_task \in UserTasks => esp0 = current_task
                   /\ stack = current_task
  BY DEF IInv, LoneExitInv, StacksPrivate
<1> QED
  BY <1>1, <1>2, <1>3, <1>4, <1>5, QuietStep DEF lists, memory

\* The current task is marked TERMINATED and schedule is entered.
LEMMA ExitStep ==
  ASSUME IInv, TypeOK', current_task # Idle, at \in {"user", "kernel"},
         at' = "schedule", MayExit,
         state' = [state EXCEPT ![current_task] = "TERMINATED"],
         UNCHANGED <<task_list, zombie_list, current_task, page_directory,
                     cr3, esp0, next, freed, destroyed>>,
         \A t \in Tasks \ {current_task} : esp'[t] = esp[t],
         current_task \in UserTasks =>
            esp'[current_task].kind = "iret" /\ esp'[current_task].to # "kernel",
         LoneExits => /\ stack' = current_task
                      /\ current_task \in UserTasks =>
                           esp0 = current_task /\ esp'[current_task].on = current_task
  PROVE  IInv'
<1>0. /\ current_task \in Tasks
      /\ state'[current_task] = "TERMINATED"
      /\ \A t \in Tasks \ {current_task} : state'[t] = state[t]
  BY DEF IInv, TypeOK
<1>1. current_task \in Listed /\ Listed \subseteq Tasks /\ Idle \in Listed
      /\ state[Idle] = "RUNNING"
      /\ \A t \in Listed : state[t] = "READY" \/ t = Idle => t # current_task
      /\ current_task \notin zombie_list \cup freed
  BY ListedFacts DEF IInv, TypeOK
<1>2. Listed' = Listed
  BY DEF Listed
<1>3. Created' = Created
  <2>1. state[current_task] # "none"
    BY <1>1, <1>0 DEF IInv, OneRunner
  <2> QED
    BY <1>0, <2>1 DEF Created
<1>4. ListsSound'
  BY <1>2, <1>3 DEF IInv, ListsSound
<1>5. OneRunner'
  BY <1>0, <1>1, <1>2 DEF IInv, OneRunner
<1>6. AddressSpace'
  BY <1>3 DEF IInv, AddressSpace
<1>7. NoDirectoryLeaked'
  BY DEF IInv, NoDirectoryLeaked
<1>8. IdleOnlyWhenNothingReady'
  BY DEF IdleOnlyWhenNothingReady
<1>9. ControlInv'
  <2>1. zombie_list \cup freed \subseteq Tasks
    BY DEF IInv, TypeOK
  <2> QED
    BY <1>0, <1>1, <2>1 DEF IInv, ControlInv, InterruptsOn
<1>10. FrameInv'
  BY <1>0, <1>1, <1>2 DEF IInv, FrameInv, FramesFit
<1>11. LoneExitInv'
  BY <1>0, <1>1, <1>2 DEF IInv, LoneExitInv, StacksPrivate, MayExit
<1> QED
  BY <1>4, <1>5, <1>6, <1>7, <1>8, <1>9, <1>10, <1>11 DEF IInv

LEMMA SysExitOK == ASSUME IInv, SysExit PROVE IInv'
<1> USE DEF SysExit, Syscall
<1>1. InterruptsOn /\ Enter
  BY DEF InterruptsOn
<1>2. TypeOK'
  BY <1>1, EntryFacts DEF IInv, TypeOK, lists, memory
<1> QED
  BY <1>1, <1>2, EntryFacts, ExitStep DEF lists, memory

LEMMA KernelExitOK == ASSUME IInv, KernelExit PROVE IInv'
<1> USE DEF KernelExit, KernelCall
<1>1. TypeOK'
  BY DEF IInv, TypeOK, lists, memory
<1>2. current_task \notin UserTasks /\ (LoneExits => stack = current_task)
  BY DEF IInv, ControlInv, LoneExitInv, StacksPrivate
<1> QED
  BY <1>1, <1>2, ExitStep DEF lists, memory

\* A new task is linked in front of the list, with its own directory if it
\* is a user task and the kernel's otherwise: the creator is never a user
\* task, so CR3 is the kernel's directory.
LEMMA CreateOK == ASSUME IInv, task_create \/ task_create_user PROVE IInv'
<1>1. PICK t \in Tasks, dir \in Tasks, frame \in Frames :
        /\ Create(t, dir, frame)
        /\ t # Idle
        /\ t \in UserTasks => dir = t /\ frame = ToRing3(t)
        /\ t \notin UserTasks => dir = Idle /\ frame = ToKernel(t)
  <2>1. cr3 = Idle \/ ~(at = "boot" \/ (at = "kernel" /\ current_task # Idle))
    <3>1. at # "leave" => current_task \in Created
      BY ListedFacts DEF IInv, ListsSound
    <3> QED
      BY <3>1 DEF IInv, AddressSpace, ControlInv
  <2>2. CASE task_create
    <3>1. PICK t \in KernelTasks : Create(t, cr3, ToKernel(t))
      BY <2>2 DEF task_create
    <3>2. t \in Tasks /\ Idle \in Tasks /\ t # Idle /\ t \notin UserTasks /\ ToKernel(t) \in Frames
      BY DEF Tasks, Frames, ToKernel
    <3>3. cr3 = Idle
      BY <2>1, <3>1 DEF Create
    <3> QED
      BY <3>1, <3>2, <3>3
  <2>3. CASE task_create_user
    <3>1. PICK t \in UserTasks : Create(t, t, ToRing3(t))
      BY <2>3 DEF task_create_user
    <3>2. t \in Tasks /\ t # Idle /\ ToRing3(t) \in Frames
      BY DEF Tasks, Frames, ToRing3
    <3> QED
      BY <3>1, <3>2
  <2> QED
    BY <2>2, <2>3
<1> USE DEF Create
<1>2. /\ state[t] = "none" /\ state'[t] = "READY"
      /\ page_directory'[t] = dir /\ esp'[t] = frame
      /\ \A u \in Tasks \ {t} : /\ state'[u] = state[u]
                                /\ page_directory'[u] = page_directory[u]
                                /\ esp'[u] = esp[u]
  BY <1>1 DEF IInv, TypeOK
<1>3. TypeOK'
  BY <1>1 DEF IInv, TypeOK, memory
<1>4. t \notin Listed \cup zombie_list \cup freed /\ Listed \subseteq Tasks
  BY <1>2, ListedFacts DEF IInv, ListsSound, Created
<1>5. current_task \in Listed /\ current_task # t /\ current_task \in Tasks
      /\ state[current_task] = "RUNNING" /\ Idle \in Listed
  BY <1>1, <1>4, ListedFacts DEF IInv, OneRunner, TypeOK
<1>6. /\ task_list \in Seq(Tasks) /\ Len(task_list) \in Nat
      /\ DOMAIN task_list = 1 .. Len(task_list)
      /\ Len(task_list') = Len(task_list) + 1
      /\ DOMAIN task_list' = 1 .. Len(task_list) + 1
      /\ task_list'[1] = t
      /\ \A n \in 1 .. Len(task_list) : task_list'[n + 1] = task_list[n]
  BY <1>1 DEF IInv, TypeOK
<1>7. \A n \in 1 .. Len(task_list) + 1 :
        n # 1 => n - 1 \in 1 .. Len(task_list) /\ task_list'[n] = task_list[n - 1]
  BY <1>6
<1>8. Listed' = Listed \cup {t}
  <2>1. \A u \in Listed' : u \in Listed \cup {t}
    <3> TAKE u \in Listed'
    <3>1. PICK n \in 1 .. Len(task_list) + 1 : u = task_list'[n]
      BY <1>6 DEF Listed
    <3>2. CASE n = 1
      BY <1>6, <3>1, <3>2
    <3>3. CASE n # 1
      BY <1>6, <1>7, <3>1, <3>3 DEF Listed
    <3> QED
      BY <3>2, <3>3
  <2>2. \A u \in Listed : u \in Listed'
    <3> TAKE u \in Listed
    <3>1. PICK n \in 1 .. Len(task_list) : u = task_list[n]
      BY <1>6 DEF Listed
    <3>2. n + 1 \in DOMAIN task_list' /\ task_list'[n + 1] = u
      BY <1>6, <3>1
    <3> QED
      BY <3>2 DEF Listed
  <2>3. t \in Listed'
    BY <1>6 DEF Listed
  <2> QED
    BY <2>1, <2>2, <2>3
<1>9. Created' = Created \cup {t}
  BY <1>1, <1>2 DEF Created
<1>10. ListsSound'
  <2>1. \A n \in 1 .. Len(task_list) : task_list[n] # t
    BY <1>4, <1>6 DEF Listed
  <2>2. \A n, k \in DOMAIN task_list' : task_list'[n] = task_list'[k] => n = k
    <3> SUFFICES ASSUME NEW n \in 1 .. Len(task_list) + 1, NEW k \in 1 .. Len(task_list) + 1,
                        task_list'[n] = task_list'[k]
                 PROVE  n = k
      BY <1>6
    <3>1. n = 1 <=> k = 1
      BY <1>6, <1>7, <2>1
    <3>2. CASE n # 1 /\ k # 1
      <4>1. n - 1 = k - 1
        BY <1>6, <1>7, <3>2 DEF IInv, ListsSound
      <4> QED
        BY <4>1
    <3> QED
      BY <3>1, <3>2
  <2>3. Len(task_list') > 0 /\ task_list'[Len(task_list')] = Idle
    <3>1. Len(task_list) > 0 /\ task_list[Len(task_list)] = Idle
      BY DEF IInv, ListsSound
    <3> QED
      BY <1>6, <3>1
  <2>4. /\ zombie_list' = zombie_list /\ freed' = freed
        /\ current_task' = current_task /\ at' = at /\ at # "leave"
    BY <1>1 DEF memory
  <2> QED
    BY <1>4, <1>5, <1>8, <1>9, <2>2, <2>3, <2>4 DEF IInv, ListsSound
<1>11. UNCHANGED <<zombie_list, current_task, esp0, cr3, at, stack, next, freed, destroyed>>
       /\ at \in {"boot", "kernel"}
  BY <1>1 DEF memory
<1>12. OneRunner'
  BY <1>1, <1>2, <1>4, <1>5, <1>8, <1>11 DEF IInv, OneRunner
<1>13. AddressSpace'
  BY <1>1, <1>2, <1>5, <1>9, <1>11 DEF IInv, AddressSpace, Created
<1>14. NoDirectoryLeaked'
  <2>1. freed \subseteq Tasks
    BY DEF IInv, TypeOK
  <2> QED
    BY <1>2, <1>4, <1>11, <2>1 DEF IInv, NoDirectoryLeaked
<1>15. IdleOnlyWhenNothingReady'
  BY <1>1, <1>11 DEF IdleOnlyWhenNothingReady
<1>16. ControlInv'
  <2>1. zombie_list \cup freed \subseteq Tasks
    BY DEF IInv, TypeOK
  <2> QED
    BY <1>2, <1>4, <1>11, <2>1 DEF IInv, ControlInv, InterruptsOn
<1>17. FrameInv'
  BY <1>1, <1>2, <1>4, <1>5, <1>8, <1>11 DEF IInv, FrameInv, FramesFit, ToKernel, ToRing3
<1>18. LoneExitInv'
  BY <1>1, <1>2, <1>4, <1>5, <1>8, <1>11
  DEF IInv, LoneExitInv, StacksPrivate, ToKernel, ToRing3
<1> QED
  BY <1>3, <1>10, <1>12, <1>13, <1>14, <1>15, <1>16, <1>17, <1>18 DEF IInv

LEMMA LaunchOK == ASSUME IInv, Launch PROVE IInv'
<1> USE DEF Launch
<1>1. PICK t \in UserTasks :
        /\ state[t] = "READY"
        /\ state' = [state EXCEPT ![t] = "RUNNING"]
        /\ current_task' = t /\ next' = t
        /\ esp0' = t
        /\ cr3' = page_directory[t]
  OBVIOUS
<1>2. /\ t \in Tasks /\ t # Idle /\ t \in Listed /\ Listed \subseteq Tasks
      /\ current_task = Idle /\ zombie_list = {} /\ freed = {}
  BY <1>1, ListedFacts DEF Tasks, IInv, ControlInv
<1>3. /\ state'[t] = "RUNNING"
      /\ \A u \in Tasks \ {t} : state'[u] = state[u]
  BY <1>1, <1>2 DEF IInv, TypeOK
<1>4. UNCHANGED <<task_list, zombie_list, ticks_used, page_directory, esp, stack,
                  freed, destroyed>> /\ at = "boot" /\ at' = "user"
  BY DEF lists, memory
<1>5. Listed' = Listed /\ Created' = Created
  BY <1>1, <1>2, <1>3, <1>4 DEF Listed, Created
<1>6. TypeOK'
  BY <1>1, <1>2, <1>4 DEF IInv, TypeOK
<1>7. ListsSound'
  BY <1>1, <1>2, <1>4, <1>5 DEF IInv, ListsSound
<1>8. OneRunner'
  BY <1>1, <1>2, <1>3, <1>4, <1>5 DEF IInv, OneRunner
<1>9. AddressSpace' /\ NoDirectoryLeaked' /\ IdleOnlyWhenNothingReady'
  BY <1>1, <1>2, <1>4, <1>5 DEF IInv, AddressSpace, NoDirectoryLeaked, IdleOnlyWhenNothingReady
<1>10. ControlInv'
  BY <1>1, <1>2, <1>4 DEF IInv, ControlInv, InterruptsOn
<1>11. FrameInv'
  BY <1>1, <1>2, <1>3, <1>4, <1>5 DEF IInv, FrameInv, FramesFit
<1>12. LoneExitInv'
  BY <1>1, <1>2, <1>3, <1>4, <1>5 DEF IInv, LoneExitInv, StacksPrivate
<1> QED
  BY <1>6, <1>7, <1>8, <1>9, <1>10, <1>11, <1>12 DEF IInv

\* reap_zombies frees what is dead, and of directories only those of dead
\* user tasks: the kernel's is the one in use unless a user task is current.
LEMMA ReapOK == ASSUME IInv, Reap PROVE IInv'
<1> USE DEF Reap, free_task
<1>1. PICK p \in DOMAIN task_list : next' = task_list[p] /\ state[task_list[p]] = "READY"
  BY DEF FoundAt
<1>2. UNCHANGED <<task_list, current_task, state, page_directory, esp, esp0, cr3, stack>>
      /\ at = "schedule" /\ at' = "switch" /\ zombie_list' = {}
      /\ freed' = freed \cup zombie_list
      /\ destroyed' = destroyed \cup DirectoriesOf(zombie_list)
  OBVIOUS
<1>3. Listed' = Listed /\ Created' = Created
  BY <1>2 DEF Listed, Created
<1>4. next' \in Listed /\ Listed \subseteq Tasks
  BY <1>1, ListedFacts DEF Listed
<1>5. current_task \in Listed /\ current_task \in Tasks /\ Idle \in Listed
      /\ current_task \in Created /\ Listed \cap zombie_list = {}
      /\ zombie_list \subseteq Created
  BY <1>2, ListedFacts DEF IInv, TypeOK, ListsSound
<1>6. \A d : d \in DirectoriesOf(zombie_list) <=>
               d # cr3 /\ \E z \in zombie_list : d = page_directory[z]
  BY DEF DirectoriesOf
<1>7. \A z \in zombie_list :
        page_directory[z] = IF z \in UserTasks THEN z ELSE Idle
  BY <1>5 DEF IInv, AddressSpace
<1>8. TypeOK'
  <2>1. DirectoriesOf(zombie_list) \subseteq Tasks
    BY <1>6 DEF IInv, TypeOK
  <2> QED
    BY <1>2, <1>4, <2>1 DEF IInv, TypeOK
<1>9. ListsSound'
  BY <1>2, <1>3 DEF IInv, ListsSound
<1>10. OneRunner'
  BY <1>2, <1>3 DEF IInv, OneRunner, Reap
<1>11. AddressSpace' /\ IdleOnlyWhenNothingReady'
  BY <1>2, <1>3 DEF IInv, AddressSpace, IdleOnlyWhenNothingReady
<1>12. NoDirectoryLeaked'
  <2>1. cr3 = IF current_task \in UserTasks THEN current_task ELSE Idle
    BY <1>5 DEF IInv, AddressSpace
  <2>2. \A z \in zombie_list : z # cr3
    BY <1>5, <2>1
  <2> QED
    BY <1>2, <1>6, <1>7, <2>2 DEF IInv, NoDirectoryLeaked
<1>13. ControlInv'
  BY <1>1, <1>2, <1>3, <1>4 DEF IInv, ControlInv, InterruptsOn
<1>14. FrameInv'
  BY <1>2, <1>3 DEF IInv, FrameInv, FramesFit
<1>15. LoneExitInv'
  <2> SUFFICES ASSUME LoneExits PROVE LoneExitInv'
    BY DEF LoneExitInv
  <2>1. DirectoriesOf(zombie_list) \subseteq zombie_list \cap UserTasks
    <3>1. CASE current_task \in UserTasks
      <4>1. zombie_list \subseteq UserTasks
        BY <1>5, <3>1 DEF IInv, LoneExitInv, Tasks, TypeOK
      <4> QED
        BY <1>6, <1>7, <4>1
    <3>2. CASE current_task \notin UserTasks
      <4>1. cr3 = Idle
        BY <1>5, <3>2 DEF IInv, AddressSpace
      <4> QED
        BY <1>6, <1>7, <4>1
    <3> QED
      BY <3>1, <3>2
  <2> QED
    BY <1>2, <1>3, <2>1 DEF IInv, LoneExitInv, StacksPrivate
<1> QED
  BY <1>8, <1>9, <1>10, <1>11, <1>12, <1>13, <1>14, <1>15 DEF IInv

\* The task that is left becomes READY, with a frame that fits it.
LEMMA SwitchOK == ASSUME IInv, Switch PROVE IInv'
<1> USE DEF Switch
<1>1. UNCHANGED <<task_list, zombie_list, ticks_used, page_directory, next, freed, destroyed>>
      /\ at = "switch" /\ current_task' = next /\ cr3' = page_directory[next]
      /\ at' = esp'[next].to /\ stack' = esp'[next].on
  BY DEF lists, memory, Resume
<1>2. /\ next \in Listed /\ state[next] = "READY" /\ next # current_task
      /\ current_task \in Listed /\ current_task # Idle /\ next # Idle
      /\ Listed \subseteq Tasks /\ zombie_list = {} /\ state[current_task] = "RUNNING"
      /\ next \in Tasks /\ current_task \in Tasks
  BY <1>1, ListedFacts DEF IInv, ControlInv, TypeOK, OneRunner
<1>3. /\ esp0' = next
      /\ state'[current_task] = "READY" /\ state'[next] = "RUNNING"
      /\ \A t \in Tasks \ {current_task, next} : state'[t] = state[t]
      /\ state' \in [Tasks -> {"none", "READY", "RUNNING", "TERMINATED"}]
  BY <1>2 DEF SwitchedEsp0, SwitchedStates, IInv, TypeOK
<1>4. /\ \A t \in Tasks \ {current_task} : esp'[t] = esp[t]
      /\ current_task \in UserTasks => esp'[current_task] = esp[current_task]
      /\ current_task \notin UserTasks => esp'[current_task] = ToKernel(stack)
  BY <1>2 DEF SavedFrames, IInv, TypeOK
<1>5. esp' \in [Tasks -> Frames]
  BY <1>2 DEF SavedFrames, IInv, TypeOK, Frames, ToKernel
<1>6. /\ at' = esp[next].to /\ stack' = esp[next].on /\ esp[next] \in Frames
      /\ IF next \in UserTasks THEN at' # "kernel" ELSE at' = "kernel"
  BY <1>1, <1>2, <1>4 DEF IInv, FrameInv, FramesFit, TypeOK
<1>7. at' \in {"user", "getchar", "kernel"} /\ stack' \in Tasks \cup {Boot}
  BY <1>6 DEF Frames
<1>8. Listed' = Listed /\ Created' = Created
  BY <1>1, <1>2, <1>3 DEF Listed, Created
<1>9. TypeOK'
  BY <1>1, <1>2, <1>3, <1>5, <1>7 DEF IInv, TypeOK
<1>10. ListsSound'
  BY <1>1, <1>2, <1>7, <1>8 DEF IInv, ListsSound
<1>11. OneRunner'
  BY <1>1, <1>2, <1>3, <1>8 DEF IInv, OneRunner
<1>12. AddressSpace' /\ NoDirectoryLeaked' /\ IdleOnlyWhenNothingReady'
  BY <1>1, <1>2, <1>8 DEF IInv, AddressSpace, NoDirectoryLeaked, IdleOnlyWhenNothingReady
<1>13. ControlInv'
  <2>1. freed \subseteq Tasks /\ Listed \cap freed = {}
    BY ListedFacts DEF IInv, TypeOK
  <2> QED
    BY <1>1, <1>2, <1>3, <1>6, <1>7, <2>1 DEF IInv, ControlInv, InterruptsOn
<1>14. FrameInv'
  <2>1. current_task \in UserTasks =>
          esp'[current_task].kind = "iret" /\ esp'[current_task].to # "kernel"
    BY <1>1, <1>4 DEF IInv, FrameInv
  <2>2. current_task \notin UserTasks =>
          esp'[current_task].kind = "popa" /\ esp'[current_task].to = "kernel"
    BY <1>4 DEF ToKernel
  <2>3. FramesFit'
    BY <1>1, <1>2, <1>3, <1>4, <1>8, <2>1, <2>2 DEF IInv, FrameInv, FramesFit
  <2>4. \A t \in Listed \ UserTasks :
          state'[t] = "READY" \/ t = Idle => esp'[t].to = "kernel"
    BY <1>2, <1>3, <1>4, <2>2 DEF IInv, FrameInv
  <2>5. esp'[Idle].on = Idle
    BY <1>2, <1>4 DEF IInv, FrameInv, Tasks
  <2> QED
    BY <1>1, <1>7, <1>8, <2>3, <2>4, <2>5 DEF FrameInv
<1>15. LoneExitInv'
  <2> SUFFICES ASSUME LoneExits PROVE LoneExitInv'
    BY DEF LoneExitInv
  <2>1. esp'[current_task].on = current_task
    BY <1>1, <1>4 DEF IInv, LoneExitInv, StacksPrivate, ToKernel
  <2>2. \A t \in Listed : state'[t] = "READY" => esp'[t].on = t
    BY <1>2, <1>3, <1>4, <2>1 DEF IInv, LoneExitInv, StacksPrivate
  <2>3. stack' = next
    BY <1>2, <1>6 DEF IInv, LoneExitInv, StacksPrivate
  <2> QED
    BY <1>1, <1>2, <1>3, <1>7, <1>8, <2>2, <2>3 DEF IInv, LoneExitInv, StacksPrivate
<1> QED
  BY <1>9, <1>10, <1>11, <1>12, <1>13, <1>14, <1>15 DEF IInv

\* The terminated task goes to the zombie list; if no task is READY only idle
\* is left beside it, so the successor is idle.
LEMMA RetireOK == ASSUME IInv, Retire PROVE IInv'
<1> USE DEF Retire
<1>1. PICK i \in DOMAIN task_list, h \in Tasks :
        /\ task_list[i] = current_task
        /\ task_list' = Unlinked(i)
        /\ Heir(i, h) /\ next' = h
  OBVIOUS
<1>2. UNCHANGED <<current_task, state, ticks_used, page_directory, esp, esp0, cr3,
                  stack, freed, destroyed>>
      /\ zombie_list' = zombie_list \cup {current_task}
      /\ at = "schedule" /\ at' = "leave" /\ state[current_task] = "TERMINATED"
  BY DEF free_task_later, memory
<1> DEFINE n == Len(task_list)
<1>3. /\ task_list \in Seq(Tasks) /\ n \in Nat /\ DOMAIN task_list = 1 .. n
      /\ n > 0 /\ task_list[n] = Idle
      /\ \A j, k \in 1 .. n : task_list[j] = task_list[k] => j = k
  <2>1. task_list \in Seq(Tasks)
    BY DEF IInv, TypeOK
  <2>2. n \in Nat /\ DOMAIN task_list = 1 .. n
    BY <2>1
  <2>3. /\ n > 0 /\ task_list[n] = Idle
        /\ \A j, k \in DOMAIN task_list : task_list[j] = task_list[k] => j = k
    BY DEF IInv, ListsSound
  <2> QED
    BY <2>1, <2>2, <2>3
<1>4. /\ task_list' \in Seq(Tasks) /\ Len(task_list') = n - 1
      /\ DOMAIN task_list' = 1 .. n - 1
      /\ \A k \in 1 .. n - 1 :
           task_list'[k] = IF k < i THEN task_list[k] ELSE task_list[k + 1]
  <2>1. i \in 1 .. Len(task_list)
    BY <1>3
  <2>2. /\ Unlinked(i) \in Seq(Tasks) /\ Len(Unlinked(i)) = Len(task_list) - 1
        /\ \A k \in 1 .. Len(Unlinked(i)) :
             Unlinked(i)[k] = IF k < i THEN task_list[k] ELSE task_list[k + 1]
    BY <1>3, <2>1, UnlinkedFacts
  <2> QED
    BY <1>1, <2>2
<1> HIDE DEF n
<1>5. /\ current_task \in Listed /\ current_task # Idle /\ Idle \in Listed
      /\ Listed \subseteq Tasks /\ current_task \notin zombie_list \cup freed
      /\ current_task \in Tasks
  BY <1>2, ListedFacts DEF IInv, ControlInv, TypeOK
<1>6. i \in 1 .. n - 1
  BY <1>1, <1>3, <1>5
<1>7. Listed' = Listed \ {current_task}
  <2>1. ASSUME NEW t \in Listed' PROVE t \in Listed \ {current_task}
    <3>1. PICK k \in 1 .. n - 1 : t = task_list'[k]
      BY <1>4 DEF Listed
    <3>2. PICK j \in 1 .. n : t = task_list[j] /\ j # i
      <4>1. CASE k < i
        BY <1>3, <1>4, <3>1, <4>1
      <4>2. CASE ~(k < i)
        <5>1. k + 1 \in 1 .. n /\ k + 1 # i /\ t = task_list[k + 1]
          BY <1>3, <1>4, <1>6, <3>1, <4>2
        <5> QED
          BY <5>1
      <4> QED
        BY <4>1, <4>2
    <3> QED
      BY <1>1, <1>3, <3>2 DEF Listed
  <2>2. ASSUME NEW t \in Listed, t # current_task PROVE t \in Listed'
    <3>1. PICK j \in 1 .. n : t = task_list[j]
      BY <1>3 DEF Listed
    <3>2. j # i
      BY <1>1, <2>2, <3>1
    <3>3. PICK k \in 1 .. n - 1 : task_list'[k] = t
      <4>1. CASE j < i
        BY <1>3, <1>4, <1>6, <3>1, <4>1
      <4>2. CASE ~(j < i)
        <5>1. j - 1 \in 1 .. n - 1 /\ ~(j - 1 < i) /\ (j - 1) + 1 = j
          BY <1>3, <1>6, <3>2, <4>2
        <5> QED
          BY <1>4, <3>1, <5>1
      <4> QED
        BY <4>1, <4>2
    <3> QED
      BY <1>4, <3>3 DEF Listed
  <2> QED
    BY <2>1, <2>2
<1>8. /\ next' \in Listed /\ next' # current_task
      /\ IF next' = Idle THEN \A t \in Tasks : state[t] # "READY"
                         ELSE state[next'] = "READY"
  <2>1. CASE \E p \in DOMAIN task_list : FoundAt(i, p) /\ h = task_list[p]
    <3>1. state[h] = "READY"
      BY <2>1 DEF FoundAt
    <3> QED
      BY <1>1, <3>1, ListedFacts
  <2>2. CASE NoneFound(i) /\ h = task_list[IF i < Len(task_list) THEN i + 1 ELSE 1]
    <3>1. \A t \in Tasks : state[t] # "READY"
      BY <1>1, <1>2, <2>2, SearchSucceeds
    <3>2. h = task_list[i + 1] /\ i + 1 \in 1 .. n
      BY <1>3, <1>6, <2>2 DEF n
    <3>3. h \in Listed /\ h # current_task
      BY <1>1, <1>3, <1>6, <3>2 DEF Listed
    <3>4. h = Idle
      BY <1>2, <1>5, <3>1, <3>3 DEF IInv, OneRunner
    <3> QED
      BY <1>1, <3>1, <3>3, <3>4
  <2> QED
    BY <1>1, <2>1, <2>2 DEF Heir
<1>9. TypeOK'
  BY <1>1, <1>2, <1>4, <1>5 DEF IInv, TypeOK
<1>10. Created' = Created
  BY <1>2 DEF Created
<1>11. ListsSound'
  <2>1. \A j, k \in DOMAIN task_list' : task_list'[j] = task_list'[k] => j = k
    <3> SUFFICES ASSUME NEW j \in 1 .. n - 1, NEW k \in 1 .. n - 1,
                        task_list'[j] = task_list'[k]
                 PROVE  j = k
      BY <1>4
    <3> DEFINE g(m) == IF m < i THEN m ELSE m + 1
    <3>1. g(j) \in 1 .. n /\ g(k) \in 1 .. n
      BY <1>3
    <3>2. task_list[g(j)] = task_list[g(k)]
      BY <1>4
    <3>3. g(j) = g(k)
      BY <1>3, <3>1, <3>2
    <3> QED
      BY <1>6, <3>3
  <2>2. Len(task_list') > 0 /\ task_list'[Len(task_list')] = Idle
    <3>1. n - 1 \in 1 .. n - 1 /\ ~(n - 1 < i) /\ (n - 1) + 1 = n
      BY <1>3, <1>6
    <3> QED
      BY <1>3, <1>4, <1>6, <3>1
  <2> QED
    BY <1>2, <1>5, <1>7, <1>10, <2>1, <2>2 DEF IInv, ListsSound
<1>12. OneRunner'
  BY <1>2, <1>7 DEF IInv, OneRunner
<1>13. AddressSpace' /\ NoDirectoryLeaked' /\ IdleOnlyWhenNothingReady'
  BY <1>2, <1>10 DEF IInv, AddressSpace, NoDirectoryLeaked, IdleOnlyWhenNothingReady
<1>14. ControlInv'
  BY <1>2, <1>5, <1>7, <1>8 DEF IInv, ControlInv, InterruptsOn
<1>15. FrameInv'
  BY <1>2, <1>7 DEF IInv, FrameInv, FramesFit
<1>16. LoneExitInv'
  BY <1>2, <1>7 DEF IInv, LoneExitInv, StacksPrivate
<1> QED
  BY <1>9, <1>11, <1>12, <1>13, <1>14, <1>15, <1>16 DEF IInv

LEMMA LeaveOK == ASSUME IInv, Leave PROVE IInv'
<1> USE DEF Leave
<1>1. UNCHANGED <<task_list, zombie_list, ticks_used, page_directory, esp, esp0,
                  next, freed, destroyed>>
      /\ at = "leave" /\ current_task' = next /\ cr3' = page_directory[next]
      /\ at' = esp[next].to /\ stack' = esp[next].on
  BY DEF lists, memory, Resume, HeirDirectory
<1>2. /\ next \in Listed /\ next # current_task /\ next \in Tasks
      /\ current_task \in zombie_list /\ current_task \in Tasks
      /\ current_task \notin Listed
      /\ Listed \subseteq Tasks /\ state[current_task] = "TERMINATED"
      /\ IF next = Idle THEN \A t \in Tasks : state[t] # "READY"
                        ELSE state[next] = "READY"
      /\ state[Idle] = "RUNNING" /\ Listed \cap (zombie_list \cup freed) = {}
  BY <1>1, ListedFacts DEF IInv, ControlInv, TypeOK
<1>3. /\ state'[next] = "RUNNING"
      /\ \A t \in Tasks \ {next} : state'[t] = state[t]
      /\ state' \in [Tasks -> {"none", "READY", "RUNNING", "TERMINATED"}]
  BY <1>2 DEF IInv, TypeOK
<1>4. /\ esp[next] \in Frames
      /\ IF next \in UserTasks THEN at' # "kernel" ELSE at' = "kernel"
  BY <1>1, <1>2 DEF IInv, FrameInv, FramesFit, TypeOK
<1>5. at' \in {"user", "getchar", "kernel"} /\ stack' \in Tasks \cup {Boot}
  BY <1>1, <1>4 DEF Frames
<1>6. Listed' = Listed /\ Created' = Created
  BY <1>1, <1>2, <1>3 DEF Listed, Created
<1>7. TypeOK'
  BY <1>1, <1>2, <1>3, <1>5 DEF IInv, TypeOK
<1>8. ListsSound'
  BY <1>1, <1>2, <1>5, <1>6 DEF IInv, ListsSound
<1>9. OneRunner'
  BY <1>1, <1>2, <1>3, <1>6 DEF IInv, OneRunner
<1>10. AddressSpace' /\ NoDirectoryLeaked'
  BY <1>1, <1>6 DEF IInv, AddressSpace, NoDirectoryLeaked
<1>11. IdleOnlyWhenNothingReady'
  BY <1>1, <1>2, <1>3 DEF IdleOnlyWhenNothingReady
<1>12. ControlInv'
  <2>1. zombie_list \cup freed \subseteq Tasks
    BY DEF IInv, TypeOK
  <2> QED
    BY <1>1, <1>2, <1>3, <1>4, <1>5, <2>1 DEF IInv, ControlInv, InterruptsOn
<1>13. FrameInv'
  BY <1>1, <1>2, <1>3, <1>5, <1>6 DEF IInv, FrameInv, FramesFit
<1>14. LoneExitInv'
  <2> SUFFICES ASSUME LoneExits PROVE LoneExitInv'
    BY DEF LoneExitInv
  <2>1. next \notin UserTasks
    BY <1>2 DEF IInv, LoneExitInv
  <2>2. stack' = next
    BY <1>1, <1>2 DEF IInv, FrameInv, LoneExitInv, StacksPrivate
  <2> QED
    BY <1>1, <1>2, <1>3, <1>4, <1>5, <1>6, <2>1, <2>2
    DEF IInv, LoneExitInv, StacksPrivate
<1> QED
  BY <1>7, <1>8, <1>9, <1>10, <1>11, <1>12, <1>13, <1>14 DEF IInv

-----------------------------------------------------------------------------
(***************************************************************************)
(* The theorems                                                            *)
(***************************************************************************)

LEMMA StutterOK == ASSUME IInv, UNCHANGED vars PROVE IInv'
BY DEF vars, IInv, TypeOK, ListsSound, OneRunner, AddressSpace, NoDirectoryLeaked,
       IdleOnlyWhenNothingReady, ControlInv, FrameInv, FramesFit, LoneExitInv,
       StacksPrivate, Listed, Created, InterruptsOn

\* The scheduler, the system calls and the interrupt entries keep the
\* inductive invariant, for any number of tasks and any MAX_TASKS.
THEOREM Invariance == Spec => []IInv
<1>1. Init => IInv
  BY InitOK
<1>2. IInv /\ [Next]_vars => IInv'
  <2> SUFFICES ASSUME IInv, [Next]_vars PROVE IInv'
    OBVIOUS
  <2>1. CASE task_create \/ task_create_user
    BY <2>1, CreateOK
  <2>2. CASE Launch
    BY <2>2, LaunchOK
  <2>3. CASE Tick \/ OtherIrq
    BY <2>3, TickOK, OtherIrqOK
  <2>4. CASE SysYield \/ SysGetKey
    BY <2>4, SysCallOK
  <2>5. CASE SysExit \/ KernelExit
    BY <2>5, SysExitOK, KernelExitOK
  <2>6. CASE KeyArrives \/ KernelYield \/ KeepRunning
    BY <2>6, KeyArrivesOK, KernelYieldOK, KeepRunningOK
  <2>7. CASE Reap \/ Switch
    BY <2>7, ReapOK, SwitchOK
  <2>8. CASE Retire \/ Leave
    BY <2>8, RetireOK, LeaveOK
  <2>9. CASE IdleLoop \/ UNCHANGED vars
    BY <2>9, StutterOK DEF IdleLoop
  <2> QED
    BY <2>1, <2>2, <2>3, <2>4, <2>5, <2>6, <2>7, <2>8, <2>9 DEF Next
<1> QED
  BY <1>1, <1>2, PTL DEF Spec

\* Every variable of the scheduler keeps its type.
THEOREM TypeCorrect == Spec => []TypeOK
<1>1. IInv => TypeOK
  BY DEF IInv
<1> QED
  BY <1>1, Invariance, PTL

\* A PCB is in exactly one of the task list, the zombie list and freed
\* memory, once, and unlinking never loses idle from the end of the list.
THEOREM ListsCorrect == Spec => []ListsSound
<1>1. IInv => ListsSound
  BY DEF IInv
<1> QED
  BY <1>1, Invariance, PTL

\* Of the tasks in the list one runs and the others are READY, idle apart.
THEOREM OneRunnerAlways == Spec => []OneRunner
<1>1. IInv => OneRunner
  BY DEF IInv
<1> QED
  BY <1>1, Invariance, PTL

\* The instructions that resume a task find the frame they pop.
THEOREM FramesAlwaysFit == Spec => []FramesFit
<1>1. IInv => FramesFit
  BY DEF IInv, FrameInv
<1> QED
  BY <1>1, Invariance, PTL

\* CR3 is the directory of the task that runs.
THEOREM AddressSpaceCorrect == Spec => []AddressSpace
<1>1. IInv => AddressSpace
  BY DEF IInv
<1> QED
  BY <1>1, Invariance, PTL

\* The halt loop of idle, with interrupts off, is entered only when no task
\* is READY: the bounded search of schedule never misses one.
THEOREM IdleIsLastResort == Spec => []IdleOnlyWhenNothingReady
<1>1. IInv => IdleOnlyWhenNothingReady
  BY DEF IInv
<1> QED
  BY <1>1, Invariance, PTL

\* A freed user task takes its page directory with it: the test that spares
\* the directory in use never spares one that is dead.
THEOREM DirectoriesReclaimed == Spec => []NoDirectoryLeaked
<1>1. IInv => NoDirectoryLeaked
  BY DEF IInv
<1> QED
  BY <1>1, Invariance, PTL

\* Where a task exits only once no other user task is left, every waiting
\* task's frame is on its own kernel stack and so is the next interrupt's.
THEOREM StacksPrivateAlways == ASSUME LoneExits PROVE Spec => []StacksPrivate
<1>1. IInv => StacksPrivate
  BY DEF IInv, LoneExitInv
<1> QED
  BY <1>1, Invariance, PTL

\* Under the same assumption no kernel stack is freed while it is in use.
THEOREM StacksLiveAlways == ASSUME LoneExits PROVE Spec => []StacksLive
<1>1. IInv => StacksLive
  <2> SUFFICES ASSUME IInv PROVE StacksLive
    OBVIOUS
  <2>1. StacksPrivate
    BY DEF IInv, LoneExitInv
  <2>2. Listed \cap freed = {} /\ current_task \notin freed
    BY DEF IInv, ListsSound
  <2> QED
    BY <2>1, <2>2 DEF StacksLive, StacksPrivate
<1> QED
  BY <1>1, Invariance, PTL

\* The two together: every kernel stack that is needed is allocated and its
\* task's own.
THEOREM StacksSoundAlways == ASSUME LoneExits PROVE Spec => []StacksSound
<1>1. StacksLive /\ StacksPrivate => StacksSound
  BY DEF StacksSound
<1> QED
  BY <1>1, StacksLiveAlways, StacksPrivateAlways, PTL

\* Under the same assumption no page directory is destroyed while it is the
\* one in use, a listed task's or the kernel's.
THEOREM DirectoriesLiveAlways == ASSUME LoneExits PROVE Spec => []DirectoriesLive
<1>1. IInv => DirectoriesLive
  <2> SUFFICES ASSUME IInv PROVE DirectoriesLive
    OBVIOUS
  <2>1. destroyed \subseteq freed \cap UserTasks
    BY DEF IInv, LoneExitInv
  <2>2. Listed \cap freed = {} /\ current_task \notin freed
        /\ current_task \in Created /\ Listed \subseteq Created
    BY DEF IInv, ListsSound
  <2>3. \A t \in Created : page_directory[t] \in {t, Idle}
    BY DEF IInv, AddressSpace
  <2>4. cr3 = page_directory[current_task]
    BY DEF IInv, AddressSpace
  <2> QED
    BY <2>1, <2>2, <2>3, <2>4 DEF DirectoriesLive
<1> QED
  BY <1>1, Invariance, PTL

-----------------------------------------------------------------------------
(***************************************************************************)
(* Credentials and permissions                                             *)
(***************************************************************************)


FullMeta == [magic : {TRUE}, mode : ModeType, uid : 0 .. STORED - 1, gid : 0 .. STORED - 1]
FullEntry == [kind : {"file", "dir"}, meta : MetaType]

\* What fat_entry_unix_meta makes of any entry is complete.
LEMMA MetaComplete ==
  ASSUME NEW e \in FullEntry
  PROVE  fat_entry_unix_meta(e) \in FullMeta
<1>1. Meta(Mode644, 0, 0) \in FullMeta
  BY PermissionsAssumption DEF Meta, Mode644, FullMeta, ModeType, Bits, rw
<1>2. e.meta \in FullMeta \/ e.meta.magic = FALSE
  BY DEF FullEntry, MetaType, FullMeta
<1>3. e.meta \in FullMeta => e.meta.magic = TRUE
  BY DEF FullMeta
<1> QED
  BY <1>1, <1>2, <1>3 DEF fat_entry_unix_meta

LEMMA EntryIsFull ==
  ASSUME PermTypeOK, NEW p \in Paths, Exists(p)
  PROVE  node[p] \in FullEntry /\ fat_entry_unix_meta(node[p]) \in FullMeta
<1>1. node[p] \in FullEntry
  BY DEF PermTypeOK, NodeType, Exists, Absent, FullEntry
<1> QED
  BY <1>1, MetaComplete

LEMMA StoredInRange ==
  ASSUME NEW id \in Nat
  PROVE  Stored(id) \in 0 .. STORED - 1 /\ (id < STORED => Stored(id) = id)
BY PermissionsAssumption DEF Stored

\* An entry with complete meta data is an entry, and shows these data.
LEMMA MetaShown ==
  ASSUME NEW kind \in {"file", "dir"}, NEW mode \in ModeType,
         NEW uid \in 0 .. STORED - 1, NEW gid \in 0 .. STORED - 1
  PROVE  /\ Entry(kind, Meta(mode, uid, gid)) \in NodeType
         /\ fat_entry_unix_meta(Entry(kind, Meta(mode, uid, gid))).uid = uid
         /\ Entry(kind, Meta(mode, uid, gid)).kind = kind
<1>1. Meta(mode, uid, gid) \in MetaType
  BY DEF Meta, MetaType
<1> QED
  BY <1>1 DEF Entry, Meta, NodeType, fat_entry_unix_meta

--------------------------------------------------------------------------------
(* The invariant. *)

\* Without a failing fat_set_file_meta a new or overwritten entry has its meta data.
LEMMA MetaSet ==
  ASSUME Fits, NEW call \in {"write", "mkdir"}, NEW e, NEW mode, NEW uid, NEW gid
  PROVE  SetMeta(call, e, mode, uid, gid) = {Entry(e.kind, Meta(mode, uid, gid))}
BY DEF SetMeta, Fits

\* A new entry p of a proper kind that shows the owner the history has for it.
LEMMA NodeReplaced ==
  ASSUME PermTypeOK, OwnerTrue, NEW p \in Paths, NEW e \in NodeType, NEW u \in Users,
         node' = [node EXCEPT ![p] = e], owner' = [owner EXCEPT ![p] = u],
         e.kind # "absent" => fat_entry_unix_meta(e).uid = u
  PROVE  OwnerTrue' /\ node' \in [Paths -> NodeType] /\ owner' \in [Paths -> Users]
<1>1. node' \in [Paths -> NodeType] /\ owner' \in [Paths -> Users]
  BY DEF PermTypeOK
<1>2. ASSUME NEW q \in Paths, Exists(q)'
      PROVE  fat_entry_unix_meta(node'[q]).uid = owner'[q]
  <2>1. CASE q = p
    BY <1>2, <2>1 DEF PermTypeOK, Exists
  <2>2. CASE q # p
    <3>1. node'[q] = node[q] /\ owner'[q] = owner[q]
      BY <2>2 DEF PermTypeOK
    <3> QED
      BY <1>2, <3>1 DEF OwnerTrue, Exists
  <2> QED
    BY <2>1, <2>2
<1> QED
  BY <1>1, <1>2 DEF OwnerTrue

LEMMA LastTyped ==
  ASSUME NEW t \in Callers, NEW p \in Paths \cup {Root}, Called(t, p)
  PROVE  last' \in [task : Callers, read : Paths \cup {Root}]
BY DEF Called

LEMMA CredentialsKept ==
  ASSUME PermInv, NEW t \in Callers, NEW id,
         \/ id \in Users /\ sys_setuid(t, id)
         \/ id \in Groups /\ sys_setgid(t, id)
  PROVE  PermInv' /\ \A s \in Callers : cred[s].euid # 0 => cred'[s] = cred[s]
<1> USE DEF PermInv
<1>1. cred \in [Callers -> [uid : Users, gid : Groups, euid : Users, egid : Groups]]
  BY DEF PermTypeOK
<1>2. cred[t].uid = cred[t].euid /\ cred[t].gid = cred[t].egid
  BY DEF RealIsEffective
<1>3. UNCHANGED <<node, data, owner>> /\ Called(t, Root)
  BY DEF sys_setuid, sys_setgid
<1>4. \/ cred[t].euid # 0 /\ cred' = cred
      \/ /\ cred[t].euid = 0
         /\ \/ id \in Users /\ cred' = [cred EXCEPT ![t] = [@ EXCEPT !.uid = id, !.euid = id]]
            \/ id \in Groups /\ cred' = [cred EXCEPT ![t] = [@ EXCEPT !.gid = id, !.egid = id]]
  <2>1. CASE cred[t].euid = 0
    BY <1>1, <2>1 DEF sys_setuid, sys_setgid
  <2>2. CASE cred[t].euid # 0
    <3>1. cred' = [cred EXCEPT ![t] = [@ EXCEPT !.euid = cred[t].euid]]
          \/ cred' = [cred EXCEPT ![t] = [@ EXCEPT !.egid = cred[t].egid]]
      BY <1>1, <1>2, <2>2 DEF sys_setuid, sys_setgid
    <3>2. cred' = cred
      BY <1>1, <3>1
    <3> QED
      BY <2>2, <3>2
  <2> QED
    BY <2>1, <2>2
<1>5. /\ cred' \in [Callers -> [uid : Users, gid : Groups, euid : Users, egid : Groups]]
      /\ RealIsEffective'
      /\ \A s \in Callers : cred[s].euid # 0 => cred'[s] = cred[s]
  <2>1. CASE cred' = cred
    BY <1>1, <2>1 DEF RealIsEffective
  <2>2. CASE cred[t].euid = 0 /\ id \in Users
             /\ cred' = [cred EXCEPT ![t] = [@ EXCEPT !.uid = id, !.euid = id]]
    <3>1. /\ cred'[t] \in [uid : Users, gid : Groups, euid : Users, egid : Groups]
          /\ cred'[t].uid = cred'[t].euid /\ cred'[t].gid = cred'[t].egid
      BY <1>1, <1>2, <2>2
    <3>2. \A s \in Callers \ {t} : cred'[s] = cred[s]
      BY <1>1, <2>2
    <3> QED
      BY <1>1, <2>2, <3>1, <3>2 DEF RealIsEffective
  <2>3. CASE cred[t].euid = 0 /\ id \in Groups
             /\ cred' = [cred EXCEPT ![t] = [@ EXCEPT !.gid = id, !.egid = id]]
    <3>1. /\ cred'[t] \in [uid : Users, gid : Groups, euid : Users, egid : Groups]
          /\ cred'[t].uid = cred'[t].euid /\ cred'[t].gid = cred'[t].egid
      BY <1>1, <1>2, <2>3
    <3>2. \A s \in Callers \ {t} : cred'[s] = cred[s]
      BY <1>1, <2>3
    <3> QED
      BY <1>1, <2>3, <3>1, <3>2 DEF RealIsEffective
  <2> QED
    BY <1>4, <2>1, <2>2, <2>3
<1>6. last' \in [task : Callers, read : Paths \cup {Root}]
  BY <1>3, LastTyped
<1>7. PermTypeOK'
  BY <1>3, <1>5, <1>6 DEF PermTypeOK
<1>8. OwnerTrue'
  BY <1>3 DEF OwnerTrue, Exists
<1> QED
  BY <1>5, <1>7, <1>8

\* What is left to show of a call on files: that the entries stay proper.
LEMMA FilesKept ==
  ASSUME PermInv, UNCHANGED cred, NEW t \in Callers, NEW p \in Paths \cup {Root}, Called(t, p),
         node' \in [Paths -> NodeType], owner' \in [Paths -> Users], OwnerTrue',
         data' \in [Paths -> {0, 1}]
  PROVE  PermInv'
<1>1. PermTypeOK'
  BY LastTyped DEF PermInv, PermTypeOK
<1> QED
  BY <1>1 DEF PermInv, RealIsEffective

LEMMA DataFlips ==
  ASSUME PermTypeOK, NEW p \in Paths, data' = [data EXCEPT ![p] = 1 - @]
  PROVE  data' \in [Paths -> {0, 1}]
BY DEF PermTypeOK

LEMMA CreateKeeps ==
  ASSUME Fits, PermInv, NEW t \in Callers, NEW call \in {"write", "mkdir"}, NEW p \in Paths,
         CreateEntry(t, call, p)
  PROVE  PermInv'
<1> DEFINE u == Stored(cred[t].uid)
           g == Stored(cred[t].gid)
           e == Entry(KindOf(p), Meta(Mode644, u, g))
<1>1. cred[t].uid \in Users /\ cred[t].gid \in Groups /\ cred[t].uid = cred[t].euid
  BY DEF PermInv, PermTypeOK, RealIsEffective
<1>2. u \in 0 .. STORED - 1 /\ g \in 0 .. STORED - 1 /\ u = cred[t].euid
  <2>1. cred[t].uid \in Nat /\ cred[t].gid \in Nat
    BY <1>1, PermissionsAssumption
  <2>2. cred[t].uid < STORED
    <3>1. cred[t].uid \in 0 .. STORED - 1 /\ STORED \in Nat
      BY <1>1, PermissionsAssumption DEF Fits
    <3> QED
      BY <3>1
  <2> QED
    BY <1>1, <2>1, <2>2, StoredInRange
<1>3. KindOf(p) \in {"file", "dir"} /\ Mode644 \in ModeType
  BY DEF KindOf, Mode644, ModeType, Bits, rw
<1> HIDE DEF u, g
<1>4. e \in NodeType /\ fat_entry_unix_meta(e).uid = u
  BY <1>2, <1>3, MetaShown
<1>5. SetMeta(call, Entry(KindOf(p), NoMeta), Mode644, u, g) = {e}
  BY MetaSet DEF Entry
<1>6. node' = [node EXCEPT ![p] = e]
  BY <1>5 DEF CreateEntry, u, g
<1>7. owner' = [owner EXCEPT ![p] = cred[t].euid] /\ cred[t].euid \in Users
  BY <1>1 DEF CreateEntry
<1>8. OwnerTrue' /\ node' \in [Paths -> NodeType] /\ owner' \in [Paths -> Users]
  <2> HIDE DEF e
  <2> QED
    BY <1>2, <1>4, <1>6, <1>7, NodeReplaced DEF PermInv
<1>9. data' \in [Paths -> {0, 1}] /\ UNCHANGED cred /\ Called(t, Root)
  BY DataFlips DEF CreateEntry, PermInv
<1> QED
  BY <1>8, <1>9, FilesKept

\* The owner of a file that exists, as a user number.
LEMMA OwnerShown ==
  ASSUME PermInv, NEW p \in Paths, Exists(p)
  PROVE  /\ fat_entry_unix_meta(node[p]) \in FullMeta
         /\ fat_entry_unix_meta(node[p]).uid = owner[p]
         /\ owner = [owner EXCEPT ![p] = owner[p]] /\ owner[p] \in Users
<1>1. owner \in [Paths -> Users]
  BY DEF PermInv, PermTypeOK
<1> QED
  BY <1>1, EntryIsFull DEF PermInv, OwnerTrue

LEMMA OverwriteKeeps ==
  ASSUME Fits, PermInv, NEW t \in Callers, NEW p \in Paths, Overwrite(t, p)
  PROVE  PermInv'
<1> DEFINE m == fat_entry_unix_meta(node[p])
           e == Entry("file", Meta(m.mode, m.uid, m.gid))
<1>1. Exists(p)
  BY DEF Overwrite, Exists
<1>2. m \in FullMeta /\ m.uid = owner[p]
      /\ owner = [owner EXCEPT ![p] = owner[p]] /\ owner[p] \in Users
  BY <1>1, OwnerShown
<1>3. m.mode \in ModeType /\ m.uid \in 0 .. STORED - 1 /\ m.gid \in 0 .. STORED - 1
  BY <1>2 DEF FullMeta
<1>4. node' = [node EXCEPT ![p] = e]
  <2>1. SetMeta("write", Entry("file", NoMeta), m.mode, m.uid, m.gid) = {e}
    BY MetaSet DEF Entry
  <2> QED
    BY <2>1 DEF Overwrite
<1>5. e \in NodeType /\ fat_entry_unix_meta(e).uid = owner[p]
  BY <1>2, <1>3, MetaShown
<1>6. OwnerTrue' /\ node' \in [Paths -> NodeType] /\ owner' \in [Paths -> Users]
  <2> HIDE DEF e, m
  <2>1. owner' = [owner EXCEPT ![p] = owner[p]]
    BY <1>2 DEF Overwrite
  <2> QED
    BY <1>2, <1>4, <1>5, <2>1, NodeReplaced DEF PermInv
<1>7. data' \in [Paths -> {0, 1}] /\ UNCHANGED cred /\ Called(t, Root)
  BY DataFlips DEF Overwrite, PermInv
<1> QED
  BY <1>6, <1>7, FilesKept

LEMMA DeleteKeeps ==
  ASSUME PermInv, NEW t \in Callers, NEW p \in Paths, sys_delete_file(t, p)
  PROVE  PermInv'
<1>1. Absent \in NodeType /\ Absent.kind = "absent" /\ 0 \in Users
  BY PermissionsAssumption DEF Absent, NodeType
<1>2. node' = [node EXCEPT ![p] = Absent] /\ owner' = [owner EXCEPT ![p] = 0]
  BY DEF sys_delete_file
<1>3. OwnerTrue' /\ node' \in [Paths -> NodeType] /\ owner' \in [Paths -> Users]
  BY <1>1, <1>2, NodeReplaced DEF PermInv
<1>4. data' \in [Paths -> {0, 1}] /\ UNCHANGED cred /\ Called(t, Root)
  BY DEF sys_delete_file, PermInv, PermTypeOK
<1> QED
  BY <1>3, <1>4, FilesKept

\* chmod and chown: the new entry, or the old one if the write has failed.
LEMMA ChangedEntry ==
  ASSUME PermInv, NEW t \in Callers, NEW p \in Paths, Exists(p), NEW mode \in ModeType,
         NEW uid \in 0 .. STORED - 1, NEW gid \in 0 .. STORED - 1,
         Change(t, p, mode, uid, gid)
  PROVE  \/ node' = node
         \/ \E e \in NodeType : /\ node' = [node EXCEPT ![p] = e]
                                /\ fat_entry_unix_meta(e).uid = uid
<1> DEFINE e == Entry(node[p].kind, Meta(mode, uid, gid))
<1>1. node \in [Paths -> NodeType] /\ node[p].kind \in {"file", "dir"}
  BY EntryIsFull DEF PermInv, PermTypeOK, FullEntry
<1>2. node' = [node EXCEPT ![p] = e] \/ node' = [node EXCEPT ![p] = node[p]]
  BY DEF Change, SetMeta
<1>3. e \in NodeType /\ fat_entry_unix_meta(e).uid = uid
  BY <1>1, MetaShown
<1> HIDE DEF e
<1> QED
  BY <1>1, <1>2, <1>3

LEMMA ChmodKeeps ==
  ASSUME PermInv, NEW t \in Callers, NEW p \in Paths, NEW mode \in Modes, sys_chmod(t, p, mode)
  PROVE  PermInv'
<1> DEFINE m == fat_entry_unix_meta(node[p])
<1>1. Exists(p) /\ Change(t, p, mode, m.uid, m.gid) /\ UNCHANGED owner
  BY DEF sys_chmod
<1>2. m \in FullMeta /\ m.uid = owner[p]
      /\ owner = [owner EXCEPT ![p] = owner[p]] /\ owner[p] \in Users
  BY <1>1, OwnerShown
<1>3. m.uid \in 0 .. STORED - 1 /\ m.gid \in 0 .. STORED - 1 /\ mode \in ModeType
  BY <1>2, PermissionsAssumption DEF FullMeta
<1> HIDE DEF m
<1>4. OwnerTrue' /\ node' \in [Paths -> NodeType] /\ owner' \in [Paths -> Users]
  <2>1. CASE node' = node
    BY <1>1, <2>1 DEF PermInv, PermTypeOK, OwnerTrue, Exists
  <2>2. CASE \E e \in NodeType : /\ node' = [node EXCEPT ![p] = e]
                                 /\ fat_entry_unix_meta(e).uid = m.uid
    <3>1. owner' = [owner EXCEPT ![p] = owner[p]]
      BY <1>1, <1>2
    <3> QED
      BY <1>2, <2>2, <3>1, NodeReplaced DEF PermInv
  <2> QED
    BY <1>1, <1>3, <2>1, <2>2, ChangedEntry
<1>5. data' \in [Paths -> {0, 1}] /\ UNCHANGED cred /\ Called(t, Root)
  BY <1>1 DEF Change, PermInv, PermTypeOK
<1> QED
  BY <1>4, <1>5, FilesKept

LEMMA ChownKeeps ==
  ASSUME Fits, PermInv, NEW t \in Callers, NEW p \in Paths, NEW uid \in Users, NEW gid \in Groups,
         sys_chown(t, p, uid, gid)
  PROVE  PermInv'
<1> DEFINE m == fat_entry_unix_meta(node[p])
           u == IF uid = KEEP THEN m.uid ELSE Stored(uid)
           g == IF gid = KEEP THEN m.gid ELSE Stored(gid)
<1>1. /\ Exists(p) /\ Change(t, p, m.mode, u, g)
      /\ owner' = IF uid = KEEP \/ node' = node THEN owner ELSE [owner EXCEPT ![p] = uid]
  BY DEF sys_chown
<1>2. m \in FullMeta /\ m.uid = owner[p]
      /\ owner = [owner EXCEPT ![p] = owner[p]] /\ owner[p] \in Users
  BY <1>1, OwnerShown
<1>3. m.mode \in ModeType /\ m.uid \in 0 .. STORED - 1 /\ m.gid \in 0 .. STORED - 1
  BY <1>2 DEF FullMeta
<1>4. Stored(uid) = uid /\ Stored(uid) \in 0 .. STORED - 1 /\ Stored(gid) \in 0 .. STORED - 1
  <2>1. uid \in Nat /\ gid \in Nat /\ uid < STORED
    BY PermissionsAssumption DEF Fits
  <2> QED
    BY <2>1, StoredInRange
<1> HIDE DEF m
<1>5. u \in 0 .. STORED - 1 /\ g \in 0 .. STORED - 1
      /\ u = IF uid = KEEP THEN owner[p] ELSE uid
  BY <1>2, <1>3, <1>4
<1> HIDE DEF u, g
<1>6. OwnerTrue' /\ node' \in [Paths -> NodeType] /\ owner' \in [Paths -> Users]
  <2>1. CASE node' = node
    BY <1>1, <2>1 DEF PermInv, PermTypeOK, OwnerTrue, Exists
  <2>2. CASE node' # node /\ \E e \in NodeType : /\ node' = [node EXCEPT ![p] = e]
                                                 /\ fat_entry_unix_meta(e).uid = u
    <3>1. owner' = [owner EXCEPT ![p] = u] /\ u \in Users
      BY <1>1, <1>2, <1>5, <2>2
    <3> QED
      BY <2>2, <3>1, NodeReplaced DEF PermInv
  <2> QED
    BY <1>1, <1>3, <1>5, <2>1, <2>2, ChangedEntry
<1>7. data' \in [Paths -> {0, 1}] /\ UNCHANGED cred /\ Called(t, Root)
  BY <1>1 DEF Change, sys_chown, PermInv, PermTypeOK
<1> QED
  BY <1>6, <1>7, FilesKept

LEMMA ReadKeeps ==
  ASSUME PermInv, NEW t \in Callers, NEW p \in Paths, sys_read_file(t, p)
  PROVE  PermInv'
<1>1. UNCHANGED <<cred, node, data, owner>> /\ Called(t, p)
  BY DEF sys_read_file
<1>2. node' \in [Paths -> NodeType] /\ owner' \in [Paths -> Users] /\ data' \in [Paths -> {0, 1}]
  BY <1>1 DEF PermInv, PermTypeOK
<1>3. OwnerTrue'
  BY <1>1 DEF PermInv, OwnerTrue, Exists
<1> QED
  BY <1>1, <1>2, <1>3, FilesKept

--------------------------------------------------------------------------------
(* The theorems. *)

LEMMA InitHolds == PermInit => PermInv
<1> SUFFICES ASSUME PermInit PROVE PermInv
  OBVIOUS
<1>1. 0 \in Users /\ 0 \in Groups
  BY PermissionsAssumption
<1>2. {Absent, Entry("file", NoMeta), Entry("dir", NoMeta)} \subseteq NodeType
  BY DEF NodeType, MetaType, Entry, NoMeta
<1>3. PermTypeOK
  BY <1>1, <1>2 DEF PermInit, PermTypeOK
<1>4. RealIsEffective
  BY DEF PermInit, RealIsEffective
<1>5. ASSUME NEW p \in Paths, Exists(p)
      PROVE  fat_entry_unix_meta(node[p]).uid = owner[p]
  <2>1. node[p] = Entry("file", NoMeta) \/ node[p] = Entry("dir", NoMeta)
    BY <1>5 DEF PermInit, Exists, Absent
  <2> QED
    BY <2>1 DEF PermInit, fat_entry_unix_meta, Entry, NoMeta, Meta
<1> QED
  BY <1>3, <1>4, <1>5 DEF PermInv, OwnerTrue

LEMMA NextKeeps ==
  ASSUME Fits, PermInv, [PermNext]_perm_vars
  PROVE  PermInv' /\ [\A t \in Callers : cred[t].euid # 0 => cred'[t] = cred[t]]_perm_vars
<1>1. CASE UNCHANGED perm_vars
  BY <1>1 DEF perm_vars, PermInv, PermTypeOK, RealIsEffective, OwnerTrue, Exists
<1>2. ASSUME NEW t \in Callers, NEW id,
             (id \in Users /\ sys_setuid(t, id)) \/ (id \in Groups /\ sys_setgid(t, id))
      PROVE  PermInv' /\ \A s \in Callers : cred[s].euid # 0 => cred'[s] = cred[s]
  BY <1>2, CredentialsKept
<1>3. ASSUME NEW t \in Callers, NEW p \in Files, sys_write_file(t, p)
      PROVE  PermInv' /\ cred' = cred
  <2>1. p \in Paths /\ (CreateEntry(t, "write", p) \/ Overwrite(t, p))
    BY <1>3 DEF Paths, sys_write_file
  <2>2. cred' = cred
    BY <2>1 DEF CreateEntry, Overwrite
  <2> QED
    BY <2>1, <2>2, CreateKeeps, OverwriteKeeps
<1>4. ASSUME NEW t \in Callers, NEW p \in Dirs, sys_mkdir(t, p)
      PROVE  PermInv' /\ cred' = cred
  <2>1. p \in Paths /\ CreateEntry(t, "mkdir", p)
    BY <1>4 DEF Paths, sys_mkdir
  <2> QED
    BY <2>1, CreateKeeps DEF CreateEntry
<1>5. ASSUME NEW t \in Callers, NEW p \in Paths,
             \/ sys_read_file(t, p) \/ sys_delete_file(t, p)
             \/ \E mode \in Modes : sys_chmod(t, p, mode)
             \/ \E uid \in Users, gid \in Groups : sys_chown(t, p, uid, gid)
      PROVE  PermInv' /\ cred' = cred
  <2>1. cred' = cred
    BY <1>5 DEF sys_read_file, sys_delete_file, sys_chmod, sys_chown, Change
  <2> QED
    BY <1>5, <2>1, ReadKeeps, DeleteKeeps, ChmodKeeps, ChownKeeps
<1> QED
  BY <1>1, <1>2, <1>3, <1>4, <1>5 DEF PermNext

\* The types and the two parts of the invariant hold, if user numbers fit the field
\* of an entry and no fat_set_file_meta of sys_write_file or sys_mkdir fails.
THEOREM PermInvariance == ASSUME Fits PROVE PermSpec => []PermInv
<1>1. PermInv /\ [PermNext]_perm_vars => PermInv'
  BY NextKeeps
<1> QED
  BY <1>1, InitHolds, PTL DEF PermSpec

\* A task that has given up root never changes its identity again (setuid, setgid).
THEOREM DroppingIsFinal == ASSUME Fits PROVE PermSpec => DropIsFinal
<1>1. PermInv /\ [PermNext]_perm_vars => [\A t \in Callers : cred[t].euid # 0 => cred'[t] = cred[t]]_perm_vars
  BY NextKeeps
<1> QED
  BY <1>1, PermInvariance, PTL DEF PermSpec, DropIsFinal

\* The owner on the disk is the user who made the file or was given it.
THEOREM OwnersTrue == ASSUME Fits PROVE PermSpec => []OwnerTrue
<1>1. PermInv => OwnerTrue
  BY DEF PermInv
<1> QED
  BY <1>1, PermInvariance, PTL

\* The caller, neither root nor the owner, gets nothing from the entry of a file that
\* is private.
LEMMA PrivateRefuses ==
  ASSUME NEW t \in Callers, NEW p \in Paths, OnlyOwner(p), NEW mask,
         cred[t].euid \notin {0, fat_entry_unix_meta(node[p]).uid}
  PROVE  ~ sys_check_entry(t, node[p], mask)
BY DEF sys_check_entry, OnlyOwner

LEMMA DirectoryRefuses ==
  ASSUME NEW t \in Callers, NEW p \in Paths, OnlyOwnerChanges(p),
         cred[t].euid \notin {0, fat_entry_unix_meta(node[p]).uid}
  PROVE  ~ sys_check_parent_writable(t, p)
<1>1. CASE Parent(p) = Root
  <2>1. ~ sys_check_entry(t, sys_root_entry, "w")
    BY DEF sys_check_entry, sys_root_entry, Entry, NoMeta, fat_entry_unix_meta, Meta, Mode644
  <2> QED
    BY <1>1, <2>1, PermissionsAssumption DEF sys_check_parent_writable
<1>2. CASE Parent(p) # Root
  <2>1. ~ sys_check_entry(t, node[Parent(p)], "w")
    BY <1>2 DEF sys_check_entry, OnlyOwnerChanges
  <2> QED
    BY <1>2, <2>1 DEF sys_check_parent_writable
<1> QED
  BY <1>1, <1>2

\* The step of PrivateKept for one file.
Untouched(p) == node'[p] = node[p] /\ data'[p] = data[p] /\ last'.read # p

LEMMA PrivateStep ==
  ASSUME PermInv, PermNext, NEW p \in Paths, Exists(p), OnlyOwner(p), OnlyOwnerChanges(p),
         cred[last'.task].euid \notin {0, fat_entry_unix_meta(node[p]).uid}
  PROVE  Untouched(p)
<1>1. node \in [Paths -> NodeType] /\ data \in [Paths -> {0, 1}] /\ p # Root
  BY PermissionsAssumption DEF PermInv, PermTypeOK
<1>2. ASSUME NEW t \in Callers, NEW q, Called(t, q)
      PROVE  /\ last'.task = t /\ last'.read = q
             /\ cred[t].euid \notin {0, fat_entry_unix_meta(node[p]).uid}
  BY <1>2 DEF Called
<1>3. ASSUME NEW t \in Callers, NEW id, sys_setuid(t, id) \/ sys_setgid(t, id)
      PROVE  Untouched(p)
  BY <1>1, <1>2, <1>3 DEF sys_setuid, sys_setgid, Untouched
<1>4. ASSUME NEW t \in Callers, NEW q \in Paths, NEW call, CreateEntry(t, call, q)
      PROVE  Untouched(p)
  <2>1. q # p
    BY <1>4 DEF CreateEntry
  <2> QED
    BY <1>1, <1>2, <1>4, <2>1 DEF CreateEntry, Untouched
<1>5. ASSUME NEW t \in Callers, NEW q \in Paths, Overwrite(t, q)
      PROVE  Untouched(p)
  <2>1. Called(t, Root) /\ sys_check_entry(t, node[q], "w")
    BY <1>5 DEF Overwrite
  <2>2. q # p
    BY <1>2, <2>1, PrivateRefuses
  <2> QED
    BY <1>1, <1>2, <1>5, <2>1, <2>2 DEF Overwrite, Untouched
<1>6. ASSUME NEW t \in Callers, NEW q \in Paths, sys_read_file(t, q)
      PROVE  Untouched(p)
  <2>1. Called(t, q) /\ sys_check_entry(t, node[q], "r") /\ UNCHANGED <<node, data>>
    BY <1>6 DEF sys_read_file
  <2>2. q # p
    BY <1>2, <2>1, PrivateRefuses
  <2> QED
    BY <1>2, <2>1, <2>2 DEF Untouched
<1>7. ASSUME NEW t \in Callers, NEW q \in Paths, sys_delete_file(t, q)
      PROVE  Untouched(p)
  <2>1. Called(t, Root) /\ sys_check_parent_writable(t, q)
    BY <1>7 DEF sys_delete_file
  <2>2. q # p
    BY <1>2, <2>1, DirectoryRefuses
  <2> QED
    BY <1>1, <1>2, <1>7, <2>1, <2>2 DEF sys_delete_file, Untouched
<1>8. ASSUME NEW t \in Callers, NEW q \in Paths, NEW mode, NEW uid, NEW gid,
             Change(t, q, mode, uid, gid), cred[t].euid \in {0, fat_entry_unix_meta(node[q]).uid}
      PROVE  Untouched(p)
  <2>1. Called(t, Root) /\ UNCHANGED data
    BY <1>8 DEF Change
  <2>2. q # p
    BY <1>2, <1>8, <2>1
  <2> QED
    BY <1>1, <1>2, <1>8, <2>1, <2>2 DEF Change, Untouched
<1>9. ASSUME NEW t \in Callers, NEW q \in Paths,
             \/ \E mode \in Modes : sys_chmod(t, q, mode)
             \/ \E uid \in Users, gid \in Groups : sys_chown(t, q, uid, gid)
      PROVE  Untouched(p)
  <2>1. CASE \E mode \in Modes : sys_chmod(t, q, mode)
    BY <1>8, <2>1 DEF sys_chmod
  <2>2. CASE \E uid \in Users, gid \in Groups : sys_chown(t, q, uid, gid)
    BY <1>8, <2>2 DEF sys_chown
  <2> QED
    BY <1>9, <2>1, <2>2
<1> QED
  BY <1>3, <1>4, <1>5, <1>6, <1>7, <1>9 DEF PermNext, Paths, sys_write_file, sys_mkdir

\* A file private to its owner, in a directory only the owner or root can change, is
\* neither read nor changed nor replaced by another user.
THEOREM PrivateFilesKept == ASSUME Fits PROVE PermSpec => PrivateKept
<1>1. ASSUME PermInv, [PermNext]_perm_vars
      PROVE  [\A p \in Paths :
                 (/\ Exists(p) /\ OnlyOwner(p) /\ OnlyOwnerChanges(p)
                  /\ cred[last'.task].euid \notin {0, fat_entry_unix_meta(node[p]).uid})
                 => node'[p] = node[p] /\ data'[p] = data[p] /\ last'.read # p]_perm_vars
  BY <1>1, PrivateStep DEF Untouched
<1> QED
  BY <1>1, PermInvariance, PTL DEF PermSpec, PrivateKept
=============================================================================
