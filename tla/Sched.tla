-------------------------------- MODULE Sched --------------------------------
(***************************************************************************)
(* Tasks and the scheduler: proc/task.c and proc/switch.asm, entered from  *)
(* the timer (driver/pit.c), the interrupt and system call entries         *)
(* (syscall/isr_asm.asm), the key wait of driver/keyboard.c and the first  *)
(* jump to ring 3 in kmain.c.                                              *)
(*                                                                         *)
(* A task is known by its PCB; its kernel stack page goes by the same name *)
(* and so does a user task's page directory.  The kernel's own directory   *)
(* is called Idle, whose task uses it, and Boot is the stack of the boot   *)
(* code (as TSS.esp0 it stands for the initial 0).  Interrupts are off in  *)
(* the kernel except while a task sleeps in keyboard_get_char, so schedule *)
(* is not interrupted; it is taken in steps all the same, because what it  *)
(* must not free is the stack and the directory it is running on.          *)
(***************************************************************************)
EXTENDS Integers, Sequences

CONSTANTS
  Idle,         (* the idle task                                           *)
  Boot,         (* the boot stack                                          *)
  UserTasks,    (* tasks made by task_create_user (is_user)                *)
  KernelTasks,  (* tasks made by task_create, idle apart                   *)
  LoneExits,    (* TRUE: a task exits only when no other user task is left *)
                (* (the system's one user task is the shell)               *)
  MAX_TASKS,    (* limit of the search for a READY task                    *)
  TIME_SLICE_TICKS

Tasks == UserTasks \cup KernelTasks \cup {Idle}

ASSUME TaskAssumption ==
  /\ UserTasks \cap KernelTasks = {}
  /\ Idle \notin UserTasks \cup KernelTasks
  /\ Boot \notin Tasks
  /\ LoneExits \in BOOLEAN
  /\ MAX_TASKS \in Nat \ {0}
  /\ TIME_SLICE_TICKS \in Nat \ {0}

VARIABLES
  task_list,    (* the linked list, head first                             *)
  zombie_list,  (* exited tasks whose memory is still to be freed          *)
  current_task,
  state,        (* task_state_t of every PCB, "none" before its creation   *)
  ticks_used,
  page_directory,
  esp,          (* the frame the saved stack pointer of a PCB points to:   *)
                (* which instructions can resume it, on which stack it is  *)
                (* and where execution goes on                             *)
  esp0,         (* TSS.esp0: the stack an interrupt from ring 3 switches to *)
  cr3,          (* the page directory in use                               *)
  at,           (* where the CPU is                                        *)
  stack,        (* the kernel stack it is on when not in ring 3            *)
  next,         (* the local variable of schedule                          *)
  freed,        (* tasks whose PCB and kernel stack were freed             *)
  destroyed     (* page directories that were destroyed                    *)

vars == <<task_list, zombie_list, current_task, state, ticks_used,
          page_directory, esp, esp0, cr3, at, stack, next, freed, destroyed>>

Listed == {task_list[i] : i \in DOMAIN task_list}
Created == {t \in Tasks : state[t] # "none"}

Frames == [kind : {"popa", "iret"}, on : Tasks \cup {Boot},
           to : {"user", "getchar", "kernel"}]

ToRing3(t) == [kind |-> "iret", on |-> t, to |-> "user"]
ToKernel(s) == [kind |-> "popa", on |-> s, to |-> "kernel"]

lists == <<task_list, zombie_list>>
memory == <<freed, destroyed>>

-----------------------------------------------------------------------------
(***************************************************************************)
(* Creation                                                                *)
(***************************************************************************)

\* task_init: the idle task, made by task_create, counts as RUNNING.
Init ==
  /\ task_list = <<Idle>> /\ zombie_list = {}
  /\ current_task = Idle /\ next = Idle
  /\ state = [t \in Tasks |-> IF t = Idle THEN "RUNNING" ELSE "none"]
  /\ ticks_used = [t \in Tasks |-> 0]
  /\ page_directory = [t \in Tasks |-> Idle]
  /\ esp = [t \in Tasks |-> ToKernel(t)]
  /\ esp0 = Boot /\ stack = Boot
  /\ cr3 = Idle
  /\ at = "boot"
  /\ freed = {} /\ destroyed = {}

\* The boot code and the kernel tasks create tasks.  When a page cannot be
\* allocated the functions give back what they took and change nothing.
Create(t, dir, frame) ==
  /\ at = "boot" \/ (at = "kernel" /\ current_task # Idle)
  /\ state[t] = "none"
  /\ task_list' = <<t>> \o task_list
  /\ state' = [state EXCEPT ![t] = "READY"]
  /\ page_directory' = [page_directory EXCEPT ![t] = dir]
  /\ esp' = [esp EXCEPT ![t] = frame]
  /\ UNCHANGED <<zombie_list, current_task, ticks_used, esp0, cr3, at, stack,
                 next, memory>>

task_create == \E t \in KernelTasks : Create(t, cr3, ToKernel(t))
task_create_user == \E t \in UserTasks : Create(t, t, ToRing3(t))

\* The end of load_and_run_shell: the task becomes the running one and the
\* CPU goes to ring 3 without the scheduler.  Idle stays RUNNING.
Launch ==
  /\ at = "boot"
  /\ \E t \in UserTasks :
       /\ state[t] = "READY"
       /\ state' = [state EXCEPT ![t] = "RUNNING"]
       /\ current_task' = t /\ next' = t
       /\ esp0' = t
       /\ cr3' = page_directory[t]
  /\ at' = "user"
  /\ UNCHANGED <<lists, ticks_used, page_directory, esp, stack, memory>>

-----------------------------------------------------------------------------
(***************************************************************************)
(* Ways into the kernel                                                    *)
(***************************************************************************)

InterruptsOn == at \in {"user", "getchar"}

\* The entry code pushes the registers below what the CPU pushed, on the
\* stack of TSS.esp0 when it came from ring 3 and on the stack in use when
\* it came from the kernel, and saves that position in the current PCB.
EntryStack == IF at = "user" THEN esp0 ELSE stack
Enter ==
  /\ esp' = [esp EXCEPT ![current_task] =
               [kind |-> "iret", on |-> EntryStack, to |-> at]]
  /\ stack' = EntryStack

\* IRQ 0.  ticks_used is counted for user tasks, and only they are ever
\* current with interrupts on.
SliceOver == ticks_used[current_task] + 1 >= TIME_SLICE_TICKS
Tick ==
  /\ InterruptsOn
  /\ Enter
  /\ ticks_used' = [ticks_used EXCEPT ![current_task] =
                      IF SliceOver THEN 0 ELSE @ + 1]
  /\ at' = IF SliceOver THEN "schedule" ELSE at
  /\ UNCHANGED <<lists, current_task, state, page_directory, esp0, cr3, next,
                 memory>>

\* Any other IRQ: the handler returns to where it came from.
OtherIrq ==
  /\ InterruptsOn
  /\ Enter
  /\ UNCHANGED <<lists, current_task, state, ticks_used, page_directory, esp0,
                 cr3, at, next, memory>>

MayExit == LoneExits => \A t \in UserTasks \ {current_task} : t \notin Listed

\* int 0x80 with SYS_YIELD, with SYS_GETKEY when no key is waiting, and with
\* SYS_EXIT.
Syscall(target) ==
  /\ at = "user"
  /\ Enter
  /\ at' = target
  /\ UNCHANGED <<lists, current_task, ticks_used, page_directory, esp0, cr3,
                 next, memory>>

SysYield == Syscall("schedule") /\ UNCHANGED state
SysGetKey == Syscall("getchar") /\ UNCHANGED state
SysExit ==
  /\ MayExit
  /\ state' = [state EXCEPT ![current_task] = "TERMINATED"]
  /\ Syscall("schedule")

\* A key ends the wait and the system call returns to ring 3.
KeyArrives ==
  /\ at = "getchar"
  /\ at' = "user"
  /\ UNCHANGED <<lists, current_task, state, ticks_used, page_directory, esp,
                 esp0, cr3, stack, next, memory>>

\* A kernel task calls yield or task_exit; it runs with interrupts off.
KernelCall ==
  /\ at = "kernel" /\ current_task # Idle
  /\ at' = "schedule"
  /\ UNCHANGED <<lists, current_task, ticks_used, page_directory, esp, esp0,
                 cr3, stack, next, memory>>

KernelYield == KernelCall /\ UNCHANGED state
KernelExit ==
  /\ MayExit
  /\ state' = [state EXCEPT ![current_task] = "TERMINATED"]
  /\ KernelCall

-----------------------------------------------------------------------------
(***************************************************************************)
(* schedule                                                                *)
(***************************************************************************)

\* How many steps along the circular list lead from position i to p.
\* Mutant of Distance: the search starts at the head of the list.
DistanceFromHead(i, p) == p
Distance(i, p) == IF p > i THEN p - i ELSE p - i + Len(task_list)

\* The search from the position after i stops at p: the nearest READY task,
\* the first one looked at and MAX_TASKS more being tried.
FoundAt(i, p) ==
  /\ state[task_list[p]] = "READY"
  /\ Distance(i, p) <= MAX_TASKS + 1
  /\ \A q \in DOMAIN task_list :
       state[task_list[q]] = "READY" => Distance(i, p) <= Distance(i, q)

NoneFound(i) == \A p \in DOMAIN task_list : ~ FoundAt(i, p)

\* free_task: PCB and kernel stack; the page directory too unless it is the
\* one in use.
\* Mutant of DirectoriesOf: the directory in use is not spared.
DirectoriesOfAll(S) == {page_directory[t] : t \in S}
DirectoriesOf(S) == {page_directory[t] : t \in S} \ {cr3}
free_task(S) ==
  /\ freed' = freed \cup S
  /\ destroyed' = destroyed \cup DirectoriesOf(S)

\* The normal branch when another task is READY: reap_zombies, still on the
\* stack and in the directory of the task that is left.
Reap ==
  /\ at = "schedule" /\ state[current_task] # "TERMINATED"
  /\ \E i, p \in DOMAIN task_list :
       /\ task_list[i] = current_task
       /\ FoundAt(i, p)
       /\ next' = task_list[p]
  /\ free_task(zombie_list)
  /\ zombie_list' = {}
  /\ at' = "switch"
  /\ UNCHANGED <<task_list, current_task, state, ticks_used, page_directory,
                 esp, esp0, cr3, stack>>

\* The normal branch when no other task is READY: back to the caller.
KeepRunning ==
  /\ at = "schedule" /\ state[current_task] # "TERMINATED"
  /\ \E i \in DOMAIN task_list : task_list[i] = current_task /\ NoneFound(i)
  /\ at' = IF current_task \in UserTasks THEN esp[current_task].to
                                         ELSE "kernel"
  /\ UNCHANGED <<lists, current_task, state, ticks_used, page_directory, esp,
                 esp0, cr3, stack, next, memory>>

\* switch_to and switch_to_user pushed the registers; the saved position goes
\* to the PCB of a task that was left unless that is a user task, whose
\* interrupt entry has saved it already.
\* Mutant of SavedFrames: prev is passed for a user task as well.
SavedFramesAlways == [esp EXCEPT ![current_task] = ToKernel(stack)]
SavedFrames ==
  IF current_task \in UserTasks THEN esp
  ELSE [esp EXCEPT ![current_task] = ToKernel(stack)]

\* The saved frame of the next task is popped.
Resume(t) == at' = esp'[t].to /\ stack' = esp'[t].on

SwitchedStates ==
  [state EXCEPT ![current_task] = "READY", ![next] = "RUNNING"]
\* Idle has no kernel_esp0.
SwitchedEsp0 == IF next = Idle THEN esp0 ELSE next
Switch ==
  /\ at = "switch"
  /\ state' = SwitchedStates
  /\ esp0' = SwitchedEsp0
  /\ current_task' = next
  /\ cr3' = page_directory[next]
  /\ esp' = SavedFrames
  /\ Resume(next)
  /\ UNCHANGED <<lists, ticks_used, page_directory, next, memory>>

\* The list without its i-th task.
\* Mutant of Unlinked: the head is not handled, the list keeps it.
UnlinkedNotHead(i) ==
  IF i = 1 THEN task_list
  ELSE SubSeq(task_list, 1, i - 1) \o SubSeq(task_list, i + 1, Len(task_list))
Unlinked(i) ==
  SubSeq(task_list, 1, i - 1) \o SubSeq(task_list, i + 1, Len(task_list))

\* The task the branch for terminated tasks goes to: the nearest READY one,
\* else the successor.
\* Mutant of Heir: the successor, READY or not.
HeirIsSuccessor(i, t) == t = task_list[IF i < Len(task_list) THEN i + 1 ELSE 1]
Heir(i, t) ==
  \/ \E p \in DOMAIN task_list : FoundAt(i, p) /\ t = task_list[p]
  \/ /\ NoneFound(i)
     /\ t = task_list[IF i < Len(task_list) THEN i + 1 ELSE 1]

\* Mutant of free_task_later: the memory is freed on the spot.
free_task_now == free_task({current_task}) /\ UNCHANGED zombie_list
free_task_later ==
  zombie_list' = zombie_list \cup {current_task} /\ UNCHANGED memory

\* The branch for a terminated task: unlink it, leave its memory for later,
\* on whose stack this runs, and choose the next task.
Retire ==
  /\ at = "schedule" /\ state[current_task] = "TERMINATED"
  /\ \E i \in DOMAIN task_list :
       /\ task_list[i] = current_task
       /\ task_list' = Unlinked(i)
       /\ \E t \in Tasks : Heir(i, t) /\ next' = t
  /\ free_task_later
  /\ at' = "leave"
  /\ UNCHANGED <<current_task, state, ticks_used, page_directory, esp, esp0,
                 cr3, stack>>

\* ... and go there.  TSS.esp0 is not touched.
HeirDirectory == page_directory[next]
Leave ==
  /\ at = "leave"
  /\ state' = [state EXCEPT ![next] = "RUNNING"]
  /\ current_task' = next
  /\ cr3' = HeirDirectory
  /\ esp' = esp
  /\ Resume(next)
  /\ UNCHANGED <<lists, ticks_used, page_directory, esp0, next, memory>>

\* idle_loop: hlt with interrupts off.
IdleLoop == at = "kernel" /\ current_task = Idle /\ UNCHANGED vars

Next ==
  \/ task_create \/ task_create_user \/ Launch
  \/ Tick \/ OtherIrq \/ SysYield \/ SysGetKey \/ SysExit \/ KeyArrives
  \/ KernelYield \/ KernelExit
  \/ Reap \/ KeepRunning \/ Switch \/ Retire \/ Leave
  \/ IdleLoop

Spec == Init /\ [][Next]_vars

\* The timer goes on ticking, kernel tasks are cooperative and schedule runs
\* to its end.  Nothing is assumed of the boot code, the keys or user tasks.
Fairness ==
  /\ WF_vars(Tick)
  /\ WF_vars(KernelYield)
  /\ WF_vars(Reap \/ KeepRunning \/ Switch \/ Retire \/ Leave)

FairSpec == Spec /\ Fairness

-----------------------------------------------------------------------------
(***************************************************************************)
(* Properties                                                              *)
(***************************************************************************)

\* Every variable has its type.
TypeOK ==
  /\ task_list \in Seq(Tasks)
  /\ zombie_list \subseteq Tasks
  /\ current_task \in Tasks /\ next \in Tasks
  /\ state \in [Tasks -> {"none", "READY", "RUNNING", "TERMINATED"}]
  /\ ticks_used \in [Tasks -> 0 .. TIME_SLICE_TICKS - 1]
  /\ page_directory \in [Tasks -> Tasks]
  /\ esp \in [Tasks -> Frames]
  /\ esp0 \in Tasks \cup {Boot} /\ stack \in Tasks \cup {Boot}
  /\ cr3 \in Tasks
  /\ at \in {"boot", "user", "getchar", "kernel", "schedule", "switch", "leave"}
  /\ freed \subseteq Tasks /\ destroyed \subseteq Tasks

\* Every PCB is in one place (the task list, the zombie list or freed
\* memory) and once in the list, the idle task stays its last element, and
\* the running task is listed until schedule has unlinked it.
ListsSound ==
  /\ \A i, k \in DOMAIN task_list : task_list[i] = task_list[k] => i = k
  /\ Len(task_list) > 0 /\ task_list[Len(task_list)] = Idle
  /\ Created = Listed \cup zombie_list \cup freed
  /\ Listed \cap (zombie_list \cup freed) = {} /\ zombie_list \cap freed = {}
  /\ IF at = "leave" THEN current_task \in zombie_list
                     ELSE current_task \in Listed

\* One task runs and all the others of the list wait to; idle, RUNNING since
\* boot, never becomes READY ("idle stays RUNNING: round-robin picks READY
\* tasks only", kmain.c).
OneRunner ==
  \A t \in Listed :
    IF t = Idle THEN state[t] = "RUNNING"
    ELSE IF t # current_task THEN state[t] = "READY"
    ELSE state[t] \in IF at = "schedule" THEN {"RUNNING", "TERMINATED"}
                                          ELSE {"RUNNING"}

\* What schedule resumes has the shape the resuming instructions pop: the
\* interrupt frame of a user task, which iret ends, the frame of pusha and a
\* return address of a kernel task.
FramesFit ==
  \A t \in Listed :
    (state[t] = "READY" \/ t = Idle) =>
      IF t \in UserTasks THEN esp[t].kind = "iret" /\ esp[t].to # "kernel"
                         ELSE esp[t].kind = "popa"

\* Whoever runs, runs in its own address space; schedule changes to the next
\* one before it leaves the old stack, and kernel tasks, by whomever they
\* were created, use the kernel's directory.
AddressSpace ==
  /\ cr3 = page_directory[current_task]
  /\ \A t \in Created :
       page_directory[t] = IF t \in UserTasks THEN t ELSE Idle

\* The CPU idles only when no task could run (a task that exits hands over
\* to a READY one, not to its neighbour).
IdleOnlyWhenNothingReady ==
  (at = "kernel" /\ current_task = Idle) => \A t \in Tasks : state[t] # "READY"

\* No kernel stack or PCB is freed while it is needed: the stack the kernel
\* is on, the one the next interrupt from ring 3 switches to, and the frames
\* of the tasks that wait.
StacksLive ==
  /\ at = "user" => esp0 \notin freed
  /\ at \notin {"boot", "user"} => stack \notin freed
  /\ \A t \in Listed : state[t] = "READY" => esp[t].on \notin freed
  /\ current_task \notin freed

\* Each waiting task has its frame on its own kernel stack, so that nothing
\* that runs writes over it, and so has the running one for its next frame.
StacksPrivate ==
  /\ \A t \in Listed : state[t] = "READY" => esp[t].on = t
  /\ at = "user" => esp0 = current_task
  /\ at \notin {"boot", "user"} => stack = current_task

\* Every kernel stack that is needed is allocated and its task's own.
StacksSound == StacksLive /\ StacksPrivate

\* No page directory is destroyed while a task or the CPU uses it; the
\* kernel's never is.
DirectoriesLive ==
  destroyed \cap ({Idle, cr3} \cup {page_directory[t] : t \in Listed}) = {}

\* When a user task's memory is freed its page directory goes with it.
NoDirectoryLeaked ==
  \A t \in freed \cap UserTasks : page_directory[t] \in destroyed

-----------------------------------------------------------------------------
(***************************************************************************)
(* The inductive invariant behind the properties (SchedProofs).            *)
(***************************************************************************)

\* Who can be current where, what schedule's local variable holds between
\* its steps, and that what left the list is dead.
ControlInv ==
  /\ at = "boot" => current_task = Idle /\ zombie_list = {} /\ freed = {}
  /\ InterruptsOn => current_task \in UserTasks
  /\ at = "kernel" => current_task \notin UserTasks
  /\ at \in {"schedule", "switch", "leave"} => current_task # Idle
  /\ \A t \in zombie_list \cup freed : state[t] = "TERMINATED"
  /\ at = "switch" =>
       /\ zombie_list = {}
       /\ next \in Listed /\ state[next] = "READY"
  /\ at = "leave" =>
       /\ next \in Listed
       /\ IF next = Idle THEN \A t \in Tasks : state[t] # "READY"
                         ELSE state[next] = "READY"

\* The frames of the tasks that wait, of idle, and of a user task that
\* schedule is about to leave or to go back to.
FrameInv ==
  /\ FramesFit
  /\ \A t \in Listed \ UserTasks :
       state[t] = "READY" \/ t = Idle => esp[t].to = "kernel"
  /\ esp[Idle].on = Idle
  /\ (current_task \in UserTasks /\ at \in {"schedule", "switch"}) =>
       esp[current_task].kind = "iret" /\ esp[current_task].to # "kernel"

\* What exits only in the absence of other user tasks buys: no user task is
\* entered from the branch for terminated tasks, and no dead kernel task is
\* left for a user task to reap.
LoneExitInv ==
  LoneExits =>
    /\ StacksPrivate
    /\ (current_task \in UserTasks /\ at \in {"schedule", "switch"}) =>
         esp[current_task].on = current_task
    /\ (current_task \in UserTasks /\ at \in {"getchar", "schedule"}) =>
         esp0 = current_task
    /\ state[current_task] = "TERMINATED" =>
         \A t \in UserTasks \ {current_task} : t \notin Listed
    /\ current_task \in UserTasks => zombie_list \cap KernelTasks = {}
    /\ destroyed \subseteq freed \cap UserTasks

IInv == /\ TypeOK /\ ListsSound /\ OneRunner /\ AddressSpace
        /\ NoDirectoryLeaked /\ IdleOnlyWhenNothingReady
        /\ ControlInv /\ FrameInv /\ LoneExitInv

-----------------------------------------------------------------------------
\* Once tasks run, one that is READY gets the CPU.
NoStarvation ==
  \A t \in UserTasks \cup KernelTasks :
    (at # "boot" /\ state[t] = "READY") ~> (state[t] = "RUNNING")
=============================================================================
