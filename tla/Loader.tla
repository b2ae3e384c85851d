-------------------------------- MODULE Loader --------------------------------
(***************************************************************************)
(* The life of a program's memory: load_and_run_shell of kmain.c, with     *)
(* task_create_user, loads a program, and free_task of proc/task.c gives   *)
(* the memory back after its exit.  The module drives Vmm: its variables   *)
(* are Vmm's and the loader's own.  Every call is a step, an error exit    *)
(* with all it undoes is one.                                              *)
(***************************************************************************)
EXTENDS Vmm, Sequences

CONSTANTS
  FileSizes,       (* sizes of SHELL.BIN in pages                           *)
  MAX_FILE_PAGES,  (* larger files are refused (64)                         *)
  BSS_PAGES,       (* zeroed pages behind the file's (24)                   *)
  EXTRA_PHYS,      (* size of the array extra_phys (80)                     *)
  USER_VIRT,       (* size of user_virt_pages in the PCB (96)               *)
  CodeSlot,        (* slot of code_virt, 0x10000000                         *)
  LoadSlot,        (* slot of load_virt, 0x20000000                         *)
  DriverPages      (* how many pages the drivers may have taken before      *)

\* The addresses of the program and of the window lie above the identity mapping
\* (kmain.c: "user code can only go outside the kernel's mappings"), and the PCB has
\* room for the largest program.
ASSUME LoaderAssumption ==
  /\ FileSizes \subseteq Nat /\ DriverPages \subseteq Nat
  /\ MAX_FILE_PAGES \in Nat /\ BSS_PAGES \in Nat \ {0}
  /\ EXTRA_PHYS \in Nat /\ USER_VIRT \in Nat
  /\ CodeSlot \in Nat /\ LoadSlot \in Nat
  /\ kernel_pdes <= CodeSlot /\ kernel_pdes <= LoadSlot
  /\ CodeSlot + ((MAX_FILE_PAGES + BSS_PAGES + 1) \div Entries) < NSlots
  /\ LoadSlot + ((MAX_FILE_PAGES + BSS_PAGES - 1) \div Entries) < NSlots
  /\ MAX_FILE_PAGES + BSS_PAGES + 2 <= USER_VIRT

VARIABLES
  pc,
  file_pages,
  prog,        (* code_phys and extra_phys: the program's pages in order    *)
  stack,       (* stack_phys and stack_phys2                                *)
  task,        (* the pages of the PCB and of the kernel stack              *)
  dir,         (* target_dir, or NoPage                                     *)
  pi,          (* the loop counter                                          *)
  loaded,      (* the file was read completely                              *)
  user_virt_pages,
  drivers      (* the drivers' pages                                        *)

locals == <<file_pages, prog, stack, task, dir, pi, loaded, user_virt_pages,
            drivers>>
lvars == <<vars, pc, locals>>

code_pages == file_pages + BSS_PAGES
Addr(slot, n) == <<slot + (n \div Entries), n % Entries>>
CodeAddr(n) == Addr(CodeSlot, n)
LoadAddr(n) == Addr(LoadSlot, n)
ElementsOf(seq) == {seq[n] : n \in DOMAIN seq}

LoaderInit ==
  /\ Init
  /\ pc = "drivers"
  /\ file_pages = 0 /\ prog = <<>> /\ stack = <<>> /\ task = {} /\ dir = NoPage
  /\ pi = 0 /\ loaded = FALSE /\ user_virt_pages = {} /\ drivers = {}

\* The drivers have allocated their buffers when the loader starts.
DriversBoot ==
  /\ pc = "drivers" /\ pc' = "find"
  /\ \E n \in DriverPages :
       drivers' = {p \in free : p < KernelPages + num_page_tables + n}
  /\ free' = free \ drivers' /\ held' = drivers'
  /\ UNCHANGED <<dirs, pde, pde_user, pte, pte_user, current_directory, tlb,
                 file_pages, prog, stack, task, dir, pi, loaded, user_virt_pages>>

-----------------------------------------------------------------------------
(***************************************************************************)
(* Error exits                                                             *)
(***************************************************************************)

\* The entries of directory d at a set of addresses are cleared.
Cleared(d, addrs) ==
  LET gone(t, i) == \E a \in addrs : pde[d][a[1]] = t /\ a[2] = i
  IN  /\ pte' = [t \in Pages |-> [i \in Indices |-> IF gone(t, i) THEN NoPage ELSE pte[t][i]]]
      /\ pte_user' = {e \in pte_user : ~ gone(e[1], e[2])}
      /\ tlb' = {e \in tlb : <<e[1], e[2]>> \notin addrs}

\* Undo: unmap addresses of the program's directory and free pages.
Undo(addrs, pages) ==
  /\ IF dir = NoPage THEN UNCHANGED <<pte, pte_user, tlb>> ELSE Cleared(dir, addrs)
  /\ free' = free \cup pages
  /\ held' = held \ pages
  /\ UNCHANGED <<dirs, pde, pde_user, current_directory>>

Fail(addrs, pages) == pc' = "failed" /\ Undo(addrs, pages) /\ UNCHANGED locals

Code == {prog[1]}

-----------------------------------------------------------------------------
(***************************************************************************)
(* load_and_run_shell                                                      *)
(***************************************************************************)

\* The file is not there, is too large, or is loaded.
TooLarge(n) == n > MAX_FILE_PAGES
FindFile ==
  /\ pc = "find"
  /\ \/ pc' = "failed" /\ UNCHANGED file_pages
     \/ \E n \in FileSizes :
          /\ file_pages' = n
          /\ pc' = IF TooLarge(n) THEN "failed" ELSE "code"
  /\ UNCHANGED <<vars, prog, stack, task, dir, pi, loaded, user_virt_pages, drivers>>

AllocCode ==
  /\ pc = "code"
  /\ \/ /\ CallerAlloc
        /\ prog' = <<Alloc>>
        /\ pc' = "task"
        /\ UNCHANGED <<file_pages, stack, task, dir, pi, loaded, user_virt_pages, drivers>>
     \/ free = {} /\ Fail({}, {})

\* task_create_user: the PCB, the kernel stack, the directory.  When one is
\* not to be had the ones before are freed, and the loader's code page.
CreatePages ==
  /\ pc = "task"
  /\ IF free = {} THEN Fail({}, task \cup Code)
     ELSE /\ CallerAlloc
          /\ task' = task \cup {Alloc}
          /\ pc' = IF task = {} THEN "task" ELSE "dir"
          /\ UNCHANGED <<file_pages, prog, stack, dir, pi, loaded, user_virt_pages, drivers>>

CreateDirectory ==
  /\ pc = "dir"
  /\ \/ /\ vmm_create_directory
        /\ dir' = Alloc
        /\ pc' = "map_code"
        /\ UNCHANGED <<file_pages, prog, stack, task, pi, loaded, user_virt_pages, drivers>>
     \/ free = {} /\ Fail({}, task \cup Code)

\* vmm_map_page returns false: no page for a table.
MapFails(d, a) == pde[d][a[1]] = NoPage /\ free = {}

MapCode ==
  /\ pc = "map_code"
  /\ IF MapFails(dir, CodeAddr(0)) THEN Fail({}, Code)
     ELSE /\ vmm_map_page(dir, CodeAddr(0)[1], CodeAddr(0)[2], prog[1], TRUE)
          /\ pc' = "extra"
          /\ UNCHANGED locals

ExtraUndone == ElementsOf(prog)
AllocExtra ==
  /\ pc = "extra"
  /\ IF Len(prog) = code_pages
     THEN /\ pc' = "map_extra" /\ pi' = 1
          /\ UNCHANGED <<vars, file_pages, prog, stack, task, dir, loaded,
                         user_virt_pages, drivers>>
     ELSE IF free = {} THEN Fail({CodeAddr(0)}, ExtraUndone)
     ELSE /\ CallerAlloc
          /\ prog' = Append(prog, Alloc)
          /\ UNCHANGED <<pc, file_pages, stack, task, dir, pi, loaded,
                         user_virt_pages, drivers>>

MappedSoFar == {CodeAddr(n) : n \in 0 .. pi - 1}
MapExtra ==
  /\ pc = "map_extra"
  /\ IF pi = code_pages
     THEN /\ pc' = "window" /\ pi' = 0
          /\ UNCHANGED <<vars, file_pages, prog, stack, task, dir, loaded,
                         user_virt_pages, drivers>>
     ELSE IF MapFails(dir, CodeAddr(pi)) THEN Fail(MappedSoFar, ElementsOf(prog))
     ELSE /\ vmm_map_page(dir, CodeAddr(pi)[1], CodeAddr(pi)[2], prog[pi + 1], TRUE)
          /\ pi' = pi + 1
          /\ UNCHANGED <<pc, file_pages, prog, stack, task, dir, loaded,
                         user_virt_pages, drivers>>

\* The program's pages, in order, at load_virt in the current directory; the
\* results are not looked at.
\* Mutant of WindowPage: the array is indexed by pi.
WindowPageOff == prog[IF pi = 0 THEN 1 ELSE IF pi + 2 \in DOMAIN prog THEN pi + 2 ELSE 1]
WindowPage == prog[pi + 1]
MapWindow ==
  /\ pc = "window"
  /\ IF pi = code_pages
     THEN pc' = "load" /\ UNCHANGED <<vars, pi>>
     ELSE /\ IF MapFails(current_directory, LoadAddr(pi)) THEN UNCHANGED vars
             ELSE vmm_map_page(current_directory, LoadAddr(pi)[1], LoadAddr(pi)[2],
                               WindowPage, FALSE)
          /\ pi' = pi + 1
          /\ UNCHANGED pc
  /\ UNCHANGED <<file_pages, prog, stack, task, dir, loaded, user_virt_pages, drivers>>

Window(n) == Translation(KernelDir, LoadAddr(n)[1], LoadAddr(n)[2])

\* The file is read, perhaps not to its end, and the rest zeroed; writing to
\* an address without a page is a fault.
LoadFile ==
  /\ pc = "load"
  /\ IF \E n \in 0 .. code_pages - 1 : Window(n) = NoPage
     THEN pc' = "fault" /\ UNCHANGED loaded
     ELSE pc' = "unwindow" /\ loaded' \in BOOLEAN
  /\ UNCHANGED <<vars, file_pages, prog, stack, task, dir, pi, user_virt_pages, drivers>>

\* The window is taken down before the result is looked at.
WindowAddrs == {LoadAddr(n) : n \in 0 .. code_pages - 1}
UnmapWindow ==
  /\ pc = "unwindow"
  /\ Cleared(current_directory, WindowAddrs)
  /\ pc' = IF loaded THEN "stack" ELSE "halted"
  /\ UNCHANGED <<free, held, dirs, pde, pde_user, current_directory, locals>>

\* Two pages for the stack.  The exits from here on undo the first code page
\* and no other page of the program.
AllocStack ==
  /\ pc = "stack"
  /\ IF Len(stack) = 2
     THEN pc' = "map_stack" /\ pi' = 0
          /\ UNCHANGED <<vars, file_pages, prog, stack, task, dir, loaded,
                         user_virt_pages, drivers>>
     ELSE IF free = {} THEN Fail({CodeAddr(0)}, ElementsOf(stack) \cup Code)
     ELSE /\ CallerAlloc
          /\ stack' = Append(stack, Alloc)
          /\ UNCHANGED <<pc, file_pages, prog, task, dir, pi, loaded,
                         user_virt_pages, drivers>>

StackAddr(n) == CodeAddr(code_pages + n)
\* Mutant of StackUndone: the first stack page stays mapped.
StackUndoneNot == {CodeAddr(0)}
StackUndone == {CodeAddr(0)} \cup {StackAddr(n) : n \in 0 .. pi - 1}
MapStack ==
  /\ pc = "map_stack"
  /\ IF MapFails(dir, StackAddr(pi)) THEN Fail(StackUndone, ElementsOf(stack) \cup Code)
     ELSE /\ vmm_map_page(dir, StackAddr(pi)[1], StackAddr(pi)[2], stack[pi + 1], TRUE)
          /\ pi' = pi + 1
          /\ pc' = IF pi = 1 THEN "launch" ELSE "map_stack"
          /\ UNCHANGED <<file_pages, prog, stack, task, dir, loaded, user_virt_pages,
                         drivers>>

\* The pages are registered for free_task, as many as the PCB holds, and the
\* processor goes to ring 3 in the program's directory.
\* Mutant of Registered: without the second stack page.
RegisteredOne == {CodeAddr(n) : n \in 0 .. code_pages}
Registered == {CodeAddr(n) : n \in {n \in 0 .. code_pages + 1 : n < USER_VIRT}}
LaunchShell ==
  /\ pc = "launch" /\ pc' = "running"
  /\ user_virt_pages' = Registered
  /\ vmm_switch_directory(dir)
  /\ UNCHANGED <<file_pages, prog, stack, task, dir, pi, loaded, drivers>>

-----------------------------------------------------------------------------
(***************************************************************************)
(* The end of the program                                                  *)
(***************************************************************************)

\* schedule has gone to another task and its directory.
LeaveTask ==
  /\ pc = "running" /\ pc' = "zombie"
  /\ vmm_switch_directory(KernelDir)
  /\ UNCHANGED locals

\* free_task: the registered pages, the kernel stack, the directory with its
\* tables, the PCB.
free_task ==
  LET backed == {a \in user_virt_pages : Translation(dir, a[1], a[2]) # NoPage}
      pages == {Translation(dir, a[1], a[2]) : a \in backed} \cup task
  IN  /\ pc = "zombie" /\ pc' = "reaped"
      /\ Cleared(dir, backed)
      /\ free' = free \cup pages \cup FreedWith(dir)
      /\ held' = held \ pages
      /\ dirs' = dirs \ {dir}
      /\ UNCHANGED <<pde, pde_user, current_directory, locals>>

Finished == pc \in {"failed", "fault", "halted", "reaped"} /\ UNCHANGED lvars

LoaderNext ==
  \/ DriversBoot \/ FindFile \/ AllocCode \/ CreatePages \/ CreateDirectory
  \/ MapCode \/ AllocExtra \/ MapExtra \/ MapWindow \/ LoadFile \/ UnmapWindow
  \/ AllocStack \/ MapStack \/ LaunchShell \/ LeaveTask \/ free_task
  \/ Finished

LoaderSpec == LoaderInit /\ [][LoaderNext]_lvars

-----------------------------------------------------------------------------
(***************************************************************************)
(* Properties                                                              *)
(***************************************************************************)

\* The loader's variables have their types.
LoaderTypeOK ==
  /\ TypeOK
  /\ pc \in {"drivers", "find", "code", "task", "dir", "map_code", "extra", "map_extra",
             "window", "load", "unwindow", "stack", "map_stack", "launch", "running",
             "zombie", "failed", "fault", "halted", "reaped"}
  /\ file_pages \in FileSizes \cup {0}
  /\ prog \in Seq(Pages) /\ stack \in Seq(Pages) /\ Len(stack) <= 2
  /\ task \subseteq Pages /\ dir \in Pages \cup {NoPage}
  /\ pi \in 0 .. code_pages + 1 /\ loaded \in BOOLEAN
  /\ user_virt_pages \subseteq Slots \X Indices
  /\ drivers \subseteq Pages

\* Through the window the file's pages land in the program's pages in order,
\* and never in a page of anybody else ("writing on by physical address ran
\* into other pages: it overwrote the PCB of idle", kmain.c).
WindowFaithful ==
  pc \in {"window", "load"} =>
    \A n \in 0 .. code_pages - 1 :
      Window(n) # NoPage => n + 1 \in DOMAIN prog /\ Window(n) = prog[n + 1]

\* The program runs with every page of its code, bss and stack mapped, in its
\* own directory and with nothing else open to it.
ProgramComplete ==
  pc = "running" =>
    /\ current_directory = dir
    /\ \A n \in 0 .. code_pages + 1 :
         Translation(dir, CodeAddr(n)[1], CodeAddr(n)[2]) = (prog \o stack)[n + 1]
    /\ \A s \in Slots, i \in Indices :
         (<<dir, s>> \in pde_user /\ <<pde[dir][s], i>> \in pte_user) =>
           \E n \in 0 .. code_pages + 1 : <<s, i>> = CodeAddr(n)

\* The program that runs is the file: its pages were filled through the window in
\* order (load_and_run_shell), and it finds them, its bss and its stack.
ProgramFaithful == WindowFaithful /\ ProgramComplete

\* When the loader gives up, before or after it has a task, it has freed the
\* code page and the stack's pages; what it keeps are the task's pages and,
\* if it fails in the steps for the stack, the extra pages.
FailureFrees ==
  pc = "failed" =>
    held \ drivers \subseteq
      (IF dir = NoPage THEN {} ELSE task) \cup
      (IF loaded THEN ElementsOf(Tail(prog)) ELSE {})

\* "Allocate all the extra pages at once, free them together on failure, no
\* leak any more" (kmain.c).
ExtraNotLeaked == pc = "failed" /\ prog # <<>> => held \cap ElementsOf(Tail(prog)) = {}

\* "First map contiguous virtual addresses in the kernel directory": the
\* loader writes to mapped addresses only.
WindowMapped == pc = "load" => \A n \in 0 .. code_pages - 1 : Window(n) # NoPage

\* The extra pages fit into extra_phys.
ExtraFits == Len(prog) - 1 <= EXTRA_PHYS

\* After free_task nothing of the program is left: all its pages are free
\* but the tables of the kernel's window.
ExitReturnsAll ==
  pc = "reaped" =>
    /\ held = drivers /\ dirs = {}
    /\ free = Pages \ (0 .. KernelPages - 1 \cup drivers \cup TablesOf(KernelDir))

\* Memory comes back, from the error exits of load_and_run_shell and from the
\* program's end.
PagesReturned == FailureFrees /\ ExitReturnsAll

\* The window is taken down completely: of the mappings above the identity
\* mapping the kernel's directory keeps none.
WindowClosed ==
  pc \in {"stack", "map_stack", "launch", "running", "zombie", "halted", "reaped"} =>
    \A s \in Slots, i \in Indices :
      s >= num_page_tables => Translation(KernelDir, s, i) = NoPage

\* Through the whole of the loading, in all its error exits too, the paging
\* structures stay sound (see Vmm): a page that is mapped for the program is
\* held by it, no page is lost, no table in use is free, and the window is
\* taken down completely.
PagingSound ==
  LoaderTypeOK /\ MappedHeld /\ PagesAccounted /\ TablesLive /\ WindowClosed
=============================================================================
