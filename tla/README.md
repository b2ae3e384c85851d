# HaoOS in TLA+

A verification project for HaoOS (Hao-sys), a 32-bit x86 hobby kernel: physical
and virtual memory, tasks with a preemptive round-robin scheduler, FAT file
systems behind a mount table, ATA and USB drivers, a text console and one user
program, the shell. The modules here are translated from the C and assembly
source; TLC checks them on small instances and TLAPS proves the main results for
all parameters.

## 1. The system

| part | state | operations | interacts with |
|---|---|---|---|
| `mm/pmm.c` page allocator | bitmap, free list threaded through the free pages, `free_pages` | `pmm_init`, `pmm_alloc_page`, `pmm_alloc_contiguous`, `pmm_free_page` | called by vmm, tasks, loader, USB |
| `mm/vmm.c` paging | kernel directory, user directories, page tables | create, destroy, map, unmap, switch | pages from pmm, CR3 |
| `proc/task.c`, `proc/switch.asm` tasks | task list, zombie list, PCBs, TSS.esp0, CR3 | create, `schedule`, `yield`, `task_exit` | entered from timer, system calls |
| `syscall/isr_asm.asm`, `driver/pit.c` | saved frame in the PCB, `ticks_used` | interrupt entry, time slice | calls `schedule` |
| `kmain.c` | boot order, shell loader | `kinit`, `load_and_run_shell` | everything |
| `fs/fat.c` | FAT, directories, clusters on disk, one sector buffer | mount, find, read, write, delete, mkdir, meta | block devices |
| `fs/vfs.c` | mount table, device table | register, mount, umount, resolve | fat, syscall |
| `syscall/syscall.c` | credentials in the PCB | 44 calls, permission checks | all |
| `driver/usb_*.c` | TD pool, queue head, URBs, rings | control, bulk, interrupt transfers, BOT, HID | hardware, pmm |
| `driver/keyboard.c`, `driver/mouse.c` | ring, modifiers, packet bytes, pointer | IRQ handlers, polling loops | PS/2 controller |
| `driver/vga.c` | video memory, cursor, protected region | write, scroll, clear, move the cursor | the mouse pointer, in the same memory |
| `user/shell.c` | line buffer, history, where the line starts on the screen | prompt, line editor, commands | system calls only |
| `driver/ata.c` | which drives are there | identify, read, write a sector | drives that work by themselves |
| `driver/rtc.c` | `boot_epoch` | time, date, epoch, uptime | a clock that goes on |
| `driver/pic.c`, `pci.c`, `speaker.c` | none | port reads and writes | ports |

What is hard: the kernel runs with interrupts off except while a task sleeps in
`keyboard_get_char`, so concurrency comes from the timer preempting ring 3 and
that one window, from hardware that runs beside the CPU (UHCI, PS/2, RTC), and
from memory that is freed while something still stands on it. Failures are
allocations that return NULL and sectors that cannot be written. `PROJECT.json`
lists the hazards at their lines. Drivers poll devices for a limited number of
turns and give up, and the device goes on.

What makes each part correct: a page has one owner and none is lost (pmm); a
shared table is never freed and a private one always is (vmm); what is resumed
has the right frame on a live stack in a live directory, and nobody starves
(tasks); the FAT has no cross-linked or lost clusters and a failed write keeps
the old file (fat); a failed mount changes no other point (vfs); a descriptor belongs
to one transfer and every submitted transfer completes (usb); packets stay in
step with the device (mouse); the line on the screen is the line that will be
executed (shell); the pointer leaves no trace in the text (screen); nobody gets
more rights than given (permissions); the result of a call says what the drive did
(ata); a time read is near one the clock showed (rtc); an address belongs to one
device (USB enumeration).

## 2. The plan

The order is that of dependence and of damage: what everything stands on first.

| step | module | composes | state of the plan |
|---|---|---|---|
| 1 | `Pmm`, refines `PageAllocator` | | modelled, checked, proved |
| 2 | `Sched` (tasks, interrupt entry, time slice) | | modelled, checked, safety proved |
| 3 | `Vmm` | an allocator reduced to its free set | modelled, checked, proved |
| 4 | `Loader` (`load_and_run_shell`, exit, `free_task`) | extends `Vmm` | modelled, checked, proved |
| 5 | `Fat` (FAT16, one sector write per step, faults) | | modelled, checked, proved |
| 6 | `Vfs` with `Probe`, refines `MountTable` | extends `Probe` | modelled, checked, proved |
| 7 | `Usb` (UHCI schedule, bulk-only commands, HID transfers) | | modelled, checked, safety proved |
| 8 | `Ps2` (keyboard, mouse, their reading loops) | | modelled, checked, safety proved |
| 9 | `Permissions` (credentials and checks of `syscall.c`) | | modelled, checked, proved |
| 10 | `Vga` (screen and pointer), `Shell` (line editor and main loop) | `Shell` extends `Vga` | modelled, checked, proved |
| 11 | `Ata`, `Rtc`, `UsbBus` (enumeration and claiming), `UsbKeys` (reports and ring) | `Devices` extends all four | modelled, checked, proved |
| 12 | proofs for `Loader`, `Vfs` (routing, and refinement of `MountTable`), `Usb`, `Ps2`, `Ata`, `Rtc`, `UsbKeys`, `UsbBus`, `Shell`, `Fat` | | proved |

The plan has no open step; section 5 says what is only model-checked.

## 3. Modules and code

Each module says in its heading what it models and each definition keeps the
name of the function it translates where there is one; `PROJECT.json`, "map",
gives the lines. Definitions introduced as "Mutant of X" are plausible wrong
versions of X: they are used by no specification and show that the properties
would notice.

**Pmm** (`mm/pmm.c`). `bitmap`, `free_pages`, `link` (the first word of every
page: the list's while the page is free, the owner's afterwards), the head of the
list, and the local variables of the loops. `pmm_init` is the actions of `Boot`,
one loop iteration each (`MarkEntry`, `CountFree`, `ReserveKernel`,
`ReserveBitmap`, `BuildList`); `pmm_alloc_contiguous` is `StartScan`, `ScanPage`,
`SkipRun`, `ExtendRun`, `WalkList`, `UnlinkPage`, `ReturnRun`; `AllocPage` and
`FreePage` are one step. `WriteOwned` lets owners overwrite the word that was the
link. The entries of the memory map are read at the stride and with the fields of
`multiboot.h`, so what the code makes of a real map is modelled, not what it means
to. **PageAllocator** is the promise: a set of free pages, taken and given back.

**Sched** (`proc/task.c`, `proc/switch.asm`, `syscall/isr_asm.asm`,
`driver/pit.c`, the wait of `driver/keyboard.c`, the jump to ring 3 of
`kmain.c`). Lists, states, the saved frame of a PCB as the triple of shape, stack
and continuation, `TSS.esp0`, CR3, and where the CPU is. `Tick`, `OtherIrq`,
`SysYield`, `SysGetKey`, `SysExit`, `KernelYield`, `KernelExit` enter the kernel;
`Reap`, `KeepRunning`, `Switch`, `Retire` and `Leave` are the stretches of
`schedule` between which the stack or the directory in use changes.

**Vmm** (`mm/vmm.c`). Directory and table contents per page, USER bits, the
directories alive, CR3, and the processor's translation cache `tlb`, which fills
at any time (`Fill`) and is emptied by `invlpg` and a CR3 load only. Callers take,
map, unmap and free pages in any order the kernel's callers could.

**Loader** (`kmain.c:109`ff, `task_create_user`, `free_task`) drives `Vmm`: one
step per call, an error exit with all it undoes is one step. Before it,
`DriversBoot` takes any number of pages, so that each allocation of the loader
fails in some behaviour.

**Fat** (`fs/fat.c`). The table, the root directory, the contents of clusters
(directory entries or a part of a file) and the operation under way. Searches are
atomic, because one caller at a time is in the file system; every sector write is
a step that may fail (`Faults`), and `PowerCut` may happen between two. `fat_mkdir`
is four of them: the table, the zeros (`ZeroStep`, whose failure the code does not
notice), the dots, the entry of the parent. If the zeros fail the directory begins
with what its cluster held before: the entries of an old directory, or the data of a
file, which reads as a number of `Junk` entries (`Readings`) up to the zeros that
fill its last sector. Freeing a FAT16 chain also writes table entry 0xFFF8, whose
mirror lies in the data area: on the volumes of `create_disk.sh` and `make_image.sh`
(one reserved sector, two tables of 128 sectors) the entry is in sector 256, the last
of the second table, and the mirror in sector 384, the second of cluster 49.
`Struck` is the cluster that this write clears. The history variable `last` holds what
each path should contain, `ruined` whether the stray write has cleared a directory.

**Vfs**, **Probe** (`fs/vfs.c`, `fs/probe.c`, `fat_mount`). Points and paths are
sequences of characters, since the routing compares characters. **MountTable** is
the promise: at each point the device mounted last with success. A mount that fails
(`MountFails`) changes no other point; at a point in use it has already overwritten
the file system, which is the action `Fail` and the set `broken` of the promise.

**Usb** (`driver/usb_controller.c`, `usb_hid.c`, `usb_mass_storage.c`). The
descriptor pool, the queue head's element link, the URBs, the state of the current
synchronous transfer and command. The controller (`HcOther`, `HcCbw`, `HcData`,
`HcCsw`, `HcError`) executes the descriptor under the link at any time, also
between two looks of the driver; the storage device (external) answers commands in
the order it got them.

**Ps2** (`driver/keyboard.c`, `driver/mouse.c`). The controller's buffer, the ring,
the modifiers, the packet under assembly, the pending mouse interrupt, and the
reading loops. Bytes are numbered per device, so "complete and in order" can be
said.

**Vga** (`driver/vga.c`, the pointer of `driver/mouse.c`). The static variables and
the video memory are one record, and each function that runs with interrupts off is
an operator on it. **Shell** (`user/shell.c`, the screen calls of `syscall.c`) has
the main loop and the line editor: `Insert`, `Backspace`, `Left`, `Right`, `Up`,
`Down`, `Enter`, `PollMouse` decide from the shell's variables which system calls
follow (`todo`), and `Call` executes one. Between two of them `MouseReport` draws
the pointer and `KernelMessage` writes. `plain` is the screen on which no pointer was
ever drawn.

**Permissions** (`syscall/syscall.c`, the meta data of `fs/fat.c`). Credentials per
task, directory entries with their meta data, contents as a bit; `owner` is the user
who made a file or to whom root gave it, independent of what the disk says. A call
is a step: the gate turns interrupts off and none of these calls sleeps. That the
result of `fat_set_file_meta` is not looked at is the constant `MetaFails`.

**Ata** (`driver/ata.c`). Status bits and command of each drive, the drive that is
selected, the contents, and the call under way. A look at the status is a step of
the driver; `DriveReady`, `DriveCommits`, `DriveFails` and `DriveRefuses` are steps of
a drive, also of one the driver has given up on.

**Rtc** (`driver/rtc.c`). The clock with its calendar, the registers that a call has
read so far. `ReadRegister` is a step, `Tick` may come between two. The uptime is a difference of
`uint32_t` values and wraps at `WORD`. `DayPasses` lets
the clock run over the century while the machine is off.

**UsbBus** (`usb_controller.c`, the detection in `usb_hid.c`, `usb_mass_storage.c`,
`mouse.c`). Ports, addresses and configurations of the devices, the recursion through
the hubs as a stack of ports, the device list, and the drivers that walk it. A control
transfer may be lost, executed and reported as failed, or reported as done and not
executed. **UsbKeys** (`usb_hid.c`) has the reports of a keyboard, the comparison with
the report before, and the ring. **Devices** puts these four beside each other; as
they share no state and their calls do not overlap, a behaviour follows one of them.

## 4. Runs

| run | states | what it shows | bounds, and why they are enough |
|---|---|---|---|
| `pmm` | 80,372 | bitmap, free list and counter agree; no page has two owners or is lost; first fit; refinement of `PageAllocator` | 8 pages, kernel and bitmap on 1..3, so 4 pages can be free: a run of 3 (`MaxRun`) with a page left over, and every place of a page in the list (head, middle, end). Four memory maps: none, a PC's, one whose last entry is inside memory, one that leaves nothing free. `Words`: an owner's word is the end mark or looks like a link |
| `sched` | 13,869 | lists, frames, stacks, directories; no READY task starves | 2 user and 2 kernel tasks: two of each kind are what the branches on `is_user` and on "another one is READY" tell apart |
| `vmm` | 72,369 | ownership of tables, isolation, coherence of the cache | tables of 3 entries, 8 pages, 4 slots: three shared tables, one private slot, a free page or two for a second directory and for callers; at most one cached translation (`MaxCached`), since coherence speaks of each alone |
| `loader` | 1,610 | the program gets its file in order and all its pages; failures and the exit give back | files of 0..5 pages with a limit of 4, so both sides of the limit; any number of pages taken before, so that every allocation is the one that fails |
| `fat` | 937,185 | no cross-linked or lost cluster, last write found but for the sector that the stray write clears | 3 clusters, the second of which is `Struck`, 3 root slots, files of up to 2 clusters: the volume fills up inside a write and an overwrite, a directory takes a cluster, slots are reused, and the stray write hits each part of a file, a directory and a free cluster |
| `fat_faults` | 1,379,099 | files stay intact through one failing write or power cut, but for the same sector | as above; one fault, because the code does nothing that depends on an earlier one; a file's sector reads as a full sector of entries or as one with an end mark (`Readings`) |
| `vfs` | 3,335 | the table, the routing, the recognition, refinement of `MountTable` | nested and similar points (`/a`, `/ab`, `/a/b`), a volume, a partition, a disk recognised but not mountable; 3 slots for 4 points and 2 entries for 3 devices, so both tables fill; all paths of up to six characters over `/ab` |
| `usb` | 1,659,205 | nothing of a finished transfer stays hooked, exact pool, truthful commands, keyboard never stops | a keyboard, 2 commands, 1 other control transfer, 1 failing transaction, 2 attempts; each wait gives up after at most one look, so that time-outs happen in every stage |
| `ps2` | 340,672 | packets stay aligned, keys complete, in order, in the right case and delivered | buffer of 2 bytes, ring of 2, 2 bytes during one stretch with interrupts off, 2 commands; bytes are numbered modulo 3, the length of a packet |
| `shell` | 2,586,729 | the line shown is the line executed; the pointer leaves no trace; protected text is kept | a screen of 3 by 3 cells and lines of up to 4 characters, so a line takes two rows and the screen scrolls while it is edited; 2 lines of history; the mouse at the first cell and in the last row; 6 events (`MaxEvents`): a line, its execution and a second line recalled from the history |
| `permissions` | 268,608 | dropping root is final; the disk names the true owner; private files stay private | 2 tasks, root and two users (the owner, another), two groups, a directory and a file in it, a private and a shared mode: all that the checks tell apart |
| `devices` | 636,933 | truthful results of the disk; exact day count; bounded error of a time; own addresses and sound claims; a key once | 2 drives of 2 sectors, 3 calls, 2 looks per wait, one failing command: a drive given up on finishes in the middle of the next call. The century day by day; a clock of 2 hours of 2 minutes of 2 seconds, whose century fits a word of 2^20, switched on a second before the end of a leap February, another February and a year, 2 seconds. Two hubs, one behind the other, with a stick, a keyboard and a mouse; one lapse at any request. 3 keys, a ring for 2 characters, 6 changes, one lost report |

A property that has parts says so in its definition: `StacksSound` is `StacksLive`
and `StacksPrivate`, `TablesSound` is `TablesOwned` and `TablesLive`,
`RingThreeConfined` is `SharedNeverUser` and `UserIsolation`, `ProgramFaithful` is
`WindowFaithful` and `ProgramComplete`, `PagesReturned` is `FailureFrees` and
`ExitReturnsAll`, `FilesIntact` is `ChainsSound` and `LastWriteFound` unless `ruined`, `RoutesRight` is
`TableSound` and `ResolvesByComponents`, `ScheduleSound` is `NothingLeftHooked` and
`PoolExact`, `BusSound` is `AddressesOwn`, `ClaimsSound` and `AllFound`.

Four configurations identify states by a VIEW that leaves out what no action reads:
contents of pages that are neither directory nor table (`MCVmm`: a page is cleared
when it becomes one), what free clusters contain and what the data of files reads as
(`MCFat`: it is written before an entry leads to it, unless the zeros of a new
directory can still fail, in which case it is part of the view, `ReadAgain`), and
unmounted slots (`MCVfs`: overwritten by the mount that takes them). The properties
do not read them either. `MCFat` also takes all `ruined` states for one, as both
properties claim nothing there.

Deadlock is checked except where the system may rest: services that wait for a call,
whose bounds may leave none enabled (`fat`, `fat_faults`, `vfs`, `vmm`, `permissions`),
and behaviours whose events are counted (`shell`, `devices`).

**Fairness.** `sched`: the timer ticks (100 Hz, `pit.c`), a kernel task that runs
reaches its next `yield`, and `schedule` goes on once entered; user code may run for
ever. `usb`: driver code goes on, `usb_poll` is called again and again (every turn of
the key wait, which the timer wakes, calls it), and the controller executes an active interrupt descriptor; nothing is
assumed of the storage device. Commands and failures are finite in a behaviour.
`ps2`: the mouse answers commands, code that runs goes on, the timer wakes a
halted reader, and the shell keeps asking for keys (strong, because it may be away
in other calls in between).

## 5. Proofs

The results below hold for every value of the constants that satisfies the assumptions
of the module and what is named as assumed here.

**PmmProofs.** Assumed: `GeometryAssumption` (at least the pages below 1 MB exist,
the bitmap starts where the kernel ends) and `MemoryMapAssumption`. The inductive
invariant is `TypeOK`, `CountInv` (the counter is the number of set bits, less the
ones the current loop still has to account for), `ReserveInv` (what the reserving loops have
passed is off the bitmap), `ListInv` (the list built so far is acyclic and holds
exactly the pages it should, the current one of an unlinking loop apart), `OwnerInv`,
`ScanInv` and `UnlinkInv` (what the scan of `pmm_alloc_contiguous` has seen, and
which of the run has been unlinked) and `ContiguousFirstFit`. The list is
carried as a history variable, the sequence `chain` of its pages; `ListCons`, `ListTail` and
`ListRemove` are the three ways it changes. From it follow `FreeListCorrect`,
`ExclusiveOwnership`, `CountCorrect`, `FirstFitCorrect`, the action property
`NothingLost` and `Refinement`.

**TaskProofs.** Two parts. For the scheduler, assumed: `TaskAssumption` (task names are distinct; limits
positive). `IInv` adds to the listed properties that one listed task runs
(`OneRunner`), that CR3 is its directory (`AddressSpace`), that a freed user task's
directory is destroyed (`NoDirectoryLeaked`), what the control state says about
states, stacks and frames (`ControlInv`, `FrameInv`), and, if `LoneExits`, where stacks can
be when a task exits (`LoneExitInv`). The results on stacks and directories hold
under `LoneExits` only: without it they are false, see section 6. `MAX_TASKS`
only limits the search for a READY task, and any positive value will do: all
listed tasks but the running one and idle are READY, so one of the first two
places looked at is (`SearchSucceeds`).

For the permissions, assumed: `PermissionsAssumption`, and `Fits` (user numbers fit
the 16 bits of an entry, and the meta data of a new or overwritten file is written);
without it `OwnerTrue` is false, see section 6. `PermInv` is `PermTypeOK`,
`RealIsEffective` and `OwnerTrue`: files are stamped with the real user while checks
use the effective one, so an owner is true only because the two never differ, and they
never differ because only root can set them and sets both. `DroppingIsFinal` and
`PrivateFilesKept` then look at one step: for the latter every call is shown to ask
the file, or the directory above it, before it touches the entry.

**VmmProofs.** Assumed: `VmmAssumption` (memory holds the kernel and its tables, a
directory covers memory) and `~ LateDirectories`. `IInv` adds `SharedBelow` (the
identity mapping is shared by all directories, and no table above `kernel_pdes`
is), `MappedHeld` (above the identity mapping only pages that callers hold are
mapped), `Apart` (directories, tables and the kernel image are different pages), `PagesAccounted` and `KernelMapped`.

`TablesAlwaysSound`, `RingThreeAlwaysConfined` and `CacheCoherent` are the properties
of the run; the theorems for their parts come before them.

**VmmProofs, the loader.** Assumed: `LoaderAssumption` besides (the program and the load
window lie above the identity mapping and inside a directory, and the PCB has room for
the largest program). The one directory is made before the window exists, so nothing
is asked of `LateDirectories`. `LInv` adds to `IInv`
what each stage of `load_and_run_shell` has done (`Stages`), that a page held has one user
and one place (`HeldOnce`), what is mapped above the identity mapping in the
kernel's directory (`WindowOnly`) and in the program's (`ProgramOnly`), and the two parts of
`PagesReturned`. `HeldOnce` is what makes the error exits right: a page
that is freed there is in no table that stays. `ProgramAlwaysFaithful`,
`PagesAlwaysReturned` and `PagingAlwaysSound` are the properties of the run.

**UsbProofs.** Assumed: `UsbAssumption` (the pool has room for all interrupt transfers and
a chain of three). `IInv` says which command a transfer belongs to (`Owners`), how its
chain lies in the pool and is linked (`Chains`, `Used`, `Hooked`), and how far the device has got when the
controller is at a certain descriptor of a bulk transfer (`Stages`, `Numbered`,
`Progress`): behind the command the device has taken this command and no earlier one. That is
why a status that is believed (`Believed`) is that of the attempt it was asked for.
`ScheduleAlwaysSound` and `CommandsAlwaysTruthful` follow.

**DevicesProofs.** Five parts, each with an invariant of its own.
For the disks, assumed: `AtaAssumption` and `Addressable` (callers stay below 2^28, see
section 6). `AtaInv` is the types, `OneBusy` (only the selected drive is ever busy) and
what the bits of a drive and the place in the driver say of the command: a drive
that was given up on gets no data and no command until it has finished.
For the calendar nothing but `ClockAssumption`: `DaysAlwaysExact` goes by what a tick
carries into, a day, a month (`MonthExact`, with leap Februaries) or a year (`YearExact`).
For torn readings `ReadingInv` says that each register holds what the clock showed some
time during the call; the largest field in which two times differ bounds their distance,
and of three times two differ no less than the third does from either
(`CarriedUltra`), so the error is that of the largest carry. An epoch fits a word up to
2099 (`ClockAssumption`), so the difference behind an uptime wraps at most once, and only
if it is negative, for which one of its two readings must have been torn.
For the USB keyboard, assumed: `[]HeldFits` (never more keys down than a report can name;
without it `KeysOnce` is false, see section 6). The invariant follows the reports under way from
the one the driver has kept to the keys that are down now: `Debts` counts for each key
the reports in which it is new, `InStep` says, if nothing was lost, that each
brings the next of the characters typed. The loop of `usb_kb_callback` is a recursive
function, and `EdgesExist` proves that it exists.
For the enumeration, assumed: `Wired` (finitely many devices, fewer than addresses, each at a
port of its own of the root or of a hub that has that port, and no hub below itself), and
`~ StuckAtZero` (without it addresses are shared, see section 6). Neither depth nor
shape of the tree is bounded, nor `MaxLapses`. `BusInv` says that the frames of the recursion are
a path of hubs from the root (`PathInv`), that a port is enabled once and in the order of the walk, so that only the device being
enumerated answers at address 0 (`OnceInv`, `CurrentInv`), that `next_address` has
counted the devices that have one (`AddressInv`), that the list has each of them once
(`ListInv`), and, as long as nothing went wrong, that all devices below ports
already passed are listed (`FoundInv`). `AllAlwaysFound` is the last one at the end of the walk, by induction
over the depth of a device. `ClaimInv` is about drivers: a device
that the enumeration left unconfigured has used up the one lapse, so the driver's own SET_CONFIGURATION,
whose result not every driver looks at, succeeds. It is claimed for `lapses <= 1` only because it
is false for two, see section 6; the run has `MaxLapses = 1`.

**ConsoleProofs.** Two parts. For keyboard and mouse, assumed: `Ps2Assumption`, and for `KeysAlwaysFaithful` `OneShift` (see
section 6). Bytes are numbered modulo `SERIALS`. `MouseInv` says, as long as no answer was given up on, that the packet in the decoder and the
bytes in the controller are numbered without a gap up to the mouse's, and that during
`ps2_init` at most one answer is awaited or on its way, before all bytes of packets (`Awaited`).
`KeyInv` says the same of the scan codes, and that the decoder's Shift and Caps Lock lead
over the codes still under way to the keyboard's (`Explained`).

For the screen and the shell, assumed: `ScreenAssumption`, `LineAssumption` (a line of
`SIZE` fits on the screen wherever it starts) and `CharacterAssumption` (what is typed into the line is
no control character, which `shell.c:550` sees to, and the mouse stays on the screen).
The size of the screen, the length of lines, prompts, output and history, and the number of
keys, clicks, messages and reports are not bounded. `ShellInv` has two parts.
`EditInv`: erasing the pointer gives the screen that never had one (`Follows`), and the
line lies on the screen for as long as it ever was since the prompt
(`EditorOK`). `LineInv`: unless the line was disturbed, the prompt is on its way, or the system
calls under way lead (`Reaches`) to a screen that shows the line with the boundary of the protected
region at its start (`Shown`). It has to speak of the calls under way, because a mouse report
may come between any two of them. Every call does the same
to both screens (`CallFollows`), so the pointer leaves no trace, and the rest can be argued on
the screen without one: `ensure_edit_space` moves the line and its boundary up by exactly the
rows that are missing (`MissingRows`, `RoomMany`), and `line_redraw` writes the line
and blanks what was longer (`Redrawn`). For `ProtectedTextAlwaysKept`, a character moves protected
text and its boundary up by one row or none, and the rows of a whole string add up
(`KeptThen`). The loops over a string and over a tab are recursive
functions, and `WriteStepsExist` and `TabStepsExist` prove that they exist.

**FatProofs.** Assumed: `FatAssumption` and `Prudent`: no file is given the name of a
directory or a reserved one, no write fails while files are overwritten (`Overwrite` or
`Faults`, not both), and a search sees more than the two dots. Reserved names are the dots, which the conversion to 8.3 takes for the start
of an extension (`fat.c:196`), the marks of free slots and the name of `Junk`; without the other conditions the
results are false, see section 6. `Struck` is any cluster: the results hold as long as the
stray write has cleared no directory (`ruined`), and of the contents of files they except
the struck sector itself. Sizes of the volume, the root, a cluster and a file, names, modes, and the number of failures and power cuts are not bounded.

The first layer is the table. `ChainInv` gives every chain a holder: an entry,
the operation that has allocated it (`NewFirst`), or the operation that is about to free
it (`OldFirst`). `Apart` says that a chain is a path without repetition that leaves the clusters
at its end (`Links`) and that chains of different holders have no cluster in common; `Used`, that a cluster in use has a
holder. The entry that is being overwritten is no holder, since its chain is the
operation's. Besides: chains are as long as the files (`Sized`), the place found for an
entry is still a slot (`PosOK`), and what each place in an operation says of its chain
(`AllocOK`, `DataOK`, `WritesOK`, `DotsOK`). Every cluster that is no directory's is `Clean`: behind
the first two places it has no entry that the driver has written and nothing behind an end mark, since a directory
that is deleted is empty. That is why a failed write of the zeros does no harm to the chains. The table changes in three ways, a chain grows by a free cluster
(`Grown`), gets its end mark (`Ended`) or loses its first cluster (`Beheaded`), and
`Frame` says that a write outside a chain leaves the chain alone. `Used` is claimed for `Faults` within
{"data", "zero"} only, as a power cut and a failed entry write do lose clusters. `ChainsAlwaysSound` and
`NothingLeaks` follow.

The second layer is the contents. `FileInv` adds that in the root an end mark is followed
by nothing, directories have different names and none a file's (`RootOK`, `NewDir`),
that the slot an operation has found comes before any other of that name (`PathOK`), that the
parts written so far are on the disk (`PartsOK`), and `LastOK`: the first entry of a path's name in its
directory is the file written last, or the one being replaced and no longer in the
allocation phase. `FilesAlwaysIntact` needs `[]RootFits` besides: `dir_find_name` looks at 128
entries, and the root may have 512. `FilesIntactInSmallRoots` is the case in which
that cannot happen, which is that of the runs.

**VfsProofs.** Assumed: `VfsAssumption` and `PointsFit` (a point is not longer
than the slot can store; without it the results are false, see section 6). A slot is written
before it is known whether the mount will succeed: `VfsInv` says that it is then free or that of the same point.
`ImplementsTable` maps each step to a step of `MountTable` or to none, a failing mount at a new point to none and
one at a point in use to `Fail` of that point; the capacity of the abstract table is
that the mounted points are as many as their slots. `Agreement` compares
`fs_probe` with `fat_mount` for a disk with any number of partitions;
`ProbeAlwaysAgrees` is the run's instance of it.

`EveryPathRouted` is about the routing, for paths of any length: `vfs_resolve` compares
characters, `ResolvesByComponents` speaks of components. Assumed besides: points begin
with the separator and have no doubled or trailing ones, like the two that the kernel
mounts (`kmain.c:69`, `usb_mass_storage.c:342`; the `mount` system call takes any). The
argument: a path that a separator joins has the components of its two parts (`Split`,
by induction over the second), so what a matching point leaves over is the rest of the
components (`Remainder`) and the longer of two matching points is the deeper
(`LongerIsDeeper`); conversely a point whose components begin those of the path matches
(`Covered`, by induction over the length of the point, taking the first component off
both), except the root, which `vfs_resolve` falls back on. `RoutesAlwaysRight` is the run's
instance.

Only model-checked:

- Liveness (`NoStarvation`, `KeyboardAlive`, `KeyDelivered`): the prover does not reason about
  fairness.

The library's induction theorems have an operator as a parameter and cannot be used
with the installed provers. Where induction is needed it is by the lemma `Induction` of
`ConsoleProofs`, `DevicesProofs`, `FatProofs` and `VfsProofs`, which is about a set of numbers.

## 6. Statements the code does not meet

Each is stated in a module and can be reproduced by naming it as the INVARIANT (or, for
`KeyboardAlive`, the PROPERTY) of a configuration with the constants given:

| module: statement | constants | code |
|---|---|---|
| Pmm: `UnusableNeverFree` | `MCPmm.cfg` with `MemoryMaps <- MCMapWithAcpi` | `multiboot.h:61` declares the entry fields twice as wide as they are, `pmm.c:131` walks with that stride; only some unusable regions are marked, and each by its first page. `pmm.c:141` says what is intended |
| Sched: `StacksLive` | `MCSched.cfg` with `LoneExits = FALSE` | the branch of `schedule` for a terminated task leaves `TSS.esp0` behind (`task.c:400`); `task.c:353` says it is updated before stacks change. Two tasks that take interrupts are needed; the present image starts idle and the shell |
| Sched: `DirectoriesLive` | `MCSched.cfg` with `LoneExits = FALSE` | `task.c:158` spares the directory that is in CR3 when the task is freed, and no other |
| Vmm: `TablesLive` | `MCVmm.cfg` with `LateDirectories = TRUE` | `vmm.c:149` looks at the first `kernel_pdes` entries; a table of the kernel above them that was copied into a directory is freed with it (comment `vmm.c:138`). The present image makes its one directory before the window exists |
| Loader: `WindowMapped` | `MCLoader.cfg` | `kmain.c:189`: a failing map of the load window is not looked at; the comment at `kmain.c:185` takes it for granted |
| Loader: `ExtraNotLeaked` | `MCLoader.cfg` | `kmain.c:212` and later exits free the first page only, not the extra ones (comment `kmain.c:155`) |
| Loader: `ExtraFits` | `MemPages` 256, `Entries` 128, `NSlots` 6, `FileSizes` {57, 58}, `MAX_FILE_PAGES` 64, `BSS_PAGES` 24, `EXTRA_PHYS` 80, `USER_VIRT` 96, `CodeSlot` 3, `LoadSlot` 5, `DriverPages` {0} | `kmain.c:156`: the array is shorter than the largest program |
| Fat: `NothingStruck` | `MCFat.cfg` | freeing a FAT16 chain also writes the entry of the end mark, whose mirror is a sector of the data area (`fat.c:660`): part of a file, or a directory, is cleared |
| Fat: `NewDirEmpty` | `MCFatFaults.cfg` | `fat.c:841`: whether the zeros of a new directory were written is not looked at, and it then has the entries of what its cluster held before |
| Fat: `FoundIsSlot`, `DeletedGone` | `MCFat.cfg` | `fat.c:292`: the search for a slot stops at a deleted entry before the name, so the file is found but cannot be deleted, and a write makes a second entry |
| Fat: `FilesIntact` | `MCFat.cfg` with `WrittenTo` = {"a", "b", "d"} | `fat.c:728`: for the same reason a file may get the name of a directory and hide what is in it |
| Fat: `NoDangling` | `MCFatFaults.cfg` with `Faults` {"data"}, `Overwrite` TRUE, `Deletes` FALSE | `fat.c:763`: the old chain is freed before the new data is written |
| Fat: `NoLeak` | `MCFatFaults.cfg` with `Faults` {"entry"} | `fat.c:803`: if the entry cannot be written the new chain stays allocated (the comment at `fat.c:776` speaks of freeing it) |
| Fat: `LookupStays`, `FullIsExtended` | `MCFatFaults.cfg`; without faults `MCFat.cfg` with `PerCluster` 3, `Readings` {3}, `SubFiles` {"a", "b"}, `Deletes` FALSE | `fat.c:242`, `fat.c:385`: the end mark of a FAT16 chain is not recognised, so a full subdirectory is read on into the root and is never extended |
| Fat: `FilesIntact` | `MCFat.cfg` with `SCAN` 2 | `fat.c:258`, `fat.h:140`: names behind the 128th entry are not found |
| Vfs: `ReachesItsDevice` | `MCVfs.cfg` | `vfs.c:84`: a failing remount has overwritten the file system that was in use (comment `vfs.c:33`) |
| Vfs: `PointsDistinct` | `MCVfs.cfg` with `Points <- MCLongPoints` | `vfs.c:70`: a point is compared whole and stored cut (comment `vfs.c:49`) |
| MCVfs: `NumericMirrors` | `MCVfs.cfg` | `probe.c:36` says the test is the one of `detect_fat_type`; it is another |
| Usb: `KeyboardAlive` | `MCUsb.cfg` with `Endpoints` {"keyboard", "mouse"}, `MAX_TDS` 5, `MAX_URBS` 2, `MaxCommands` 0, `MaxErrors` 0 | the second interrupt transfer takes the first off the queue head (`usb_controller.c:477`) |
| Usb: `WholeChainDone` | `MCUsb.cfg` | `usb_controller.c:404`: only the first descriptor of a chain is waited for |
| Ps2: `MouseAligned` without `~ gave_up` | `MCPs2.cfg` | `mouse.c:32`: a late answer becomes the first byte of a packet |
| Ps2: `KeysFaithful` | `MCPs2.cfg` with `Shifts` {"left", "right"} | `keyboard.c:98`: releasing either Shift clears the one flag |
| Shell: `LineShown` without `~ disturbed` | `MCShell.cfg` | `shell.c:370`: a message of the kernel between prompt and Enter moves the text, and the editor goes on where the line was |
| Permissions: `OwnerTrue` | `MCPermissions.cfg` with `Users` {0, 1, 4} | `syscall.c:235`: a user number of more than 16 bits is cut, and 2^16 becomes root |
| Permissions: `OwnerTrue` | `MCPermissions.cfg` with `MetaFails` {"write"} | `syscall.c:234`: if the meta data cannot be written the file is left as root's with mode 0644, and the call succeeds |
| Rtc: `UptimeNear` | `MCDevices.cfg` | `rtc.c:104`: an uptime computed from a torn reading below `boot_epoch` wraps and is off by a word; the comment at `rtc.c:3` says that torn values are prevented |
| UsbBus: `BusSound` | `MCDevices.cfg` with `StuckAtZero = TRUE` | `usb_controller.c:599`: a device whose SET_ADDRESS failed stays enabled at address 0, where the next one answers too |
| UsbBus: `BusSound` | `MCDevices.cfg` with `MaxLapses` 2 | the keyboard driver does not look at the result of SET_CONFIGURATION; after two lapses it works with a device that is not configured |
| UsbKeys: `KeysOnce` | `MCDevices.cfg` with `SLOTS` 2 | `usb_hid.c:91`: a report with more keys than it can hold names none, and the next one makes all held keys new ones |

Where a run passes under a restriction of these (`LoneExits`, `LateDirectories`,
`Overwrite` in `fat_faults`, one interrupt endpoint, one Shift key,
answers in time, `StuckAtZero`, `Fits`), it says what holds as long as the system is
used that way. The present image has both Shift keys, overwrites files and starts a
USB mouse beside the keyboard when both are plugged in; it keeps to the other
restrictions on its own, as long as the hardware answers.

`Fat` claims nothing once the stray write has cleared a directory (`ruined`), which on
the repository's volumes takes a directory in cluster 49. A cluster is one sector here and two there: that the zeros of only one
of the two fail, or that the stray write clears the second only, is not a case of its own.
The names that the bytes of a file look like where a directory is expected are ones that no
operation uses. `ProtectedTextKept` asks nothing of the text once the boundary is in row 0.

Seen while reading, with the model following the code:

- When Enter is pressed with the cursor inside a line, the output of the command starts
  there and overwrites the rest of the line.
- The x bit is stored and never checked; the path of a parent directory is cut at 64
  characters (`syscall.c:195`).
- The status of a drive that failed a command keeps its error bit until the next
  command, and `wait_bsy` gives up on that bit before a command or even another drive is
  selected (`ata.c:112`): after one error both drives are lost. An address of 2^28 or more wraps
  (`ata.c:118`); `DiskTruthful` speaks of smaller ones.
- The comment at `rtc.c:3` says that masking the NMI prevents torn values. It does not:
  a reading across a carry is off by up to the unit carried into (`ErrorBelowCarry`), and
  `rtc_get_uptime` may then be a difference below zero, which is a large unsigned number
  (`UptimeNear`, above).
- A second USB disk that is not ready disables the first; disks that name their class in
  the device descriptor are never used; two controllers would share `uhci_priv`; the
  length of a report is read from bits 16 to 26 of the status (`usb_controller.c:521`),
  where UHCI has it in bits 0 to 10.
- `usb_mouse_probe` keeps a pointer into a buffer on its stack (`mouse.c:332`).
- A full ring drops scan codes, a release of Shift too (`keyboard.c:295`).

## 7. Not modelled

- In `syscall.c`: the checks of user addresses and lengths, and calls that only return a
  value or pass on to a driver.
- In `Shell`: what the commands compute (paths, file manager, games); a command is any
  characters and screens it puts out. In `Vga`: colours, the hardware cursor, and
  `vga_move_*`, which nothing calls.
- In `Ata`: the 256 words of a sector are one value. In `Rtc`: the binary and the
  12-hour format, which the code does not know either.
- FAT12 and FAT32 tables, long names and timestamps; a failed write of the table
  itself (`fat.c:322` returns nothing, so the driver cannot notice).
- In `Usb`: the controller's separate write-back of the queue head
  (`usb_controller.c:408`), the DATA toggle, failing page allocations. In `UsbBus`: the
  port registers, memory failures of `uhci_init`, a second controller, a pointer kept
  after its stack frame is gone (`mouse.c:332`).
- In `Ps2`: characters of a USB keyboard in the same calls; the handler of IRQ 1,
  whose line is masked; the arithmetic of the pointer.
- In `Pmm`: sizes whose sum passes 4 GB (`pmm.c:107`), the search for the memory
  map tag. In `Sched`: exception screens, EOI, the GDT.
- `idt.c`, `pic.c`, `pci.c`, `speaker.c`, `string.c`, boot code: tables filled once, port
  writes, stateless loops.
