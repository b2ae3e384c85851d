---------------------------------- MODULE Ps2 ----------------------------------
(***************************************************************************)
(* Keyboard and mouse on the PS/2 controller: driver/keyboard.c and the    *)
(* PS/2 half of driver/mouse.c.                                            *)
(*                                                                         *)
(* Both devices send their bytes through one output buffer, fifo.  The     *)
(* status bits tell whether there is a byte (OBF) and whether the mouse    *)
(* sent it (AUX).  Five loops and an interrupt handler read the buffer;    *)
(* whatever the order in which they run, each byte must reach the right    *)
(* decoder, and in order: a mouse packet is three bytes counted off since  *)
(* the mouse was switched on.                                              *)
(*                                                                         *)
(* The interrupt of the keyboard is masked (keyboard_init); the one of the *)
(* mouse is on and stays pending while interrupts are off, also when the   *)
(* byte that caused it has been read in the meantime.                      *)
(***************************************************************************)
EXTENDS Integers, Sequences

CONSTANTS
  Readers,           (* tasks that read keys and the mouse                 *)
  Shifts,            (* the Shift keys in use                              *)
  PS2_BUFFER_SIZE,   (* size of the ring of scan codes, 64                 *)
  FIFO,              (* bytes that the controller holds                    *)
  BURST,             (* bytes that arrive at most while the driver works   *)
                     (* with interrupts off: a byte takes a millisecond    *)
  COMMANDS,          (* commands that ps2_init sends to the mouse, 6       *)
  SERIALS            (* the bytes of each device are numbered modulo this, *)
                     (* a multiple of the length of a packet               *)

ASSUME Ps2Assumption ==
  /\ PS2_BUFFER_SIZE \in Nat \ {0} /\ FIFO \in Nat /\ BURST \in Nat /\ COMMANDS \in Nat \ {0}
  /\ SERIALS \in Nat \ {0} /\ SERIALS % 3 = 0

VARIABLES
  fifo,            (* the output buffer                                    *)
  irq12,           (* the mouse's interrupt is pending                     *)
  ps2_buffer,      (* the ring of scan codes, oldest first                 *)
  ps2_pkt,         (* the bytes of the mouse packet so far                 *)
  shift_pressed, caps_lock,
  pc,              (* where each reader is                                 *)
  boot,            (* ps2_init: the command whose answer is awaited        *)
  dev,             (* the devices: Shift keys held, Caps Lock, the numbers *)
                   (* of the next bytes, answers that are owed             *)
  burst,           (* bytes that came since interrupts were turned off     *)
  wrong,           (* a letter came out in another case than it was typed  *)
  taken,           (* number of the next scan code to be translated        *)
  lost,            (* a scan code has been thrown away                     *)
  gave_up          (* ps2_wait_ack has not waited long enough              *)

vars == <<fifo, irq12, ps2_buffer, ps2_pkt, shift_pressed, caps_lock, pc, boot, dev,
          burst, wrong, taken, lost, gave_up>>
decoder == <<shift_pressed, caps_lock, wrong, taken>>
hardware == <<dev, burst>>
start_up == <<boot, gave_up>>

Init ==
  /\ fifo = <<>> /\ irq12 = FALSE
  /\ ps2_buffer = <<>> /\ ps2_pkt = <<>>
  /\ shift_pressed = FALSE /\ caps_lock = FALSE
  /\ pc = [r \in Readers |-> "user"]
  /\ boot = 0
  /\ dev = [shift |-> {}, caps |-> FALSE, key |-> 0, mouse |-> 0, acks |-> 0]
  /\ burst = 0 /\ lost = FALSE /\ gave_up = FALSE
  /\ wrong = FALSE /\ taken = 0

Booted == boot > COMMANDS
InterruptsOn == Booted /\ \A r \in Readers : pc[r] \in {"user", "halt"}

-----------------------------------------------------------------------------
(***************************************************************************)
(* The devices and the controller                                          *)
(***************************************************************************)

AUX(q) == q # <<>> /\ q[1].src = "mouse"
OBF(q) == q # <<>>
Succ(n) == (n + 1) % SERIALS

Push(b) ==
  /\ Len(fifo) < FIFO
  /\ InterruptsOn \/ burst < BURST
  /\ burst' = IF InterruptsOn THEN 0 ELSE burst + 1
  /\ fifo' = Append(fifo, b)
  /\ irq12' = (irq12 \/ (fifo = <<>> /\ b.src = "mouse"))
  /\ UNCHANGED <<ps2_buffer, ps2_pkt, decoder, pc, start_up, lost>>

\* Bound: nothing is typed any more once a scan code was lost, and the mouse
\* is left alone once an answer came too late, because the properties say
\* nothing of the one or the other from then on.

\* A key: a letter, with the case that Shift and Caps Lock give it when it is
\* typed, a Shift key, Caps Lock.  (Releases of other keys change nothing.)
Scan(code) == [src |-> "key", n |-> dev.key, code |-> code,
               upper |-> (code = "letter" /\ (dev.shift # {}) # dev.caps)]
KeyPush(code) == ~ lost /\ Push(Scan(code))
Letter == KeyPush("letter") /\ dev' = [dev EXCEPT !.key = Succ(@)]
CapsLock ==
  /\ KeyPush("caps")
  /\ dev' = [dev EXCEPT !.key = Succ(@), !.caps = ~ @]
ShiftDown(s) ==
  /\ s \notin dev.shift /\ KeyPush("shift")
  /\ dev' = [dev EXCEPT !.key = Succ(@), !.shift = @ \cup {s}]
ShiftUp(s) ==
  /\ s \in dev.shift /\ KeyPush("unshift")
  /\ dev' = [dev EXCEPT !.key = Succ(@), !.shift = @ \ {s}]

\* The mouse answers commands and, after the last one, sends its packets.
MouseByte(n, ack) == [src |-> "mouse", n |-> n, ack |-> ack]
MouseAck ==
  /\ dev.acks > 0
  /\ Push(MouseByte(0, TRUE))
  /\ dev' = [dev EXCEPT !.acks = @ - 1]
MouseMoves ==
  /\ dev.acks = 0 /\ boot >= COMMANDS /\ ~ gave_up
  /\ Push(MouseByte(dev.mouse, FALSE))
  /\ dev' = [dev EXCEPT !.mouse = Succ(@)]

\* Reading port 0x60 takes the byte; a byte of the mouse behind it raises the
\* interrupt again.
Read == fifo' = Tail(fifo) /\ irq12' = (irq12 \/ AUX(Tail(fifo)))

-----------------------------------------------------------------------------
(***************************************************************************)
(* The decoders                                                            *)
(***************************************************************************)

\* mouse_feed_byte; a full packet moves the pointer.
\* Reading an empty buffer yields a byte that nobody sent.
Garbage == [src |-> "mouse", n |-> 0, ack |-> TRUE]
mouse_feed_byte(b) == ps2_pkt' = IF Len(ps2_pkt) = 2 THEN <<>> ELSE Append(ps2_pkt, b)

\* ps2_scancode_to_ascii and apply_caps_lock.
ps2_scancode_to_ascii(sc) ==
  /\ shift_pressed' = IF sc.code = "shift" THEN TRUE
                      ELSE IF sc.code = "unshift" THEN FALSE ELSE shift_pressed
  /\ caps_lock' = (caps_lock # (sc.code = "caps"))
  /\ wrong' = (wrong \/ (sc.code = "letter" /\ (shift_pressed # caps_lock) # sc.upper))
  /\ taken' = Succ(sc.n)

\* A scan code goes into the ring, or is dropped if the ring is full.
Full == Len(ps2_buffer) = PS2_BUFFER_SIZE - 1
Enqueue(sc) ==
  /\ ps2_buffer' = IF Full THEN ps2_buffer ELSE Append(ps2_buffer, sc)
  /\ lost' = (lost \/ Full)

-----------------------------------------------------------------------------
(***************************************************************************)
(* ps2_init: each command is sent and its answer awaited                   *)
(***************************************************************************)

Send ==
  /\ boot' = boot + 1
  /\ dev' = IF boot < COMMANDS THEN [dev EXCEPT !.acks = @ + 1] ELSE dev

ps2_send_command ==
  /\ boot = 0 /\ Send
  /\ UNCHANGED <<fifo, irq12, ps2_buffer, ps2_pkt, decoder, pc, burst, lost, gave_up>>

\* ps2_wait_ack: what is read and is no answer is thrown away.
ps2_wait_ack ==
  /\ boot \in 1 .. COMMANDS /\ OBF(fifo)
  /\ Read
  /\ IF AUX(fifo) /\ fifo[1].ack THEN Send ELSE UNCHANGED <<boot, dev>>
  /\ lost' = (lost \/ ~ AUX(fifo))
  /\ burst' = 0
  /\ UNCHANGED <<ps2_buffer, ps2_pkt, decoder, pc, gave_up>>

\* It looks a limited number of times.
AckTimesOut ==
  /\ boot \in 1 .. COMMANDS
  /\ Send /\ gave_up' = TRUE
  /\ UNCHANGED <<fifo, irq12, ps2_buffer, ps2_pkt, decoder, pc, burst, lost>>

-----------------------------------------------------------------------------
(***************************************************************************)
(* The interrupt handler and the system calls                              *)
(***************************************************************************)

\* ps2_mouse_irq_handler.
\* Mutant of FromMouse: any byte, and an empty buffer, is taken for mouse data.
FromMouseUnchecked == TRUE
FromMouse == AUX(fifo)
ps2_mouse_irq_handler ==
  /\ InterruptsOn /\ irq12
  /\ burst' = 0
  /\ IF FromMouse
     THEN /\ mouse_feed_byte(IF OBF(fifo) THEN fifo[1] ELSE Garbage)
          /\ fifo' = IF OBF(fifo) THEN Tail(fifo) ELSE fifo
          /\ irq12' = AUX(fifo')
     ELSE irq12' = FALSE /\ UNCHANGED <<fifo, ps2_pkt>>
  /\ UNCHANGED <<ps2_buffer, decoder, pc, start_up, dev, lost>>

\* A system call runs with interrupts off; the others wait in user mode or
\* in the halt of keyboard_get_char.
Runs(r) == Booted /\ \A q \in Readers \ {r} : pc[q] \in {"user", "halt"}
Goto(r, to) == pc' = [pc EXCEPT ![r] = to]

\* keyboard_get_char.
keyboard_get_char(r) ==
  /\ InterruptsOn /\ pc[r] = "user"
  /\ Goto(r, "ring")
  /\ burst' = 0
  /\ UNCHANGED <<fifo, irq12, ps2_buffer, ps2_pkt, decoder, start_up, dev, lost>>

FromRing(r) ==
  /\ Runs(r) /\ pc[r] = "ring" /\ ps2_buffer # <<>>
  /\ ps2_buffer' = Tail(ps2_buffer)
  /\ ps2_scancode_to_ascii(ps2_buffer[1])
  /\ Goto(r, IF ps2_buffer[1].code = "letter" THEN "user" ELSE "ring")
  /\ UNCHANGED <<fifo, irq12, ps2_pkt, start_up, hardware, lost>>

\* sti; hlt if there is no byte, until the next interrupt.
\* Mutant of Something: mouse data only.
SomethingAux == AUX(fifo)
Something == OBF(fifo) \/ AUX(fifo)
Halt(r) ==
  /\ Runs(r)
  /\ \/ pc[r] = "ring" /\ ps2_buffer = <<>>
     \/ pc[r] = "woken"
  /\ Goto(r, IF Something THEN "drain" ELSE "halt")
  /\ UNCHANGED <<fifo, irq12, ps2_buffer, ps2_pkt, decoder, start_up, hardware, lost>>
Wake(r) ==
  /\ InterruptsOn /\ pc[r] = "halt"
  /\ Goto(r, "woken")
  /\ burst' = 0
  /\ UNCHANGED <<fifo, irq12, ps2_buffer, ps2_pkt, decoder, start_up, dev, lost>>

\* The buffer is read until it is empty.  AUX is tested before OBF, which is
\* set for either device.
Drain(r) ==
  /\ Runs(r) /\ pc[r] = "drain"
  /\ \/ /\ AUX(fifo)
        /\ mouse_feed_byte(fifo[1]) /\ Read
        /\ UNCHANGED <<ps2_buffer, pc, lost>>
     \/ /\ ~ AUX(fifo) /\ OBF(fifo)
        /\ Enqueue(fifo[1]) /\ Read
        /\ UNCHANGED <<ps2_pkt, pc>>
     \/ /\ ~ AUX(fifo) /\ ~ OBF(fifo)
        /\ Goto(r, "ring")
        /\ UNCHANGED <<fifo, irq12, ps2_buffer, ps2_pkt, lost>>
  /\ UNCHANGED <<decoder, start_up, hardware>>

\* keyboard_get_char_nb, which looks at the ring first and then reads one
\* byte itself.
\* Mutant of RingFirst: what is in the ring is left for keyboard_get_char.
RingFirstNever == FALSE
RingFirst == ps2_buffer # <<>>
keyboard_get_char_nb(r) ==
  /\ InterruptsOn /\ pc[r] = "user"
  /\ burst' = 0
  /\ \/ /\ RingFirst
        /\ ps2_buffer' = Tail(ps2_buffer)
        /\ ps2_scancode_to_ascii(ps2_buffer[1])
        /\ UNCHANGED <<fifo, irq12, ps2_pkt>>
     \/ /\ ~ RingFirst /\ AUX(fifo)
        /\ mouse_feed_byte(fifo[1]) /\ Read
        /\ UNCHANGED <<ps2_buffer, decoder>>
     \/ /\ ~ RingFirst /\ ~ AUX(fifo) /\ OBF(fifo)
        /\ ps2_scancode_to_ascii(fifo[1]) /\ Read
        /\ UNCHANGED <<ps2_buffer, ps2_pkt>>
  /\ UNCHANGED <<pc, start_up, dev, lost>>

\* mouse_get_packet: ps2_get_packet, mouse_poll.
mouse_get_packet(r) ==
  /\ InterruptsOn /\ pc[r] = "user" /\ AUX(fifo)
  /\ Goto(r, "poll")
  /\ burst' = 0
  /\ UNCHANGED <<fifo, irq12, ps2_buffer, ps2_pkt, decoder, start_up, dev, lost>>
mouse_poll(r) ==
  /\ Runs(r) /\ pc[r] = "poll"
  /\ IF AUX(fifo) THEN mouse_feed_byte(fifo[1]) /\ Read /\ UNCHANGED pc
     ELSE Goto(r, "user") /\ UNCHANGED <<fifo, irq12, ps2_pkt>>
  /\ UNCHANGED <<ps2_buffer, decoder, start_up, hardware, lost>>

-----------------------------------------------------------------------------
Typed == Letter \/ CapsLock \/ \E s \in Shifts : ShiftDown(s) \/ ShiftUp(s)
MouseSends == MouseAck \/ MouseMoves
BootStep == ps2_send_command \/ ps2_wait_ack \/ AckTimesOut
Work(r) == FromRing(r) \/ Halt(r) \/ Drain(r) \/ mouse_poll(r)
Calls(r) == keyboard_get_char(r) \/ keyboard_get_char_nb(r) \/ mouse_get_packet(r)

Next ==
  \/ Typed \/ MouseSends \/ BootStep \/ ps2_mouse_irq_handler
  \/ \E r \in Readers : Work(r) \/ Calls(r) \/ Wake(r)

Spec == Init /\ [][Next]_vars

\* The mouse answers, the code that runs goes on, the timer wakes who waits
\* (Sched), and there is always somebody who reads keys: the shell.
Fairness ==
  /\ WF_vars(MouseAck) /\ WF_vars(BootStep)
  /\ \A r \in Readers : WF_vars(Work(r)) /\ WF_vars(Wake(r))
  /\ \A r \in Readers : SF_vars(keyboard_get_char(r))
FairSpec == Spec /\ Fairness

-----------------------------------------------------------------------------
(***************************************************************************)
(* Properties                                                              *)
(***************************************************************************)

\* The bytes that come from one device, in their order: among the first n of a
\* sequence, and in the output buffer.
Among(q, src) ==
  LET kept[n \in 0 .. Len(q)] ==
        IF n = 0 THEN <<>>
        ELSE IF q[n].src = src THEN Append(kept[n - 1], q[n]) ELSE kept[n - 1]
  IN  kept
From(src) == Among(fifo, src)[Len(fifo)]
\* The numbers of a sequence of bytes end with the last one sent.
UpTo(s, next) == \A i \in DOMAIN s : s[i].n = (next - 1 - (Len(s) - i)) % SERIALS

\* Every variable has its type.
TypeOK ==
  /\ Len(fifo) <= FIFO /\ irq12 \in BOOLEAN
  /\ Len(ps2_buffer) < PS2_BUFFER_SIZE
  /\ \A i \in DOMAIN ps2_buffer : ps2_buffer[i].src = "key"
  /\ Len(ps2_pkt) <= 2
  /\ pc \in [Readers -> {"user", "ring", "halt", "woken", "drain", "poll"}]
  /\ boot \in 0 .. COMMANDS + 1 /\ burst \in 0 .. BURST
  /\ gave_up \in BOOLEAN /\ taken \in 0 .. SERIALS - 1 /\ dev.shift \subseteq Shifts

\* If all its answers came in time (ps2_wait_ack did not give up), the packet
\* decoder has every byte of the mouse, in order and nothing else,
\* and its count of three agrees with the mouse's, through whichever of the
\* interrupt and the loops each byte came (ps2_mouse_irq_handler: "an extra
\* byte shifts the three-byte packets").
MouseAligned ==
  /\ TypeOK
  /\ (Booted /\ ~ gave_up) =>
       LET s == ps2_pkt \o From("mouse")
       IN  /\ \A i \in DOMAIN s : s[i].src = "mouse" /\ ~ s[i].ack
           /\ UpTo(s, dev.mouse)
           /\ s # <<>> => s[1].n % 3 = 0 \/ ps2_pkt = <<>>
           /\ (dev.mouse - Len(From("mouse"))) % 3 = Len(ps2_pkt)

\* Unless a scan code was thrown away, the scan codes are translated all, in
\* the order typed, and a letter comes out in the case in which it was typed.
KeysFaithful ==
  ~ lost =>
    LET s == ps2_buffer \o From("key")
    IN  /\ UpTo(s, dev.key)
        /\ taken = (dev.key - Len(s)) % SERIALS
        /\ ~ wrong

\* A scan code does not stay in the controller or in the ring: someone who
\* waits for a key is not left waiting, although the keyboard's interrupt is
\* masked and mouse data may come before it.
UnderWay == ps2_buffer # <<>> \/ From("key") # <<>>
KeyDelivered ==
  \A n \in 0 .. SERIALS - 1 : (taken = n /\ UnderWay) ~> (taken # n \/ lost)
================================================================================
