---------------------------------- MODULE Usb ----------------------------------
(***************************************************************************)
(* The USB host controller driver (driver/usb_controller.c), the keyboard  *)
(* transfer it keeps going (driver/usb_hid.c) and the bulk-only commands   *)
(* of the mass storage driver (driver/usb_mass_storage.c), against the     *)
(* controller and the storage device.                                      *)
(*                                                                         *)
(* There is one queue head.  Its element link, el, names the transfer      *)
(* descriptor (TD) that the controller executes next, which then becomes   *)
(* the link of that TD; the controller runs all the time.  A synchronous   *)
(* transfer puts its own chain in the place of what is there, watches its  *)
(* first TD and puts back what was there.                                  *)
(***************************************************************************)
EXTENDS Integers, Sequences

CONSTANTS
  MAX_TDS,       (* TDs of the pool, 64                                    *)
  MAX_URBS,      (* interrupt transfers that are kept track of, 4          *)
  Endpoints,     (* interrupt endpoints with a driver: the keyboard's      *)
  POLLS,         (* times that a transfer is looked at, 110                *)
  CSW_POLLS,     (* times that the status of a command is looked at, 200   *)
  ATTEMPTS,      (* times that a command is sent, 3                        *)
  MaxCommands,   (* commands in a behaviour                                *)
  MaxControls,   (* control transfers in a behaviour, those of commands apart *)
  MaxErrors      (* transactions that fail in a behaviour                  *)

ASSUME UsbAssumption ==
  /\ MAX_URBS \in Nat /\ MAX_TDS \in Nat /\ MAX_TDS >= MAX_URBS + 3
  /\ POLLS \in Nat /\ CSW_POLLS \in Nat /\ ATTEMPTS \in Nat \ {0}
  /\ MaxCommands \in Nat /\ MaxControls \in Nat /\ MaxErrors \in Nat

TDs == 1 .. MAX_TDS
End == 0   (* the terminating link, 0x01 *)

VARIABLES
  el,         (* the element link of the queue head                        *)
  td,         (* the pool                                                  *)
  td_used,    (* how many of it are used                                   *)
  int_urbs,   (* the interrupt transfers                                   *)
  xfer,       (* the synchronous transfer in progress                      *)
  cmd,        (* the storage command in progress                           *)
  tag,        (* msc_cbw_tag                                               *)
  csw, buf,   (* the buffers for the status and the data of the command    *)
  device,     (* the storage device                                        *)
  errors,     (* failed transactions so far                                *)
  controls    (* control transfers so far                                  *)

vars == <<el, td, td_used, int_urbs, xfer, cmd, tag, csw, buf, device, errors, controls>>
pool == <<td, td_used>>
storage == <<cmd, tag, csw, buf>>
counts == <<errors, controls>>

NoXfer == [pc |-> "none"]
NoCmd == [pc |-> "none"]
NoStatus == [tag |-> 0, good |-> FALSE]

Init ==
  /\ el = End
  /\ td = [t \in TDs |-> [link |-> End, st |-> "off", stage |-> "none", of |-> 0]]
  /\ td_used = 0
  /\ int_urbs = <<>>
  /\ xfer = NoXfer /\ cmd = NoCmd
  /\ tag = 1 /\ csw = NoStatus /\ buf = 0
  /\ device = [mode |-> "cbw", tag |-> 0, data |-> FALSE, done |-> {}]
  /\ errors = 0 /\ controls = 0

-----------------------------------------------------------------------------
(***************************************************************************)
(* Synchronous transfers: uhci_control_transfer and usb_bulk_bot           *)
(***************************************************************************)

\* The TDs of a chain, in the order of the chain: the first and the last one
\* are taken from the pool before the one for the data.
Chain(n) == IF n = 2 THEN <<td_used + 1, td_used + 2>>
            ELSE <<td_used + 1, td_used + 3, td_used + 2>>

\* The chain is built while the controller goes on with what is hooked.
Begin(stages, of, request) ==
  LET ch == Chain(Len(stages))
  IN  /\ td' = [t \in TDs |->
                  IF \E k \in DOMAIN ch : ch[k] = t
                  THEN LET k == CHOOSE k \in DOMAIN ch : ch[k] = t
                       IN  [link |-> IF k = Len(ch) THEN End ELSE ch[k + 1],
                            st |-> "active", stage |-> stages[k], of |-> of]
                  ELSE td[t]]
      /\ td_used' = td_used + Len(stages)
      /\ xfer' = [pc |-> "hook", chain |-> ch, polls |-> 0, request |-> request,
                  saved_el |-> el, saved_used |-> td_used, ok |-> FALSE]

Hook ==
  /\ xfer.pc = "hook"
  /\ el' = xfer.chain[1]
  /\ xfer' = [xfer EXCEPT !.pc = "wait"]
  /\ UNCHANGED <<pool, int_urbs, storage, device, counts>>

\* uhci_wait_td, on the first TD of the chain.
FirstTd == td[xfer.chain[1]]
WaitOver == FirstTd.st # "active" \/ xfer.polls = POLLS
Look ==
  /\ xfer.pc = "wait" /\ ~ WaitOver
  /\ xfer' = [xfer EXCEPT !.polls = @ + 1]
  /\ UNCHANGED <<el, pool, int_urbs, storage, device, counts>>

\* Whatever came of it, what was hooked before is hooked again and the TDs
\* are given back.
\* Mutant of PutBack: what was hooked before is forgotten.
PutBackNothing == End
\* Mutant of PutBack: nothing is put back.
PutBackNot == el
PutBack == xfer.saved_el
GivenBack == xfer.saved_used
Finish ==
  /\ xfer.pc = "wait" /\ WaitOver
  /\ el' = PutBack
  /\ td_used' = GivenBack
  /\ xfer' = [xfer EXCEPT !.pc = "over", !.ok = FirstTd.st = "done"]
  /\ UNCHANGED <<td, int_urbs, storage, device, counts>>

\* A control transfer of the enumeration or of another driver.
ControlTransfer ==
  /\ xfer.pc = "none" /\ cmd.pc = "none"
  /\ \E stages \in {<<"setup", "status">>, <<"setup", "data0", "status">>} :
       Begin(stages, 0, "other")
  /\ controls < MaxControls /\ controls' = controls + 1
  /\ UNCHANGED <<el, int_urbs, storage, device, errors>>

ControlReturns ==
  /\ xfer.pc = "over" /\ xfer.request = "other"
  /\ xfer' = NoXfer
  /\ UNCHANGED <<el, pool, int_urbs, storage, device, counts>>

-----------------------------------------------------------------------------
(***************************************************************************)
(* Interrupt transfers: uhci_interrupt_transfer and usb_poll               *)
(***************************************************************************)

\* The first submission takes a TD for good.
Submit(ep) ==
  /\ xfer.pc = "none" /\ cmd.pc = "none"
  /\ \A i \in DOMAIN int_urbs : int_urbs[i].ep # ep
  /\ Len(int_urbs) < MAX_URBS
  /\ td_used' = td_used + 1
  /\ td' = [td EXCEPT ![td_used + 1] =
              [link |-> End, st |-> "active", stage |-> "int", of |-> 0]]
  /\ el' = td_used + 1
  /\ int_urbs' = Append(int_urbs, [ep |-> ep, td |-> td_used + 1])
  /\ UNCHANGED <<xfer, storage, device, counts>>

\* A transfer that is over is submitted again with the TD it has: by its
\* callback (usb_kb_callback) if it succeeded, by usb_poll if it failed.
Again(t) == t.st \in {"done", "error"}
usb_poll(i) ==
  LET t == int_urbs[i].td
  IN  /\ xfer.pc = "none" /\ cmd.pc = "none"
      /\ Again(td[t])
      /\ td' = [td EXCEPT ![t] = [link |-> End, st |-> "active", stage |-> "int", of |-> 0]]
      /\ el' = t
      /\ UNCHANGED <<td_used, int_urbs, xfer, storage, device, counts>>

-----------------------------------------------------------------------------
(***************************************************************************)
(* The controller and the devices                                          *)
(***************************************************************************)

\* The TD is executed successfully and the queue moves on.
Complete == /\ td' = [td EXCEPT ![el].st = "done"]
            /\ el' = td[el].link
            /\ UNCHANGED <<td_used, int_urbs, xfer, cmd, tag>>
Active(stages) == el # End /\ td[el].st = "active" /\ td[el].stage \in stages

\* Reports of the keyboard and stages of control transfers.  A reset of the
\* storage device takes effect with the last stage.
HcOther ==
  /\ Active({"int", "setup", "data0", "status"})
  /\ device' = IF td[el].stage = "status" /\ xfer.request = "reset"
               THEN [device EXCEPT !.mode = "cbw"] ELSE device
  /\ Complete
  /\ UNCHANGED <<csw, buf, counts>>

\* A command is accepted if the device waits for one; one without data is
\* executed at once.
HcCbw ==
  /\ Active({"cbw"}) /\ device.mode = "cbw"
  /\ device' = [mode |-> IF cmd.data THEN "data" ELSE "csw",
                tag |-> td[el].of, data |-> cmd.data,
                done |-> IF cmd.data THEN device.done ELSE device.done \cup {td[el].of}]
  /\ Complete
  /\ UNCHANGED <<csw, buf, counts>>

HcData ==
  /\ Active({"data"}) /\ device.mode = "data"
  /\ device' = [device EXCEPT !.mode = "csw", !.done = @ \cup {device.tag}]
  /\ buf' = device.tag
  /\ Complete
  /\ UNCHANGED <<csw, counts>>

HcCsw ==
  /\ Active({"csw"}) /\ device.mode = "csw"
  /\ \E good \in BOOLEAN : csw' = [tag |-> device.tag, good |-> good]
  /\ device' = [device EXCEPT !.mode = "cbw"]
  /\ Complete
  /\ UNCHANGED <<buf, counts>>

\* A transaction fails, or is refused by the device in the wrong state; the
\* queue stays where it is.  (A device that is not ready makes the controller
\* try again: no step.)
HcError ==
  /\ Active({"int", "setup", "data0", "status", "cbw", "data", "csw"})
  /\ \/ errors < MaxErrors /\ errors' = errors + 1
     \/ /\ \/ td[el].stage = "cbw" /\ device.mode # "cbw"
           \/ td[el].stage = "data" /\ device.mode # "data"
           \/ td[el].stage = "csw" /\ device.mode # "csw"
        /\ UNCHANGED errors
  /\ td' = [td EXCEPT ![el].st = "error"]
  /\ UNCHANGED <<el, td_used, int_urbs, xfer, storage, device, controls>>

-----------------------------------------------------------------------------
(***************************************************************************)
(* Storage commands: msc_bot_command                                       *)
(***************************************************************************)

Command(data) ==
  /\ xfer.pc = "none" /\ cmd.pc = "none"
  /\ tag <= (MaxCommands - 1) * ATTEMPTS + 1
  /\ cmd' = [pc |-> "send", data |-> data, attempt |-> 1, sent |-> 0, polls |-> 0, ok |-> FALSE]
  /\ UNCHANGED <<el, pool, int_urbs, xfer, tag, csw, buf, device, counts>>

\* The status buffer is an uninitialised local variable: it may hold the
\* status of an earlier attempt.
Send ==
  /\ cmd.pc = "send" /\ xfer.pc = "none"
  /\ Begin(IF cmd.data THEN <<"cbw", "data", "csw">> ELSE <<"cbw", "csw">>, tag, "bulk")
  /\ tag' = tag + 1
  /\ cmd' = [cmd EXCEPT !.pc = "sent", !.sent = tag, !.polls = 0]
  /\ csw' \in {csw, NoStatus}
  /\ UNCHANGED <<el, int_urbs, buf, device, counts>>

\* Mutant of CswFor: the tag of the status is not compared.
CswForAny(t) == csw.tag # 0
CswFor(t) == csw.tag = t

\* The transfer is over; the status is looked for.
Sent ==
  /\ cmd.pc = "sent" /\ xfer.pc = "over"
  /\ cmd' = [cmd EXCEPT !.pc = IF xfer.ok THEN "status" ELSE "reset1"]
  /\ xfer' = NoXfer
  /\ UNCHANGED <<el, pool, int_urbs, tag, csw, buf, device, counts>>

Status ==
  /\ cmd.pc = "status"
  /\ cmd' = IF CswFor(cmd.sent) THEN [cmd EXCEPT !.pc = "done", !.ok = csw.good]
            ELSE IF cmd.polls < CSW_POLLS THEN [cmd EXCEPT !.polls = @ + 1]
            ELSE [cmd EXCEPT !.pc = "reset1"]
  /\ UNCHANGED <<el, pool, int_urbs, xfer, tag, csw, buf, device, counts>>

\* msc_bot_reset: three control transfers, whose results are ignored, and
\* then the next attempt.
Request == [reset1 |-> "reset", reset2 |-> "clear", reset3 |-> "clear"]
Resetting == cmd.pc \in DOMAIN Request
Reset ==
  /\ Resetting /\ xfer.pc = "none"
  /\ Begin(<<"setup", "status">>, 0, Request[cmd.pc])
  /\ UNCHANGED <<el, int_urbs, storage, device, counts>>
ResetReturns ==
  /\ Resetting /\ xfer.pc = "over"
  /\ cmd' = CASE cmd.pc = "reset1" -> [cmd EXCEPT !.pc = "reset2"]
              [] cmd.pc = "reset2" -> [cmd EXCEPT !.pc = "reset3"]
              [] cmd.pc = "reset3" ->
                   IF cmd.attempt < ATTEMPTS
                   THEN [cmd EXCEPT !.pc = "send", !.attempt = @ + 1]
                   ELSE [cmd EXCEPT !.pc = "done", !.ok = FALSE]
  /\ xfer' = NoXfer
  /\ UNCHANGED <<el, pool, int_urbs, tag, csw, buf, device, counts>>

Return ==
  /\ cmd.pc = "done"
  /\ cmd' = NoCmd
  /\ UNCHANGED <<el, pool, int_urbs, xfer, tag, csw, buf, device, counts>>

-----------------------------------------------------------------------------
SubmitAny == \E ep \in Endpoints : Submit(ep)
PollAny == \E i \in DOMAIN int_urbs : usb_poll(i)
CommandAny == \E data \in BOOLEAN : Command(data)

Driver == \/ Hook \/ Look \/ Finish \/ ControlReturns
          \/ Send \/ Sent \/ Status \/ Reset \/ ResetReturns \/ Return
Controller == HcOther \/ HcCbw \/ HcData \/ HcCsw \/ HcError

Next == Driver \/ Controller \/ ControlTransfer \/ SubmitAny \/ PollAny \/ CommandAny

Spec == Init /\ [][Next]_vars

\* The code that has started a transfer goes on, the loop that waits for a
\* key polls, and the controller executes what is hooked: the keyboard
\* answers, or its transfer fails.
Fairness ==
  /\ WF_vars(Driver) /\ WF_vars(PollAny)
  /\ WF_vars(HcOther /\ Active({"int"}))
FairSpec == Spec /\ Fairness

-----------------------------------------------------------------------------
(***************************************************************************)
(* Properties                                                              *)
(***************************************************************************)

\* Every variable has its type.
TypeOK ==
  /\ el \in TDs \cup {End}
  /\ td \in [TDs -> [link : TDs \cup {End}, st : {"off", "active", "done", "error"},
                     stage : {"none", "int", "setup", "data0", "status", "cbw", "data", "csw"},
                     of : Nat]]
  /\ td_used \in 0 .. MAX_TDS
  /\ int_urbs \in Seq([ep : Endpoints, td : TDs])
  /\ tag \in 1 .. MaxCommands * ATTEMPTS + 1

UrbTds == {int_urbs[i].td : i \in DOMAIN int_urbs}
Between == xfer.pc \in {"none", "over"}

\* Between transfers the controller executes nothing of a transfer that has
\* returned, whose buffers are gone with the stack frame of its caller: what
\* is hooked and active belongs to an interrupt transfer.
NothingLeftHooked == (Between /\ el # End /\ td[el].st = "active") => el \in UrbTds

\* Between transfers exactly the TDs of interrupt transfers are in use; each
\* has its own, and no synchronous transfer ever takes one of them.
PoolExact ==
  /\ TypeOK
  /\ Between => td_used = Len(int_urbs)
  /\ UrbTds = 1 .. Len(int_urbs)
  /\ xfer.pc # "none" => \A k \in DOMAIN xfer.chain : xfer.chain[k] \notin UrbTds

\* What is in the schedule and what the pool counts agree with the transfers that
\* are under way.
ScheduleSound == NothingLeftHooked /\ PoolExact

\* A command that is reported as executed has been executed by the device
\* with good status, and its data is in the buffer: never on the word of the
\* status of an earlier attempt.
CommandTruthful ==
  (cmd.pc = "done" /\ cmd.ok) =>
    /\ cmd.sent \in device.done
    /\ cmd.data => buf = cmd.sent

\* The keyboard's transfer goes on for ever, whatever storage commands and
\* control transfers come between, and whatever transactions fail.
KeyboardAlive ==
  \A ep \in Endpoints :
    \A i \in 1 .. MAX_URBS :
      (i <= Len(int_urbs) /\ int_urbs[i].ep = ep) ~>
        (i <= Len(int_urbs) /\ td[int_urbs[i].td].st = "done")

\* "SETUP finished means that the whole chain is finished: the hardware
\* processes it in order" (uhci_control_transfer).
WholeChainDone ==
  (xfer.pc = "over" /\ xfer.ok) => \A k \in DOMAIN xfer.chain : td[xfer.chain[k]].st = "done"
================================================================================
