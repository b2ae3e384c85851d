---------------------------------- MODULE Ata ----------------------------------
(* The disks of the first ATA channel and driver/ata.c.  Two drives share the      *)
(* registers; the status that the driver reads is that of the drive selected       *)
(* last.  A drive works on a command by itself and takes as long as it likes:      *)
(* the driver looks a limited number of times and then gives up, and the drive     *)
(* goes on.  One call at a time is in the driver.                                  *)
EXTENDS Integers

CONSTANTS
  Sectors,       \* sectors of each disk
  LBAS,          \* addresses that the registers can hold: 2^28
  Requested,     \* sectors that callers ask for
  Values,        \* contents of a sector
  Slaves,        \* what may be connected as slave: "disk", "none", "other"
  POLLS,         \* looks at the status register in one wait, 100000
  MaxCalls,      \* bound: calls in a behaviour
  MaxErrors      \* bound: commands that a drive fails

ASSUME AtaAssumption ==
  /\ Sectors \in Nat /\ LBAS \in Nat \ {0} /\ Requested \subseteq Nat
  /\ POLLS \in Nat \ {0} /\ MaxCalls \in Nat /\ MaxErrors \in Nat

VARIABLES
  drive,        \* kind, status bits and command of each drive
  selected,     \* drive that the device register selects
  disk,         \* contents
  req,          \* the call under way: its arguments, place, result
  polls,        \* turns of the current wait
  present,      \* ata_present, ata_slave_present
  calls, errors,
  expected      \* history: what each sector may hold, from the results of the calls

ataVars == <<drive, selected, disk, req, polls, present, calls, errors, expected>>

Drives == {"master", "slave"}
Lbas == 0 .. Sectors - 1
NoReq == [op |-> "none", at |-> "idle"]
AtRest(kind) == [kind |-> kind, bsy |-> FALSE, drq |-> FALSE, err |-> FALSE, cmd |-> "none",
                 lba |-> 0, data |-> 0]

--------------------------------------------------------------------------------
(* The drives (external). *)

Status(d) == drive[d]

\* The command register is written: a drive that is busy does not notice, any other
\* drops what it was doing.  Nobody answers for a slave that is not there.
Accept(d, cmd, lba) ==
  drive' = IF drive[d].bsy \/ drive[d].kind = "none" THEN drive
           ELSE [drive EXCEPT ![d] = [kind |-> @.kind, bsy |-> TRUE, drq |-> FALSE,
                                      err |-> FALSE, cmd |-> cmd, lba |-> lba, data |-> 0]]

Fail(d) == drive' = [drive EXCEPT ![d].bsy = FALSE, ![d].drq = FALSE, ![d].err = TRUE,
                                  ![d].cmd = "none"]

\* The drive is ready to transfer, has written, or reports an error: because it has
\* no such sector or command, or because of a fault.
DriveReady(d) ==
  /\ drive[d].bsy /\ drive[d].cmd \in {"read", "write", "identify"}
  /\ drive[d].kind = "disk" /\ (drive[d].cmd # "identify" => drive[d].lba \in Lbas)
  /\ drive' = [drive EXCEPT ![d].bsy = FALSE, ![d].drq = TRUE,
                            ![d].data = IF drive[d].cmd = "read" THEN disk[d][drive[d].lba] ELSE 0]
  /\ UNCHANGED <<disk, errors>>

DriveCommits(d) ==
  /\ drive[d].bsy /\ drive[d].cmd = "commit"
  /\ drive' = [drive EXCEPT ![d].bsy = FALSE, ![d].cmd = "none"]
  /\ disk' = [disk EXCEPT ![d][drive[d].lba] = drive[d].data]
  /\ UNCHANGED errors

DriveRefuses(d) ==
  /\ drive[d].bsy
  /\ \/ drive[d].kind # "disk"
     \/ drive[d].cmd # "identify" /\ drive[d].lba \notin Lbas
  /\ Fail(d)
  /\ UNCHANGED <<disk, errors>>

DriveFails(d) ==
  /\ drive[d].bsy /\ errors < MaxErrors
  /\ Fail(d)
  /\ errors' = errors + 1
  /\ UNCHANGED disk

DriveStep ==
  /\ \E d \in Drives : DriveReady(d) \/ DriveCommits(d) \/ DriveRefuses(d) \/ DriveFails(d)
  /\ UNCHANGED <<selected, req, polls, present, calls, expected>>

--------------------------------------------------------------------------------
(* The driver: a call is at one of its three waits or done. *)

Finish(ok) ==
  /\ req' = [req EXCEPT !.at = "done", !.ok = ok]
  /\ polls' = 0

\* One more look, or the wait is over without success.
LookAgain ==
  IF polls + 1 < POLLS
  THEN polls' = polls + 1 /\ UNCHANGED req
  ELSE Finish(FALSE)

\* wait_bsy, with which every call begins; an error bit left from an earlier
\* command ends the call.  Then the registers and the command are written.
WaitBsy ==
  /\ req.at = "bsy"
  /\ LET st == Status(selected)
     IN  \/ st.bsy /\ LookAgain /\ UNCHANGED <<drive, selected>>
         \/ ~ st.bsy /\ st.err /\ Finish(FALSE) /\ UNCHANGED <<drive, selected>>
         \/ /\ ~ st.bsy /\ ~ st.err
            /\ selected' = req.drive
            /\ Accept(req.drive, req.op, req.lba % LBAS)
            /\ req' = [req EXCEPT !.at = "drq"] /\ polls' = 0
  /\ UNCHANGED <<disk, present, calls, errors, expected>>

\* wait_drq and the transfer of the sector.
Transfer(d) ==
  drive' = [drive EXCEPT ![d] =
     IF @.cmd = "write" THEN [@ EXCEPT !.drq = FALSE, !.bsy = TRUE, !.cmd = "commit",
                                       !.data = req.val]
                        ELSE [@ EXCEPT !.drq = FALSE, !.cmd = "none"]]

\* Mutant of WaitDrq: a write has succeeded as soon as the drive has the data.
WaitDrqUnconfirmed ==
  /\ req.at = "drq"
  /\ LET st == Status(selected)
     IN  \/ ~ st.bsy /\ st.drq
            /\ Transfer(selected)
            /\ req' = [req EXCEPT !.at = "done", !.ok = TRUE,
                                  !.val = IF req.op = "read" THEN st.data ELSE @]
            /\ polls' = 0
         \/ ~ st.bsy /\ ~ st.drq /\ st.err /\ Finish(FALSE) /\ UNCHANGED drive
         \/ (st.bsy \/ ~ (st.drq \/ st.err)) /\ LookAgain /\ UNCHANGED drive
  /\ UNCHANGED <<selected, disk, present, calls, errors, expected>>

WaitDrq ==
  /\ req.at = "drq"
  /\ LET st == Status(selected)
     IN  \/ ~ st.bsy /\ st.drq
            /\ Transfer(selected)
            /\ req' = [req EXCEPT !.at = "complete",
                                  !.val = IF req.op = "read" THEN st.data ELSE @]
            /\ polls' = 0
         \/ ~ st.bsy /\ ~ st.drq /\ st.err /\ Finish(FALSE) /\ UNCHANGED drive
         \/ (st.bsy \/ ~ (st.drq \/ st.err)) /\ LookAgain /\ UNCHANGED drive
  /\ UNCHANGED <<selected, disk, present, calls, errors, expected>>

WaitComplete ==
  /\ req.at = "complete"
  /\ LET st == Status(selected)
     IN  \/ st.bsy /\ LookAgain
         \/ ~ st.bsy /\ Finish(~ st.err)
  /\ UNCHANGED <<drive, selected, disk, present, calls, errors, expected>>

\* Calls and their results.
Begin(op, d, lba, val) ==
  /\ req = NoReq
  /\ req' = [op |-> op, drive |-> d, lba |-> lba, val |-> val, at |-> "bsy", ok |-> FALSE]
  /\ polls' = 0
  /\ UNCHANGED <<drive, selected, disk, present, errors, expected>>

\* ata_init: both drives in turn.
Identify ==
  /\ calls < 0 /\ calls' = calls + 1
  /\ Begin("identify", IF calls = -2 THEN "master" ELSE "slave", 0, 0)

\* ata_read_sector, ata_read_sector_slave and the two for writing.
Access(op) ==
  /\ calls \in 0 .. MaxCalls - 1 /\ calls' = calls + 1
  /\ \E d \in Drives, lba \in Requested, v \in Values :
        /\ present[d] /\ (op = "read" => v = 0)
        /\ Begin(op, d, lba, v)

InReach == req.lba < LBAS /\ req.lba \in Lbas

Return ==
  /\ req.at = "done"
  /\ req' = NoReq
  /\ present' = IF req.op = "identify" THEN [present EXCEPT ![req.drive] = req.ok] ELSE present
  /\ expected' = IF req.op = "write" /\ InReach
                 THEN [expected EXCEPT ![req.drive][req.lba] =
                          IF req.ok THEN {req.val} ELSE @ \cup {req.val}]
                 ELSE expected
  /\ UNCHANGED <<drive, selected, disk, polls, calls, errors>>

DriverStep ==
  \/ WaitBsy \/ WaitDrq \/ WaitComplete \/ Return
  \/ Identify \/ Access("read") \/ Access("write")

AtaInit ==
  /\ \E k \in Slaves : drive = [d \in Drives |-> AtRest(IF d = "master" THEN "disk" ELSE k)]
  /\ selected = "master"
  /\ disk = [d \in Drives |-> [l \in Lbas |-> 0]]
  /\ req = NoReq /\ polls = 0
  /\ present = [d \in Drives |-> FALSE]
  /\ calls = -2 /\ errors = 0
  /\ expected = [d \in Drives |-> [l \in Lbas |-> {0}]]

--------------------------------------------------------------------------------
(* Properties. *)

\* The results of the calls are true, whatever a drive that was given up on still
\* does: a read that succeeds has brought what the sector holds, a sector holds what
\* was written to it last with success, or what a failed write of it since then
\* wanted, and no call touches another sector or drive.
DiskTruthful ==
  /\ \A d \in Drives, l \in Lbas :
        disk[d][l] \in expected[d][l] \cup
           (IF req.op = "write" /\ req.drive = d /\ req.lba = l THEN {req.val} ELSE {})
           \cup (IF drive[d].cmd = "commit" /\ drive[d].lba = l THEN {drive[d].data} ELSE {})
  /\ (req.at = "done" /\ req.ok /\ req.op \in {"read", "write"} /\ req.lba < LBAS) =>
        req.lba \in Lbas /\ disk[req.drive][req.lba] = req.val
================================================================================
