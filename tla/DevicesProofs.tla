----------------------------- MODULE DevicesProofs -----------------------------
(* The results of the disk calls are true for disks, time-outs and numbers of      *)
(* calls and faults of any size; the days are counted right over the century; a    *)
(* reading of the clock is off by less than it carried, whatever passes meanwhile; *)
(* a key of the USB keyboard gives its character once; and the devices of any tree *)
(* of hubs get addresses of their own and drivers of their own.                    *)
(*                                                                                 *)
(* For the disks, what makes it so is that the driver turns to another drive only  *)
(* when the one selected is not busy: so a drive that was given up on is the only  *)
(* one that can be busy, and no command and no data ever reach it until it has     *)
(* finished.  For the clock it is that each register holds what was shown some     *)
(* time during the call, and that the largest field in which two times differ      *)
(* bounds their distance.  For the keyboard, the reports under way are followed    *)
(* from the one the driver has kept to the keys that are down now.  For the bus it *)
(* is that the ports are enabled in the order of the tree, each once, so that only *)
(* the device whose turn it is can be at address 0.                                *)
EXTENDS Devices, FiniteSetTheorems, WellFoundedInduction, TLAPS

--------------------------------------------------------------------------------
(* The disks. *)

Contents == Values \cup {0}
DriveType == [kind : Slaves \cup {"disk"}, bsy : BOOLEAN, drq : BOOLEAN, err : BOOLEAN,
              cmd : {"none", "identify", "read", "write", "commit"}, lba : Nat,
              data : Contents]
ReqType == [op : {"identify", "read", "write"}, drive : Drives, lba : Nat, val : Contents,
            at : {"bsy", "drq", "complete", "done"}, ok : BOOLEAN]

AtaTypes ==
  /\ drive \in [Drives -> DriveType] /\ selected \in Drives
  /\ disk \in [Drives -> [Lbas -> Contents]]
  /\ expected \in [Drives -> [Lbas -> SUBSET Contents]]
  /\ req \in {NoReq} \cup ReqType
  /\ req # NoReq => req.lba < LBAS

\* Only the selected drive is ever busy.
OneBusy == \A d \in Drives : d # selected => ~ drive[d].bsy

\* What the bits of a drive say of its command.
Working(d) ==
  LET s == drive[d]
  IN  /\ s.bsy => ~ s.drq /\ ~ s.err
      /\ s.drq => /\ ~ s.err /\ s.cmd \in {"identify", "read", "write"}
                  /\ s.cmd # "identify" => s.lba \in Lbas
                  /\ s.cmd = "read" => s.data = disk[d][s.lba]
      /\ s.cmd = "commit" => s.bsy /\ s.lba \in Lbas
      /\ s.kind = "none" => s.cmd = "none" /\ ~ s.bsy /\ ~ s.drq

\* The values that a sector may get: those that the callers know of, and that of the
\* write under way.
Wanted(d, l) ==
  expected[d][l] \cup (IF req.op = "write" /\ req.drive = d /\ req.lba = l THEN {req.val} ELSE {})

Kept ==
  \A d \in Drives :
    /\ \A l \in Lbas : disk[d][l] \in Wanted(d, l)
    /\ drive[d].cmd = "commit" => drive[d].data \in Wanted(d, drive[d].lba)

\* The selected drive serves the call under way and no other.
Serving ==
  LET s == drive[selected]
  IN  /\ req.at = "drq" =>
           /\ selected = req.drive
           /\ s.cmd # "none" => s.cmd = req.op /\ s.lba = req.lba
      /\ req.at = "complete" =>
           /\ selected = req.drive
           /\ req.op # "identify" => req.lba \in Lbas
           /\ req.op = "read" => ~ s.bsy /\ disk[selected][req.lba] = req.val
           /\ req.op = "write" =>
                IF s.bsy THEN s.cmd = "commit" /\ s.lba = req.lba /\ s.data = req.val
                ELSE s.err \/ disk[selected][req.lba] = req.val
      /\ (req.at = "done" /\ req.ok /\ req.op # "identify") =>
           /\ selected = req.drive /\ ~ s.bsy
           /\ req.lba \in Lbas /\ disk[selected][req.lba] = req.val

AtaInv ==
  /\ AtaTypes /\ OneBusy /\ (\A d \in Drives : Working(d)) /\ Kept /\ Serving

\* Callers stay below the sectors that the registers can name.
Addressable == Requested \subseteq 0 .. LBAS - 1

LEMMA Below == \A a \in Nat, b \in Nat \ {0} : a < b => a % b = a
OBVIOUS

LEMMA AtaBasics ==
  ASSUME AtaInv
  PROVE  /\ AtaTypes /\ OneBusy /\ Kept /\ Serving
         /\ \A d \in Drives : Working(d) /\ drive[d] \in DriveType
         /\ req # NoReq => req \in ReqType
         /\ req.at \in {"bsy", "drq", "complete", "done"} => req # NoReq /\ req \in ReqType
         /\ selected \in Drives /\ drive[selected] \in DriveType
<1>1. AtaTypes /\ OneBusy /\ Kept /\ Serving /\ \A d \in Drives : Working(d)
  BY DEF AtaInv
<1>2. NoReq.at = "idle"
  BY DEF NoReq
<1> QED
  BY <1>1, <1>2 DEF AtaTypes

\* Only the place in the call and its result change, and not to success.
LEMMA CallGoesOn ==
  ASSUME AtaInv, req # NoReq, UNCHANGED <<drive, selected, disk, expected>>,
         req' = req \/ req' = [req EXCEPT !.at = "done", !.ok = FALSE]
  PROVE  AtaInv'
<1>1. CASE req' = req
  <2>1. AtaTypes' /\ OneBusy' /\ Kept' /\ Serving'
    BY <1>1, AtaBasics DEF AtaTypes, OneBusy, Kept, Serving, Wanted
  <2>2. \A d \in Drives : Working(d)'
    BY AtaBasics DEF Working
  <2> QED
    BY <2>1, <2>2 DEF AtaInv
<1>2. CASE req' = [req EXCEPT !.at = "done", !.ok = FALSE]
  <2>1. /\ req' \in ReqType /\ req'.at = "done" /\ ~ req'.ok /\ req'.op = req.op
        /\ req'.drive = req.drive /\ req'.lba = req.lba /\ req'.val = req.val
    BY <1>2, AtaBasics DEF ReqType
  <2>2. AtaTypes' /\ OneBusy' /\ Kept' /\ Serving'
    BY <2>1, AtaBasics DEF AtaTypes, OneBusy, Kept, Serving, Wanted
  <2>3. \A d \in Drives : Working(d)'
    BY AtaBasics DEF Working
  <2> QED
    BY <2>2, <2>3 DEF AtaInv
<1> QED
  BY <1>1, <1>2

LEMMA WaitBsyStep ==
  ASSUME AtaInv, WaitBsy
  PROVE  AtaInv'
<1>1. req \in ReqType /\ req # NoReq /\ req.at = "bsy" /\ UNCHANGED <<disk, expected>>
  BY AtaBasics DEF WaitBsy
<1>2. CASE UNCHANGED <<drive, selected>> /\ (LookAgain \/ Finish(FALSE))
  BY <1>1, <1>2, CallGoesOn DEF LookAgain, Finish
<1>3. CASE /\ ~ drive[selected].bsy /\ selected' = req.drive
           /\ Accept(req.drive, req.op, req.lba % LBAS)
           /\ req' = [req EXCEPT !.at = "drq"]
  <2> DEFINE d0 == req.drive
  <2> DEFINE new == [kind |-> drive[d0].kind, bsy |-> TRUE, drq |-> FALSE, err |-> FALSE,
                     cmd |-> req.op, lba |-> req.lba, data |-> 0]
  <2>1. req.lba % LBAS = req.lba /\ req.lba \in Nat /\ d0 \in Drives
    <3>1. req.lba \in Nat /\ req.lba < LBAS /\ d0 \in Drives
      BY <1>1, AtaBasics DEF AtaTypes, ReqType
    <3> QED
      BY <3>1, Below, AtaAssumption
  <2>2. \A d \in Drives : ~ drive[d].bsy
    BY <1>3, AtaBasics DEF OneBusy
  <2>3. /\ req' \in ReqType /\ req' # NoReq /\ req'.at = "drq" /\ req'.op = req.op
        /\ req'.drive = req.drive /\ req'.lba = req.lba /\ req'.val = req.val
    BY <1>1, <1>3 DEF ReqType, NoReq
  <2>4. drive' = IF drive[d0].kind = "none" THEN drive ELSE [drive EXCEPT ![d0] = new]
    BY <1>3, <2>1, <2>2 DEF Accept
  <2>5. new \in DriveType
    BY <1>1, <2>1, AtaBasics DEF DriveType, ReqType, Contents
  <2>6. /\ drive' \in [Drives -> DriveType]
        /\ \A d \in Drives : drive'[d] = IF d = d0 /\ drive[d].kind # "none" THEN new ELSE drive[d]
    BY <2>1, <2>4, <2>5, AtaBasics DEF AtaTypes
  <2>7. AtaTypes'
    BY <1>1, <1>3, <2>1, <2>3, <2>6, AtaBasics DEF AtaTypes
  <2>8. OneBusy'
    BY <1>3, <2>2, <2>6 DEF OneBusy
  <2>9. \A d \in Drives : Working(d)'
    BY <1>1, <2>2, <2>6, AtaBasics DEF Working, ReqType
  <2>10. Kept'
    BY <1>1, <2>3, <2>6, AtaBasics DEF Kept, Wanted, ReqType
  <2>11. Serving'
    BY <1>3, <2>1, <2>3, <2>6, AtaBasics DEF Serving, Working
  <2> QED
    BY <2>7, <2>8, <2>9, <2>10, <2>11 DEF AtaInv
<1> QED
  BY <1>2, <1>3 DEF WaitBsy, Status

LEMMA WaitDrqStep ==
  ASSUME AtaInv, WaitDrq
  PROVE  AtaInv'
<1>1. req \in ReqType /\ req # NoReq /\ req.at = "drq"
      /\ UNCHANGED <<selected, disk, expected>>
  BY AtaBasics DEF WaitDrq
<1>2. CASE UNCHANGED drive /\ (LookAgain \/ Finish(FALSE))
  BY <1>1, <1>2, CallGoesOn DEF LookAgain, Finish
<1>3. CASE /\ ~ drive[selected].bsy /\ drive[selected].drq /\ Transfer(selected)
           /\ req' = [req EXCEPT !.at = "complete",
                                 !.val = IF req.op = "read" THEN drive[selected].data ELSE @]
  <2> DEFINE s == drive[selected]
  <2> DEFINE new == IF s.cmd = "write"
                    THEN [s EXCEPT !.drq = FALSE, !.bsy = TRUE, !.cmd = "commit", !.data = req.val]
                    ELSE [s EXCEPT !.drq = FALSE, !.cmd = "none"]
  <2>1. /\ selected = req.drive /\ s.cmd = req.op /\ s.lba = req.lba /\ ~ s.err
        /\ req.op # "identify" => req.lba \in Lbas
        /\ req.op = "read" => s.data = disk[selected][req.lba]
    BY <1>1, <1>3, AtaBasics DEF Serving, Working
  <2>2. /\ req' \in ReqType /\ req' # NoReq /\ req'.at = "complete" /\ req'.op = req.op
        /\ req'.drive = req.drive /\ req'.lba = req.lba
        /\ req'.val = IF req.op = "read" THEN s.data ELSE req.val
    <3>1. s.data \in Contents
      BY AtaBasics DEF DriveType
    <3> QED
      BY <1>1, <1>3, <3>1 DEF ReqType, NoReq
  <2>3. drive' = [drive EXCEPT ![selected] = new]
    BY <1>3 DEF Transfer
  <2>4. /\ new \in DriveType /\ ~ new.drq /\ new.kind = s.kind /\ new.lba = s.lba /\ ~ new.err
        /\ req.op = "write" => new.bsy /\ new.cmd = "commit" /\ new.data = req.val
        /\ req.op # "write" => ~ new.bsy /\ new.cmd = "none"
    BY <1>1, <1>3, <2>1, AtaBasics DEF DriveType, ReqType
  <2> HIDE DEF new
  <2>5. /\ drive' \in [Drives -> DriveType]
        /\ \A d \in Drives : drive'[d] = IF d = selected THEN new ELSE drive[d]
    BY <2>3, <2>4, AtaBasics DEF AtaTypes
  <2>6. AtaTypes'
    BY <1>1, <2>2, <2>5, AtaBasics DEF AtaTypes
  <2>7. OneBusy'
    BY <1>1, <2>5, AtaBasics DEF OneBusy
  <2>8. \A d \in Drives : Working(d)'
    <3>1. s.kind # "none"
      BY <1>3, AtaBasics DEF Working
    <3> QED
      BY <1>1, <2>1, <2>4, <2>5, <3>1, AtaBasics DEF Working
  <2>9. Kept'
    BY <1>1, <2>1, <2>2, <2>4, <2>5, AtaBasics DEF Kept, Wanted
  <2>10. Serving'
    <3>1. drive'[selected'] = new
      BY <1>1, <2>5, AtaBasics
    <3> QED
      BY <1>1, <2>1, <2>2, <2>4, <3>1 DEF Serving
  <2> QED
    BY <2>6, <2>7, <2>8, <2>9, <2>10 DEF AtaInv
<1> QED
  BY <1>2, <1>3 DEF WaitDrq, Status

LEMMA WaitCompleteStep ==
  ASSUME AtaInv, WaitComplete
  PROVE  AtaInv'
<1>1. req \in ReqType /\ req # NoReq /\ req.at = "complete"
      /\ UNCHANGED <<drive, selected, disk, expected>>
  BY AtaBasics DEF WaitComplete
<1>2. CASE LookAgain
  BY <1>1, <1>2, CallGoesOn DEF LookAgain, Finish
<1>3. CASE ~ drive[selected].bsy /\ Finish(~ drive[selected].err)
  <2>1. /\ req' \in ReqType /\ req' # NoReq /\ req'.at = "done" /\ req'.op = req.op
        /\ req'.drive = req.drive /\ req'.lba = req.lba /\ req'.val = req.val
        /\ req'.ok = ~ drive[selected].err
    BY <1>1, <1>3, AtaBasics DEF Finish, ReqType, NoReq, DriveType
  <2>2. AtaTypes' /\ OneBusy' /\ Kept'
    BY <1>1, <2>1, AtaBasics DEF AtaTypes, OneBusy, Kept, Wanted
  <2>3. \A d \in Drives : Working(d)'
    BY <1>1, AtaBasics DEF Working
  <2>4. Serving'
    BY <1>1, <1>3, <2>1, AtaBasics DEF Serving, ReqType
  <2> QED
    BY <2>2, <2>3, <2>4 DEF AtaInv
<1> QED
  BY <1>2, <1>3 DEF WaitComplete, Status

LEMMA BeginStep ==
  ASSUME AtaInv, NEW op \in {"identify", "read", "write"}, NEW d \in Drives, NEW lba \in Nat,
         lba < LBAS, NEW val \in Contents, Begin(op, d, lba, val)
  PROVE  AtaInv'
<1>1. /\ req = NoReq /\ req.op = "none" /\ UNCHANGED <<drive, selected, disk, expected>>
      /\ req' = [op |-> op, drive |-> d, lba |-> lba, val |-> val, at |-> "bsy", ok |-> FALSE]
  BY DEF Begin, NoReq
<1>2. req' \in ReqType /\ req'.lba < LBAS /\ req'.at = "bsy"
  BY <1>1 DEF ReqType
<1>3. AtaTypes' /\ OneBusy' /\ Serving'
  BY <1>1, <1>2, AtaBasics DEF AtaTypes, OneBusy, Serving
<1>4. Kept'
  BY <1>1, AtaBasics DEF Kept, Wanted
<1>5. \A c \in Drives : Working(c)'
  BY <1>1, AtaBasics DEF Working
<1> QED
  BY <1>3, <1>4, <1>5 DEF AtaInv

LEMMA ReturnStep ==
  ASSUME AtaInv, Return
  PROVE  AtaInv'
<1>1. req \in ReqType /\ req # NoReq /\ req.at = "done" /\ req' = NoReq
      /\ req'.op = "none" /\ req'.at = "idle" /\ UNCHANGED <<drive, selected, disk>>
  BY AtaBasics DEF Return, NoReq
<1>2. CASE req.op = "write" /\ InReach
  <2> DEFINE d0 == req.drive
  <2> DEFINE l0 == req.lba
  <2> DEFINE new == IF req.ok THEN {req.val} ELSE expected[d0][l0] \cup {req.val}
  <2>1. d0 \in Drives /\ l0 \in Lbas /\ req.val \in Contents
    BY <1>1, <1>2 DEF ReqType, InReach
  <2>2. expected' = [expected EXCEPT ![d0][l0] = new]
    BY <1>2 DEF Return
  <2>3. new \in SUBSET Contents
    BY <2>1, AtaBasics DEF AtaTypes
  <2>4. /\ expected' \in [Drives -> [Lbas -> SUBSET Contents]]
        /\ \A d \in Drives, l \in Lbas :
             expected'[d][l] = IF d = d0 /\ l = l0 THEN new ELSE expected[d][l]
    BY <2>1, <2>2, <2>3, AtaBasics DEF AtaTypes
  <2>5. req.ok => /\ \A d \in Drives : ~ drive[d].bsy /\ drive[d].cmd # "commit"
                  /\ disk[d0][l0] = req.val
    BY <1>1, <1>2, AtaBasics DEF Serving, OneBusy, Working, ReqType
  <2>6. \A d \in Drives : drive[d].cmd = "commit" => drive[d].lba \in Lbas
    BY AtaBasics DEF Working
  <2>7. ASSUME NEW d \in Drives, NEW l \in Lbas
        PROVE  /\ req.ok => disk[d][l] \in expected'[d][l]
               /\ ~ req.ok => Wanted(d, l) \subseteq expected'[d][l]
    <3>1. CASE d = d0 /\ l = l0
      BY <1>2, <2>1, <2>4, <2>5, <3>1 DEF Wanted
    <3>2. CASE ~ (d = d0 /\ l = l0)
      BY <2>1, <2>4, <3>2, AtaBasics DEF Kept, Wanted
    <3> QED
      BY <3>1, <3>2
  <2>8. Kept'
    <3>1. \A d \in Drives, l \in Lbas : disk[d][l] \in expected'[d][l]
      BY <2>7, AtaBasics DEF Kept
    <3>2. \A d \in Drives : drive[d].cmd = "commit" => drive[d].data \in expected'[d][drive[d].lba]
      BY <2>5, <2>6, <2>7, AtaBasics DEF Kept
    <3> QED
      BY <1>1, <3>1, <3>2 DEF Kept, Wanted
  <2>9. AtaTypes' /\ OneBusy' /\ Serving'
    BY <1>1, <2>4, AtaBasics DEF AtaTypes, OneBusy, Serving
  <2>10. \A d \in Drives : Working(d)'
    BY <1>1, AtaBasics DEF Working
  <2> QED
    BY <2>8, <2>9, <2>10 DEF AtaInv
<1>3. CASE ~ (req.op = "write" /\ InReach)
  <2>1. expected' = expected
    BY <1>3 DEF Return
  <2>2. AtaTypes' /\ OneBusy' /\ Serving'
    BY <1>1, <2>1, AtaBasics DEF AtaTypes, OneBusy, Serving
  <2>3. \A d \in Drives, l \in Lbas : Wanted(d, l) = expected[d][l]
    BY <1>1, <1>3, AtaBasics DEF Wanted, InReach, AtaTypes
  <2>4. Kept'
    BY <1>1, <2>1, <2>3, AtaBasics DEF Kept, Wanted, Working
  <2>5. \A d \in Drives : Working(d)'
    BY <1>1, AtaBasics DEF Working
  <2> QED
    BY <2>2, <2>4, <2>5 DEF AtaInv
<1> QED
  BY <1>2, <1>3

\* A drive that is busy goes on; it is the selected one.
LEMMA DriveWorks ==
  ASSUME AtaInv, NEW d \in Drives, drive[d].bsy, NEW new \in DriveType,
         drive' = [drive EXCEPT ![d] = new], ~ new.bsy, new.kind = drive[d].kind,
         new.cmd \in {drive[d].cmd, "none"}, new.cmd # "commit", new.lba = drive[d].lba,
         new.drq => /\ new.cmd \in {"identify", "read", "write"} /\ ~ new.err
                    /\ new.cmd # "identify" => new.lba \in Lbas
                    /\ new.cmd = "read" => new.data = disk[d][new.lba],
         \/ disk' = disk /\ (drive[d].cmd = "commit" => new.err)
         \/ /\ drive[d].cmd = "commit"
            /\ disk' = [disk EXCEPT ![d][drive[d].lba] = drive[d].data],
         UNCHANGED <<selected, req, expected>>
  PROVE  AtaInv'
<1>1. d = selected /\ drive[d] \in DriveType /\ drive[d].kind # "none"
  BY AtaBasics DEF OneBusy, Working
<1>2. /\ drive' \in [Drives -> DriveType] /\ drive'[d] = new
      /\ \A c \in Drives : c # d => drive'[c] = drive[c]
  BY AtaBasics DEF AtaTypes
<1>3. drive[d].cmd = "commit" => drive[d].lba \in Lbas /\ drive[d].data \in Contents
  BY <1>1, AtaBasics DEF Working, DriveType
<1>4. /\ disk' \in [Drives -> [Lbas -> Contents]]
      /\ \A c \in Drives, l \in Lbas :
           \/ disk'[c][l] = disk[c][l]
           \/ /\ drive[d].cmd = "commit" /\ c = d /\ l = drive[d].lba
              /\ disk'[c][l] = drive[d].data
      /\ \A c \in Drives : c # d => disk'[c] = disk[c]
      /\ (drive[d].cmd = "commit" /\ ~ new.err) => disk'[d][drive[d].lba] = drive[d].data
  <2>1. CASE disk' = disk /\ (drive[d].cmd = "commit" => new.err)
    BY <2>1, AtaBasics DEF AtaTypes
  <2>2. CASE /\ drive[d].cmd = "commit"
             /\ disk' = [disk EXCEPT ![d][drive[d].lba] = drive[d].data]
    <3>1. disk \in [Drives -> [Lbas -> Contents]]
      BY AtaBasics DEF AtaTypes
    <3>2. /\ disk'[d] = [disk[d] EXCEPT ![drive[d].lba] = drive[d].data]
          /\ \A c \in Drives : c # d => disk'[c] = disk[c]
          /\ disk' = [disk EXCEPT ![d] = disk'[d]]
      BY <2>2, <3>1
    <3>3. disk'[d] \in [Lbas -> Contents]
      BY <1>3, <2>2, <3>1, <3>2
    <3> QED
      BY <1>3, <2>2, <3>1, <3>2, <3>3
  <2> QED
    BY <2>1, <2>2
<1>5. AtaTypes'
  BY <1>2, <1>4, AtaBasics DEF AtaTypes
<1>6. OneBusy'
  BY <1>1, <1>2, AtaBasics DEF OneBusy
<1>7. ASSUME NEW c \in Drives
      PROVE  Working(c)'
  <2>1. CASE c = d
    <3>1. disk' # disk => ~ new.drq
      BY <1>1
    <3> QED
      BY <1>1, <1>2, <2>1, <3>1 DEF Working
  <2>2. CASE c # d
    <3>1. drive'[c] = drive[c] /\ disk'[c] = disk[c]
      BY <1>2, <2>2, AtaBasics DEF AtaTypes
    <3> QED
      BY <3>1, AtaBasics DEF Working
  <2> QED
    BY <2>1, <2>2
<1>8. Kept'
  <2>1. \A c \in Drives, l \in Lbas : Wanted(c, l)' = Wanted(c, l)
    BY DEF Wanted
  <2>2. \A c \in Drives, l \in Lbas : disk'[c][l] \in Wanted(c, l)
    BY <1>3, <1>4, AtaBasics DEF Kept
  <2>3. \A c \in Drives : drive'[c].cmd = "commit" =>
          /\ drive[c].cmd = "commit" /\ drive'[c].data = drive[c].data
          /\ drive'[c].lba = drive[c].lba /\ drive[c].lba \in Lbas
    BY <1>2, AtaBasics DEF Working
  <2> QED
    BY <2>1, <2>2, <2>3, AtaBasics DEF Kept
<1>9. Serving'
  <2>1. drive'[selected'] = new /\ selected' = selected /\ req' = req
    BY <1>1, <1>2
  <2>2. req.at = "drq" => /\ selected = req.drive
                          /\ new.cmd # "none" => new.cmd = req.op /\ new.lba = req.lba
    BY <1>1, AtaBasics DEF Serving
  <2>3. ASSUME req.at = "complete"
        PROVE  /\ selected = req.drive
               /\ req.op # "identify" => req.lba \in Lbas
               /\ req.op # "read"
               /\ req.op = "write" => new.err \/ disk'[selected][req.lba] = req.val
    BY <1>1, <1>4, <2>3, AtaBasics DEF Serving
  <2>4. ~ (req.at = "done" /\ req.ok /\ req.op # "identify")
    BY <1>1, AtaBasics DEF Serving
  <2> QED
    BY <2>1, <2>2, <2>3, <2>4 DEF Serving
<1> QED
  BY <1>5, <1>6, <1>7, <1>8, <1>9 DEF AtaInv

LEMMA DriveStepKeeps ==
  ASSUME AtaInv, DriveStep
  PROVE  AtaInv'
<1>1. UNCHANGED <<selected, req, expected>>
  BY DEF DriveStep
<1>2. PICK d \in Drives : DriveReady(d) \/ DriveCommits(d) \/ DriveRefuses(d) \/ DriveFails(d)
  BY DEF DriveStep
<1>3. drive[d].bsy /\ drive[d] \in DriveType /\ Working(d) /\ drive \in [Drives -> DriveType]
  BY <1>2, AtaBasics DEF DriveReady, DriveCommits, DriveRefuses, DriveFails, AtaTypes
<1>4. CASE DriveReady(d)
  <2> DEFINE data == IF drive[d].cmd = "read" THEN disk[d][drive[d].lba] ELSE 0
  <2> DEFINE new == [drive[d] EXCEPT !.bsy = FALSE, !.drq = TRUE, !.data = data]
  <2>1. data \in Contents /\ drive[d].cmd \in {"read", "write", "identify"} /\ disk' = disk
        /\ (drive[d].cmd # "identify" => drive[d].lba \in Lbas)
    BY <1>4, AtaBasics DEF DriveReady, Contents, AtaTypes
  <2>2. drive' = [drive EXCEPT ![d] = new]
    BY <1>3, <1>4 DEF DriveReady
  <2>3. /\ new \in DriveType /\ ~ new.bsy /\ new.kind = drive[d].kind /\ new.cmd = drive[d].cmd
        /\ new.lba = drive[d].lba /\ new.data = data /\ new.err = drive[d].err
    BY <1>3, <2>1 DEF DriveType
  <2>4. ~ drive[d].err
    BY <1>3 DEF Working
  <2> HIDE DEF new
  <2> QED
    BY <1>1, <1>3, <2>1, <2>2, <2>3, <2>4, DriveWorks
<1>5. CASE DriveCommits(d)
  <2> DEFINE new == [drive[d] EXCEPT !.bsy = FALSE, !.cmd = "none"]
  <2>1. drive' = [drive EXCEPT ![d] = new]
    BY <1>3, <1>5 DEF DriveCommits
  <2>2. /\ new \in DriveType /\ ~ new.bsy /\ new.kind = drive[d].kind /\ new.cmd = "none"
        /\ new.lba = drive[d].lba /\ ~ new.drq
    BY <1>3 DEF DriveType, Working
  <2>3. /\ drive[d].cmd = "commit"
        /\ disk' = [disk EXCEPT ![d][drive[d].lba] = drive[d].data]
    BY <1>5 DEF DriveCommits
  <2> HIDE DEF new
  <2> QED
    BY <1>1, <1>3, <2>1, <2>2, <2>3, DriveWorks
<1>6. CASE DriveRefuses(d) \/ DriveFails(d)
  <2> DEFINE new == [drive[d] EXCEPT !.bsy = FALSE, !.drq = FALSE, !.err = TRUE, !.cmd = "none"]
  <2>1. drive' = [drive EXCEPT ![d] = new] /\ disk' = disk
    BY <1>3, <1>6 DEF DriveRefuses, DriveFails, Fail
  <2>2. /\ new \in DriveType /\ ~ new.bsy /\ new.kind = drive[d].kind /\ new.cmd = "none"
        /\ new.lba = drive[d].lba /\ ~ new.drq /\ new.err
    BY <1>3 DEF DriveType
  <2> HIDE DEF new
  <2> QED
    BY <1>1, <1>3, <2>1, <2>2, DriveWorks
<1> QED
  BY <1>2, <1>4, <1>5, <1>6

LEMMA DriverStepKeeps ==
  ASSUME Addressable, AtaInv, DriverStep
  PROVE  AtaInv'
<1>1. CASE Identify
  <2>1. 0 \in Nat /\ 0 < LBAS /\ 0 \in Contents
    BY AtaAssumption DEF Contents
  <2> QED
    BY <1>1, <2>1, BeginStep DEF Identify, Drives
<1>2. ASSUME NEW op \in {"read", "write"}, Access(op)
      PROVE  AtaInv'
  <2>1. PICK d \in Drives, lba \in Requested, v \in Values : Begin(op, d, lba, v)
    BY <1>2 DEF Access
  <2>2. lba \in Nat /\ lba < LBAS /\ v \in Contents
    BY AtaAssumption DEF Addressable, Contents
  <2> QED
    BY <2>1, <2>2, BeginStep
<1> QED
  BY <1>1, <1>2, WaitBsyStep, WaitDrqStep, WaitCompleteStep, ReturnStep DEF DriverStep

LEMMA AtaInitially ==
  ASSUME AtaInit
  PROVE  AtaInv
<1>1. PICK k \in Slaves : drive = [d \in Drives |-> AtRest(IF d = "master" THEN "disk" ELSE k)]
  BY DEF AtaInit
<1>2. \A x : AtRest(x) = [kind |-> x, bsy |-> FALSE, drq |-> FALSE, err |-> FALSE,
                         cmd |-> "none", lba |-> 0, data |-> 0]
  BY DEF AtRest
<1>3. \A d \in Drives : /\ drive[d] \in DriveType /\ ~ drive[d].bsy /\ ~ drive[d].drq
                        /\ drive[d].cmd = "none"
  BY <1>1, <1>2 DEF DriveType, Contents
<1>4. req.at = "idle" /\ req.op = "none" /\ req = NoReq
  BY DEF AtaInit, NoReq
<1>5. AtaTypes
  BY <1>1, <1>3, <1>4 DEF AtaInit, AtaTypes, Drives, Contents
<1>6. OneBusy /\ Serving /\ \A d \in Drives : Working(d)
  BY <1>3, <1>4 DEF OneBusy, Serving, Working
<1>7. Kept
  BY <1>3, <1>4 DEF AtaInit, Kept, Wanted
<1> QED
  BY <1>5, <1>6, <1>7 DEF AtaInv

LEMMA AtaUnchanged == AtaInv /\ UNCHANGED ataVars => AtaInv'
<1> SUFFICES ASSUME AtaInv, UNCHANGED ataVars PROVE AtaInv'
  OBVIOUS
<1>1. UNCHANGED <<drive, selected, disk, req, expected>>
  BY DEF ataVars
<1>2. AtaTypes' /\ OneBusy' /\ Kept' /\ Serving'
  BY <1>1, AtaBasics DEF AtaTypes, OneBusy, Kept, Serving, Wanted
<1>3. \A d \in Drives : Working(d)'
  BY <1>1, AtaBasics DEF Working
<1> QED
  BY <1>2, <1>3 DEF AtaInv

\* Whatever a drive that was given up on still does, the selected drive is the only
\* one at work and what the disks hold is accounted for (ata_wait_bsy before the
\* drive is selected, ata.c).
THEOREM DisksInvariance ==
  ASSUME Addressable
  PROVE  Spec => []AtaInv
<1>1. Init => AtaInv
  BY AtaInitially DEF Init
<1>2. AtaInv /\ [Next]_vars => AtaInv'
  <2> SUFFICES ASSUME AtaInv, [Next]_vars PROVE AtaInv'
    OBVIOUS
  <2>1. CASE Disks
    BY <2>1, DriverStepKeeps, DriveStepKeeps DEF Disks
  <2>2. CASE Clock \/ Bus \/ Keyboard \/ UNCHANGED vars
    BY <2>2, AtaUnchanged DEF Clock, Bus, Keyboard, vars
  <2> QED
    BY <2>1, <2>2 DEF Next
<1> QED
  BY <1>1, <1>2, PTL DEF Spec

\* A read that succeeds has brought what the sector holds, a write that succeeds is
\* on the disk, and a sector holds what its callers may expect: for callers whose
\* sectors fit into the 28 bits of the registers (ata_read_sector and the others).
THEOREM DisksAlwaysTruthful ==
  ASSUME Addressable
  PROVE  Spec => []DiskTruthful
<1>1. ASSUME AtaInv PROVE DiskTruthful
  <2>1. \A d \in Drives, l \in Lbas : disk[d][l] \in Wanted(d, l)
    BY <1>1, AtaBasics DEF Kept
  <2>2. (req.at = "done" /\ req.ok /\ req.op \in {"read", "write"}) =>
           req.lba \in Lbas /\ disk[req.drive][req.lba] = req.val
    BY <1>1, AtaBasics DEF Serving
  <2> QED
    BY <2>1, <2>2 DEF DiskTruthful, Wanted
<1> QED
  BY <1>1, DisksInvariance, PTL

--------------------------------------------------------------------------------
(* The calendar. *)

\* What the clock shows, from 2000 to 2099.
Instant == [year : 0 .. 99, month : 1 .. 12, day : 1 .. 31,
            hour : 0 .. HOURS - 1, minute : 0 .. MINUTES - 1, second : 0 .. SECONDS - 1]
Calendar(t) == t \in Instant /\ t.day <= DaysIn(t.year, t.month)
CivilDay(t) == days_from_civil(2000 + t.year, t.month, t.day)

LEMMA DaysInRange ==
  ASSUME NEW y \in 0 .. 99, NEW m \in 1 .. 12
  PROVE  DaysIn(y, m) \in 28 .. 31
BY DEF DaysIn

LEMMA YearExact ==
  ASSUME NEW y \in 0 .. 99, y + 1 \in 0 .. 99
  PROVE  days_from_civil(2000 + (y + 1), 1, 1) = days_from_civil(2000 + y, 12, 31) + 1
<1> DEFINE z == y + 1
<1>1. days_from_civil(2000 + z, 1, 1) = 10957 + 365 * z + (z + 3) \div 4
  BY DEF days_from_civil
<1>2. days_from_civil(2000 + y, 12, 31) = 10957 + 365 * y + y \div 4 + 365
  BY DEF days_from_civil
<1>3. (z + 3) \div 4 = y \div 4 + 1
  OBVIOUS
<1> QED
  BY <1>1, <1>2, <1>3

\* The day before the first of a month.
LEMMA MonthExact ==
  ASSUME NEW y \in 0 .. 99, NEW m \in 1 .. 11
  PROVE  days_from_civil(2000 + y, m + 1, 1) = days_from_civil(2000 + y, m, DaysIn(y, m)) + 1
<1>1. CASE m = 1
  <2>1. DaysIn(y, 1) = 31
    BY DEF DaysIn
  <2>2. days_from_civil(2000 + y, 2, 1) = days_from_civil(2000 + y, 1, 31) + 1
    BY DEF days_from_civil
  <2> QED
    BY <1>1, <2>1, <2>2
<1>2. CASE m = 2
  <2>1. DaysIn(y, 2) = 29 + y \div 4 - (y + 3) \div 4
    <3>1. LeapYear(2000 + y) <=> y % 4 = 0
      BY DEF LeapYear
    <3>2. y % 4 = 0 => (y + 3) \div 4 = y \div 4
      OBVIOUS
    <3>3. y % 4 # 0 => (y + 3) \div 4 = y \div 4 + 1
      OBVIOUS
    <3> QED
      BY <3>1, <3>2, <3>3 DEF DaysIn
  <2>2. DaysIn(y, 2) \in Int
    BY <2>1
  <2>3. days_from_civil(2000 + y, 3, 1) = 10957 + 365 * y + y \div 4 + 1 + 59
    BY DEF days_from_civil
  <2>4. \A d \in Int : days_from_civil(2000 + y, 2, d) = 10957 + 365 * y + (y + 3) \div 4 + 31 + d - 1
    <3> TAKE d \in Int
    <3>1. CASE y = 0
      BY <3>1 DEF days_from_civil
    <3>2. CASE y # 0
      BY <3>2 DEF days_from_civil
    <3> QED
      BY <3>1, <3>2
  <2> QED
    BY <1>2, <2>1, <2>2, <2>3, <2>4
<1>3. CASE m = 3
  <2>1. DaysIn(y, 3) = 31
    BY DEF DaysIn
  <2>2. days_from_civil(2000 + y, 4, 1) = days_from_civil(2000 + y, 3, 31) + 1
    BY DEF days_from_civil
  <2> QED
    BY <1>3, <2>1, <2>2
<1>4. CASE m = 4
  <2>1. DaysIn(y, 4) = 30
    BY DEF DaysIn
  <2>2. days_from_civil(2000 + y, 5, 1) = days_from_civil(2000 + y, 4, 30) + 1
    BY DEF days_from_civil
  <2> QED
    BY <1>4, <2>1, <2>2
<1>5. CASE m = 5
  <2>1. DaysIn(y, 5) = 31
    BY DEF DaysIn
  <2>2. days_from_civil(2000 + y, 6, 1) = days_from_civil(2000 + y, 5, 31) + 1
    BY DEF days_from_civil
  <2> QED
    BY <1>5, <2>1, <2>2
<1>6. CASE m = 6
  <2>1. DaysIn(y, 6) = 30
    BY DEF DaysIn
  <2>2. days_from_civil(2000 + y, 7, 1) = days_from_civil(2000 + y, 6, 30) + 1
    BY DEF days_from_civil
  <2> QED
    BY <1>6, <2>1, <2>2
<1>7. CASE m = 7
  <2>1. DaysIn(y, 7) = 31
    BY DEF DaysIn
  <2>2. days_from_civil(2000 + y, 8, 1) = days_from_civil(2000 + y, 7, 31) + 1
    BY DEF days_from_civil
  <2> QED
    BY <1>7, <2>1, <2>2
<1>8. CASE m = 8
  <2>1. DaysIn(y, 8) = 31
    BY DEF DaysIn
  <2>2. days_from_civil(2000 + y, 9, 1) = days_from_civil(2000 + y, 8, 31) + 1
    BY DEF days_from_civil
  <2> QED
    BY <1>8, <2>1, <2>2
<1>9. CASE m = 9
  <2>1. DaysIn(y, 9) = 30
    BY DEF DaysIn
  <2>2. days_from_civil(2000 + y, 10, 1) = days_from_civil(2000 + y, 9, 30) + 1
    BY DEF days_from_civil
  <2> QED
    BY <1>9, <2>1, <2>2
<1>10. CASE m = 10
  <2>1. DaysIn(y, 10) = 31
    BY DEF DaysIn
  <2>2. days_from_civil(2000 + y, 11, 1) = days_from_civil(2000 + y, 10, 31) + 1
    BY DEF days_from_civil
  <2> QED
    BY <1>10, <2>1, <2>2
<1>11. CASE m = 11
  <2>1. DaysIn(y, 11) = 30
    BY DEF DaysIn
  <2>2. days_from_civil(2000 + y, 12, 1) = days_from_civil(2000 + y, 11, 30) + 1
    BY DEF days_from_civil
  <2> QED
    BY <1>11, <2>1, <2>2
<1> QED
  BY <1>1, <1>2, <1>3, <1>4, <1>5, <1>6, <1>7, <1>8, <1>9, <1>10, <1>11

\* A day later the count is one more.
LEMMA NextDayExact ==
  ASSUME NEW t, Calendar(t), NextDay(t).year <= 99
  PROVE  /\ Calendar(NextDay(t))
         /\ CivilDay(NextDay(t)) = CivilDay(t) + 1
         /\ NextDay(t).day # t.day
<1> DEFINE y == t.year
<1> DEFINE m == t.month
<1> DEFINE d == t.day
<1>1. /\ t \in Instant /\ y \in 0 .. 99 /\ m \in 1 .. 12 /\ d \in 1 .. 31 /\ d <= DaysIn(y, m)
      /\ DaysIn(y, m) \in 28 .. 31
  BY DaysInRange DEF Calendar, Instant
<1>2. CASE d < DaysIn(y, m)
  <2>1. NextDay(t) = [t EXCEPT !.day = @ + 1]
    BY <1>2 DEF NextDay
  <2>2. NextDay(t).year = y /\ NextDay(t).month = m /\ NextDay(t).day = d + 1 /\ NextDay(t) \in Instant
    BY <1>1, <1>2, <2>1 DEF Instant
  <2> HIDE DEF y, m, d
  <2>3. days_from_civil(2000 + y, m, d + 1) = days_from_civil(2000 + y, m, d) + 1
    <3> DEFINE w == IF m <= 2 THEN (2000 + y) - 1 ELSE 2000 + y
    <3> DEFINE era == w \div 400
    <3> DEFINE yoe == w - era * 400
    <3> DEFINE k == (153 * (m + (IF m > 2 THEN -3 ELSE 9)) + 2) \div 5
    <3> DEFINE h == yoe \div 4
    <3> DEFINE j == yoe \div 100
    <3> DEFINE F(x) == era * 146097 + (yoe * 365 + h - j + (k + x - 1)) - 719468
    <3>1. w \in Int /\ era \in Int /\ yoe \in Int /\ h \in Int /\ j \in Int /\ d \in Int
      BY <1>1
    <3>2. k \in Int
      <4>1. m + (IF m > 2 THEN -3 ELSE 9) \in Int
        BY <1>1
      <4> QED
        BY <4>1
    <3>3. days_from_civil(2000 + y, m, d) = F(d)
      BY <1>1 DEF days_from_civil
    <3>4. days_from_civil(2000 + y, m, d + 1) = F(d + 1)
      BY <1>1 DEF days_from_civil
    <3>5. F(d + 1) = F(d) + 1
      <4> HIDE DEF w, era, yoe, k, h, j
      <4> QED
        BY <3>1, <3>2
    <3> HIDE DEF F
    <3> QED
      BY <3>3, <3>4, <3>5
  <2>4. d + 1 # d /\ d + 1 <= DaysIn(y, m)
    BY <1>1, <1>2
  <2> QED
    BY <2>2, <2>3, <2>4 DEF Calendar, CivilDay, y, m, d
<1>3. CASE ~ (d < DaysIn(y, m)) /\ m < 12
  <2>0. d = DaysIn(y, m)
    BY <1>1, <1>3
  <2>1. NextDay(t) = [t EXCEPT !.day = 1, !.month = @ + 1]
    BY <1>3 DEF NextDay
  <2>2. NextDay(t).year = y /\ NextDay(t).month = m + 1 /\ NextDay(t).day = 1 /\ NextDay(t) \in Instant
    <3>1. t.month + 1 \in 1 .. 12 /\ 1 \in 1 .. 31
      BY <1>1, <1>3
    <3> QED
      BY <1>1, <2>1, <3>1 DEF Instant
  <2> HIDE DEF y, m, d
  <2>3. days_from_civil(2000 + y, m + 1, 1) = days_from_civil(2000 + y, m, d) + 1
    BY <1>1, <1>3, <2>0, MonthExact
  <2>4. 1 # d /\ 1 <= DaysIn(y, m + 1)
    <3>1. m + 1 \in 1 .. 12
      BY <1>1, <1>3
    <3>2. DaysIn(y, m + 1) \in 28 .. 31
      BY <1>1, <3>1, DaysInRange
    <3> QED
      BY <1>1, <2>0, <3>2
  <2> QED
    BY <2>2, <2>3, <2>4 DEF Calendar, CivilDay, y, m, d
<1>4. CASE ~ (d < DaysIn(y, m)) /\ m = 12
  <2>0. d = 31
    BY <1>1, <1>4 DEF DaysIn
  <2>1. NextDay(t) = [t EXCEPT !.day = 1, !.month = 1, !.year = @ + 1]
    BY <1>4 DEF NextDay
  <2>2. NextDay(t).year = y + 1 /\ NextDay(t).month = 1 /\ NextDay(t).day = 1
    BY <1>1, <1>4, <2>1 DEF Instant
  <2>2a. y + 1 \in 0 .. 99
    BY <1>1, <2>2
  <2>2b. NextDay(t) \in Instant
    <3>1. t.year + 1 \in 0 .. 99 /\ 1 \in 1 .. 31 /\ 1 \in 1 .. 12
      BY <2>2a
    <3>2. /\ t.hour \in 0 .. HOURS - 1 /\ t.minute \in 0 .. MINUTES - 1 /\ t.second \in 0 .. SECONDS - 1
          /\ t = [year |-> t.year, month |-> t.month, day |-> t.day,
                  hour |-> t.hour, minute |-> t.minute, second |-> t.second]
      BY <1>1 DEF Instant
    <3>3. NextDay(t) = [year |-> t.year + 1, month |-> 1, day |-> 1,
                        hour |-> t.hour, minute |-> t.minute, second |-> t.second]
      BY <2>1, <3>2
    <3> QED
      BY <3>1, <3>2, <3>3 DEF Instant
  <2> HIDE DEF y, m, d
  <2>3. days_from_civil(2000 + (y + 1), 1, 1) = days_from_civil(2000 + y, 12, 31) + 1
    BY <1>1, <2>2a, YearExact
  <2>4. 1 # d /\ 1 <= DaysIn(y + 1, 1)
    BY <2>0 DEF DaysIn
  <2> QED
    BY <1>4, <2>0, <2>2, <2>2b, <2>3, <2>4 DEF Calendar, CivilDay, y, m, d
<1> QED
  BY <1>1, <1>2, <1>3, <1>4

\* A second later the clock is right, and the day has changed or not.
LEMMA NextSecondExact ==
  ASSUME NEW t, Calendar(t), NextSecond(t).year <= 99
  PROVE  /\ Calendar(NextSecond(t))
         /\ CivilDay(NextSecond(t)) = IF NextSecond(t).day = t.day THEN CivilDay(t) ELSE CivilDay(t) + 1
<1>0. {HOURS, MINUTES, SECONDS} \subseteq Nat \ {0}
  BY ClockAssumption
<1>1. /\ t \in Instant /\ t.hour \in 0 .. HOURS - 1 /\ t.minute \in 0 .. MINUTES - 1
      /\ t.second \in 0 .. SECONDS - 1
      /\ 0 \in 0 .. HOURS - 1 /\ 0 \in 0 .. MINUTES - 1 /\ 0 \in 0 .. SECONDS - 1
  BY <1>0 DEF Calendar, Instant
<1>2. CASE t.second < SECONDS - 1
  <2>1. NextSecond(t) = [t EXCEPT !.second = @ + 1] /\ t.second + 1 \in 0 .. SECONDS - 1
    BY <1>0, <1>1, <1>2 DEF NextSecond
  <2> QED
    BY <1>1, <2>1 DEF Calendar, CivilDay, Instant
<1>3. CASE ~ (t.second < SECONDS - 1) /\ t.minute < MINUTES - 1
  <2>1. NextSecond(t) = [t EXCEPT !.second = 0, !.minute = @ + 1] /\ t.minute + 1 \in 0 .. MINUTES - 1
    BY <1>0, <1>1, <1>3 DEF NextSecond
  <2> DEFINE u == NextSecond(t)
  <2>2. u \in Instant /\ u.year = t.year /\ u.month = t.month /\ u.day = t.day
    BY <1>1, <2>1 DEF Instant
  <2> HIDE DEF u
  <2>3. Calendar(u) /\ CivilDay(u) = CivilDay(t)
    BY <2>2 DEF Calendar, CivilDay
  <2> QED
    BY <2>2, <2>3 DEF u
<1>4. CASE ~ (t.second < SECONDS - 1) /\ ~ (t.minute < MINUTES - 1) /\ t.hour < HOURS - 1
  <2>1. NextSecond(t) = [t EXCEPT !.second = 0, !.minute = 0, !.hour = @ + 1]
        /\ t.hour + 1 \in 0 .. HOURS - 1
    BY <1>0, <1>1, <1>4 DEF NextSecond
  <2> DEFINE u == NextSecond(t)
  <2>2. u \in Instant /\ u.year = t.year /\ u.month = t.month /\ u.day = t.day
    BY <1>1, <2>1 DEF Instant
  <2> HIDE DEF u
  <2>3. Calendar(u) /\ CivilDay(u) = CivilDay(t)
    BY <2>2 DEF Calendar, CivilDay
  <2> QED
    BY <2>2, <2>3 DEF u
<1>5. CASE ~ (t.second < SECONDS - 1) /\ ~ (t.minute < MINUTES - 1) /\ ~ (t.hour < HOURS - 1)
  <2> DEFINE u == [t EXCEPT !.second = 0, !.minute = 0, !.hour = 0]
  <2>1. NextSecond(t) = NextDay(u)
    BY <1>5 DEF NextSecond
  <2>2. u \in Instant /\ u.year = t.year /\ u.month = t.month /\ u.day = t.day
    BY <1>1 DEF Instant
  <2>3. Calendar(u) /\ CivilDay(u) = CivilDay(t)
    BY <2>2 DEF Calendar, CivilDay
  <2> HIDE DEF u
  <2>4. Calendar(NextDay(u)) /\ CivilDay(NextDay(u)) = CivilDay(u) + 1 /\ NextDay(u).day # u.day
    BY <2>1, <2>3, NextDayExact
  <2> QED
    BY <2>1, <2>2, <2>3, <2>4
<1> QED
  BY <1>2, <1>3, <1>4, <1>5

LEMMA YearType ==
  ASSUME NEW t, Calendar(t)
  PROVE  NextSecond(t).year \in Int /\ NextDay(t).year \in Int
<1>1. \A u \in Instant : NextDay(u).year \in Int
  BY DEF NextDay, Instant
<1>2. t \in Instant
  BY DEF Calendar
<1>3. [t EXCEPT !.second = 0, !.minute = 0, !.hour = 0] \in Instant
  <2>1. 0 \in 0 .. HOURS - 1 /\ 0 \in 0 .. MINUTES - 1 /\ 0 \in 0 .. SECONDS - 1
    BY ClockAssumption
  <2> QED
    BY <1>2, <2>1 DEF Instant
<1>4. NextSecond(t).year \in Int
  <2> DEFINE u == [t EXCEPT !.second = 0, !.minute = 0, !.hour = 0]
  <2>1. NextDay(u).year \in Int
    BY <1>1, <1>3
  <2>2. /\ [t EXCEPT !.second = @ + 1].year = t.year
        /\ [t EXCEPT !.second = 0, !.minute = @ + 1].year = t.year
        /\ [t EXCEPT !.second = 0, !.minute = 0, !.hour = @ + 1].year = t.year
        /\ t.year \in Int
    BY <1>2 DEF Instant
  <2> HIDE DEF u
  <2> QED
    BY <2>1, <2>2 DEF NextSecond, u
<1> QED
  BY <1>1, <1>2, <1>4

CalendarInv == Calendar(now) /\ CivilDay(now) = day

LEMMA CalendarStep ==
  ASSUME CalendarInv, [Next]_vars
  PROVE  CalendarInv'
<1>0. LastYear <= 99
  BY ClockAssumption
<1>1. CASE Tick
  <2>1. now' = NextSecond(now) /\ NextSecond(now).year <= LastYear
    BY <1>1 DEF Tick, InCalendar
  <2>2. Calendar(now) /\ CivilDay(now) = day
    BY DEF CalendarInv
  <2> DEFINE u == NextSecond(now)
  <2>3. /\ Calendar(u)
        /\ CivilDay(u) = IF u.day = now.day THEN CivilDay(now) ELSE CivilDay(now) + 1
    <3>1. u.year <= 99
      <4>1. u.year \in Int
        BY <2>2, YearType
      <4> QED
        BY <2>1, <4>1, ClockAssumption
    <3> QED
      BY <2>2, <3>1, NextSecondExact
  <2> HIDE DEF u
  <2>4. now' = u /\ day' = IF u.day = now.day THEN day ELSE day + 1
    BY <1>1, <2>1 DEF Tick, u
  <2> QED
    BY <2>2, <2>3, <2>4 DEF CalendarInv, Calendar, CivilDay
<1>2. CASE DayPasses
  <2>1. now' = NextDay(now) /\ NextDay(now).year <= LastYear /\ day' = day + 1
    BY <1>2 DEF DayPasses, InCalendar
  <2>2. Calendar(now) /\ CivilDay(now) = day
    BY DEF CalendarInv
  <2> DEFINE u == NextDay(now)
  <2>3. Calendar(u) /\ CivilDay(u) = CivilDay(now) + 1
    <3>1. u.year <= 99
      <4>1. u.year \in Int
        BY <2>2, YearType
      <4> QED
        BY <2>1, <4>1, ClockAssumption
    <3> QED
      BY <2>2, <3>1, NextDayExact
  <2> HIDE DEF u
  <2>4. now' = u
    BY <2>1 DEF u
  <2> QED
    BY <2>1, <2>2, <2>3, <2>4 DEF CalendarInv, Calendar, CivilDay
<1>3. CASE PowerOn
  <2>1. PICK t \in TimesOfDay : now' = [now EXCEPT !.hour = t[1], !.minute = t[2], !.second = t[3]]
    BY <1>3 DEF PowerOn
  <2>2. t[1] \in 0 .. HOURS - 1 /\ t[2] \in 0 .. MINUTES - 1 /\ t[3] \in 0 .. SECONDS - 1
    BY ClockAssumption
  <2>3. now' \in Instant /\ now'.year = now.year /\ now'.month = now.month /\ now'.day = now.day
    BY <2>1, <2>2 DEF CalendarInv, Calendar, Instant
  <2> QED
    BY <1>3, <2>3 DEF PowerOn, CalendarInv, Calendar, CivilDay
<1>4. CASE UNCHANGED <<now, day>>
  BY <1>4 DEF CalendarInv, Calendar, CivilDay
<1> QED
  BY <1>1, <1>2, <1>3, <1>4
  DEF Next, vars, rtcVars, Disks, Clock, Bus, Keyboard, ClockGoesOn, ClockCall, BeginCall,
      ReadRegister, ReturnCall

LEMMA CalendarInitially == Init => CalendarInv
<1> SUFFICES ASSUME Init PROVE CalendarInv
  OBVIOUS
<1>1. now = Midnight2000 /\ day = 10957
  BY DEF Init, RtcInit
<1>2. Calendar(Midnight2000)
  BY ClockAssumption DEF Midnight2000, Calendar, Instant, DaysIn
<1>3. CivilDay(Midnight2000) = 10957
  BY DEF Midnight2000, CivilDay, days_from_civil
<1> QED
  BY <1>1, <1>2, <1>3 DEF CalendarInv

\* days_from_civil numbers the days of the years 2000 to 2099 one by one.
THEOREM DaysAlwaysExact == Spec => []DaysExact
<1>1. Init => CalendarInv
  BY CalendarInitially
<1>2. CalendarInv /\ [Next]_vars => CalendarInv'
  BY CalendarStep
<1>3. CalendarInv => DaysExact
  BY DEF CalendarInv, CivilDay, DaysExact
<1> QED
  BY <1>1, <1>2, <1>3, PTL DEF Spec
--------------------------------------------------------------------------------
(* Torn readings. *)

Civil(y, m, d) == days_from_civil(2000 + y, m, d)
YearSpan(y) == LET base == 10957 + 365 * y + (y + 3) \div 4 IN base .. base + 365

LEMMA SpanFacts ==
  ASSUME NEW y \in 0 .. 99, NEW a \in YearSpan(y), NEW b \in YearSpan(y)
  PROVE  a \in Int /\ a - b <= 365
<1> DEFINE base == 10957 + 365 * y + (y + 3) \div 4
<1>1. base \in Int /\ a \in base .. base + 365 /\ b \in base .. base + 365
  BY DEF YearSpan
<1> HIDE DEF base
<1> QED
  BY <1>1

\* The days of a year, the 31st of every month included, are less than 366 apart.
LEMMA WithinYear ==
  ASSUME NEW y \in 0 .. 99, NEW m \in 1 .. 12, NEW d \in 1 .. 31
  PROVE  Civil(y, m, d) \in YearSpan(y)
<1> DEFINE base == 10957 + 365 * y + (y + 3) \div 4
<1>1. /\ y \div 4 \in Int /\ (y + 3) \div 4 \in Int /\ y \div 4 <= (y + 3) \div 4 /\ (y + 3) \div 4 <= y \div 4 + 1
      /\ base \in Int
  OBVIOUS
<1>2. CASE m <= 2
  <2>1. Civil(y, m, d) = base + (IF m = 1 THEN 0 ELSE 31) + d - 1
    <3>1. CASE y = 0
      BY <1>2, <3>1 DEF Civil, days_from_civil
    <3>2. CASE y # 0
      BY <1>2, <3>2 DEF Civil, days_from_civil
    <3> QED
      BY <3>1, <3>2
  <2> HIDE DEF base
  <2>2. Civil(y, m, d) \in base .. base + 365
    BY <1>1, <2>1
  <2> QED
    BY <2>2 DEF base, YearSpan
<1>3. CASE m > 2
  <2>1. \E off \in 59 .. 334 : Civil(y, m, d) = 10957 + 365 * y + y \div 4 + 1 + off + d - 1
    <3>1. /\ m = 3 => Civil(y, m, d) = 10957 + 365 * y + y \div 4 + 1 + 59 + d - 1
          /\ m = 4 => Civil(y, m, d) = 10957 + 365 * y + y \div 4 + 1 + 90 + d - 1
          /\ m = 5 => Civil(y, m, d) = 10957 + 365 * y + y \div 4 + 1 + 120 + d - 1
          /\ m = 6 => Civil(y, m, d) = 10957 + 365 * y + y \div 4 + 1 + 151 + d - 1
          /\ m = 7 => Civil(y, m, d) = 10957 + 365 * y + y \div 4 + 1 + 181 + d - 1
      BY DEF Civil, days_from_civil
    <3>2. /\ m = 8 => Civil(y, m, d) = 10957 + 365 * y + y \div 4 + 1 + 212 + d - 1
          /\ m = 9 => Civil(y, m, d) = 10957 + 365 * y + y \div 4 + 1 + 243 + d - 1
          /\ m = 10 => Civil(y, m, d) = 10957 + 365 * y + y \div 4 + 1 + 273 + d - 1
          /\ m = 11 => Civil(y, m, d) = 10957 + 365 * y + y \div 4 + 1 + 304 + d - 1
          /\ m = 12 => Civil(y, m, d) = 10957 + 365 * y + y \div 4 + 1 + 334 + d - 1
      BY DEF Civil, days_from_civil
    <3>3. m \in {3, 4, 5, 6, 7, 8, 9, 10, 11, 12}
      BY <1>3
    <3>4. {59, 90, 120, 151, 181, 212, 243, 273, 304, 334} \subseteq 59 .. 334
      OBVIOUS
    <3> QED
      BY <3>1, <3>2, <3>3, <3>4
  <2>2. PICK off \in 59 .. 334 : Civil(y, m, d) = 10957 + 365 * y + y \div 4 + 1 + off + d - 1
    BY <2>1
  <2>3. Civil(y, m, d) \in base .. base + 365
    BY <1>1, <2>2
  <2> QED
    BY <2>3 DEF YearSpan
<1> QED
  BY <1>2, <1>3

LEMMA WithinMonth ==
  ASSUME NEW y \in 0 .. 99, NEW m \in 1 .. 12, NEW d \in 1 .. 31, NEW e \in 1 .. 31
  PROVE  Civil(y, m, d) - Civil(y, m, e) = d - e
<1> DEFINE w == IF m <= 2 THEN (2000 + y) - 1 ELSE 2000 + y
<1> DEFINE era == w \div 400
<1> DEFINE yoe == w - era * 400
<1> DEFINE k == (153 * (m + (IF m > 2 THEN -3 ELSE 9)) + 2) \div 5
<1> DEFINE h == yoe \div 4
<1> DEFINE j == yoe \div 100
<1> DEFINE F(x) == era * 146097 + (yoe * 365 + h - j + (k + x - 1)) - 719468
<1>1. w \in Int /\ era \in Int /\ yoe \in Int /\ h \in Int /\ j \in Int
  OBVIOUS
<1>2. k \in Int
  <2>1. m + (IF m > 2 THEN -3 ELSE 9) \in Int
    OBVIOUS
  <2> QED
    BY <2>1
<1>3. Civil(y, m, d) = F(d) /\ Civil(y, m, e) = F(e)
  BY DEF Civil, days_from_civil
<1>4. F(d) - F(e) = d - e
  <2> HIDE DEF w, era, yoe, k, h, j
  <2> QED
    BY <1>1, <1>2
<1> HIDE DEF F
<1> QED
  BY <1>3, <1>4

\* Digits of a mixed base.
LEMMA Digits ==
  ASSUME NEW A \in Nat \ {0}, NEW B \in Nat \ {0}, NEW a \in 0 .. A - 1, NEW b \in 0 .. B - 1
  PROVE  a * B + b \in 0 .. A * B - 1 /\ A * B \in Nat \ {0} /\ a * B \in Nat
<1>1. a * B <= (A - 1) * B
  OBVIOUS
<1>2. (A - 1) * B = A * B - B /\ A * B \in Nat /\ a * B \in Nat
  OBVIOUS
<1> QED
  BY <1>1, <1>2

LEMMA Apart ==
  ASSUME NEW B \in Nat \ {0}, NEW k \in Nat, NEW a \in Int, NEW c \in Int, NEW b \in 0 .. B - 1, NEW d \in 0 .. B - 1,
         a - c <= k, c - a <= k
  PROVE  Distance(a * B + b, c * B + d) < (k + 1) * B
<1>1. (a - c) * B <= k * B /\ (c - a) * B <= k * B
  OBVIOUS
<1>2. /\ (a - c) * B = a * B - c * B /\ (c - a) * B = c * B - a * B /\ (k + 1) * B = k * B + B
      /\ a * B \in Int /\ c * B \in Int /\ k * B \in Int
  OBVIOUS
<1> QED
  BY <1>1, <1>2 DEF Distance

\* The second of the day.
Clocked(r) == r.hour * (MINUTES * SECONDS) + (r.minute * SECONDS + r.second)

LEMMA EpochSplit ==
  ASSUME NEW r \in Instant
  PROVE  /\ epoch(r) = CivilDay(r) * DaySeconds + Clocked(r)
         /\ CivilDay(r) \in Int /\ DaySeconds \in Nat \ {0} /\ Clocked(r) \in 0 .. DaySeconds - 1
         /\ MINUTES * SECONDS \in Nat \ {0} /\ r.minute * SECONDS + r.second \in 0 .. MINUTES * SECONDS - 1
         /\ DaySeconds = HOURS * (MINUTES * SECONDS) /\ epoch(r) \in Int
<1>0. /\ HOURS \in Nat \ {0} /\ MINUTES \in Nat \ {0} /\ SECONDS \in Nat \ {0}
      /\ r.hour \in 0 .. HOURS - 1 /\ r.minute \in 0 .. MINUTES - 1 /\ r.second \in 0 .. SECONDS - 1
      /\ r.year \in 0 .. 99 /\ r.month \in 1 .. 12 /\ r.day \in 1 .. 31
  BY ClockAssumption DEF Instant
<1>1. r.minute * SECONDS + r.second \in 0 .. MINUTES * SECONDS - 1 /\ MINUTES * SECONDS \in Nat \ {0} /\ r.minute * SECONDS \in Nat
  BY <1>0, Digits
<1>2. PICK ms \in Nat \ {0} : ms = MINUTES * SECONDS
  BY <1>1
<1>3. PICK x \in 0 .. ms - 1 : x = r.minute * SECONDS + r.second
  BY <1>1, <1>2
<1>4. r.hour * ms + x \in 0 .. HOURS * ms - 1 /\ HOURS * ms \in Nat \ {0} /\ r.hour * ms \in Nat
  BY <1>0, <1>3, Digits
<1>5. HOURS * MINUTES * SECONDS = HOURS * (MINUTES * SECONDS)
  BY <1>0
<1>6. r.hour * MINUTES * SECONDS = r.hour * (MINUTES * SECONDS)
  BY <1>0
<1>7. CivilDay(r) \in Int
  <2>0. PICK y \in 0 .. 99, m \in 1 .. 12, d \in 1 .. 31 : y = r.year /\ m = r.month /\ d = r.day
    BY <1>0
  <2>1. Civil(y, m, d) \in Int
    BY WithinYear, SpanFacts, Zenon
  <2> QED
    BY <2>0, <2>1 DEF CivilDay, Civil
<1>8. DaySeconds = HOURS * ms /\ DaySeconds \in Nat \ {0} /\ Clocked(r) = r.hour * ms + x
  BY <1>2, <1>3, <1>4, <1>5 DEF DaySeconds, Clocked
<1>9. epoch(r) = CivilDay(r) * DaySeconds + r.hour * ms + r.minute * SECONDS + r.second
  BY <1>2, <1>6 DEF epoch, CivilDay
<1>10. CivilDay(r) * DaySeconds \in Int
  BY <1>7, <1>8
<1>11. epoch(r) = CivilDay(r) * DaySeconds + Clocked(r)
  BY <1>0, <1>1, <1>3, <1>4, <1>8, <1>9, <1>10
<1> QED
  BY <1>1, <1>2, <1>4, <1>7, <1>8, <1>10, <1>11

\* Every time of the century fits a word.
LEMMA EpochFits ==
  ASSUME NEW r \in Instant
  PROVE  epoch(r) \in 0 .. WORD - 1
<1>1. /\ epoch(r) = CivilDay(r) * DaySeconds + Clocked(r)
      /\ DaySeconds \in Nat \ {0} /\ Clocked(r) \in 0 .. DaySeconds - 1
  BY EpochSplit
<1>2. CivilDay(r) \in Nat /\ CivilDay(r) < 47483
  <2>1. PICK y \in 0 .. 99, m \in 1 .. 12, d \in 1 .. 31 : y = r.year /\ m = r.month /\ d = r.day
    BY DEF Instant
  <2>2. Civil(y, m, d) \in YearSpan(y)
    BY WithinYear
  <2>3. (y + 3) \div 4 \in 0 .. 25
    OBVIOUS
  <2>4. PICK q \in 0 .. 25 : q = (y + 3) \div 4
    BY <2>3
  <2>5. Civil(y, m, d) \in 10957 + 365 * y + q .. 10957 + 365 * y + q + 365
    BY <2>2, <2>4 DEF YearSpan
  <2>6. CivilDay(r) = Civil(y, m, d)
    BY <2>1 DEF CivilDay, Civil
  <2> QED
    BY <2>5, <2>6
<1>3. PICK D \in Nat \ {0} : D = DaySeconds
  BY <1>1
<1>4. PICK k \in 0 .. D - 1 : k = Clocked(r)
  BY <1>1, <1>3
<1>5. PICK n \in Nat \ {0} : n = 47483
  OBVIOUS
<1>b. CivilDay(r) \in Nat /\ CivilDay(r) < n
  BY <1>2, <1>5
<1>c. PICK c \in 0 .. n - 1 : c = CivilDay(r)
  BY <1>b
<1>6. c * D + k \in 0 .. n * D - 1 /\ n * D \in Nat \ {0}
  BY Digits
<1>7. WORD \in Nat /\ n * D <= WORD
  BY <1>3, <1>5, ClockAssumption
<1>8. epoch(r) = c * D + k
  BY <1>1, <1>3, <1>4, <1>c
<1>9. PICK w \in Nat : w = n * D
  BY <1>6
<1> QED
  BY <1>6, <1>7, <1>8, <1>9

\* Two times that agree down to a field are less than a unit of it apart.
LEMMA Near ==
  ASSUME NEW r \in Instant, NEW u \in Instant, r.year = u.year
  PROVE  /\ Distance(epoch(r), epoch(u)) < 366 * DaySeconds
         /\ r.month = u.month =>
              /\ Distance(epoch(r), epoch(u)) < 31 * DaySeconds
              /\ r.day = u.day =>
                   /\ Distance(epoch(r), epoch(u)) < DaySeconds
                   /\ r.hour = u.hour =>
                        /\ Distance(epoch(r), epoch(u)) < MINUTES * SECONDS
                        /\ r.minute = u.minute =>
                             /\ Distance(epoch(r), epoch(u)) < SECONDS
                             /\ r.second = u.second => Distance(epoch(r), epoch(u)) < 1
<1>0. /\ HOURS \in Nat \ {0} /\ MINUTES \in Nat \ {0} /\ SECONDS \in Nat \ {0}
      /\ r.hour \in 0 .. HOURS - 1 /\ r.minute \in 0 .. MINUTES - 1 /\ r.second \in 0 .. SECONDS - 1
      /\ r.year \in 0 .. 99 /\ r.month \in 1 .. 12 /\ r.day \in 1 .. 31
      /\ u.hour \in 0 .. HOURS - 1 /\ u.minute \in 0 .. MINUTES - 1 /\ u.second \in 0 .. SECONDS - 1
      /\ u.month \in 1 .. 12 /\ u.day \in 1 .. 31
  BY ClockAssumption DEF Instant
<1>1. /\ epoch(r) = CivilDay(r) * DaySeconds + Clocked(r)
      /\ CivilDay(r) \in Int /\ DaySeconds \in Nat \ {0} /\ Clocked(r) \in 0 .. DaySeconds - 1
      /\ MINUTES * SECONDS \in Nat \ {0} /\ r.minute * SECONDS + r.second \in 0 .. MINUTES * SECONDS - 1
      /\ DaySeconds = HOURS * (MINUTES * SECONDS) /\ epoch(r) \in Int
  BY EpochSplit
<1>2. /\ epoch(u) = CivilDay(u) * DaySeconds + Clocked(u)
      /\ CivilDay(u) \in Int /\ Clocked(u) \in 0 .. DaySeconds - 1
      /\ u.minute * SECONDS + u.second \in 0 .. MINUTES * SECONDS - 1 /\ epoch(u) \in Int
  BY EpochSplit
<1>3. PICK y \in 0 .. 99, m \in 1 .. 12, n \in 1 .. 12, d \in 1 .. 31, e \in 1 .. 31 :
        /\ y = r.year /\ m = r.month /\ n = u.month /\ d = r.day /\ e = u.day
        /\ CivilDay(r) = Civil(y, m, d) /\ CivilDay(u) = Civil(y, n, e)
  <2>1. CivilDay(r) = Civil(r.year, r.month, r.day) /\ CivilDay(u) = Civil(r.year, u.month, u.day)
    BY DEF CivilDay, Civil
  <2> QED
    BY <1>0, <2>1
<1>3a. CivilDay(r) - CivilDay(u) <= 365 /\ CivilDay(u) - CivilDay(r) <= 365
  <2>1. Civil(y, m, d) \in YearSpan(y) /\ Civil(y, n, e) \in YearSpan(y)
    BY WithinYear, Zenon
  <2>2. Civil(y, m, d) - Civil(y, n, e) <= 365 /\ Civil(y, n, e) - Civil(y, m, d) <= 365
    BY <2>1, SpanFacts, Zenon
  <2> QED
    BY <1>3, <2>2
<1>4. m = n => /\ CivilDay(r) - CivilDay(u) <= 30 /\ CivilDay(u) - CivilDay(r) <= 30
               /\ d = e => CivilDay(r) = CivilDay(u)
  <2> HAVE m = n
  <2>1. Civil(y, m, d) - Civil(y, m, e) = d - e
    BY WithinMonth
  <2>2. CivilDay(r) - CivilDay(u) = d - e /\ CivilDay(r) \in Int /\ CivilDay(u) \in Int
    BY <1>1, <1>2, <1>3, <2>1
  <2> QED
    BY <2>2
<1>5. PICK ds \in Nat \ {0}, ms \in Nat \ {0} : ds = DaySeconds /\ ms = MINUTES * SECONDS
  BY <1>1
<1>6. Distance(epoch(r), epoch(u)) < 366 * ds
  <2>1. Distance(CivilDay(r) * ds + Clocked(r), CivilDay(u) * ds + Clocked(u)) < (365 + 1) * ds
    <3>1. CivilDay(r) \in Int /\ CivilDay(u) \in Int /\ Clocked(r) \in 0 .. ds - 1 /\ Clocked(u) \in 0 .. ds - 1 /\ 365 \in Nat
      BY <1>1, <1>2, <1>5
    <3> QED
      BY <1>3a, <3>1, Apart, Zenon
  <2> QED
    BY <1>1, <1>2, <1>5, <2>1
<1>7. r.month = u.month => Distance(epoch(r), epoch(u)) < 31 * ds
  <2> HAVE r.month = u.month
  <2>1. Distance(CivilDay(r) * ds + Clocked(r), CivilDay(u) * ds + Clocked(u)) < (30 + 1) * ds
    BY <1>1, <1>2, <1>3, <1>4, <1>5, Apart
  <2> QED
    BY <1>1, <1>2, <1>5, <2>1
<1>8. ASSUME r.month = u.month, r.day = u.day
      PROVE  /\ Distance(epoch(r), epoch(u)) < ds
             /\ Distance(epoch(r), epoch(u)) = Distance(Clocked(r), Clocked(u))
  <2>1. CivilDay(r) * ds = CivilDay(u) * ds /\ CivilDay(r) * ds \in Int
    BY <1>1, <1>3, <1>4, <1>5, <1>8
  <2> QED
    BY <1>1, <1>2, <1>5, <2>1 DEF Distance
<1>9. ASSUME r.hour = u.hour
      PROVE  /\ Distance(Clocked(r), Clocked(u)) < ms
             /\ r.minute = u.minute => Distance(Clocked(r), Clocked(u)) = Distance(r.second, u.second)
  <2>1. r.hour * ms = u.hour * ms /\ r.hour * ms \in Int
    BY <1>0, <1>5, <1>9
  <2>2. r.minute = u.minute => r.minute * SECONDS = u.minute * SECONDS
    OBVIOUS
  <2>3. r.minute * SECONDS \in Int /\ u.minute * SECONDS \in Int
    BY <1>0
  <2> QED
    BY <1>0, <1>1, <1>2, <1>5, <2>1, <2>2, <2>3 DEF Clocked, Distance
<1>10. Distance(r.second, u.second) < SECONDS /\ (r.second = u.second => Distance(r.second, u.second) < 1)
  BY <1>0 DEF Distance
<1> QED
  BY <1>5, <1>6, <1>7, <1>8, <1>9, <1>10

\* The largest field in which two times differ decides, so going on from one to another
\* is never further than one of the two ways.
LEMMA CarriedFacts ==
  ASSUME NEW t \in Instant, NEW u \in Instant
  PROVE  /\ Carried(t, u) \in Nat
         /\ t.year # u.year => Carried(t, u) = 366 * DaySeconds
         /\ t.year = u.year /\ t.month # u.month => Carried(t, u) = 31 * DaySeconds
         /\ t.year = u.year /\ t.month = u.month /\ t.day # u.day => Carried(t, u) = DaySeconds
         /\ t.year = u.year /\ t.month = u.month /\ t.day = u.day /\ t.hour # u.hour =>
              Carried(t, u) = MINUTES * SECONDS
         /\ t.year = u.year /\ t.month = u.month /\ t.day = u.day /\ t.hour = u.hour /\ t.minute # u.minute =>
              Carried(t, u) = SECONDS
         /\ t.year = u.year /\ t.month = u.month /\ t.day = u.day /\ t.hour = u.hour /\ t.minute = u.minute =>
              Carried(t, u) = 0
<1>1. DaySeconds \in Nat /\ MINUTES * SECONDS \in Nat /\ SECONDS \in Nat
  BY EpochSplit, ClockAssumption
<1> QED
  BY <1>1 DEF Carried

LEMMA CarriedUltra ==
  ASSUME NEW t \in Instant, NEW v \in Instant, NEW u \in Instant, NEW w \in Nat, Carried(t, v) <= w, Carried(v, u) <= w
  PROVE  Carried(t, u) <= w
<1>1. PICK ds \in Nat \ {0}, ms \in Nat \ {0}, s \in Nat \ {0}, h \in Nat \ {0}, m \in Nat \ {0} :
        ds = DaySeconds /\ ms = MINUTES * SECONDS /\ s = SECONDS /\ ds = h * ms /\ ms = m * s
  <2>1. PICK s \in Nat \ {0}, h \in Nat \ {0}, m \in Nat \ {0} : s = SECONDS /\ h = HOURS /\ m = MINUTES
    BY ClockAssumption
  <2>2. PICK ms \in Nat \ {0} : ms = m * s
    BY Digits
  <2>3. PICK ds \in Nat \ {0} : ds = h * ms
    BY Digits
  <2>4. ds = DaySeconds
    BY <2>1, <2>2, <2>3 DEF DaySeconds
  <2> QED
    BY <2>1, <2>2, <2>3, <2>4
<1>2. s <= ms /\ ms <= ds
  <2>1. \A a \in Nat \ {0}, b \in Nat \ {0} : b <= a * b
    OBVIOUS
  <2> QED
    BY <1>1, <2>1
<1>3. /\ Carried(t, v) \in Nat /\ Carried(v, u) \in Nat /\ Carried(t, u) \in Nat
      /\ Carried(t, u) \in {366 * ds, 31 * ds, ds, ms, s, 0}
  BY <1>1, CarriedFacts DEF Carried
<1>4. CASE t.year # u.year
  <2>1. Carried(t, u) = 366 * ds /\ (Carried(t, v) = 366 * ds \/ Carried(v, u) = 366 * ds)
    BY <1>1, <1>4 DEF Carried
  <2> QED
    BY <1>3, <2>1
<1>5. CASE t.year = u.year /\ t.month # u.month
  <2>1. Carried(t, u) = 31 * ds /\ (Carried(t, v) \in {366 * ds, 31 * ds} \/ Carried(v, u) \in {366 * ds, 31 * ds})
    BY <1>1, <1>5 DEF Carried
  <2> QED
    BY <1>3, <2>1
<1>6. CASE t.year = u.year /\ t.month = u.month /\ t.day # u.day
  <2>1. Carried(t, u) = ds /\ (Carried(t, v) \in {366 * ds, 31 * ds, ds} \/ Carried(v, u) \in {366 * ds, 31 * ds, ds})
    BY <1>1, <1>6 DEF Carried
  <2> QED
    BY <1>3, <2>1
<1>7. CASE t.year = u.year /\ t.month = u.month /\ t.day = u.day /\ t.hour # u.hour
  <2>1. Carried(t, u) = ms /\ (Carried(t, v) \in {366 * ds, 31 * ds, ds, ms} \/ Carried(v, u) \in {366 * ds, 31 * ds, ds, ms})
    BY <1>1, <1>7 DEF Carried
  <2> QED
    BY <1>2, <1>3, <2>1
<1>8. CASE t.year = u.year /\ t.month = u.month /\ t.day = u.day /\ t.hour = u.hour /\ t.minute # u.minute
  <2>1. /\ Carried(t, u) = s
        /\ Carried(t, v) \in {366 * ds, 31 * ds, ds, ms, s} \/ Carried(v, u) \in {366 * ds, 31 * ds, ds, ms, s}
    BY <1>1, <1>8 DEF Carried
  <2> QED
    BY <1>2, <1>3, <2>1
<1>9. CASE t.year = u.year /\ t.month = u.month /\ t.day = u.day /\ t.hour = u.hour /\ t.minute = u.minute
  BY <1>9, CarriedFacts
<1> QED
  BY <1>4, <1>5, <1>6, <1>7, <1>8, <1>9

\* The call under way: every register read so far holds what the clock showed some time
\* during the call, and torn is no less than what the clock carried meanwhile.
Calls == {"init", "uptime", "time", "date"}
CallType == [name : Calls, left : SUBSET Fields, got : Instant, shown : SUBSET Instant, torn : Nat \ {0}]
Fresh(c) ==
  /\ c \in CallType /\ c.left \subseteq Registers(c.name)
  /\ now \in c.shown
  /\ \A f \in Registers(c.name) \ c.left : \E t \in c.shown : c.got[f] = t[f]
  /\ \A f \in Fields \ Registers(c.name) : c.got[f] = Midnight2000[f]
  /\ \A t, u \in c.shown : Carried(t, u) <= c.torn
BootNear ==
  boot.set => /\ boot.epoch \in 0 .. WORD - 1 /\ boot.error \in Nat /\ boot.true \subseteq Int
              /\ \E b \in boot.true : Distance(boot.epoch, b) < boot.error
ReadingInv ==
  /\ Calendar(now)
  /\ call # NoCall => on /\ Fresh(call) /\ (call.name = "uptime" => boot.set)
  /\ BootNear

\* What a call sees of a time.
View(n, t) == [f \in Fields |-> IF f \in Registers(n) THEN t[f] ELSE Midnight2000[f]]

LEMMA ViewFacts ==
  ASSUME NEW t \in Instant, NEW n \in Calls
  PROVE  /\ View(n, t) \in Instant
         /\ View(n, t).year = IF n = "time" THEN 0 ELSE t.year
         /\ View(n, t).month = IF n = "time" THEN 1 ELSE t.month
         /\ View(n, t).day = IF n = "time" THEN 1 ELSE t.day
         /\ View(n, t).hour = IF n = "date" THEN 0 ELSE t.hour
         /\ View(n, t).minute = IF n = "date" THEN 0 ELSE t.minute
         /\ View(n, t).second = IF n = "date" THEN 0 ELSE t.second
<1>1. /\ View(n, t).year = IF n = "time" THEN 0 ELSE t.year
      /\ View(n, t).month = IF n = "time" THEN 1 ELSE t.month
      /\ View(n, t).day = IF n = "time" THEN 1 ELSE t.day
      /\ View(n, t).hour = IF n = "date" THEN 0 ELSE t.hour
      /\ View(n, t).minute = IF n = "date" THEN 0 ELSE t.minute
      /\ View(n, t).second = IF n = "date" THEN 0 ELSE t.second
  BY DEF View, Instant, Registers, Fields, Date, Time, Midnight2000, Calls
<1>2. 0 \in 0 .. HOURS - 1 /\ 0 \in 0 .. MINUTES - 1 /\ 0 \in 0 .. SECONDS - 1
  BY ClockAssumption
<1>3. View(n, t) = [year |-> View(n, t).year, month |-> View(n, t).month, day |-> View(n, t).day,
                    hour |-> View(n, t).hour, minute |-> View(n, t).minute, second |-> View(n, t).second]
  BY DEF View, Fields, Date, Time
<1>4. /\ View(n, t).year \in 0 .. 99 /\ View(n, t).month \in 1 .. 12 /\ View(n, t).day \in 1 .. 31
      /\ View(n, t).hour \in 0 .. HOURS - 1 /\ View(n, t).minute \in 0 .. MINUTES - 1
      /\ View(n, t).second \in 0 .. SECONDS - 1
  BY <1>1, <1>2 DEF Instant
<1>5. View(n, t) \in Instant
  BY <1>3, <1>4 DEF Instant
<1> QED
  BY <1>1, <1>5

\* A finished reading is less than torn away from a time that was shown.
LEMMA ReadingNear ==
  ASSUME NEW c, Fresh(c), c.left = {}
  PROVE  \E t \in c.shown : Distance(epoch(c.got), epoch(View(c.name, t))) < c.torn
<1>0. c \in CallType /\ c.got \in Instant /\ c.name \in Calls /\ c.shown \subseteq Instant /\ c.torn \in Nat \ {0}
  BY DEF Fresh, CallType
<1>1. PICK g \in Instant, n \in Calls, w \in Nat \ {0} : g = c.got /\ n = c.name /\ w = c.torn
  BY <1>0
<1>2. PICK S \in SUBSET Instant : S = c.shown
  BY <1>0
<1>3. \A t, u \in S : Carried(t, u) <= w
  BY <1>1, <1>2 DEF Fresh
<1>4. \E t \in S : TRUE
  BY <1>2 DEF Fresh
<1>5. \A f \in Fields : IF f \in Registers(n) THEN \E t \in S : g[f] = t[f] ELSE g[f] = Midnight2000[f]
  BY <1>1, <1>2 DEF Fresh
<1>6. /\ \E t \in S : g.year = View(n, t).year
      /\ \E t \in S : g.month = View(n, t).month
      /\ \E t \in S : g.day = View(n, t).day
      /\ \E t \in S : g.hour = View(n, t).hour
      /\ \E t \in S : g.minute = View(n, t).minute
      /\ \E t \in S : g.second = View(n, t).second
  <2>1. \A f \in Fields : \E t \in S : g[f] = View(n, t)[f]
    <3> SUFFICES ASSUME NEW f \in Fields PROVE \E t \in S : g[f] = View(n, t)[f]
      OBVIOUS
    <3>1. CASE f \in Registers(n)
      <4>1. PICK t \in S : g[f] = t[f]
        BY <1>5, <3>1
      <4>2. View(n, t)[f] = t[f]
        BY <3>1 DEF View
      <4> QED
        BY <4>1, <4>2
    <3>2. CASE f \notin Registers(n)
      <4>1. PICK t \in S : TRUE
        BY <1>4
      <4>2. View(n, t)[f] = Midnight2000[f]
        BY <3>2 DEF View
      <4> QED
        BY <1>5, <3>2, <4>1, <4>2
    <3> QED
      BY <3>1, <3>2
  <2>2. {"year", "month", "day", "hour", "minute", "second"} \subseteq Fields
    BY DEF Fields
  <2> QED
    BY <2>1, <2>2
<1>7. \A t \in S : View(n, t) \in Instant
  BY ViewFacts
<1>8. \A t, u \in S :
        /\ t.year = u.year => View(n, t).year = View(n, u).year
        /\ t.month = u.month => View(n, t).month = View(n, u).month
        /\ t.day = u.day => View(n, t).day = View(n, u).day
        /\ t.hour = u.hour => View(n, t).hour = View(n, u).hour
        /\ t.minute = u.minute => View(n, t).minute = View(n, u).minute
        /\ t.second = u.second => View(n, t).second = View(n, u).second
  BY ViewFacts
<1>9. PICK ds \in Nat \ {0}, ms \in Nat \ {0}, s \in Nat \ {0} :
        ds = DaySeconds /\ ms = MINUTES * SECONDS /\ s = SECONDS
  BY EpochSplit, ClockAssumption
<1>10. \A t \in S : Distance(epoch(g), epoch(View(n, t))) \in Int
  <2>1. \A r \in Instant : epoch(r) \in Int
    BY EpochSplit
  <2> QED
    BY <1>7, <2>1 DEF Distance
<1> SUFFICES \E t \in S : Distance(epoch(g), epoch(View(n, t))) < w
  BY <1>1, <1>2
<1>11. CASE w >= 366 * ds
  <2>1. PICK t \in S : g.year = View(n, t).year
    BY <1>6
  <2>2. Distance(epoch(g), epoch(View(n, t))) < 366 * ds
    BY <1>7, <1>9, <2>1, Near
  <2> QED
    BY <1>10, <1>11, <2>2
<1>12. CASE w < 366 * ds /\ w >= 31 * ds
  <2>1. \A t, u \in S : t.year = u.year
    BY <1>3, <1>9, <1>12, CarriedFacts
  <2>2. PICK t \in S : g.month = View(n, t).month
    BY <1>6
  <2>3. g.year = View(n, t).year
    BY <1>6, <1>8, <2>1
  <2>4. Distance(epoch(g), epoch(View(n, t))) < 31 * ds
    BY <1>7, <1>9, <2>2, <2>3, Near
  <2> QED
    BY <1>10, <1>12, <2>4
<1>13. CASE w < 31 * ds /\ w >= ds
  <2>1. \A t, u \in S : t.year = u.year /\ t.month = u.month
    BY <1>3, <1>9, <1>13, CarriedFacts
  <2>2. PICK t \in S : g.day = View(n, t).day
    BY <1>6
  <2>3. g.year = View(n, t).year /\ g.month = View(n, t).month
    BY <1>6, <1>8, <2>1
  <2>4. Distance(epoch(g), epoch(View(n, t))) < ds
    BY <1>7, <1>9, <2>2, <2>3, Near
  <2> QED
    BY <1>10, <1>13, <2>4
<1>14. CASE w < ds /\ w >= ms
  <2>1. \A t, u \in S : t.year = u.year /\ t.month = u.month /\ t.day = u.day
    BY <1>3, <1>9, <1>14, CarriedFacts
  <2>2. PICK t \in S : g.hour = View(n, t).hour
    BY <1>6
  <2>3. g.year = View(n, t).year /\ g.month = View(n, t).month /\ g.day = View(n, t).day
    BY <1>6, <1>8, <2>1
  <2>4. Distance(epoch(g), epoch(View(n, t))) < ms
    BY <1>7, <1>9, <2>2, <2>3, Near
  <2> QED
    BY <1>10, <1>14, <2>4
<1>15. CASE w < ds /\ w < ms /\ w >= s
  <2>1. \A t, u \in S : t.year = u.year /\ t.month = u.month /\ t.day = u.day /\ t.hour = u.hour
    BY <1>3, <1>9, <1>15, CarriedFacts
  <2>2. PICK t \in S : g.minute = View(n, t).minute
    BY <1>6
  <2>3. g.year = View(n, t).year /\ g.month = View(n, t).month /\ g.day = View(n, t).day /\ g.hour = View(n, t).hour
    BY <1>6, <1>8, <2>1
  <2>4. Distance(epoch(g), epoch(View(n, t))) < s
    BY <1>7, <1>9, <2>2, <2>3, Near
  <2> QED
    BY <1>10, <1>15, <2>4
<1>16. CASE w < ds /\ w < ms /\ w < s
  <2>1. \A t, u \in S : t.year = u.year /\ t.month = u.month /\ t.day = u.day /\ t.hour = u.hour /\ t.minute = u.minute
    BY <1>3, <1>9, <1>16, CarriedFacts
  <2>2. PICK t \in S : g.second = View(n, t).second
    BY <1>6
  <2>3. g.year = View(n, t).year /\ g.month = View(n, t).month /\ g.day = View(n, t).day /\ g.hour = View(n, t).hour /\ g.minute = View(n, t).minute
    BY <1>6, <1>8, <2>1
  <2>4. Distance(epoch(g), epoch(View(n, t))) < 1
    BY <1>7, <1>9, <2>2, <2>3, Near
  <2> QED
    BY <1>10, <2>4
<1> QED
  BY <1>11, <1>12, <1>13, <1>14, <1>15, <1>16

LEMMA BelowZero ==
  ASSUME NEW W \in Nat \ {0}, NEW x \in Int, 0 - W <= x, x < 0
  PROVE  x % W = x + W
OBVIOUS

\* The difference of two words, as uint32_t has it.
LEMMA WordDifference ==
  ASSUME NEW W \in Nat, NEW a \in 0 .. W - 1, NEW b \in 0 .. W - 1
  PROVE  (a - b) % W = a - b + (IF a < b THEN W ELSE 0)
<1>0. W \in Nat \ {0}
  OBVIOUS
<1>1. CASE a >= b
  BY <1>0, <1>1, Below
<1>2. CASE a < b
  <2>1. PICK x \in Int : x = a - b /\ 0 - W <= x /\ x < 0
    BY <1>2
  <2>2. x % W = x + W
    BY <1>0, <2>1, BelowZero
  <2> QED
    BY <1>2, <2>1, <2>2
<1> QED
  BY <1>1, <1>2

LEMMA BcdExact == \A v \in Nat : bcd_to_bin(Bcd(v)) = v
BY DEF bcd_to_bin, Bcd

LEMMA InstantFields ==
  ASSUME NEW t \in Instant, NEW f \in Fields
  PROVE  t[f] \in Nat /\ \A g \in Instant : [g EXCEPT ![f] = t[f]] \in Instant
<1>1. HOURS \in Nat /\ MINUTES \in Nat /\ SECONDS \in Nat
  BY ClockAssumption
<1> QED
  BY <1>1 DEF Instant, Fields

LEMMA BeginOK ==
  ASSUME ReadingInv, NEW c \in Calls, BeginCall(c)
  PROVE  ReadingInv'
<1>1. /\ on /\ (c = "init" <=> ~ boot.set) /\ UNCHANGED <<on, now, boot>>
      /\ call' = [name |-> c, left |-> Registers(c), got |-> Midnight2000, shown |-> {now}, torn |-> 1]
  BY DEF BeginCall
<1>2. now \in Instant /\ Midnight2000 \in Instant /\ Registers(c) \subseteq Fields
  BY ClockAssumption DEF ReadingInv, Calendar, Instant, Midnight2000, Registers, Calls, Fields, Date, Time
<1>3. Carried(now, now) <= 1
  BY <1>2, CarriedFacts
<1>4. call' \in CallType
  BY <1>1, <1>2 DEF CallType
<1>5. /\ call'.name = c /\ call'.left = Registers(c) /\ call'.got = Midnight2000
      /\ call'.shown = {now} /\ call'.torn = 1
  BY <1>1
<1>6. Fresh(call)'
  BY <1>1, <1>3, <1>4, <1>5 DEF Fresh
<1>7. c = "uptime" => boot'.set
  BY <1>1
<1> QED
  BY <1>1, <1>5, <1>6, <1>7 DEF ReadingInv, Calendar, BootNear

LEMMA ReadOK ==
  ASSUME ReadingInv, NEW f \in Fields, ReadRegister(f)
  PROVE  ReadingInv'
<1>1. /\ call # NoCall /\ f \in call.left /\ UNCHANGED <<on, now, boot>>
      /\ call' = [call EXCEPT !.left = @ \ {f}, !.got[f] = bcd_to_bin(Bcd(now[f]))]
  BY DEF ReadRegister, rtc_read_reg
<1>2. on /\ Fresh(call) /\ (call.name = "uptime" => boot.set) /\ call \in CallType /\ now \in Instant /\ call.got \in Instant
  BY <1>1 DEF ReadingInv, Fresh, Calendar, CallType
<1>3. bcd_to_bin(Bcd(now[f])) = now[f] /\ [call.got EXCEPT ![f] = now[f]] \in Instant
  BY <1>2, BcdExact, InstantFields
<1>4. call' = [call EXCEPT !.left = @ \ {f}, !.got = [call.got EXCEPT ![f] = now[f]]]
  BY <1>1, <1>2, <1>3 DEF CallType
<1>5. /\ call'.name = call.name /\ call'.left = call.left \ {f} /\ call'.shown = call.shown
      /\ call'.torn = call.torn /\ call'.got = [call.got EXCEPT ![f] = now[f]] /\ call' \in CallType
  BY <1>2, <1>3, <1>4 DEF CallType
<1>6. DOMAIN call.got = Fields
  BY <1>2 DEF Instant, Fields
<1>7. \A h \in Fields : call'.got[h] = IF h = f THEN now[f] ELSE call.got[h]
  BY <1>5, <1>6
<1>8. f \in Registers(call.name) /\ Registers(call.name) \subseteq Fields
  BY <1>1, <1>2 DEF Fresh, CallType, Registers, Calls, Fields, Date, Time
<1>9. \A h \in Registers(call.name) \ (call.left \ {f}) : \E t \in call.shown : call'.got[h] = t[h]
  BY <1>2, <1>7, <1>8 DEF Fresh
<1>10. \A h \in Fields \ Registers(call.name) : call'.got[h] = Midnight2000[h]
  BY <1>2, <1>7, <1>8 DEF Fresh
<1>11. Fresh(call)'
  BY <1>1, <1>2, <1>5, <1>9, <1>10 DEF Fresh
<1> QED
  BY <1>1, <1>2, <1>5, <1>11 DEF ReadingInv, Calendar, BootNear

LEMMA ViewOfAll ==
  ASSUME NEW t \in Instant
  PROVE  View("init", t) = t /\ View("uptime", t) = t
BY DEF View, Instant, Registers, Fields, Date, Time

LEMMA ReturnCallOK ==
  ASSUME ReadingInv, ReturnCall
  PROVE  ReadingInv'
<1>1. call # NoCall /\ call.left = {} /\ call' = NoCall /\ UNCHANGED <<on, now>>
  BY DEF ReturnCall
<1>2. Fresh(call) /\ call \in CallType
  BY <1>1 DEF ReadingInv, Fresh
<1>3. BootNear'
  <2>1. CASE call.name # "init"
    <3>1. boot' = boot
      BY <2>1 DEF ReturnCall
    <3> QED
      BY <3>1 DEF ReadingInv, BootNear
  <2>2. CASE call.name = "init"
    <3>1. boot' = [set |-> TRUE, epoch |-> epoch(call.got), error |-> call.torn, true |-> {epoch(t) : t \in call.shown}]
      BY <2>2 DEF ReturnCall
    <3>2. PICK t \in call.shown : Distance(epoch(call.got), epoch(View(call.name, t))) < call.torn
      BY <1>1, <1>2, ReadingNear
    <3>3. call.got \in Instant /\ call.shown \subseteq Instant /\ call.torn \in Nat
      BY <1>2 DEF CallType
    <3>4. Distance(epoch(call.got), epoch(t)) < call.torn
      BY <2>2, <3>2, <3>3, ViewOfAll
    <3>5. epoch(call.got) \in 0 .. WORD - 1 /\ \A u \in call.shown : epoch(u) \in Int
      BY <3>3, EpochSplit, EpochFits
    <3>6. /\ boot'.epoch = epoch(call.got) /\ boot'.error = call.torn /\ boot'.true = {epoch(u) : u \in call.shown}
      BY <3>1
    <3> QED
      BY <3>3, <3>4, <3>5, <3>6 DEF BootNear
  <2> QED
    BY <2>1, <2>2
<1> QED
  BY <1>1, <1>3 DEF ReadingInv, Calendar

LEMMA TickOK ==
  ASSUME ReadingInv, Calendar(now)', Tick
  PROVE  ReadingInv'
<1>1. UNCHANGED <<on, boot>> /\ now \in Instant /\ now' \in Instant /\ BootNear'
  BY DEF Tick, ReadingInv, Calendar, BootNear
<1>2. CASE call = NoCall
  BY <1>1, <1>2 DEF Tick, ReadingInv
<1>3. CASE call # NoCall
  <2>1. on /\ Fresh(call) /\ (call.name = "uptime" => boot.set) /\ call \in CallType
    BY <1>3 DEF ReadingInv, Fresh
  <2>2. call' = [call EXCEPT !.torn = Larger(@, Carried(now, now')), !.shown = @ \cup {now'}]
    BY <1>3 DEF Tick
  <2>3. Carried(now, now') \in Nat /\ Carried(now', now) \in Nat /\ Carried(now', now) = Carried(now, now')
    BY <1>1, CarriedFacts DEF Carried
  <2>4. PICK w \in Nat \ {0} : w = Larger(call.torn, Carried(now, now')) /\ call.torn <= w /\ Carried(now, now') <= w
    BY <2>1, <2>3 DEF Larger, CallType
  <2>5. /\ call'.name = call.name /\ call'.left = call.left /\ call'.got = call.got
        /\ call'.shown = call.shown \cup {now'} /\ call'.torn = w /\ call' \in CallType
    BY <1>1, <2>1, <2>2, <2>4 DEF CallType
  <2>6. call.shown \subseteq Instant /\ call.torn \in Nat /\ now \in call.shown
    BY <2>1 DEF CallType, Fresh
  <2>7. \A t, u \in call.shown : Carried(t, u) <= w
    <3>1. \A t, u \in call.shown : Carried(t, u) <= call.torn /\ Carried(t, u) \in Nat
      BY <2>1, <2>6, CarriedFacts DEF Fresh
    <3> QED
      BY <2>4, <2>6, <3>1
  <2>8. \A t \in call.shown : Carried(t, now') <= w
    BY <1>1, <2>3, <2>4, <2>6, <2>7, CarriedUltra
  <2>9. \A t \in call.shown : Carried(now', t) <= w
    BY <1>1, <2>3, <2>4, <2>6, <2>7, CarriedUltra
  <2>10. Carried(now', now') <= w
    BY <1>1, <2>4, CarriedFacts
  <2>11. \A t, u \in call'.shown : Carried(t, u) <= call'.torn
    BY <2>5, <2>7, <2>8, <2>9, <2>10
  <2>12. Fresh(call)'
    BY <2>1, <2>5, <2>11 DEF Fresh
  <2> QED
    BY <1>1, <2>1, <2>5, <2>12 DEF ReadingInv
<1> QED
  BY <1>2, <1>3

LEMMA ReadingStep ==
  ASSUME ReadingInv, Calendar(now)', [Next]_vars
  PROVE  ReadingInv'
<1>1. CASE ClockCall
  BY <1>1, BeginOK, ReadOK, ReturnCallOK DEF ClockCall, Calls
<1>2. CASE Tick
  BY <1>2, TickOK
<1>3. CASE DayPasses \/ PowerOn
  BY <1>3 DEF DayPasses, PowerOn, ReadingInv, BootNear
<1>4. CASE UNCHANGED rtcVars
  BY <1>4 DEF rtcVars, ReadingInv, BootNear, Fresh
<1> QED
  BY <1>1, <1>2, <1>3, <1>4 DEF Next, vars, Disks, Clock, Bus, Keyboard, ClockGoesOn

\* The seconds go on.
LEMMA SecondForward ==
  ASSUME NEW t, Calendar(t), NextSecond(t).year <= 99
  PROVE  epoch(t) <= epoch(NextSecond(t))
<1>0. {HOURS, MINUTES, SECONDS} \subseteq Nat \ {0}
  BY ClockAssumption
<1> DEFINE u == NextSecond(t)
<1>1. Calendar(u) /\ CivilDay(u) = IF u.day = t.day THEN CivilDay(t) ELSE CivilDay(t) + 1
  BY NextSecondExact
<1>2. t \in Instant /\ u \in Instant
  BY <1>1 DEF Calendar
<1>3. PICK H \in Nat \ {0}, M \in Nat \ {0}, S \in Nat \ {0} : H = HOURS /\ M = MINUTES /\ S = SECONDS
  BY <1>0
<1>4. PICK h \in 0 .. H - 1, m \in 0 .. M - 1, z \in 0 .. S - 1 : h = t.hour /\ m = t.minute /\ z = t.second
  BY <1>2, <1>3 DEF Instant
<1>5. PICK ms \in Nat \ {0} : ms = M * S
  BY <1>3, Digits
<1>6. /\ m * S \in Nat /\ (m + 1) * S = m * S + S /\ m * S + z \in 0 .. ms - 1
      /\ h * ms \in Nat /\ (h + 1) * ms = h * ms + ms
  BY <1>3, <1>4, <1>5, Digits
<1>7. Clocked(t) = h * ms + (m * S + z)
  BY <1>3, <1>4, <1>5 DEF Clocked
<1>8. /\ epoch(t) = CivilDay(t) * DaySeconds + Clocked(t) /\ epoch(u) = CivilDay(u) * DaySeconds + Clocked(u)
      /\ CivilDay(t) \in Int /\ CivilDay(u) \in Int /\ DaySeconds \in Nat \ {0}
      /\ Clocked(t) \in 0 .. DaySeconds - 1 /\ Clocked(u) \in 0 .. DaySeconds - 1
  BY <1>2, EpochSplit
<1>9. PICK D \in Nat \ {0}, c \in Int : D = DaySeconds /\ c = CivilDay(t)
  BY <1>8
<1>10. c * D \in Int /\ (c + 1) * D = c * D + D
  BY <1>9
<1>11. CASE z < S - 1
  <2>1. u = [t EXCEPT !.second = @ + 1]
    BY <1>3, <1>4, <1>11 DEF NextSecond
  <2>2. u.day = t.day /\ u.hour = h /\ u.minute = m /\ u.second = z + 1
    BY <1>2, <1>4, <2>1 DEF Instant
  <2> HIDE DEF u
  <2>3. Clocked(u) = h * ms + (m * S + (z + 1)) /\ CivilDay(u) = c
    BY <1>1, <1>3, <1>5, <1>9, <2>2 DEF Clocked
  <2> QED
    BY <1>4, <1>6, <1>7, <1>8, <1>9, <1>10, <2>3 DEF u
<1>12. CASE ~ (z < S - 1) /\ m < M - 1
  <2>1. u = [t EXCEPT !.second = 0, !.minute = @ + 1]
    BY <1>3, <1>4, <1>12 DEF NextSecond
  <2>2. u.day = t.day /\ u.hour = h /\ u.minute = m + 1 /\ u.second = 0
    BY <1>2, <1>4, <2>1 DEF Instant
  <2> HIDE DEF u
  <2>3. Clocked(u) = h * ms + ((m + 1) * S + 0) /\ CivilDay(u) = c
    BY <1>1, <1>3, <1>5, <1>9, <2>2 DEF Clocked
  <2> QED
    BY <1>3, <1>4, <1>6, <1>7, <1>8, <1>9, <1>10, <2>3 DEF u
<1>13. CASE ~ (z < S - 1) /\ ~ (m < M - 1) /\ h < H - 1
  <2>1. u = [t EXCEPT !.second = 0, !.minute = 0, !.hour = @ + 1]
    BY <1>3, <1>4, <1>13 DEF NextSecond
  <2>2. u.day = t.day /\ u.hour = h + 1 /\ u.minute = 0 /\ u.second = 0
    BY <1>2, <1>4, <2>1 DEF Instant
  <2> HIDE DEF u
  <2>3. Clocked(u) = (h + 1) * ms + (0 * S + 0) /\ CivilDay(u) = c
    BY <1>1, <1>3, <1>5, <1>9, <2>2 DEF Clocked
  <2>4. 0 * S = 0
    BY <1>3
  <2> QED
    BY <1>3, <1>4, <1>6, <1>7, <1>8, <1>9, <1>10, <2>3, <2>4 DEF u
<1>14. CASE ~ (z < S - 1) /\ ~ (m < M - 1) /\ ~ (h < H - 1)
  <2> DEFINE v == [t EXCEPT !.second = 0, !.minute = 0, !.hour = 0]
  <2>1. u = NextDay(v)
    BY <1>3, <1>4, <1>14 DEF NextSecond
  <2>2. v \in Instant /\ v.year = t.year /\ v.month = t.month /\ v.day = t.day
    <3>1. 0 \in 0 .. HOURS - 1 /\ 0 \in 0 .. MINUTES - 1 /\ 0 \in 0 .. SECONDS - 1
      BY <1>0
    <3> QED
      BY <1>2, <3>1 DEF Instant
  <2>3. Calendar(v)
    BY <2>2 DEF Calendar
  <2> HIDE DEF v
  <2>4. NextDay(v).day # v.day
    BY <2>1, <2>3, NextDayExact
  <2>5. CivilDay(u) = c + 1
    BY <1>1, <1>9, <2>1, <2>2, <2>4
  <2> HIDE DEF u
  <2> QED
    BY <1>8, <1>9, <1>10, <2>5 DEF u
<1> QED
  BY <1>4, <1>11, <1>12, <1>13, <1>14

\* What a call is shown comes after what rtc_init was shown.
OrderInv ==
  /\ ~ on => ~ boot.set /\ call = NoCall
  /\ boot.set => boot.true \subseteq Int /\ \A b \in boot.true : b <= epoch(now)
  /\ call # NoCall =>
       /\ call.shown \subseteq Instant
       /\ \A t \in call.shown : epoch(t) <= epoch(now)
       /\ boot.set => \A t \in call.shown, b \in boot.true : b <= epoch(t)

LEMMA OrderStep ==
  ASSUME OrderInv, Calendar(now), Calendar(now)', [Next]_vars
  PROVE  OrderInv'
<1>0. now \in Instant /\ now' \in Instant /\ epoch(now) \in Int
  BY EpochSplit DEF Calendar
<1>1. ASSUME NEW c, BeginCall(c) PROVE OrderInv'
  <2>1. on /\ UNCHANGED <<on, now, boot>> /\ call'.shown = {now}
    BY <1>1 DEF BeginCall
  <2> QED
    BY <1>0, <2>1 DEF OrderInv
<1>2. ASSUME NEW f, ReadRegister(f) PROVE OrderInv'
  <2>1. call # NoCall /\ UNCHANGED <<on, now, boot>>
    BY <1>2 DEF ReadRegister
  <2>2. call' = [call EXCEPT !.left = @ \ {f}, !.got[f] = bcd_to_bin(rtc_read_reg(f))]
    BY <1>2 DEF ReadRegister
  <2>3. call'.shown = call.shown
    BY <2>2
  <2> QED
    BY <2>1, <2>3 DEF OrderInv
<1>3. CASE ReturnCall
  <2>1. call # NoCall /\ call' = NoCall /\ UNCHANGED <<on, now>>
    BY <1>3 DEF ReturnCall
  <2>2. CASE call.name = "init"
    <3>1. boot'.true = {epoch(t) : t \in call.shown} /\ boot'.set
      BY <1>3, <2>2 DEF ReturnCall
    <3>2. on /\ \A t \in call.shown : epoch(t) \in Int /\ epoch(t) <= epoch(now)
      BY <2>1, EpochSplit DEF OrderInv
    <3> QED
      BY <2>1, <3>1, <3>2 DEF OrderInv
  <2>3. CASE call.name # "init"
    <3>1. boot' = boot
      BY <1>3, <2>3 DEF ReturnCall
    <3> QED
      BY <2>1, <3>1 DEF OrderInv
  <2> QED
    BY <2>2, <2>3
<1>4. CASE Tick
  <2>1. on /\ UNCHANGED <<on, boot>> /\ now' = NextSecond(now)
    BY <1>4 DEF Tick
  <2>2. epoch(now) <= epoch(now') /\ epoch(now') \in Int
    <3>1. NextSecond(now).year <= 99
      BY <1>0, <2>1 DEF Instant
    <3> QED
      BY <1>0, <2>1, <3>1, SecondForward, EpochSplit
  <2>3. boot'.set => boot'.true \subseteq Int /\ \A b \in boot'.true : b <= epoch(now')
    <3>1. \A b \in Int : b <= epoch(now) => b <= epoch(now')
      BY <1>0, <2>2
    <3> QED
      BY <2>1, <3>1 DEF OrderInv
  <2>4. CASE call = NoCall
    <3>1. call' = NoCall
      BY <1>4, <2>4 DEF Tick
    <3> QED
      BY <2>1, <2>3, <3>1 DEF OrderInv
  <2>5. CASE call # NoCall
    <3>1. call' = [call EXCEPT !.torn = Larger(@, Carried(now, now')), !.shown = @ \cup {now'}]
      BY <1>4, <2>5 DEF Tick
    <3>4. call'.shown = call.shown \cup {now'}
      BY <3>1
    <3>5. \A t \in call.shown : epoch(t) \in Int /\ epoch(t) <= epoch(now')
      <4>1. \A t \in call.shown : epoch(t) \in Int /\ epoch(t) <= epoch(now)
        BY <2>5, EpochSplit DEF OrderInv
      <4> QED
        BY <1>0, <2>2, <4>1
    <3> QED
      BY <1>0, <2>1, <2>2, <2>3, <2>5, <3>4, <3>5 DEF OrderInv
  <2> QED
    BY <2>4, <2>5
<1>5. CASE DayPasses
  <2>1. ~ on /\ UNCHANGED <<on, call, boot>>
    BY <1>5 DEF DayPasses
  <2> QED
    BY <2>1 DEF OrderInv
<1>6. CASE PowerOn
  <2>1. ~ on /\ UNCHANGED <<call, boot>>
    BY <1>6 DEF PowerOn
  <2> QED
    BY <2>1 DEF OrderInv
<1>7. CASE UNCHANGED rtcVars
  BY <1>7 DEF rtcVars, OrderInv
<1> QED
  BY <1>1, <1>2, <1>3, <1>4, <1>5, <1>6, <1>7
     DEF Next, vars, Disks, Clock, Bus, Keyboard, ClockGoesOn, ClockCall

\* However many seconds pass between the registers, and whichever fields they carry into: a
\* reading of rtc.c is off by less than the largest unit carried into, for a clock with any
\* number of seconds, minutes and hours; the uptime that rtc_get_uptime returns is right up
\* to the two readings behind it, or wrapped around, which takes a torn reading.
THEOREM ErrorAlwaysBelowCarry == Spec => []ErrorBelowCarry
<1>1. Init => ReadingInv
  <2> SUFFICES ASSUME Init PROVE ReadingInv
    OBVIOUS
  <2>1. now = Midnight2000 /\ call = NoCall /\ ~ boot.set
    BY DEF Init, RtcInit, Unset
  <2>2. Calendar(Midnight2000)
    BY ClockAssumption DEF Midnight2000, Calendar, Instant, DaysIn
  <2> QED
    BY <2>1, <2>2 DEF ReadingInv, BootNear
<1>2. CalendarInv => Calendar(now)
  BY DEF CalendarInv
<1>3. ReadingInv /\ Calendar(now)' /\ [Next]_vars => ReadingInv'
  BY ReadingStep
<1>4. ReadingInv /\ OrderInv => ErrorBelowCarry
  <2> SUFFICES ASSUME ReadingInv, OrderInv, call # NoCall, call.left = {}
               PROVE  \E t \in call.shown :
                        IF call.name = "uptime"
                        THEN /\ \E b \in boot.true :
                                  Distance(Result(call), epoch(t) - b + (IF Underflows THEN WORD ELSE 0))
                                    < boot.error + call.torn - 1
                             /\ Underflows => call.torn > 1 \/ boot.error > 1
                        ELSE Distance(Result(call), Part(call.name, t)) < call.torn
    BY DEF ErrorBelowCarry
  <2>1. Fresh(call) /\ (call.name = "uptime" => boot.set) /\ call \in CallType
    BY DEF ReadingInv, Fresh
  <2>2. call.got \in Instant /\ call.shown \subseteq Instant /\ call.torn \in Nat /\ call.name \in Calls
    BY <2>1 DEF CallType
  <2>3. PICK t \in call.shown : Distance(epoch(call.got), epoch(View(call.name, t))) < call.torn
    BY <2>1, ReadingNear
  <2>4. CASE call.name = "uptime"
    <3>1. View(call.name, t) = t
      BY <2>2, <2>4, ViewOfAll
    <3>2. PICK b \in boot.true : Distance(boot.epoch, b) < boot.error
      BY <2>1, <2>4 DEF ReadingInv, BootNear
    <3>3. boot.epoch \in 0 .. WORD - 1 /\ WORD \in Nat /\ boot.error \in Nat /\ b \in Int
      BY <2>1, <2>4, ClockAssumption DEF ReadingInv, BootNear
    <3>4. epoch(call.got) \in 0 .. WORD - 1 /\ epoch(t) \in Int
      BY <2>2, EpochSplit, EpochFits
    <3>5. Result(call) = epoch(call.got) - boot.epoch + (IF Underflows THEN WORD ELSE 0)
      BY <2>4, <3>3, <3>4, WordDifference DEF Result, Underflows
    <3>6. Distance(epoch(call.got), epoch(t)) < call.torn
      BY <2>3, <3>1
    <3>7. b <= epoch(t)
      BY <2>1, <2>4, <3>2 DEF OrderInv
    <3>8. PICK g \in Int, e \in Int, u \in Int, w \in Int, k \in Nat, n \in Nat :
            /\ g = epoch(call.got) /\ e = boot.epoch /\ u = epoch(t) /\ k = call.torn /\ n = boot.error
            /\ w = IF Underflows THEN WORD ELSE 0
      BY <2>2, <3>3, <3>4
    <3>9. Distance(g, u) < k /\ Distance(e, b) < n /\ b <= u /\ Result(call) = g - e + w
      BY <3>2, <3>5, <3>6, <3>7, <3>8
    <3>10. Distance(g - e + w, u - b + w) < n + k - 1
      BY <3>3, <3>8, <3>9 DEF Distance
    <3>11. g < e => k > 1 \/ n > 1
      BY <3>3, <3>8, <3>9 DEF Distance
    <3>12. Underflows <=> g < e
      BY <3>8 DEF Underflows
    <3> QED
      BY <2>4, <3>2, <3>8, <3>9, <3>10, <3>11, <3>12
  <2>5. CASE call.name # "uptime"
    <3>1. Result(call) = epoch(call.got) /\ Part(call.name, t) = epoch(View(call.name, t))
      BY <2>5 DEF Result, Part, View
    <3> QED
      BY <2>3, <2>5, <3>1
  <2> QED
    BY <2>4, <2>5
<1>5. Init => CalendarInv
  BY CalendarInitially
<1>6. CalendarInv /\ [Next]_vars => CalendarInv'
  BY CalendarStep
<1>7. Init => OrderInv
  BY DEF Init, RtcInit, OrderInv, Unset
<1>8. OrderInv /\ CalendarInv /\ CalendarInv' /\ [Next]_vars => OrderInv'
  BY OrderStep DEF CalendarInv
<1> QED
  BY <1>1, <1>2, <1>3, <1>4, <1>5, <1>6, <1>7, <1>8, PTL DEF Spec

--------------------------------------------------------------------------------
(* The USB keyboard. *)

Chars == Keys \X BOOLEAN
Reports == [shift : BOOLEAN, keys : Seq(Keys)]
Distinct(s) == \A i, j \in DOMAIN s : s[i] = s[j] => i = j

\* Induction over the natural numbers, for a set.
LEMMA Induction ==
  ASSUME NEW S, 0 \in S, \A n \in Nat : n \in S => n + 1 \in S
  PROVE  \A n \in Nat : n \in S
<1> DEFINE T == {n \in Nat : n \notin S}
<1> SUFFICES ASSUME T # {} PROVE FALSE
  OBVIOUS
<1>1. PICK m \in T : \A k \in T : ~ (<<k, m>> \in OpToRel(<, Nat))
  BY WFMin, NatLessThanWellFounded, Zenon
<1>2. \A k \in T : ~ (k < m)
  BY <1>1, Zenon DEF OpToRel
<1>3. m \in Nat \ {0} /\ m - 1 \in Nat /\ m - 1 < m /\ (m - 1) + 1 = m
  OBVIOUS
<1>4. m - 1 \in S
  BY <1>2, <1>3
<1> QED
  BY <1>3, <1>4

\* How often a key is among some characters.
LEMMA TimesAppend ==
  ASSUME NEW s \in Seq(Chars), NEW c \in Chars, NEW k
  PROVE  /\ Times(k, s) \in Nat
         /\ Times(k, Append(s, c)) = Times(k, s) + (IF c[1] = k THEN 1 ELSE 0)
<1> DEFINE A == {i \in DOMAIN s : s[i][1] = k}
           B == {i \in DOMAIN Append(s, c) : Append(s, c)[i][1] = k}
<1>1. Len(s) \in Nat /\ DOMAIN s = 1 .. Len(s) /\ DOMAIN Append(s, c) = 1 .. Len(s) + 1
  OBVIOUS
<1>2. IsFiniteSet(1 .. Len(s)) 
  BY <1>1, FS_Interval
<1>3. IsFiniteSet(A)
  BY <1>1, <1>2, FS_Subset
<1>4. Cardinality(A) \in Nat
  BY <1>3, FS_CardinalityType
<1>5. \A i \in DOMAIN s : Append(s, c)[i] = s[i]
  OBVIOUS
<1>6. Append(s, c)[Len(s) + 1] = c
  OBVIOUS
<1>7. B = IF c[1] = k THEN A \cup {Len(s) + 1} ELSE A
  <2> HIDE DEF A, B
  <2>1. ASSUME NEW i PROVE i \in B <=> i \in 1 .. Len(s) + 1 /\ Append(s, c)[i][1] = k
    BY <1>1 DEF B
  <2>2. ASSUME NEW i PROVE i \in A <=> i \in 1 .. Len(s) /\ s[i][1] = k
    BY <1>1 DEF A
  <2>3. \A i : i \in 1 .. Len(s) + 1 <=> i \in 1 .. Len(s) \/ i = Len(s) + 1
    BY <1>1
  <2>4. ASSUME NEW i PROVE i \in B <=> i \in A \/ (i = Len(s) + 1 /\ c[1] = k)
    BY <2>1, <2>2, <2>3, <1>1, <1>5, <1>6
  <2> QED
    BY <2>4
<1>8. Len(s) + 1 \notin A
  BY <1>1
<1>9. Cardinality(B) = Cardinality(A) + (IF c[1] = k THEN 1 ELSE 0)
  <2> HIDE DEF A, B
  <2>1. CASE c[1] = k
    BY <1>3, <1>4, <1>7, <1>8, <2>1, FS_AddElement
  <2>2. CASE c[1] # k
    BY <1>4, <1>7, <2>2
  <2> QED
    BY <2>1, <2>2
<1> QED
  BY <1>4, <1>9 DEF Times

\* The ring after each key, without recursion.
Pressed(r, i, b) ==
  IF usb_kb_has_key(usb_kb_prev, r.keys[i]) THEN b
  ELSE usb_kb_push(b, <<r.keys[i], r.shift>>)

LEMMA EdgesExist ==
  ASSUME NEW r \in Reports
  PROVE  LET f == KeyEdges(r)
         IN  /\ f[0] = [ring |-> usb_kb_buf, full |-> full]
             /\ \A i \in 1 .. Len(r.keys) : f[i] = Pressed(r, i, f[i - 1])
<1> DEFINE Step(f, i) == IF i = 0 THEN [ring |-> usb_kb_buf, full |-> full]
                         ELSE Pressed(r, i, f[i - 1])
           Upto(n, f) == f = [i \in 0 .. n |-> Step(f, i)]
           N == {n \in Nat : \E f : Upto(n, f)}
<1>0. r.keys \in Seq(Keys) /\ Len(r.keys) \in Nat
  BY DEF Reports
<1>1. 0 \in N
  <2> DEFINE g == [i \in 0 .. 0 |-> [ring |-> usb_kb_buf, full |-> full]]
  <2>1. Upto(0, g)
    OBVIOUS
  <2> QED
    BY <2>1
<1>2. ASSUME NEW n \in Nat, n \in N PROVE n + 1 \in N
  <2>1. PICK f : Upto(n, f)
    BY <1>2
  <2> HIDE DEF Step
  <2> DEFINE g == [i \in 0 .. n + 1 |-> IF i <= n THEN f[i] ELSE Step(f, i)]
  <2>2. \A i \in 0 .. n : g[i] = f[i] /\ f[i] = Step(f, i)
    BY <2>1
  <2>3. g[n + 1] = Step(f, n + 1)
    OBVIOUS
  <2> HIDE DEF g
  <2>4. \A i \in 0 .. n + 1 : Step(g, i) = Step(f, i)
    <3>1. \A i \in 0 .. n + 1 : i # 0 => i - 1 \in 0 .. n
      OBVIOUS
    <3> QED
      BY <2>2, <3>1 DEF Step
  <2>5. \A i \in 0 .. n + 1 : g[i] = Step(g, i)
    BY <2>2, <2>3, <2>4
  <2>6. Upto(n + 1, g)
    BY <2>5 DEF g
  <2> QED
    BY <2>6
<1>3. \A n \in Nat : n \in N
  <2> HIDE DEF N
  <2> QED
    BY <1>1, <1>2, Induction
<1>4. PICK f : Upto(Len(r.keys), f)
  BY <1>3, <1>0
<1>5. \A i \in 1 .. Len(r.keys) : usb_kb_map(r.keys[i], r.shift) = <<r.keys[i], r.shift>> /\ <<r.keys[i], r.shift>> # NoChar
  BY <1>0 DEF usb_kb_map, NoChar
<1>6. Upto(Len(r.keys), KeyEdges(r))
  <2> DEFINE Body(g) ==
        [i \in 0 .. Len(r.keys) |->
           IF i = 0 THEN [ring |-> usb_kb_buf, full |-> full]
           ELSE IF usb_kb_has_key(usb_kb_prev, r.keys[i]) \/ usb_kb_map(r.keys[i], r.shift) = NoChar
           THEN g[i - 1]
           ELSE usb_kb_push(g[i - 1], usb_kb_map(r.keys[i], r.shift))]
  <2>1. KeyEdges(r) = CHOOSE g : g = Body(g)
    BY Zenon DEF KeyEdges
  <2>2. ASSUME NEW g PROVE Body(g) = [i \in 0 .. Len(r.keys) |-> Step(g, i)]
    <3>1. ASSUME NEW i \in 0 .. Len(r.keys), i # 0
          PROVE  /\ usb_kb_map(r.keys[i], r.shift) = <<r.keys[i], r.shift>>
                 /\ <<r.keys[i], r.shift>> # NoChar
      BY <1>0, <1>5, <3>1
    <3> QED
      BY <3>1 DEF Pressed
  <2> HIDE DEF Body, Step
  <2>3. f = Body(f)
    BY <1>4, <2>2
  <2>4. KeyEdges(r) = Body(KeyEdges(r))
    BY <2>1, <2>3, Zenon
  <2> QED
    BY <2>4, <2>2
<1>7. \A i \in 0 .. Len(r.keys) : KeyEdges(r)[i] = Step(KeyEdges(r), i)
  <2> HIDE DEF Step
  <2> QED BY <1>6
<1> QED
  BY <1>0, <1>7

\* What comes out of a report: no key gives more than its one character, and none
\* that was in the report before.
Ring == [ring : Seq(Chars), full : BOOLEAN]
Bit(b) == IF b THEN 1 ELSE 0

LEMMA RingAfter ==
  ASSUME NEW r \in Reports, usb_kb_buf \in Seq(Chars), full \in BOOLEAN
  PROVE  \A i \in 0 .. Len(r.keys) : KeyEdges(r)[i] \in Ring
<1>0. r.keys \in Seq(Keys) /\ Len(r.keys) \in Nat /\ r.shift \in BOOLEAN
  BY DEF Reports
<1> DEFINE f == KeyEdges(r)
<1>1. f[0] \in Ring /\ \A i \in 1 .. Len(r.keys) : f[i] = Pressed(r, i, f[i - 1])
  BY EdgesExist DEF Ring
<1> HIDE DEF f
<1>2. ASSUME NEW b \in Ring, NEW i \in 1 .. Len(r.keys) PROVE Pressed(r, i, b) \in Ring
  <2>1. <<r.keys[i], r.shift>> \in Chars
    BY <1>0 DEF Chars
  <2>2. ASSUME NEW c \in Chars PROVE usb_kb_push(b, c) \in Ring
    <3>1. b.ring \in Seq(Chars) /\ b.full \in BOOLEAN
      BY DEF Ring
    <3>2. Append(b.ring, c) \in Seq(Chars)
      BY <3>1
    <3>3. \A s \in Seq(Chars), z \in BOOLEAN : [ring |-> s, full |-> z] \in Ring
      BY DEF Ring
    <3> QED
      BY <3>1, <3>2, <3>3 DEF usb_kb_push
  <2> QED
    BY <2>1, <2>2 DEF Pressed
<1> DEFINE N == {n \in Nat : n <= Len(r.keys) => f[n] \in Ring}
<1>3. 0 \in N
  BY <1>1
<1>4. ASSUME NEW n \in Nat, n \in N PROVE n + 1 \in N
  <2> SUFFICES ASSUME n + 1 <= Len(r.keys) PROVE f[n + 1] \in Ring
    OBVIOUS
  <2>1. f[n] \in Ring /\ n + 1 \in 1 .. Len(r.keys) /\ (n + 1) - 1 = n
    BY <1>0, <1>4
  <2> QED
    BY <1>1, <1>2, <2>1
<1>5. \A n \in Nat : n \in N
  <2> HIDE DEF N
  <2> QED
    BY <1>3, <1>4, Induction
<1> QED
  BY <1>5, <1>0 DEF f

LEMMA OneEach ==
  ASSUME NEW r \in Reports, Distinct(r.keys), usb_kb_buf \in Seq(Chars), full \in BOOLEAN,
         got \in Seq(Chars), NEW k \in Keys
  PROVE  Times(k, got \o KeyEdges(r)[Len(r.keys)].ring) <=
           Times(k, got \o usb_kb_buf)
             + Bit(Contains(r.keys, k) /\ ~ Contains(usb_kb_prev.keys, k))
<1>0. r.keys \in Seq(Keys) /\ Len(r.keys) \in Nat /\ r.shift \in BOOLEAN
  BY DEF Reports
<1> DEFINE f == KeyEdges(r)
           was == Contains(usb_kb_prev.keys, k)
           upto(n) == \E j \in 1 .. n : r.keys[j] = k
           t(n) == Times(k, got \o f[n].ring)
<1>1. /\ f[0] = [ring |-> usb_kb_buf, full |-> full]
      /\ \A i \in 1 .. Len(r.keys) : f[i] = Pressed(r, i, f[i - 1])
  BY EdgesExist
<1>2. \A i \in 0 .. Len(r.keys) : f[i] \in Ring
  BY RingAfter
<1> HIDE DEF f
<1>3. ASSUME NEW b \in Ring, NEW i \in 1 .. Len(r.keys)
      PROVE  /\ Times(k, got \o b.ring) \in Nat
             /\ Times(k, got \o Pressed(r, i, b).ring) <=
                  Times(k, got \o b.ring) + Bit(r.keys[i] = k /\ ~ was)
  <2> DEFINE c == <<r.keys[i], r.shift>>
  <2>1. c \in Chars /\ c[1] = r.keys[i] /\ b.ring \in Seq(Chars) /\ got \o b.ring \in Seq(Chars)
    BY <1>0 DEF Chars, Ring
  <2>2. /\ Times(k, got \o b.ring) \in Nat
        /\ Times(k, Append(got \o b.ring, c)) = Times(k, got \o b.ring) + Bit(c[1] = k)
    BY <2>1, TimesAppend DEF Bit
  <2>3. got \o Append(b.ring, c) = Append(got \o b.ring, c)
    BY <2>1
  <2>4. Pressed(r, i, b).ring = b.ring \/
          (Pressed(r, i, b).ring = Append(b.ring, c) /\ ~ Contains(usb_kb_prev.keys, r.keys[i]))
    BY <2>1 DEF Pressed, usb_kb_push, usb_kb_has_key, Ring
  <2>5. CASE Pressed(r, i, b).ring = b.ring
    BY <2>2, <2>5 DEF Bit
  <2>6. CASE /\ Pressed(r, i, b).ring = Append(b.ring, c)
             /\ ~ Contains(usb_kb_prev.keys, r.keys[i])
    <3>1. /\ Times(k, got \o Pressed(r, i, b).ring)
               = Times(k, got \o b.ring) + Bit(r.keys[i] = k)
          /\ Times(k, got \o b.ring) \in Nat
      BY <2>1, <2>2, <2>3, <2>6
    <3>2. Bit(r.keys[i] = k) = Bit(r.keys[i] = k /\ ~ was)
      BY <2>6 DEF Bit
    <3> HIDE DEF was
    <3> QED
      BY <3>1, <3>2 DEF Bit
  <2> QED
    BY <2>4, <2>5, <2>6
<1> DEFINE N == {n \in Nat : n <= Len(r.keys) => t(n) <= t(0) + Bit(upto(n) /\ ~ was)}
<1>4. \A n \in 0 .. Len(r.keys) : t(n) \in Nat
  <2>1. ASSUME NEW b \in Ring PROVE Times(k, got \o b.ring) \in Nat
    <3>1. got \o b.ring \in Seq(Chars)
      BY DEF Ring
    <3>2. <<k, TRUE>> \in Chars
      BY DEF Chars
    <3> QED
      BY <3>1, <3>2, TimesAppend
  <2> QED
    BY <1>2, <2>1
<1>5. 0 \in N
  BY <1>4, <1>0 DEF Bit
<1>6. ASSUME NEW n \in Nat, n \in N PROVE n + 1 \in N
  <2> SUFFICES ASSUME n + 1 <= Len(r.keys) PROVE t(n + 1) <= t(0) + Bit(upto(n + 1) /\ ~ was)
    OBVIOUS
  <2>1. /\ n + 1 \in 1 .. Len(r.keys) /\ (n + 1) - 1 = n
        /\ n \in 0 .. Len(r.keys) /\ 0 \in 0 .. Len(r.keys)
    BY <1>0
  <2>2. t(n) <= t(0) + Bit(upto(n) /\ ~ was)
    BY <1>6, <2>1
  <2>3. t(n + 1) <= t(n) + Bit(r.keys[n + 1] = k /\ ~ was)
    BY <1>1, <1>2, <1>3, <2>1
  <2>4. ~ (upto(n) /\ r.keys[n + 1] = k)
    <3> SUFFICES ASSUME NEW j \in 1 .. n, r.keys[j] = k, r.keys[n + 1] = k PROVE FALSE
      OBVIOUS
    <3>1. j \in DOMAIN r.keys /\ n + 1 \in DOMAIN r.keys /\ j # n + 1
      BY <1>0, <2>1
    <3> QED
      BY <3>1 DEF Distinct
  <2>5. /\ upto(n) => upto(n + 1)
        /\ r.keys[n + 1] = k => upto(n + 1)
    <3>1. 1 .. n \subseteq 1 .. n + 1 /\ n + 1 \in 1 .. n + 1
      OBVIOUS
    <3> QED
      BY <3>1
  <2>6. t(0) \in Nat /\ t(n) \in Nat /\ t(n + 1) \in Nat
    <3>1. n + 1 \in 0 .. Len(r.keys)
      BY <2>1
    <3> QED
      BY <1>4, <2>1, <3>1
  <2> HIDE DEF t, upto, was
  <2> QED
    BY <2>2, <2>3, <2>4, <2>5, <2>6 DEF Bit
<1>7. \A n \in Nat : n \in N
  <2> HIDE DEF N
  <2> QED
    BY <1>5, <1>6, Induction
<1>8. t(Len(r.keys)) <= t(0) + Bit(upto(Len(r.keys)) /\ ~ was)
  BY <1>0, <1>7
<1>9. upto(Len(r.keys)) <=> Contains(r.keys, k)
  BY DEF Contains
<1>10. f[0].ring = usb_kb_buf
  BY <1>1
<1> QED
  BY <1>8, <1>9, <1>10 DEF f

\* A report without new keys changes nothing; one with one new key adds that one, or
\* finds the ring full.
LEMMA NoneNew ==
  ASSUME NEW r \in Reports, usb_kb_buf \in Seq(Chars), full \in BOOLEAN,
         \A i \in DOMAIN r.keys : Contains(usb_kb_prev.keys, r.keys[i])
  PROVE  KeyEdges(r)[Len(r.keys)] = [ring |-> usb_kb_buf, full |-> full]
<1>0. r.keys \in Seq(Keys) /\ Len(r.keys) \in Nat /\ DOMAIN r.keys = 1 .. Len(r.keys)
  BY DEF Reports
<1> DEFINE f == KeyEdges(r)
           N == {n \in Nat : n <= Len(r.keys) => f[n] = f[0]}
<1>1. /\ f[0] = [ring |-> usb_kb_buf, full |-> full]
      /\ \A i \in 1 .. Len(r.keys) : f[i] = Pressed(r, i, f[i - 1])
  BY EdgesExist
<1> HIDE DEF f
<1>2. \A i \in 1 .. Len(r.keys) : f[i] = f[i - 1]
  BY <1>0, <1>1 DEF Pressed, usb_kb_has_key
<1>3. 0 \in N
  OBVIOUS
<1>4. ASSUME NEW n \in Nat, n \in N PROVE n + 1 \in N
  <2> SUFFICES ASSUME n + 1 <= Len(r.keys) PROVE f[n + 1] = f[0]
    OBVIOUS
  <2>1. f[n] = f[0] /\ n + 1 \in 1 .. Len(r.keys) /\ (n + 1) - 1 = n
    BY <1>0, <1>4
  <2> QED
    BY <1>2, <2>1
<1>5. \A n \in Nat : n \in N
  <2> HIDE DEF N
  <2> QED
    BY <1>3, <1>4, Induction
<1> QED
  BY <1>0, <1>1, <1>5 DEF f

LEMMA OneNew ==
  ASSUME NEW r \in Reports, usb_kb_buf \in Seq(Chars), full \in BOOLEAN,
         NEW j \in DOMAIN r.keys,
         \A i \in DOMAIN r.keys : Contains(usb_kb_prev.keys, r.keys[i]) <=> i # j
  PROVE  KeyEdges(r)[Len(r.keys)] =
           usb_kb_push([ring |-> usb_kb_buf, full |-> full], <<r.keys[j], r.shift>>)
<1>0. r.keys \in Seq(Keys) /\ Len(r.keys) \in Nat /\ DOMAIN r.keys = 1 .. Len(r.keys)
  BY DEF Reports
<1> DEFINE f == KeyEdges(r)
           pushed == usb_kb_push(f[0], <<r.keys[j], r.shift>>)
           N == {n \in Nat : n <= Len(r.keys) => f[n] = IF n < j THEN f[0] ELSE pushed}
<1>1. /\ f[0] = [ring |-> usb_kb_buf, full |-> full]
      /\ \A i \in 1 .. Len(r.keys) : f[i] = Pressed(r, i, f[i - 1])
  BY EdgesExist
<1> HIDE DEF f
<1>2. \A i \in 1 .. Len(r.keys) :
         f[i] = IF i # j THEN f[i - 1] ELSE usb_kb_push(f[i - 1], <<r.keys[i], r.shift>>)
  BY <1>0, <1>1 DEF Pressed, usb_kb_has_key
<1>3. 0 \in N
  BY <1>0
<1>4. ASSUME NEW n \in Nat, n \in N PROVE n + 1 \in N
  <2> SUFFICES ASSUME n + 1 <= Len(r.keys)
               PROVE  f[n + 1] = IF n + 1 < j THEN f[0] ELSE pushed
    OBVIOUS
  <2>1. /\ f[n] = IF n < j THEN f[0] ELSE pushed
        /\ n + 1 \in 1 .. Len(r.keys) /\ (n + 1) - 1 = n
    BY <1>0, <1>4
  <2>2. f[n + 1] = IF n + 1 # j THEN f[n] ELSE usb_kb_push(f[n], <<r.keys[n + 1], r.shift>>)
    BY <1>2, <2>1
  <2> HIDE DEF pushed
  <2>3. CASE n + 1 = j
    <3>1. f[n] = f[0] /\ f[n + 1] = usb_kb_push(f[n], <<r.keys[n + 1], r.shift>>)
      BY <2>1, <2>2, <2>3
    <3>2. f[n + 1] = pushed
      BY <3>1, <2>3 DEF pushed
    <3> QED
      BY <2>3, <3>2
  <2>4. CASE n + 1 # j
    <3>1. n < j <=> n + 1 < j
      BY <1>0, <2>4
    <3> QED
      BY <2>1, <2>2, <2>4, <3>1
  <2> QED
    BY <2>3, <2>4
<1>5. \A n \in Nat : n \in N
  <2> HIDE DEF N
  <2> QED
    BY <1>3, <1>4, Induction
<1>6. f[Len(r.keys)] = pushed
  <2> HIDE DEF pushed
  <2> QED
    BY <1>0, <1>5
<1> QED
  BY <1>1, <1>6 DEF f

--------------------------------------------------------------------------------
(* Reports that are under way.  The i-th is compared with the one before it, the    *)
(* first with the one that the driver has kept; the first of all is thrown away.    *)
(* Behind the last one stand the keys that are down now, which the next report will *)
(* name.                                                                            *)

PrevOf(p, rs, i) == IF i = 1 THEN p.keys ELSE rs[i - 1].keys
DownOf(rs, h, i) == IF i <= Len(rs) THEN rs[i].keys ELSE h
FreshIn(k, p, rs, h, thrown, i) ==
  ~ (i = 1 /\ thrown) /\ Contains(DownOf(rs, h, i), k) /\ ~ Contains(PrevOf(p, rs, i), k)

\* A key that has given a characters so far, and was pressed b times, will not give
\* more than b.
Debt(k, a, b, p, rs, h, thrown) ==
  \E e \in [0 .. Len(rs) + 1 -> Nat] :
     /\ e[0] = a /\ e[Len(rs) + 1] <= b
     /\ \A i \in 1 .. Len(rs) + 1 : e[i - 1] + Bit(FreshIn(k, p, rs, h, thrown, i)) <= e[i]

\* A report more.
LEMMA DebtGrows ==
  ASSUME NEW k, NEW a \in Nat, NEW b \in Nat, NEW b2 \in Nat, NEW p, NEW rs \in Seq(Reports),
         NEW h, NEW thrown \in BOOLEAN, NEW r \in Reports, Debt(k, a, b, p, rs, h, thrown),
         b2 >= b,
         Contains(r.keys, k) => Contains(h, k) \/ b2 >= b + 1 \/ (rs = <<>> /\ thrown)
  PROVE  Debt(k, a, b2, p, Append(rs, r), r.keys, thrown)
<1>1. PICK e \in [0 .. Len(rs) + 1 -> Nat] :
         /\ e[0] = a /\ e[Len(rs) + 1] <= b
         /\ \A i \in 1 .. Len(rs) + 1 : e[i - 1] + Bit(FreshIn(k, p, rs, h, thrown, i)) <= e[i]
  BY DEF Debt
<1>2. PICK n \in Nat : n = Len(rs)
  OBVIOUS
<1> DEFINE rs2 == Append(rs, r)
           g == [i \in 0 .. n + 2 |-> IF i <= n THEN e[i] ELSE b2]
<1>3. Len(rs2) = n + 1 /\ rs2[n + 1] = r /\ \A i \in 1 .. n : rs2[i] = rs[i]
  BY <1>2
<1>4. \A i \in 1 .. n : i # 1 => i - 1 \in 1 .. n
  OBVIOUS
<1>5. ASSUME NEW i \in 1 .. n
      PROVE  Bit(FreshIn(k, p, rs2, r.keys, thrown, i)) = Bit(FreshIn(k, p, rs, h, thrown, i))
  <2>1. DownOf(rs2, r.keys, i) = DownOf(rs, h, i)
    BY <1>2, <1>3 DEF DownOf
  <2>2. PrevOf(p, rs2, i) = PrevOf(p, rs, i)
    BY <1>3, <1>4 DEF PrevOf
  <2> QED
    BY <2>1, <2>2 DEF FreshIn, Bit
<1>6. FreshIn(k, p, rs2, r.keys, thrown, n + 1) =>
        FreshIn(k, p, rs, h, thrown, n + 1) \/ b2 >= b + 1
  <2>1. DownOf(rs2, r.keys, n + 1) = r.keys /\ DownOf(rs, h, n + 1) = h
    BY <1>2, <1>3 DEF DownOf
  <2>2. PrevOf(p, rs2, n + 1) = PrevOf(p, rs, n + 1)
    <3>1. n + 1 # 1 => (n + 1) - 1 \in 1 .. n
      OBVIOUS
    <3> QED
      BY <1>3, <3>1 DEF PrevOf
  <2>3. rs = <<>> => n + 1 = 1
    BY <1>2
  <2> QED
    BY <2>1, <2>2, <2>3 DEF FreshIn
<1>7. ~ FreshIn(k, p, rs2, r.keys, thrown, n + 2)
  <2>1. DownOf(rs2, r.keys, n + 2) = r.keys /\ PrevOf(p, rs2, n + 2) = r.keys
    <3>1. ~ (n + 2 <= n + 1) /\ n + 2 # 1 /\ (n + 2) - 1 = n + 1
      OBVIOUS
    <3> QED
      BY <1>3, <3>1 DEF DownOf, PrevOf
  <2> QED
    BY <2>1 DEF FreshIn
<1>8. /\ n \in 0 .. n + 1 /\ n + 1 \in 0 .. n + 1 /\ n + 1 \in 1 .. n + 1 /\ (n + 1) - 1 = n
      /\ \A i \in 1 .. n : i \in 0 .. n + 1 /\ i - 1 \in 0 .. n + 1 /\ i \in 1 .. n + 1
  OBVIOUS
<1>9. /\ e[n] \in Nat /\ e[n + 1] \in Nat /\ e[n + 1] <= b
      /\ e[n] + Bit(FreshIn(k, p, rs, h, thrown, n + 1)) <= e[n + 1]
  BY <1>1, <1>2, <1>8
<1>10. g \in [0 .. n + 2 -> Nat] /\ g[0] = a /\ g[n] = e[n] /\ g[n + 1] = b2 /\ g[n + 2] = b2
  BY <1>1, <1>2
<1>11. \A i \in 1 .. n : g[i - 1] = e[i - 1] /\ g[i] = e[i]
  OBVIOUS
<1> HIDE DEF g, rs2
<1>12. ASSUME NEW i \in 1 .. n
       PROVE  g[i - 1] + Bit(FreshIn(k, p, rs2, r.keys, thrown, i)) <= g[i]
  BY <1>1, <1>2, <1>5, <1>8, <1>11
<1>13. g[n] + Bit(FreshIn(k, p, rs2, r.keys, thrown, n + 1)) <= g[n + 1]
  BY <1>6, <1>9, <1>10 DEF Bit
<1>14. g[n + 1] + Bit(FreshIn(k, p, rs2, r.keys, thrown, n + 2)) <= g[n + 2]
  BY <1>7, <1>10 DEF Bit
<1>15. \A i \in 1 .. n + 2 : i \in 1 .. n \/ (i = n + 1 /\ i - 1 = n) \/ (i = n + 2 /\ i - 1 = n + 1)
  OBVIOUS
<1>16. \A i \in 1 .. n + 2 : g[i - 1] + Bit(FreshIn(k, p, rs2, r.keys, thrown, i)) <= g[i]
  BY <1>12, <1>13, <1>14, <1>15
<1>17. Len(rs2) + 1 = n + 2
  BY <1>3
<1>18. Debt(k, a, b2, p, rs2, r.keys, thrown)
  <2>1. /\ g \in [0 .. Len(rs2) + 1 -> Nat] /\ g[0] = a /\ g[Len(rs2) + 1] <= b2
        /\ \A i \in 1 .. Len(rs2) + 1 :
             g[i - 1] + Bit(FreshIn(k, p, rs2, r.keys, thrown, i)) <= g[i]
    <3>1. /\ g \in [0 .. n + 2 -> Nat] /\ g[0] = a /\ g[n + 2] <= b2
          /\ \A i \in 1 .. n + 2 : g[i - 1] + Bit(FreshIn(k, p, rs2, r.keys, thrown, i)) <= g[i]
      BY <1>10, <1>16
    <3> QED
      BY <1>17, <3>1, Zenon
  <2> QED
    BY <2>1, Zenon DEF Debt
<1> QED
  BY <1>18 DEF rs2

\* A report less: what it has given is what it may give.
LEMMA DebtTaken ==
  ASSUME NEW k, NEW a \in Nat, NEW a2 \in Nat, NEW b \in Nat, NEW p, NEW rs \in Seq(Reports),
         rs # <<>>, NEW h, NEW thrown \in BOOLEAN, Debt(k, a, b, p, rs, h, thrown),
         a2 <= a + Bit(~ thrown /\ Contains(rs[1].keys, k) /\ ~ Contains(p.keys, k))
  PROVE  Debt(k, a2, b, rs[1], Tail(rs), h, FALSE)
<1>1. PICK e \in [0 .. Len(rs) + 1 -> Nat] :
         /\ e[0] = a /\ e[Len(rs) + 1] <= b
         /\ \A i \in 1 .. Len(rs) + 1 : e[i - 1] + Bit(FreshIn(k, p, rs, h, thrown, i)) <= e[i]
  BY DEF Debt
<1>2. PICK n \in Nat \ {0} : n = Len(rs)
  OBVIOUS
<1> DEFINE rs2 == Tail(rs)
           g == [i \in 0 .. n |-> IF i = 0 THEN a2 ELSE e[i + 1]]
<1>3. Len(rs2) = n - 1 /\ \A i \in 1 .. n - 1 : rs2[i] = rs[i + 1]
  BY <1>2
<1>4. \A i \in 1 .. n : /\ i + 1 \in 1 .. n + 1 /\ (i + 1) - 1 = i /\ i + 1 # 1
                        /\ i \in 0 .. n + 1 /\ i + 1 \in 0 .. n + 1 /\ i - 1 \in 0 .. n
                        /\ i # 1 => i - 1 \in 1 .. n - 1 /\ (i - 1) + 1 = i
                        /\ i <= n - 1 <=> i + 1 <= n
                        /\ i <= n - 1 => i \in 1 .. n - 1
  BY <1>2
<1>5. ASSUME NEW i \in 1 .. n
      PROVE  Bit(FreshIn(k, rs[1], rs2, h, FALSE, i)) = Bit(FreshIn(k, p, rs, h, thrown, i + 1))
  <2>1. DownOf(rs2, h, i) = DownOf(rs, h, i + 1)
    BY <1>2, <1>3, <1>4 DEF DownOf
  <2>2. PrevOf(rs[1], rs2, i) = PrevOf(p, rs, i + 1)
    BY <1>3, <1>4 DEF PrevOf
  <2> QED
    BY <1>4, <2>1, <2>2 DEF FreshIn, Bit
<1>6. e[0] \in Nat /\ e[1] \in Nat /\ a2 <= e[1]
  <2>1. 1 \in 1 .. n + 1 /\ 1 - 1 = 0 /\ 0 \in 0 .. n + 1 /\ 1 \in 0 .. n + 1 /\ 1 <= n
    BY <1>2
  <2>2. FreshIn(k, p, rs, h, thrown, 1) <=>
          ~ thrown /\ Contains(rs[1].keys, k) /\ ~ Contains(p.keys, k)
    BY <1>2, <2>1 DEF FreshIn, DownOf, PrevOf
  <2>3. e[0] + Bit(FreshIn(k, p, rs, h, thrown, 1)) <= e[1] /\ e[0] = a /\ e[1] \in Nat
    BY <1>1, <1>2, <2>1
  <2> QED
    BY <2>2, <2>3 DEF Bit
<1>7. g \in [0 .. n -> Nat] /\ g[0] = a2 /\ g[n] = e[n + 1] /\ \A i \in 1 .. n : g[i] = e[i + 1]
  BY <1>1, <1>2, <1>4
<1> HIDE DEF g, rs2
<1>8. ASSUME NEW i \in 1 .. n
      PROVE  g[i - 1] + Bit(FreshIn(k, rs[1], rs2, h, FALSE, i)) <= g[i]
  <2>1. e[i] + Bit(FreshIn(k, p, rs, h, thrown, i + 1)) <= e[i + 1]
    BY <1>1, <1>2, <1>4
  <2>2. g[i - 1] <= e[i]
    <3>1. CASE i = 1
      BY <1>6, <1>7, <3>1
    <3>2. CASE i # 1
      <4>1. i - 1 \in 1 .. n /\ (i - 1) + 1 = i
        BY <3>2
      <4>2. e[i] \in Nat
        BY <1>1, <1>2, <1>4
      <4>3. g[i - 1] = e[(i - 1) + 1]
        BY <1>7, <4>1
      <4> QED
        BY <4>1, <4>2, <4>3
    <3> QED
      BY <3>1, <3>2
  <2>3. g[i - 1] \in Nat /\ e[i] \in Nat /\ e[i + 1] \in Nat /\ g[i] = e[i + 1]
    BY <1>1, <1>2, <1>4, <1>7
  <2>4. Bit(FreshIn(k, p, rs, h, thrown, i + 1)) \in {0, 1}
    BY DEF Bit
  <2>5. PICK c \in {0, 1} : c = Bit(FreshIn(k, p, rs, h, thrown, i + 1))
    BY <2>4
  <2>6. Bit(FreshIn(k, rs[1], rs2, h, FALSE, i)) = c /\ e[i] + c <= e[i + 1]
    BY <1>5, <2>1, <2>5
  <2> QED
    BY <2>2, <2>3, <2>6
<1>9. Len(rs2) + 1 = n
  BY <1>3, <1>2
<1>10. Debt(k, a2, b, rs[1], rs2, h, FALSE)
  BY <1>1, <1>2, <1>7, <1>8, <1>9 DEF Debt
<1> QED
  BY <1>10 DEF rs2

\* A report lost: a key that was new in it may be new in the next one, but not in both.
LEMMA DebtLost ==
  ASSUME NEW k, NEW a \in Nat, NEW b \in Nat, NEW p, NEW rs \in Seq(Reports), rs # <<>>,
         NEW h, NEW thrown \in BOOLEAN, Debt(k, a, b, p, rs, h, thrown)
  PROVE  Debt(k, a, b, p, Tail(rs), h, thrown)
<1>1. PICK e \in [0 .. Len(rs) + 1 -> Nat] :
         /\ e[0] = a /\ e[Len(rs) + 1] <= b
         /\ \A i \in 1 .. Len(rs) + 1 : e[i - 1] + Bit(FreshIn(k, p, rs, h, thrown, i)) <= e[i]
  BY DEF Debt
<1>2. PICK n \in Nat \ {0} : n = Len(rs)
  OBVIOUS
<1> DEFINE rs2 == Tail(rs)
           g == [i \in 0 .. n |-> IF i = 0 THEN a ELSE e[i + 1]]
<1>3. Len(rs2) = n - 1 /\ \A i \in 1 .. n - 1 : rs2[i] = rs[i + 1]
  BY <1>2
<1>4. \A i \in 1 .. n : /\ i + 1 \in 1 .. n + 1 /\ (i + 1) - 1 = i /\ i + 1 # 1
                        /\ i \in 0 .. n + 1 /\ i + 1 \in 0 .. n + 1 /\ i - 1 \in 0 .. n
                        /\ i # 1 => /\ i - 1 \in 1 .. n - 1 /\ (i - 1) + 1 = i
                                    /\ i - 1 \in 1 .. n
                        /\ i <= n - 1 <=> i + 1 <= n
                        /\ i <= n - 1 => i \in 1 .. n - 1
  BY <1>2
<1>5. ASSUME NEW i \in 1 .. n
      PROVE  DownOf(rs2, h, i) = DownOf(rs, h, i + 1)
  BY <1>2, <1>3, <1>4 DEF DownOf
<1>6. ASSUME NEW i \in 1 .. n, i # 1
      PROVE  Bit(FreshIn(k, p, rs2, h, thrown, i)) = Bit(FreshIn(k, p, rs, h, thrown, i + 1))
  <2>1. PrevOf(p, rs2, i) = PrevOf(p, rs, i + 1)
    <3>1. rs2[i - 1] = rs[(i - 1) + 1] /\ (i - 1) + 1 = i
      BY <1>3, <1>4, <1>6
    <3>2. PrevOf(p, rs2, i) = rs2[i - 1].keys
      BY <1>6 DEF PrevOf
    <3>3. PrevOf(p, rs, i + 1) = rs[i].keys
      BY <1>4 DEF PrevOf
    <3> QED
      BY <3>1, <3>2, <3>3
  <2> QED
    BY <1>4, <1>5, <1>6, <2>1 DEF FreshIn, Bit
<1>7. FreshIn(k, p, rs2, h, thrown, 1) =>
        FreshIn(k, p, rs, h, thrown, 1) \/ FreshIn(k, p, rs, h, thrown, 2)
  <2>1. 1 <= n /\ 1 \in 1 .. n /\ 1 + 1 = 2 /\ 2 # 1 /\ 2 - 1 = 1
    BY <1>2
  <2>2. /\ PrevOf(p, rs2, 1) = p.keys /\ PrevOf(p, rs, 1) = p.keys
        /\ PrevOf(p, rs, 2) = rs[1].keys /\ DownOf(rs, h, 1) = rs[1].keys
        /\ DownOf(rs2, h, 1) = DownOf(rs, h, 2)
    BY <1>2, <1>5, <2>1 DEF PrevOf, DownOf
  <2> HIDE DEF rs2
  <2> QED
    BY <2>1, <2>2 DEF FreshIn
<1>8. g \in [0 .. n -> Nat] /\ g[0] = a /\ g[n] = e[n + 1] /\ \A i \in 1 .. n : g[i] = e[i + 1]
  BY <1>1, <1>2, <1>4
<1> HIDE DEF g, rs2
<1>9. g[0] + Bit(FreshIn(k, p, rs2, h, thrown, 1)) <= g[1]
  <2>1. /\ 1 \in 1 .. n + 1 /\ 2 \in 1 .. n + 1 /\ 1 - 1 = 0 /\ 2 - 1 = 1 /\ 1 \in 1 .. n
        /\ 0 \in 0 .. n + 1 /\ 1 \in 0 .. n + 1 /\ 2 \in 0 .. n + 1 /\ 1 + 1 = 2
    BY <1>2
  <2>2. /\ e[0] + Bit(FreshIn(k, p, rs, h, thrown, 1)) <= e[1]
        /\ e[1] + Bit(FreshIn(k, p, rs, h, thrown, 2)) <= e[2]
        /\ e[0] \in Nat /\ e[1] \in Nat /\ e[2] \in Nat /\ e[0] = a
    BY <1>1, <1>2, <2>1
  <2>3. g[0] = e[0] /\ g[1] = e[2]
    BY <1>8, <2>1, <2>2
  <2> QED
    BY <1>7, <2>2, <2>3 DEF Bit
<1>10. ASSUME NEW i \in 1 .. n, i # 1
       PROVE  g[i - 1] + Bit(FreshIn(k, p, rs2, h, thrown, i)) <= g[i]
  <2>1. e[i] + Bit(FreshIn(k, p, rs, h, thrown, i + 1)) <= e[i + 1]
    BY <1>1, <1>2, <1>4
  <2>2. g[i - 1] = e[i] /\ g[i] = e[i + 1]
    BY <1>4, <1>8, <1>10
  <2> QED
    BY <1>6, <1>10, <2>1, <2>2
<1>11. \A i \in 1 .. n : g[i - 1] + Bit(FreshIn(k, p, rs2, h, thrown, i)) <= g[i]
  <2>1. 1 - 1 = 0
    OBVIOUS
  <2> QED
    BY <1>9, <1>10, <2>1
<1>12. Len(rs2) + 1 = n
  BY <1>3, <1>2
<1>13. Debt(k, a, b, p, rs2, h, thrown)
  BY <1>1, <1>2, <1>8, <1>11, <1>12 DEF Debt
<1> QED
  BY <1>13 DEF rs2

\* With nothing lost, each report names at most one new key, and that key is the next
\* of those typed.
NoneFresh(p, rs, thrown, i) ==
  (i = 1 /\ thrown) \/ \A j \in DOMAIN rs[i].keys : Contains(PrevOf(p, rs, i), rs[i].keys[j])
OneFresh(p, rs, thrown, i, c) ==
  /\ ~ (i = 1 /\ thrown)
  /\ \E j \in DOMAIN rs[i].keys :
       /\ c = <<rs[i].keys[j], rs[i].shift>>
       /\ \A l \in DOMAIN rs[i].keys : Contains(PrevOf(p, rs, i), rs[i].keys[l]) <=> l # j
StepOf(x, y, p, rs, thrown, i, chars) ==
  \/ y = x /\ NoneFresh(p, rs, thrown, i)
  \/ y = x + 1 /\ OneFresh(p, rs, thrown, i, chars[y])
Follows(out, chars, p, rs, thrown) ==
  /\ \A i \in 1 .. Len(out) : out[i] = chars[i]
  /\ \E m \in [0 .. Len(rs) -> 0 .. Len(chars)] :
       /\ m[0] = Len(out) /\ m[Len(rs)] = Len(chars)
       /\ \A i \in 1 .. Len(rs) : StepOf(m[i - 1], m[i], p, rs, thrown, i, chars)

LEMMA FollowsGrows ==
  ASSUME NEW out \in Seq(Chars), NEW chars \in Seq(Chars), NEW p, NEW rs \in Seq(Reports),
         NEW thrown \in BOOLEAN, NEW r \in Reports, NEW chars2 \in Seq(Chars),
         Follows(out, chars, p, rs, thrown),
         \/ chars2 = chars /\ NoneFresh(p, Append(rs, r), thrown, Len(rs) + 1)
         \/ \E c \in Chars : /\ chars2 = Append(chars, c)
                             /\ OneFresh(p, Append(rs, r), thrown, Len(rs) + 1, c)
  PROVE  Follows(out, chars2, p, Append(rs, r), thrown)
<1>1. PICK m \in [0 .. Len(rs) -> 0 .. Len(chars)] :
         /\ m[0] = Len(out) /\ m[Len(rs)] = Len(chars)
         /\ \A i \in 1 .. Len(rs) : StepOf(m[i - 1], m[i], p, rs, thrown, i, chars)
  BY Zenon DEF Follows
<1>2. PICK n \in Nat : n = Len(rs)
  OBVIOUS
<1>3. PICK q \in Nat, q2 \in Nat : q = Len(chars) /\ q2 = Len(chars2)
  OBVIOUS
<1> DEFINE rs2 == Append(rs, r)
           g == [i \in 0 .. n + 1 |-> IF i <= n THEN m[i] ELSE q2]
<1>4. Len(rs2) = n + 1 /\ rs2[n + 1] = r /\ \A i \in 1 .. n : rs2[i] = rs[i]
  BY <1>2
<1>5. q <= q2 /\ \A i \in 1 .. q : chars2[i] = chars[i]
  <2>1. CASE chars2 = chars
    BY <1>3, <2>1
  <2>2. ASSUME NEW c \in Chars, chars2 = Append(chars, c)
        PROVE  q <= q2 /\ \A i \in 1 .. q : chars2[i] = chars[i]
    BY <1>3, <2>2
  <2> QED
    BY <2>1, <2>2
<1>6. /\ g[0] = Len(out) /\ g[n] = q /\ g[n + 1] = q2
      /\ \A i \in 1 .. n : g[i - 1] = m[i - 1] /\ g[i] = m[i]
  BY <1>1, <1>2, <1>3
<1>7. g \in [0 .. n + 1 -> 0 .. q2]
  <2>1. \A i \in 0 .. n + 1 : i <= n => i \in 0 .. n
    OBVIOUS
  <2>2. \A i \in 0 .. n : m[i] \in 0 .. q2
    <3>1. m \in [0 .. n -> 0 .. q] /\ 0 .. q \subseteq 0 .. q2
      BY <1>1, <1>2, <1>3, <1>5
    <3> QED
      BY <3>1
  <2> QED
    BY <2>1, <2>2
<1>8. \A i \in 1 .. Len(out) : out[i] = chars2[i]
  <2>1. Len(out) \in 0 .. q
    <3>1. 0 \in 0 .. n
      OBVIOUS
    <3> QED
      BY <1>1, <1>2, <1>3, <3>1
  <2>2. \A i \in 1 .. Len(out) : i \in 1 .. q
    BY <2>1
  <2> QED
    BY <1>5, <2>2 DEF Follows
<1> HIDE DEF g, rs2
<1>9. ASSUME NEW i \in 1 .. n PROVE StepOf(g[i - 1], g[i], p, rs2, thrown, i, chars2)
  <2>1. rs2[i] = rs[i] /\ PrevOf(p, rs2, i) = PrevOf(p, rs, i)
    <3>1. i # 1 => i - 1 \in 1 .. n
      OBVIOUS
    <3> QED
      BY <1>4, <3>1 DEF PrevOf
  <2>2. StepOf(m[i - 1], m[i], p, rs, thrown, i, chars)
    BY <1>1, <1>2
  <2>3. m[i - 1] \in 0 .. q /\ m[i] \in 0 .. q
    <3>1. i - 1 \in 0 .. n /\ i \in 0 .. n
      OBVIOUS
    <3> QED
      BY <1>1, <1>2, <1>3, <3>1
  <2>4. m[i] = m[i - 1] + 1 => chars2[m[i]] = chars[m[i]]
    <3>1. m[i] = m[i - 1] + 1 => m[i] \in 1 .. q
      BY <2>3
    <3> QED
      BY <1>5, <3>1
  <2>5. StepOf(m[i - 1], m[i], p, rs2, thrown, i, chars2)
    <3>1. CASE m[i] = m[i - 1] /\ NoneFresh(p, rs, thrown, i)
      BY <2>1, <3>1 DEF StepOf, NoneFresh
    <3>2. CASE m[i] = m[i - 1] + 1 /\ OneFresh(p, rs, thrown, i, chars[m[i]])
      <4>1. OneFresh(p, rs2, thrown, i, chars2[m[i]])
        BY <2>1, <2>4, <3>2, Zenon DEF OneFresh
      <4> QED
        BY <3>2, <4>1 DEF StepOf
    <3> QED
      BY <2>2, <3>1, <3>2 DEF StepOf
  <2> QED
    BY <1>6, <2>5
<1>10. StepOf(g[n], g[n + 1], p, rs2, thrown, n + 1, chars2)
  <2>1. CASE chars2 = chars /\ NoneFresh(p, rs2, thrown, Len(rs) + 1)
    BY <1>2, <1>3, <1>6, <2>1 DEF StepOf
  <2>2. ASSUME NEW c \in Chars, chars2 = Append(chars, c),
               OneFresh(p, rs2, thrown, Len(rs) + 1, c)
        PROVE  StepOf(g[n], g[n + 1], p, rs2, thrown, n + 1, chars2)
    <3>1. q2 = q + 1 /\ chars2[q2] = c
      BY <1>3, <2>2
    <3> QED
      BY <1>2, <1>6, <2>2, <3>1 DEF StepOf
  <2> QED
    BY <2>1, <2>2 DEF rs2
<1>11. \A i \in 1 .. n + 1 : i \in 1 .. n \/ (i = n + 1 /\ i - 1 = n)
  OBVIOUS
<1>12. \A i \in 1 .. n + 1 : StepOf(g[i - 1], g[i], p, rs2, thrown, i, chars2)
  BY <1>9, <1>10, <1>11
<1>13. /\ g \in [0 .. Len(rs2) -> 0 .. Len(chars2)] /\ g[0] = Len(out) /\ g[Len(rs2)] = Len(chars2)
       /\ \A i \in 1 .. Len(rs2) : StepOf(g[i - 1], g[i], p, rs2, thrown, i, chars2)
  BY <1>3, <1>4, <1>6, <1>7, <1>12
<1>14. Follows(out, chars2, p, rs2, thrown)
  BY <1>8, <1>13, Zenon DEF Follows
<1> QED
  BY <1>14 DEF rs2

LEMMA FollowsTaken ==
  ASSUME NEW out \in Seq(Chars), NEW chars \in Seq(Chars), NEW p, NEW rs \in Seq(Reports),
         rs # <<>>, NEW thrown \in BOOLEAN, Follows(out, chars, p, rs, thrown)
  PROVE  \/ NoneFresh(p, rs, thrown, 1) /\ Follows(out, chars, rs[1], Tail(rs), FALSE)
         \/ \E c \in Chars : /\ OneFresh(p, rs, thrown, 1, c)
                             /\ Follows(Append(out, c), chars, rs[1], Tail(rs), FALSE)
<1>1. PICK m \in [0 .. Len(rs) -> 0 .. Len(chars)] :
         /\ m[0] = Len(out) /\ m[Len(rs)] = Len(chars)
         /\ \A i \in 1 .. Len(rs) : StepOf(m[i - 1], m[i], p, rs, thrown, i, chars)
  BY Zenon DEF Follows
<1>2. PICK n \in Nat \ {0} : n = Len(rs)
  OBVIOUS
<1>3. PICK q \in Nat : q = Len(chars)
  OBVIOUS
<1> DEFINE rs2 == Tail(rs)
           g == [i \in 0 .. n - 1 |-> m[i + 1]]
<1>4. Len(rs2) = n - 1 /\ \A i \in 1 .. n - 1 : rs2[i] = rs[i + 1]
  BY <1>2
<1>5. /\ \A i \in 0 .. n - 1 : i + 1 \in 0 .. n
      /\ 0 \in 0 .. n - 1 /\ n - 1 \in 0 .. n - 1 /\ (n - 1) + 1 = n /\ 0 + 1 = 1
  BY <1>2
<1>6. g \in [0 .. n - 1 -> 0 .. q] /\ g[0] = m[1] /\ g[n - 1] = q
  BY <1>1, <1>2, <1>3, <1>5
<1>7. \A i \in 1 .. n - 1 : /\ i + 1 \in 1 .. n /\ i + 1 # 1 /\ (i + 1) - 1 = i
                            /\ i # 1 => i - 1 \in 1 .. n - 1 /\ (i - 1) + 1 = i
                            /\ i - 1 \in 0 .. n - 1 /\ i \in 0 .. n - 1 /\ (i - 1) + 1 = i
  BY <1>2
<1>8. \A i \in 1 .. n - 1 : g[i - 1] = m[i] /\ g[i] = m[i + 1]
  BY <1>7
<1> HIDE DEF g, rs2
<1>9. ASSUME NEW i \in 1 .. n - 1
      PROVE  StepOf(g[i - 1], g[i], rs[1], rs2, FALSE, i, chars)
  <2>1. rs2[i] = rs[i + 1] /\ PrevOf(rs[1], rs2, i) = PrevOf(p, rs, i + 1)
    BY <1>4, <1>7 DEF PrevOf
  <2>2. StepOf(m[i], m[i + 1], p, rs, thrown, i + 1, chars)
    <3>1. i + 1 \in 1 .. Len(rs) /\ (i + 1) - 1 = i
      BY <1>2, <1>7
    <3>2. StepOf(m[(i + 1) - 1], m[i + 1], p, rs, thrown, i + 1, chars)
      BY <1>1, <3>1, Zenon
    <3> QED
      BY <3>1, <3>2
  <2>3. i + 1 # 1
    BY <1>7
  <2>4. StepOf(m[i], m[i + 1], rs[1], rs2, FALSE, i, chars)
    <3>1. CASE m[i + 1] = m[i] /\ NoneFresh(p, rs, thrown, i + 1)
      BY <2>1, <2>3, <3>1 DEF StepOf, NoneFresh
    <3>2. CASE m[i + 1] = m[i] + 1 /\ OneFresh(p, rs, thrown, i + 1, chars[m[i + 1]])
      <4>1. OneFresh(rs[1], rs2, FALSE, i, chars[m[i + 1]])
        BY <2>1, <2>3, <3>2, Zenon DEF OneFresh
      <4> QED
        BY <3>2, <4>1 DEF StepOf
    <3> QED
      BY <2>2, <3>1, <3>2 DEF StepOf
  <2> QED
    BY <1>8, <2>4
<1>10. StepOf(m[0], m[1], p, rs, thrown, 1, chars) /\ m[1] \in 0 .. q /\ m[0] = Len(out)
  <2>1. 1 \in 1 .. n /\ 1 - 1 = 0 /\ 1 \in 0 .. n
    BY <1>2
  <2> QED
    BY <1>1, <1>2, <1>3, <2>1
<1>11. /\ g \in [0 .. Len(rs2) -> 0 .. Len(chars)] /\ g[Len(rs2)] = Len(chars)
       /\ \A i \in 1 .. Len(rs2) : StepOf(g[i - 1], g[i], rs[1], rs2, FALSE, i, chars)
  BY <1>3, <1>4, <1>6, <1>9
<1>12. ASSUME NEW o \in Seq(Chars), Len(o) = m[1], \A i \in 1 .. Len(o) : o[i] = chars[i]
       PROVE  Follows(o, chars, rs[1], rs2, FALSE)
  <2>1. g[0] = Len(o)
    BY <1>6, <1>12
  <2> QED
    BY <1>11, <1>12, <2>1, Zenon DEF Follows
<1>13. \A i \in 1 .. Len(out) : out[i] = chars[i]
  BY Zenon DEF Follows
<1>14. CASE m[1] = m[0] /\ NoneFresh(p, rs, thrown, 1)
  <2>1. Follows(out, chars, rs[1], rs2, FALSE)
    BY <1>10, <1>12, <1>13, <1>14
  <2> QED
    BY <2>1, <1>14 DEF rs2
<1>15. CASE m[1] = m[0] + 1 /\ OneFresh(p, rs, thrown, 1, chars[m[1]])
  <2>1. PICK c : c = chars[m[1]]
    OBVIOUS
  <2>2. m[1] \in 1 .. q /\ m[1] = Len(out) + 1
    BY <1>10, <1>15
  <2>3. c \in Chars
    BY <1>3, <2>1, <2>2
  <2>4. /\ Append(out, c) \in Seq(Chars) /\ Len(Append(out, c)) = m[1]
        /\ \A i \in 1 .. Len(Append(out, c)) : Append(out, c)[i] = chars[i]
    BY <1>13, <2>1, <2>2, <2>3
  <2>5. Follows(Append(out, c), chars, rs[1], rs2, FALSE)
    BY <1>12, <2>4
  <2> QED
    BY <1>15, <2>1, <2>3, <2>5 DEF rs2
<1> QED
  BY <1>10, <1>14, <1>15 DEF StepOf

--------------------------------------------------------------------------------
(* The inductive invariant. *)

KeyTypes ==
  /\ held \in Seq(Keys) /\ Distinct(held) /\ shift \in BOOLEAN
  /\ reports \in Seq(Reports) /\ \A i \in DOMAIN reports : Distinct(reports[i].keys)
  /\ usb_kb_prev \in Reports /\ usb_kb_first_report \in BOOLEAN
  /\ usb_kb_buf \in Seq(Chars) /\ typed \in Seq(Chars) /\ got \in Seq(Chars)
  /\ full \in BOOLEAN /\ changes \in Nat /\ dropped \in Nat

\* Before the first change there is nothing to report.
Untouched == changes = 0 => reports = <<>> /\ usb_kb_first_report

\* No key owes more characters than it was pressed.
Debts ==
  \A k \in Keys : Debt(k, Times(k, got \o usb_kb_buf), Times(k, typed), usb_kb_prev, reports,
                       held, usb_kb_first_report)

\* With nothing lost, the last report names the keys that are down, and the reports
\* under way lead from the characters so far to those typed.
InStep ==
  dropped = 0 =>
    /\ PrevOf(usb_kb_prev, reports, Len(reports) + 1) = held
    /\ (reports = <<>> /\ usb_kb_first_report) => changes = 0
    /\ ~ full => Follows(got \o usb_kb_buf, typed, usb_kb_prev, reports, usb_kb_first_report)

UsbKeysInv == KeyTypes /\ Untouched /\ Debts /\ InStep

\* No more keys are down than a report has room for.
HeldFits == Len(held) <= SLOTS

LEMMA TimesNat ==
  ASSUME NEW s \in Seq(Chars), NEW k \in Keys
  PROVE  Times(k, s) \in Nat
<1>1. <<k, TRUE>> \in Chars
  BY DEF Chars
<1> QED
  BY <1>1, TimesAppend

LEMMA UsbKeysInitially == KeysInit => UsbKeysInv
<1> SUFFICES ASSUME KeysInit PROVE UsbKeysInv
  OBVIOUS
<1>1. /\ held = <<>> /\ shift = FALSE /\ reports = <<>> /\ usb_kb_first_report = TRUE
      /\ usb_kb_prev = [shift |-> FALSE, keys |-> <<>>] /\ usb_kb_buf = <<>>
      /\ changes = 0 /\ dropped = 0 /\ typed = <<>> /\ got = <<>> /\ full = FALSE
  BY DEF KeysInit
<1>2. KeyTypes
  <2>1. /\ <<>> \in Seq(Keys) /\ <<>> \in Seq(Reports) /\ <<>> \in Seq(Chars)
        /\ DOMAIN <<>> = {}
    OBVIOUS
  <2>2. [shift |-> FALSE, keys |-> <<>>] \in Reports
    BY <2>1 DEF Reports
  <2> QED
    BY <1>1, <2>1, <2>2 DEF KeyTypes, Distinct
<1>3. Untouched
  BY <1>1 DEF Untouched
<1>4. got \o usb_kb_buf = <<>> /\ Len(reports) = 0 /\ Len(typed) = 0
  BY <1>1
<1>5. Debts
  <2> SUFFICES ASSUME NEW k \in Keys
               PROVE  Debt(k, Times(k, <<>>), Times(k, <<>>), usb_kb_prev, reports, held, TRUE)
    BY <1>1, <1>4 DEF Debts
  <2>1. <<>> \in Seq(Chars)
    OBVIOUS
  <2>2. PICK t \in Nat : t = Times(k, <<>>)
    BY <2>1, TimesNat
  <2> DEFINE e == [i \in 0 .. 1 |-> t]
  <2>3. /\ e \in [0 .. Len(reports) + 1 -> Nat] /\ e[0] = t /\ e[Len(reports) + 1] <= t
    BY <1>4
  <2>4. ASSUME NEW i \in 1 .. Len(reports) + 1
        PROVE  e[i - 1] + Bit(FreshIn(k, usb_kb_prev, reports, held, TRUE, i)) <= e[i]
    <3>1. i = 1
      BY <1>4
    <3>2. Bit(FreshIn(k, usb_kb_prev, reports, held, TRUE, i)) = 0
      BY <3>1 DEF Bit, FreshIn
    <3>3. i - 1 = 0 /\ e[0] = t /\ e[1] = t /\ t + 0 <= t
      BY <3>1
    <3> HIDE DEF e
    <3> QED
      BY <3>1, <3>2, <3>3
  <2> HIDE DEF e
  <2>5. Debt(k, t, t, usb_kb_prev, reports, held, TRUE)
    BY <2>3, <2>4, Zenon DEF Debt
  <2> QED
    BY <2>2, <2>5
<1>6. InStep
  <2>1. PrevOf(usb_kb_prev, reports, Len(reports) + 1) = held
    BY <1>1, <1>4 DEF PrevOf
  <2> DEFINE m == [i \in 0 .. 0 |-> 0]
  <2>2. /\ m \in [0 .. Len(reports) -> 0 .. Len(typed)]
        /\ m[0] = Len(got \o usb_kb_buf) /\ m[Len(reports)] = Len(typed)
        /\ 1 .. Len(reports) = {} /\ 1 .. Len(got \o usb_kb_buf) = {}
    BY <1>4
  <2> HIDE DEF m
  <2>3. Follows(got \o usb_kb_buf, typed, usb_kb_prev, reports, usb_kb_first_report)
    BY <2>2, Zenon DEF Follows
  <2> QED
    BY <1>1, <2>1, <2>3 DEF InStep
<1> QED
  BY <1>2, <1>3, <1>5, <1>6 DEF UsbKeysInv

\* The keyboard reports a change.
LEMMA ChangeOK ==
  ASSUME UsbKeysInv, NEW h \in Seq(Keys), NEW z \in BOOLEAN, Change(h, z), Len(h) <= SLOTS,
         Distinct(h), typed' \in Seq(Chars),
         \A k \in Keys :
            /\ Times(k, typed') >= Times(k, typed)
            /\ Contains(h, k) =>
                 Contains(held, k) \/ Times(k, typed') >= Times(k, typed) + 1 \/ changes = 0,
         \/ typed' = typed /\ (changes = 0 \/ \A j \in DOMAIN h : Contains(held, h[j]))
         \/ /\ changes # 0
            /\ \E j \in DOMAIN h :
                 /\ typed' = Append(typed, <<h[j], z>>)
                 /\ \A l \in DOMAIN h : Contains(held, h[l]) <=> l # j
  PROVE  UsbKeysInv'
<1> DEFINE r == [shift |-> z, keys |-> h]
<1>1. r \in Reports /\ r.keys = h /\ r.shift = z
  BY DEF Reports
<1>2. /\ held' = h /\ shift' = z /\ reports' = Append(reports, r) /\ changes' = changes + 1
      /\ UNCHANGED <<usb_kb_prev, usb_kb_first_report, usb_kb_buf, dropped, got, full>>
  BY KeysAssumption DEF Change, Report
<1>3. KeyTypes
  BY DEF UsbKeysInv
<1>4. /\ reports \in Seq(Reports) /\ Len(reports) \in Nat /\ changes \in Nat
      /\ usb_kb_first_report \in BOOLEAN /\ got \o usb_kb_buf \in Seq(Chars)
      /\ typed \in Seq(Chars) /\ full \in BOOLEAN
  BY <1>3 DEF KeyTypes
<1>5. changes = 0 => reports = <<>> /\ usb_kb_first_report
  BY DEF UsbKeysInv, Untouched
<1> HIDE DEF r
<1>6. KeyTypes'
  <2>1. \A i \in DOMAIN Append(reports, r) : Distinct(Append(reports, r)[i].keys)
    <3>1. \A i \in DOMAIN Append(reports, r) :
             (i \in DOMAIN reports /\ Append(reports, r)[i] = reports[i]) \/ Append(reports, r)[i] = r
      BY <1>4, <1>1
    <3> QED
      BY <1>1, <1>3, <3>1 DEF KeyTypes
  <2>2. Append(reports, r) \in Seq(Reports) /\ changes + 1 \in Nat
    BY <1>1, <1>4
  <2> QED
    BY <1>2, <1>3, <2>1, <2>2 DEF KeyTypes
<1>7. Untouched'
  BY <1>2, <1>4 DEF Untouched
<1>8. Debts'
  <2> SUFFICES ASSUME NEW k \in Keys
               PROVE  Debt(k, Times(k, got \o usb_kb_buf), Times(k, typed'), usb_kb_prev,
                           Append(reports, r), h, usb_kb_first_report)
    BY <1>2 DEF Debts
  <2>1. PICK a \in Nat, b \in Nat, b2 \in Nat :
          a = Times(k, got \o usb_kb_buf) /\ b = Times(k, typed) /\ b2 = Times(k, typed')
    BY <1>4, TimesNat
  <2>2. Debt(k, a, b, usb_kb_prev, reports, held, usb_kb_first_report)
    BY <2>1 DEF UsbKeysInv, Debts
  <2>3. b2 >= b /\ (Contains(r.keys, k) => Contains(held, k) \/ b2 >= b + 1
                                            \/ (reports = <<>> /\ usb_kb_first_report))
    BY <1>1, <1>5, <2>1
  <2>4. Debt(k, a, b2, usb_kb_prev, Append(reports, r), r.keys, usb_kb_first_report)
    BY <1>1, <1>4, <2>2, <2>3, DebtGrows
  <2> QED
    BY <1>1, <2>1, <2>4
<1>9. InStep'
  <2> SUFFICES ASSUME dropped = 0
               PROVE  /\ PrevOf(usb_kb_prev, Append(reports, r), Len(Append(reports, r)) + 1) = h
                      /\ ~ full => Follows(got \o usb_kb_buf, typed', usb_kb_prev,
                                           Append(reports, r), usb_kb_first_report)
    <3>1. Append(reports, r) # <<>>
      <4>1. Len(Append(reports, r)) = Len(reports) + 1 /\ Len(reports) + 1 # 0 /\ Len(<<>>) = 0
        BY <1>4, <1>1
      <4> QED
        BY <4>1
    <3> QED
      BY <1>2, <3>1 DEF InStep
  <2>1. /\ PrevOf(usb_kb_prev, reports, Len(reports) + 1) = held
        /\ (reports = <<>> /\ usb_kb_first_report) => changes = 0
        /\ ~ full => Follows(got \o usb_kb_buf, typed, usb_kb_prev, reports, usb_kb_first_report)
    BY DEF UsbKeysInv, InStep
  <2>2. /\ Len(Append(reports, r)) = Len(reports) + 1
        /\ Append(reports, r)[Len(reports) + 1] = r
        /\ \A i \in 1 .. Len(reports) : Append(reports, r)[i] = reports[i]
    BY <1>1, <1>4
  <2>3. PrevOf(usb_kb_prev, Append(reports, r), Len(Append(reports, r)) + 1) = h
    <3>1. (Len(reports) + 1) + 1 # 1 /\ ((Len(reports) + 1) + 1) - 1 = Len(reports) + 1
      BY <1>4
    <3> QED
      BY <1>1, <2>2, <3>1 DEF PrevOf
  <2>4. PrevOf(usb_kb_prev, Append(reports, r), Len(reports) + 1) = held
    <3>1. Len(reports) + 1 # 1 => (Len(reports) + 1) - 1 \in 1 .. Len(reports)
      BY <1>4
    <3> QED
      BY <2>1, <2>2, <3>1 DEF PrevOf
  <2>5. (Len(reports) + 1 = 1 /\ usb_kb_first_report) <=> changes = 0
    BY <1>4, <1>5, <2>1
  <2>6. CASE typed' = typed /\ (changes = 0 \/ \A j \in DOMAIN h : Contains(held, h[j]))
    <3>1. NoneFresh(usb_kb_prev, Append(reports, r), usb_kb_first_report, Len(reports) + 1)
      BY <1>1, <2>2, <2>4, <2>5, <2>6 DEF NoneFresh
    <3> QED
      BY <1>1, <1>4, <2>1, <2>3, <2>6, <3>1, FollowsGrows
  <2>7. ASSUME changes # 0, NEW j \in DOMAIN h, typed' = Append(typed, <<h[j], z>>),
               \A l \in DOMAIN h : Contains(held, h[l]) <=> l # j
        PROVE  ~ full => Follows(got \o usb_kb_buf, typed', usb_kb_prev,
                                 Append(reports, r), usb_kb_first_report)
    <3>1. PICK c \in Chars : c = <<h[j], z>>
      <4>1. h[j] \in Keys
        OBVIOUS
      <4> QED
        BY <4>1 DEF Chars
    <3>2. OneFresh(usb_kb_prev, Append(reports, r), usb_kb_first_report, Len(reports) + 1, c)
      <4>1. ~ (Len(reports) + 1 = 1 /\ usb_kb_first_report)
        BY <2>5, <2>7
      <4>2. Append(reports, r)[Len(reports) + 1].keys = h /\ Append(reports, r)[Len(reports) + 1].shift = z
        BY <1>1, <2>2
      <4> QED
        BY <2>4, <2>7, <3>1, <4>1, <4>2, Zenon DEF OneFresh
    <3>3. typed' = Append(typed, c)
      BY <2>7, <3>1
    <3> QED
      BY <1>1, <1>4, <2>1, <3>2, <3>3, FollowsGrows
  <2> QED
    BY <2>3, <2>6, <2>7
<1> QED
  BY <1>6, <1>7, <1>8, <1>9 DEF UsbKeysInv

\* A ring that was full stays marked.
LEMMA FullStays ==
  ASSUME NEW r \in Reports, usb_kb_buf \in Seq(Chars), full \in BOOLEAN, full
  PROVE  KeyEdges(r)[Len(r.keys)].full
<1>0. Len(r.keys) \in Nat
  BY DEF Reports
<1> DEFINE f == KeyEdges(r)
           N == {n \in Nat : n <= Len(r.keys) => f[n].full = TRUE}
<1>1. /\ f[0].full = TRUE
      /\ \A i \in 1 .. Len(r.keys) : f[i] = Pressed(r, i, f[i - 1])
  <2>1. full = TRUE
    OBVIOUS
  <2> QED
    BY <2>1, EdgesExist
<1> HIDE DEF f
<1>2. \A i \in 1 .. Len(r.keys) : f[i - 1].full = TRUE => f[i].full = TRUE
  <2> SUFFICES ASSUME NEW i \in 1 .. Len(r.keys), f[i - 1].full = TRUE PROVE f[i].full = TRUE
    OBVIOUS
  <2>1. PICK b : b = f[i - 1]
    OBVIOUS
  <2>2. ASSUME NEW c PROVE usb_kb_push(b, c).full = TRUE
    BY <2>1 DEF usb_kb_push
  <2>3. f[i] = Pressed(r, i, b)
    BY <1>1, <2>1
  <2> QED
    BY <2>1, <2>2, <2>3 DEF Pressed
<1>3. 0 \in N
  BY <1>1
<1>4. ASSUME NEW n \in Nat, n \in N PROVE n + 1 \in N
  <2>0. n + 1 \in Nat
    OBVIOUS
  <2> SUFFICES ASSUME n + 1 <= Len(r.keys) PROVE f[n + 1].full = TRUE
    BY <2>0, Zenon
  <2>1. f[n].full = TRUE /\ n + 1 \in 1 .. Len(r.keys) /\ (n + 1) - 1 = n
    BY <1>0, <1>4
  <2> QED
    BY <1>2, <2>1
<1>5. \A n \in Nat : n \in N
  <2> HIDE DEF N
  <2> QED
    BY <1>3, <1>4, Induction
<1> QED
  BY <1>0, <1>5 DEF f

LEMMA DebtPaid ==
  ASSUME NEW k, NEW a \in Nat, NEW b \in Nat, NEW p, NEW rs \in Seq(Reports), NEW h,
         NEW thrown \in BOOLEAN, Debt(k, a, b, p, rs, h, thrown)
  PROVE  a <= b
<1>1. PICK e \in [0 .. Len(rs) + 1 -> Nat] :
         /\ e[0] = a /\ e[Len(rs) + 1] <= b
         /\ \A i \in 1 .. Len(rs) + 1 : e[i - 1] + Bit(FreshIn(k, p, rs, h, thrown, i)) <= e[i]
  BY DEF Debt
<1>2. PICK n \in Nat : n = Len(rs) + 1
  OBVIOUS
<1>3. \A i \in 1 .. n : e[i - 1] <= e[i]
  <2> SUFFICES ASSUME NEW i \in 1 .. n PROVE e[i - 1] <= e[i]
    OBVIOUS
  <2>1. i - 1 \in 0 .. n /\ i \in 0 .. n
    OBVIOUS
  <2>2. PICK c \in {0, 1} : c = Bit(FreshIn(k, p, rs, h, thrown, i))
    BY DEF Bit
  <2>3. e[i - 1] \in Nat /\ e[i] \in Nat /\ e[i - 1] + c <= e[i]
    BY <1>1, <1>2, <2>1, <2>2
  <2> QED
    BY <2>3
<1> DEFINE N == {i \in Nat : i <= n => a <= e[i]}
<1>4. 0 \in N
  BY <1>1
<1>5. ASSUME NEW i \in Nat, i \in N PROVE i + 1 \in N
  <2> SUFFICES ASSUME i + 1 <= n PROVE a <= e[i + 1]
    OBVIOUS
  <2>1. i + 1 \in 1 .. n /\ (i + 1) - 1 = i /\ i \in 0 .. n /\ i + 1 \in 0 .. n /\ a <= e[i]
    BY <1>5
  <2>2. e[i] <= e[i + 1]
    BY <1>3, <2>1
  <2>3. e[i] \in Nat /\ e[i + 1] \in Nat
    BY <1>1, <1>2, <2>1
  <2> QED
    BY <2>1, <2>2, <2>3
<1>6. \A i \in Nat : i \in N
  <2> HIDE DEF N
  <2> QED
    BY <1>4, <1>5, Induction
<1>7. a <= e[n] /\ e[n] \in Nat /\ e[n] <= b
  <2>1. n \in 0 .. n /\ n <= n
    OBVIOUS
  <2> QED
    BY <1>1, <1>2, <1>6, <2>1
<1> QED
  BY <1>7

\* What a sequence contains.
LEMMA AppendContains ==
  ASSUME NEW s \in Seq(Keys), NEW k \in Keys
  PROVE  /\ \A x : Contains(Append(s, k), x) <=> Contains(s, x) \/ x = k
         /\ Distinct(s) /\ ~ Contains(s, k) => Distinct(Append(s, k))
<1>1. /\ Len(s) \in Nat /\ DOMAIN s = 1 .. Len(s) /\ Len(Append(s, k)) = Len(s) + 1
      /\ DOMAIN Append(s, k) = 1 .. Len(s) + 1
      /\ \A i \in 1 .. Len(s) : Append(s, k)[i] = s[i]
      /\ Append(s, k)[Len(s) + 1] = k
  OBVIOUS
<1>2. \A i : i \in 1 .. Len(s) + 1 <=> i \in 1 .. Len(s) \/ i = Len(s) + 1
  BY <1>1
<1>3. ASSUME NEW x PROVE Contains(Append(s, k), x) <=> Contains(s, x) \/ x = k
  BY <1>1, <1>2 DEF Contains
<1>4. ASSUME Distinct(s), ~ Contains(s, k) PROVE Distinct(Append(s, k))
  BY <1>1, <1>2, <1>4 DEF Distinct, Contains
<1> QED
  BY <1>3, <1>4

LEMMA RemoveContains ==
  ASSUME NEW s \in Seq(Keys), NEW i \in DOMAIN s
  PROVE  /\ RemoveAt(s, i) \in Seq(Keys) /\ Len(RemoveAt(s, i)) <= Len(s)
         /\ \A j \in DOMAIN RemoveAt(s, i) : Contains(s, RemoveAt(s, i)[j])
         /\ \A x : Contains(RemoveAt(s, i), x) => Contains(s, x)
         /\ Distinct(s) => Distinct(RemoveAt(s, i))
<1>1. PICK n \in Nat : n = Len(s) /\ DOMAIN s = 1 .. n /\ i \in 1 .. n
  OBVIOUS
<1> DEFINE a == SubSeq(s, 1, i - 1)
           b == SubSeq(s, i + 1, n)
           t == a \o b
           at(j) == IF j < i THEN j ELSE j + 1
<1>2. a \in Seq(Keys) /\ Len(a) = i - 1 /\ \A j \in 1 .. i - 1 : a[j] = s[j]
  BY <1>1
<1>3. b \in Seq(Keys) /\ Len(b) = n - i /\ \A j \in 1 .. n - i : b[j] = s[i + j]
  BY <1>1
<1>4. RemoveAt(s, i) = t
  BY <1>1 DEF RemoveAt
<1> HIDE DEF a, b
<1>5. t \in Seq(Keys) /\ Len(t) = n - 1 /\ DOMAIN t = 1 .. n - 1
  <2>1. a \in Seq(Keys) /\ b \in Seq(Keys)
    BY <1>2, <1>3
  <2>2. t \in Seq(Keys) /\ Len(t) = Len(a) + Len(b) /\ DOMAIN t = 1 .. Len(t)
    BY <2>1
  <2>3. Len(a) = i - 1 /\ Len(b) = n - i
    BY <1>2, <1>3
  <2>4. i \in Int /\ n \in Int /\ (i - 1) + (n - i) = n - 1
    BY <1>1
  <2> QED
    BY <2>2, <2>3, <2>4
<1>6. ASSUME NEW j \in 1 .. n - 1 PROVE t[j] = s[at(j)] /\ at(j) \in 1 .. n
  <2>1. CASE j < i
    <3>1. j \in 1 .. i - 1
      BY <1>1, <2>1
    <3> QED
      BY <1>1, <1>2, <1>3, <2>1, <3>1
  <2>2. CASE ~ (j < i)
    <3>1. j - (i - 1) \in 1 .. n - i /\ i + (j - (i - 1)) = j + 1 /\ j + 1 \in 1 .. n
      BY <1>1, <2>2
    <3>2. t[j] = b[j - (i - 1)]
      BY <1>1, <1>2, <1>3, <2>2, <3>1
    <3>3. b[j - (i - 1)] = s[i + (j - (i - 1))]
      BY <1>3, <3>1
    <3> QED
      BY <2>2, <3>1, <3>2, <3>3
  <2> QED
    BY <2>1, <2>2
<1> HIDE DEF t
<1>7. \A j \in DOMAIN t : Contains(s, t[j])
  BY <1>1, <1>5, <1>6 DEF Contains
<1>8. \A x : Contains(t, x) => Contains(s, x)
  BY <1>5, <1>7 DEF Contains
<1>9. ASSUME Distinct(s) PROVE Distinct(t)
  <2> SUFFICES ASSUME NEW j \in 1 .. n - 1, NEW l \in 1 .. n - 1, t[j] = t[l] PROVE j = l
    BY <1>5 DEF Distinct
  <2>1. s[at(j)] = s[at(l)] /\ at(j) \in DOMAIN s /\ at(l) \in DOMAIN s
    BY <1>1, <1>6
  <2>2. at(j) = at(l)
    BY <1>9, <2>1 DEF Distinct
  <2> QED
    BY <1>1, <2>2
<1> QED
  BY <1>1, <1>4, <1>5, <1>7, <1>8, <1>9

LEMMA PressOK ==
  ASSUME UsbKeysInv, NEW k \in Keys, Press(k), HeldFits'
  PROVE  UsbKeysInv'
<1> DEFINE h == Append(held, k)
           c == <<k, shift>>
<1>1. /\ held \in Seq(Keys) /\ Distinct(held) /\ shift \in BOOLEAN /\ typed \in Seq(Chars)
      /\ changes \in Nat
  BY DEF UsbKeysInv, KeyTypes
<1>2. ~ Contains(held, k) /\ Change(h, shift) /\ typed' = IF changes = 0 THEN typed ELSE Append(typed, c)
  BY DEF Press
<1>3. /\ h \in Seq(Keys) /\ Distinct(h) /\ \A x : Contains(h, x) <=> Contains(held, x) \/ x = k
  BY <1>1, <1>2, AppendContains
<1>4. Len(h) <= SLOTS
  BY <1>2 DEF HeldFits, Change
<1>5. c \in Chars /\ c[1] = k /\ typed' \in Seq(Chars)
  BY <1>1, <1>2 DEF Chars
<1>6. ASSUME NEW x \in Keys
      PROVE  /\ Times(x, typed') >= Times(x, typed)
             /\ Contains(h, x) =>
                  Contains(held, x) \/ Times(x, typed') >= Times(x, typed) + 1 \/ changes = 0
  <2>1. Times(x, typed) \in Nat /\ Times(x, Append(typed, c)) = Times(x, typed) + (IF k = x THEN 1 ELSE 0)
    BY <1>1, <1>5, TimesAppend
  <2>2. CASE changes = 0
    BY <1>2, <2>1, <2>2
  <2>3. CASE changes # 0
    BY <1>2, <1>3, <2>1, <2>3
  <2> QED
    BY <2>2, <2>3
<1>7. \/ typed' = typed /\ (changes = 0 \/ \A j \in DOMAIN h : Contains(held, h[j]))
      \/ /\ changes # 0
         /\ \E j \in DOMAIN h :
              /\ typed' = Append(typed, <<h[j], shift>>)
              /\ \A l \in DOMAIN h : Contains(held, h[l]) <=> l # j
  <2>1. CASE changes = 0
    BY <1>2, <2>1
  <2>2. CASE changes # 0
    <3>1. PICK j \in DOMAIN h : j = Len(held) + 1
      BY <1>1
    <3>2. h[j] = k /\ \A l \in DOMAIN h : l # j => l \in 1 .. Len(held) /\ h[l] = held[l]
      BY <1>1, <3>1
    <3>3. \A l \in DOMAIN h : Contains(held, h[l]) <=> l # j
      BY <1>2, <3>2 DEF Contains
    <3>4. typed' = Append(typed, <<h[j], shift>>)
      BY <1>2, <2>2, <3>2
    <3> QED
      BY <2>2, <3>3, <3>4
  <2> QED
    BY <2>1, <2>2
<1> HIDE DEF h, c
<1> QED
  BY <1>1, <1>2, <1>3, <1>4, <1>5, <1>6, <1>7, ChangeOK

LEMMA ReleaseOK ==
  ASSUME UsbKeysInv, NEW k \in Keys, Release(k), HeldFits'
  PROVE  UsbKeysInv'
<1>1. held \in Seq(Keys) /\ Distinct(held) /\ shift \in BOOLEAN /\ typed \in Seq(Chars)
  BY DEF UsbKeysInv, KeyTypes
<1>2. PICK i \in DOMAIN held : Change(RemoveAt(held, i), shift)
  BY DEF Release
<1>3. PICK h : h = RemoveAt(held, i)
  OBVIOUS
<1>4. /\ h \in Seq(Keys) /\ Distinct(h) /\ \A x : Contains(h, x) => Contains(held, x)
      /\ \A j \in DOMAIN h : Contains(held, h[j])
  BY <1>1, <1>3, RemoveContains
<1>5. typed' = typed /\ held' = h /\ Change(h, shift)
  BY <1>2, <1>3 DEF Release, Change
<1>6. Len(h) <= SLOTS
  BY <1>5 DEF HeldFits
<1>7. \A x \in Keys : Times(x, typed') >= Times(x, typed)
  BY <1>1, <1>5, TimesNat
<1> QED
  BY <1>1, <1>4, <1>5, <1>6, <1>7, ChangeOK

LEMMA ShiftOK ==
  ASSUME UsbKeysInv, Shift, HeldFits'
  PROVE  UsbKeysInv'
<1>1. held \in Seq(Keys) /\ Distinct(held) /\ shift \in BOOLEAN /\ typed \in Seq(Chars)
  BY DEF UsbKeysInv, KeyTypes
<1>2. PICK z \in BOOLEAN : z = ~ shift
  BY <1>1
<1>3. typed' = typed /\ held' = held /\ Change(held, z)
  BY <1>2 DEF Shift, Change
<1>4. Len(held) <= SLOTS
  BY <1>3 DEF HeldFits
<1>5. \A x \in Keys : Times(x, typed') >= Times(x, typed)
  BY <1>1, <1>3, TimesNat
<1>6. \A j \in DOMAIN held : Contains(held, held[j])
  BY <1>1 DEF Contains
<1> QED
  BY <1>1, <1>3, <1>4, <1>5, <1>6, ChangeOK

\* Taking the first report off.
LEMMA PrevOfTail ==
  ASSUME NEW rs \in Seq(Reports), rs # <<>>, NEW p
  PROVE  PrevOf(rs[1], Tail(rs), Len(Tail(rs)) + 1) = PrevOf(p, rs, Len(rs) + 1)
<1>1. PICK n \in Nat \ {0} : n = Len(rs)
  OBVIOUS
<1>2. Len(Tail(rs)) = n - 1 /\ \A i \in 1 .. n - 1 : Tail(rs)[i] = rs[i + 1]
  BY <1>1
<1>3. n + 1 # 1 /\ (n + 1) - 1 = n /\ (n - 1) + 1 = n /\ (n # 1 => n - 1 \in 1 .. n - 1)
  BY <1>1
<1> QED
  BY <1>1, <1>2, <1>3 DEF PrevOf

LEMMA CallbackOK ==
  ASSUME UsbKeysInv, reports # <<>>, reports' = Tail(reports), usb_kb_callback(Head(reports)),
         UNCHANGED <<held, shift, changes, typed, got, dropped>>
  PROVE  UsbKeysInv'
<1>1. KeyTypes /\ Untouched /\ Debts /\ InStep
  BY DEF UsbKeysInv
<1>2. PICK r : r = reports[1]
  OBVIOUS
<1>3. /\ reports \in Seq(Reports) /\ r \in Reports /\ Distinct(r.keys) /\ Head(reports) = r
      /\ Tail(reports) \in Seq(Reports) /\ got \in Seq(Chars) /\ usb_kb_buf \in Seq(Chars)
      /\ typed \in Seq(Chars) /\ full \in BOOLEAN /\ usb_kb_first_report \in BOOLEAN
      /\ got \o usb_kb_buf \in Seq(Chars)
  BY <1>1, <1>2 DEF KeyTypes
<1>4. \A i \in DOMAIN Tail(reports) : Distinct(Tail(reports)[i].keys)
  <2>1. \A i \in DOMAIN Tail(reports) : i + 1 \in DOMAIN reports /\ Tail(reports)[i] = reports[i + 1]
    BY <1>3
  <2> QED
    BY <1>1, <2>1 DEF KeyTypes
<1>5. /\ usb_kb_first_report' = FALSE /\ usb_kb_prev' = r
      /\ usb_kb_first_report => usb_kb_buf' = usb_kb_buf /\ full' = full
      /\ ~ usb_kb_first_report => /\ usb_kb_buf' = KeyEdges(r)[Len(r.keys)].ring
                                  /\ full' = KeyEdges(r)[Len(r.keys)].full
  BY <1>3 DEF usb_kb_callback
<1>6. usb_kb_buf' \in Seq(Chars) /\ full' \in BOOLEAN /\ got \o usb_kb_buf' \in Seq(Chars)
  <2>1. KeyEdges(r)[Len(r.keys)] \in Ring
    <3>1. Len(r.keys) \in 0 .. Len(r.keys)
      BY <1>3 DEF Reports
    <3> QED
      BY <1>3, <3>1, RingAfter
  <2>2. /\ KeyEdges(r)[Len(r.keys)].ring \in Seq(Chars)
        /\ KeyEdges(r)[Len(r.keys)].full \in BOOLEAN
    BY <2>1 DEF Ring
  <2>3. usb_kb_buf' \in Seq(Chars) /\ full' \in BOOLEAN
    BY <1>3, <1>5, <2>2
  <2> QED
    BY <1>3, <2>3
<1>7. KeyTypes'
  BY <1>1, <1>3, <1>4, <1>5, <1>6 DEF KeyTypes
<1>8. Untouched'
  BY <1>1 DEF Untouched
<1>9. Debts'
  <2> SUFFICES ASSUME NEW k \in Keys
               PROVE  Debt(k, Times(k, got \o usb_kb_buf'), Times(k, typed), r, Tail(reports),
                           held, FALSE)
    BY <1>5 DEF Debts
  <2>1. PICK a \in Nat, a2 \in Nat, b \in Nat :
          a = Times(k, got \o usb_kb_buf) /\ a2 = Times(k, got \o usb_kb_buf') /\ b = Times(k, typed)
    BY <1>3, <1>6, TimesNat
  <2>2. Debt(k, a, b, usb_kb_prev, reports, held, usb_kb_first_report)
    BY <1>1, <2>1 DEF Debts
  <2>3. a2 <= a + Bit(~ usb_kb_first_report /\ Contains(reports[1].keys, k)
                        /\ ~ Contains(usb_kb_prev.keys, k))
    <3>1. CASE usb_kb_first_report
      BY <1>5, <2>1, <3>1 DEF Bit
    <3>2. CASE ~ usb_kb_first_report
      <4>1. a2 <= a + Bit(Contains(r.keys, k) /\ ~ Contains(usb_kb_prev.keys, k))
        BY <1>3, <1>5, <2>1, <3>2, OneEach
      <4> QED
        BY <1>2, <3>2, <4>1 DEF Bit
    <3> QED
      BY <1>3, <3>1, <3>2
  <2>4. Debt(k, a2, b, reports[1], Tail(reports), held, FALSE)
    BY <1>3, <2>2, <2>3, DebtTaken
  <2> QED
    BY <1>2, <2>1, <2>4
<1>10. InStep'
  <2> SUFFICES ASSUME dropped = 0
               PROVE  /\ PrevOf(r, Tail(reports), Len(Tail(reports)) + 1) = held
                      /\ ~ full' => Follows(got \o usb_kb_buf', typed, r, Tail(reports), FALSE)
    BY <1>5 DEF InStep
  <2>1. /\ PrevOf(usb_kb_prev, reports, Len(reports) + 1) = held
        /\ ~ full => Follows(got \o usb_kb_buf, typed, usb_kb_prev, reports, usb_kb_first_report)
    BY <1>1 DEF InStep
  <2>2. PrevOf(r, Tail(reports), Len(Tail(reports)) + 1) = held
    BY <1>2, <1>3, <2>1, PrevOfTail
  <2>3. ASSUME ~ full' PROVE ~ full
    <3>1. CASE usb_kb_first_report
      BY <1>5, <2>3, <3>1
    <3>2. CASE ~ usb_kb_first_report
      BY <1>3, <1>5, <2>3, <3>2, FullStays
    <3> QED
      BY <1>3, <3>1, <3>2
  <2>4. ASSUME ~ full' PROVE Follows(got \o usb_kb_buf', typed, r, Tail(reports), FALSE)
    <3>1. \/ /\ NoneFresh(usb_kb_prev, reports, usb_kb_first_report, 1)
             /\ Follows(got \o usb_kb_buf, typed, reports[1], Tail(reports), FALSE)
          \/ \E c \in Chars :
               /\ OneFresh(usb_kb_prev, reports, usb_kb_first_report, 1, c)
               /\ Follows(Append(got \o usb_kb_buf, c), typed, reports[1], Tail(reports), FALSE)
      BY <1>3, <2>1, <2>3, <2>4, FollowsTaken
    <3>2. PrevOf(usb_kb_prev, reports, 1) = usb_kb_prev.keys
      BY DEF PrevOf
    <3>3. CASE /\ NoneFresh(usb_kb_prev, reports, usb_kb_first_report, 1)
               /\ Follows(got \o usb_kb_buf, typed, reports[1], Tail(reports), FALSE)
      <4>1. CASE usb_kb_first_report
        BY <1>2, <1>5, <3>3, <4>1
      <4>2. CASE ~ usb_kb_first_report
        <5>1. \A i \in DOMAIN r.keys : Contains(usb_kb_prev.keys, r.keys[i])
          BY <1>2, <3>2, <3>3, <4>2 DEF NoneFresh
        <5>2. usb_kb_buf' = usb_kb_buf
          BY <1>3, <1>5, <4>2, <5>1, NoneNew
        <5> QED
          BY <1>2, <3>3, <5>2
      <4> QED
        BY <1>3, <4>1, <4>2
    <3>4. ASSUME NEW c \in Chars,
                 OneFresh(usb_kb_prev, reports, usb_kb_first_report, 1, c),
                 Follows(Append(got \o usb_kb_buf, c), typed, reports[1], Tail(reports), FALSE)
          PROVE  Follows(got \o usb_kb_buf', typed, r, Tail(reports), FALSE)
      <4>1. ~ usb_kb_first_report
        BY <3>4 DEF OneFresh
      <4>2. PICK j \in DOMAIN r.keys :
              /\ c = <<r.keys[j], r.shift>>
              /\ \A l \in DOMAIN r.keys : Contains(usb_kb_prev.keys, r.keys[l]) <=> l # j
        <5>1. \E j \in DOMAIN reports[1].keys :
                /\ c = <<reports[1].keys[j], reports[1].shift>>
                /\ \A l \in DOMAIN reports[1].keys :
                     Contains(PrevOf(usb_kb_prev, reports, 1), reports[1].keys[l]) <=> l # j
          BY <3>4, Zenon DEF OneFresh
        <5> QED
          BY <1>2, <3>2, <5>1
      <4>3. KeyEdges(r)[Len(r.keys)] = usb_kb_push([ring |-> usb_kb_buf, full |-> full], c)
        BY <1>3, <4>2, OneNew
      <4>4. usb_kb_buf' = Append(usb_kb_buf, c)
        <5> DEFINE b == [ring |-> usb_kb_buf, full |-> full]
        <5>1. b.ring = usb_kb_buf /\ full' = usb_kb_push(b, c).full
              /\ usb_kb_buf' = usb_kb_push(b, c).ring
          BY <1>5, <4>1, <4>3
        <5>2. CASE Len(usb_kb_buf) < RING - 1
          BY <5>1, <5>2 DEF usb_kb_push
        <5>3. CASE ~ (Len(usb_kb_buf) < RING - 1)
          <6>1. usb_kb_push(b, c) = [ring |-> b.ring, full |-> TRUE]
            BY <5>1, <5>3, Zenon DEF usb_kb_push
          <6>2. full' = TRUE
            BY <5>1, <6>1
          <6> QED
            BY <2>4, <6>2
        <5> QED
          BY <5>2, <5>3
      <4>5. got \o usb_kb_buf' = Append(got \o usb_kb_buf, c)
        BY <1>3, <4>4
      <4> QED
        BY <1>2, <3>4, <4>5
    <3> QED
      BY <3>1, <3>3, <3>4
  <2> QED
    BY <2>2, <2>4
<1> QED
  BY <1>7, <1>8, <1>9, <1>10 DEF UsbKeysInv

LEMMA PollOK ==
  ASSUME UsbKeysInv, usb_keyboard_poll
  PROVE  UsbKeysInv'
<1>1. reports # <<>> /\ reports' = Tail(reports) /\ UNCHANGED <<held, shift, changes, typed, got>>
  BY DEF usb_keyboard_poll
<1>2. CASE usb_kb_callback(Head(reports)) /\ UNCHANGED dropped
  BY <1>1, <1>2, CallbackOK
<1>3. CASE /\ dropped' = dropped + 1
           /\ UNCHANGED <<usb_kb_prev, usb_kb_first_report, usb_kb_buf, full>>
  <2>1. KeyTypes /\ Untouched /\ Debts
    BY DEF UsbKeysInv
  <2>2. /\ reports \in Seq(Reports) /\ Tail(reports) \in Seq(Reports) /\ typed \in Seq(Chars)
        /\ got \o usb_kb_buf \in Seq(Chars) /\ usb_kb_first_report \in BOOLEAN /\ dropped \in Nat
    BY <1>1, <2>1 DEF KeyTypes
  <2>3. KeyTypes'
    <3>1. \A i \in DOMAIN Tail(reports) : i + 1 \in DOMAIN reports /\ Tail(reports)[i] = reports[i + 1]
      BY <1>1, <2>2
    <3>2. \A i \in DOMAIN Tail(reports) : Distinct(Tail(reports)[i].keys)
      BY <2>1, <3>1 DEF KeyTypes
    <3>3. dropped + 1 \in Nat
      BY <2>2
    <3> QED
      BY <1>1, <1>3, <2>1, <2>2, <3>2, <3>3 DEF KeyTypes
  <2>4. Untouched'
    BY <1>1, <2>1 DEF Untouched
  <2>5. Debts'
    <3> SUFFICES ASSUME NEW k \in Keys
                 PROVE  Debt(k, Times(k, got \o usb_kb_buf), Times(k, typed), usb_kb_prev,
                             Tail(reports), held, usb_kb_first_report)
      BY <1>1, <1>3 DEF Debts
    <3>1. /\ Times(k, got \o usb_kb_buf) \in Nat /\ Times(k, typed) \in Nat
          /\ Debt(k, Times(k, got \o usb_kb_buf), Times(k, typed), usb_kb_prev, reports, held,
                  usb_kb_first_report)
      BY <2>1, <2>2, TimesNat DEF Debts
    <3> QED
      BY <1>1, <2>2, <3>1, DebtLost
  <2>6. InStep'
    BY <1>3, <2>2 DEF InStep
  <2> QED
    BY <2>3, <2>4, <2>5, <2>6 DEF UsbKeysInv
<1> QED
  BY <1>2, <1>3 DEF usb_keyboard_poll

LEMMA GetCharOK ==
  ASSUME UsbKeysInv, usb_keyboard_get_char
  PROVE  UsbKeysInv'
<1>1. /\ usb_kb_buf # <<>> /\ usb_kb_buf' = Tail(usb_kb_buf) /\ got' = Append(got, Head(usb_kb_buf))
      /\ UNCHANGED <<held, shift, reports, usb_kb_prev, usb_kb_first_report, changes, dropped,
                     typed, full>>
  BY DEF usb_keyboard_get_char
<1>2. KeyTypes /\ Untouched /\ Debts /\ InStep
  BY DEF UsbKeysInv
<1>3. got \in Seq(Chars) /\ usb_kb_buf \in Seq(Chars)
  BY <1>2 DEF KeyTypes
<1>4. /\ Tail(usb_kb_buf) \in Seq(Chars) /\ Append(got, Head(usb_kb_buf)) \in Seq(Chars)
      /\ Append(got, Head(usb_kb_buf)) \o Tail(usb_kb_buf) = got \o usb_kb_buf
  BY <1>1, <1>3
<1>5. got' \o usb_kb_buf' = got \o usb_kb_buf
  BY <1>1, <1>4
<1>6. KeyTypes'
  BY <1>1, <1>2, <1>4 DEF KeyTypes
<1>7. Untouched' /\ Debts' /\ InStep'
  BY <1>1, <1>2, <1>5 DEF Untouched, Debts, InStep
<1> QED
  BY <1>6, <1>7 DEF UsbKeysInv

LEMMA UsbKeysStep ==
  UsbKeysInv /\ [Next]_vars /\ HeldFits' => UsbKeysInv'
<1> SUFFICES ASSUME UsbKeysInv, [Next]_vars, HeldFits' PROVE UsbKeysInv'
  OBVIOUS
<1>1. CASE KeysStep
  BY <1>1, PressOK, ReleaseOK, ShiftOK, PollOK, GetCharOK DEF KeysStep
<1>2. CASE UNCHANGED keyVars
  BY <1>2 DEF keyVars, UsbKeysInv, KeyTypes, Untouched, Debts, InStep
<1> QED
  BY <1>1, <1>2 DEF Next, Disks, Clock, Bus, Keyboard, vars

\* A key that is pressed gives its character once: whatever is pressed, released, lost
\* and read in any order, with any keys, a ring of any size and any number of reports
\* under way, as long as no more keys are down than a report can name.
THEOREM KeysAlwaysOnce == Spec /\ []HeldFits => []KeysOnce
<1>1. Init => UsbKeysInv
  BY UsbKeysInitially DEF Init
<1>2. ASSUME UsbKeysInv PROVE KeysOnce
  <2>1. /\ KeyTypes /\ Debts /\ InStep /\ got \o usb_kb_buf \in Seq(Chars) /\ typed \in Seq(Chars)
    BY <1>2 DEF UsbKeysInv, KeyTypes
  <2>2. PICK out \in Seq(Chars) : out = got \o usb_kb_buf
    BY <2>1
  <2>3. ASSUME NEW k \in Keys PROVE Times(k, out) <= Times(k, typed)
    <3>1. PICK a \in Nat, b \in Nat : a = Times(k, out) /\ b = Times(k, typed)
      BY <2>1, <2>2, TimesNat
    <3>2. Debt(k, a, b, usb_kb_prev, reports, held, usb_kb_first_report)
      BY <2>1, <2>2, <3>1 DEF Debts
    <3>3. a <= b
      BY <2>1, <3>2, DebtPaid DEF KeyTypes
    <3> QED
      BY <3>1, <3>3
  <2>4. ASSUME dropped = 0, ~ full
        PROVE  IsPrefix(out, typed) /\ (reports = <<>> => out = typed)
    <3>1. Follows(out, typed, usb_kb_prev, reports, usb_kb_first_report)
      BY <2>1, <2>2, <2>4 DEF InStep
    <3>2. PICK m \in [0 .. Len(reports) -> 0 .. Len(typed)] :
             m[0] = Len(out) /\ m[Len(reports)] = Len(typed)
      BY <3>1, Zenon DEF Follows
    <3>3. \A i \in 1 .. Len(out) : out[i] = typed[i]
      BY <3>1, Zenon DEF Follows
    <3>4. Len(out) <= Len(typed)
      <4>1. 0 \in 0 .. Len(reports)
        BY <2>1 DEF KeyTypes
      <4> QED
        BY <2>1, <3>2, <4>1
    <3>5. IsPrefix(out, typed)
      BY <2>1, <3>3, <3>4 DEF IsPrefix
    <3>6. ASSUME reports = <<>> PROVE out = typed
      <4>1. Len(reports) = 0
        BY <3>6
      <4>2. Len(out) = Len(typed)
        BY <3>2, <4>1
      <4>3. \A s, t \in Seq(Chars) :
               Len(s) = Len(t) /\ (\A i \in 1 .. Len(s) : s[i] = t[i]) => s = t
        OBVIOUS
      <4> QED
        BY <2>1, <3>3, <4>2, <4>3
    <3> QED
      BY <3>5, <3>6
  <2> QED
    BY <2>2, <2>3, <2>4 DEF KeysOnce
<1> QED
  BY <1>1, <1>2, UsbKeysStep, PTL DEF Spec

--------------------------------------------------------------------------------
(* The bus. *)

Up(d) == Place[d][1]
Port(d) == Place[d][2]

\* How devices are plugged in:  fewer than there are addresses, one in a port, into
\* a port of the controller or of a hub, which says that it is one and has that
\* port, and not in circles.
Wired ==
  /\ IsFiniteSet(Devs) /\ Cardinality(Devs) + 1 < ADDRESSES
  /\ \A d \in Devs : Place[d] = <<Up(d), Port(d)>> /\ Port(d) \in Nat \ {0} /\ Desc[d].ports \in Nat
  /\ \A d, e \in Devs : Place[d] = Place[e] => d = e
  /\ \A d \in Devs : Up(d) = Host => Port(d) <= ROOT_PORTS
  /\ \A d \in Devs : Up(d) # Host => Desc[Up(d)].class = "hub" /\ Port(d) <= Desc[Up(d)].ports
  /\ \E depth \in [Devs -> Nat] : \A d \in Devs : Up(d) # Host => depth[Up(d)] < depth[d]

Claimers == {"storage", "keyboard", "mouse"}
Enumerating == {"first8", "address", "device", "register", "hub"}
Busy == doing \in Enumerating
FrameType == [hub : Devs \cup {Host}, addr : Nat, port : Nat \ {0}, ports : Nat]
Unit == [on : BOOLEAN, addr : Nat, conf : BOOLEAN]
Entry == [address : Nat, dev : Devs]
BusType ==
  /\ bus \in [Devs -> Unit]
  /\ frames \in Seq(FrameType) /\ Len(frames) # 0
  /\ doing \in Enumerating \cup Claimers \cup {"port", "hid", "over"}
  /\ next_address \in Nat /\ new_addr \in Nat
  /\ device_list \in Seq(Entry) /\ walk \in Nat \ {0}
  /\ claimed \in [Claimers -> Nat] /\ lapses \in Nat /\ lapses <= MaxLapses

On(d) == bus[d].on = TRUE
Conf(d) == bus[d].conf = TRUE
Here(d) == Up(d) = Frame.hub /\ Port(d) = Frame.port
Listed == {device_list[i].dev : i \in DOMAIN device_list}
InFrames(h) == \E k \in DOMAIN frames : frames[k].hub = h
Reached(d, k) == \/ Port(d) < frames[k].port
                 \/ Port(d) = frames[k].port /\ (k < Len(frames) \/ Busy)

\* The frames follow the hubs from the controller down, each at its address.
PathInv ==
  /\ frames[1].hub = Host /\ frames[1].ports = ROOT_PORTS
  /\ \A k \in DOMAIN frames : k > 1 =>
       /\ frames[k].hub \in Devs /\ On(frames[k].hub)
       /\ Up(frames[k].hub) = frames[k - 1].hub /\ Port(frames[k].hub) = frames[k - 1].port
       /\ bus[frames[k].hub].addr = frames[k].addr /\ frames[k].addr # 0
  /\ \A j, k \in DOMAIN frames : frames[j].hub = frames[k].hub => j = k
  /\ ~ Busy /\ doing # "port" => Len(frames) = 1 /\ frames[1].port > frames[1].ports

\* A port is enabled after that of the hub it belongs to and when its turn has come,
\* so no device is reset that is in use or has one in use behind it.
OnceInv ==
  /\ \A d \in Devs : On(d) /\ Up(d) # Host => On(Up(d))
  /\ \A d \in Devs, k \in DOMAIN frames : On(d) /\ Up(d) = frames[k].hub => Reached(d, k)
  /\ Busy => \E c \in Devs : Here(c) /\ \A d \in Devs : On(d) => Up(d) # c

\* Addresses are given once, in order.
AddressInv ==
  /\ \A d, e \in Devs : On(d) /\ On(e) /\ bus[d].addr = bus[e].addr => d = e
  /\ \A d \in Devs : bus[d].addr < next_address
  /\ next_address = 1 + Cardinality({d \in Devs : On(d) /\ bus[d].addr # 0})

\* The device that is being enumerated:  the only one that may be at address 0.
CurrentInv ==
  /\ \A d \in Devs : On(d) /\ bus[d].addr = 0 => doing \in {"first8", "address"} /\ Here(d)
  /\ \A c \in Devs : Here(c) =>
       /\ doing \in {"first8", "address"} /\ On(c) => bus[c].addr = 0
       /\ doing = "address" => On(c)
       /\ doing \in {"device", "register", "hub"} => On(c) /\ bus[c].addr = new_addr /\ new_addr # 0
  /\ doing \in {"register", "hub"} => seen \in Devs /\ Here(seen)

\* The list has a device once, by its address.
ListInv ==
  /\ \A i \in DOMAIN device_list :
       /\ On(device_list[i].dev) /\ bus[device_list[i].dev].addr = device_list[i].address
       /\ device_list[i].address # 0
       /\ Busy /\ Here(device_list[i].dev) => doing = "hub"
  /\ Len(device_list) = Cardinality(Listed)

\* If nothing has gone wrong, a device whose turn has come is enabled and listed,
\* and nothing is behind an enabled hub but what is enabled or still to come.
FoundInv ==
  lapses = 0 =>
    /\ \A d \in Devs : On(d) => d \in Listed \/ (Busy /\ doing # "hub" /\ Here(d))
    /\ \A d \in Devs, k \in DOMAIN frames : Up(d) = frames[k].hub /\ Reached(d, k) => On(d)
    /\ \A k \in DOMAIN frames : k > 1 => frames[k].ports >= Desc[frames[k].hub].ports
    /\ \A d \in Devs :
         Up(d) # Host => On(d) \/ ~ On(Up(d)) \/ InFrames(Up(d)) \/ (Busy /\ Here(Up(d)))

\* Where a driver has not begun to look.
Before(r) == Enumerating \cup {"port", "hid"}
             \cup (IF r \in {"keyboard", "mouse"} THEN {"storage"} ELSE {})
             \cup (IF r = "mouse" THEN {"keyboard"} ELSE {})

\* A driver has a device that fits, configured unless two requests went wrong; and,
\* if none did, it has one as soon as it came to one that fits.
ClaimInv ==
  /\ lapses <= 1 => \A i \in DOMAIN device_list : Conf(device_list[i].dev) \/ lapses = 1
  /\ \A r \in Claimers : claimed[r] # 0 =>
       \E i \in DOMAIN device_list :
         /\ device_list[i].address = claimed[r] /\ Fits(r, Desc[device_list[i].dev])
         /\ lapses <= 1 => Conf(device_list[i].dev)
  /\ lapses = 0 => \A r \in Claimers, i \in DOMAIN device_list :
       (Fits(r, Desc[device_list[i].dev]) /\ doing \notin Before(r) /\ (doing = r => i < walk))
         => claimed[r] # 0

BusInv == BusType /\ PathInv /\ OnceInv /\ AddressInv /\ CurrentInv /\ ListInv /\ FoundInv /\ ClaimInv

\* What comes of a request.
LEMMA OutcomeFacts ==
  ASSUME NEW A, NEW K, NEW o \in Outcomes(A, K)
  PROVE  /\ o.ok \in BOOLEAN /\ o.done \in BOOLEAN /\ o.lapse \in {0, 1}
         /\ A = {} => o.ok = FALSE /\ o.done = FALSE /\ o.lapse = 0
         /\ A # {} /\ o.lapse = 0 => o.ok = TRUE /\ o.done = TRUE
         /\ A # {} /\ "lost" \notin K /\ "late" \notin K => o.ok = TRUE
         /\ A # {} /\ "lost" \notin K /\ "early" \notin K => o.done = TRUE
<1>1. \A a, b, l : LET x == [ok |-> a, done |-> b, lapse |-> l]
                    IN  x.ok = a /\ x.done = b /\ x.lapse = l
  OBVIOUS
<1>2. Fine.ok = TRUE /\ Fine.done = TRUE /\ Fine.lapse = 0
  BY <1>1, Zenon DEF Fine
<1>3. Refused.ok = FALSE /\ Refused.done = FALSE /\ Refused.lapse = 0
  BY <1>1, Zenon DEF Refused
<1>6. CASE A = {}
  BY <1>3, <1>6 DEF Outcomes
<1>7. CASE A # {}
  <2>1. \/ o = Fine
        \/ "lost" \in K /\ o = [ok |-> FALSE, done |-> FALSE, lapse |-> 1]
        \/ "late" \in K /\ o = [ok |-> FALSE, done |-> TRUE, lapse |-> 1]
        \/ "early" \in K /\ o = [ok |-> TRUE, done |-> FALSE, lapse |-> 1]
    BY <1>7 DEF Outcomes
  <2>2. CASE o = Fine
    BY <1>2, <1>7, <2>2
  <2>3. CASE "lost" \in K /\ o = [ok |-> FALSE, done |-> FALSE, lapse |-> 1]
    <3>1. o.ok = FALSE /\ o.done = FALSE /\ o.lapse = 1
      BY <1>1, <2>3, Zenon
    <3> QED
      BY <1>7, <2>3, <3>1
  <2>4. CASE "late" \in K /\ o = [ok |-> FALSE, done |-> TRUE, lapse |-> 1]
    <3>1. o.ok = FALSE /\ o.done = TRUE /\ o.lapse = 1
      BY <1>1, <2>4, Zenon
    <3> QED
      BY <1>7, <2>4, <3>1
  <2>5. CASE "early" \in K /\ o = [ok |-> TRUE, done |-> FALSE, lapse |-> 1]
    <3>1. o.ok = TRUE /\ o.done = FALSE /\ o.lapse = 1
      BY <1>1, <2>5, Zenon
    <3> QED
      BY <1>7, <2>5, <3>1
  <2> QED
    BY <2>1, <2>2, <2>3, <2>4, <2>5
<1> QED
  BY <1>6, <1>7

\* The frames and the list.
LEMMA FrameFacts ==
  ASSUME BusType
  PROVE  /\ Len(frames) \in Nat \ {0} /\ DOMAIN frames = 1 .. Len(frames)
         /\ Frame = frames[Len(frames)]
         /\ \A k \in DOMAIN frames :
              /\ frames[k].hub \in Devs \cup {Host} /\ frames[k].addr \in Nat
              /\ frames[k].port \in Nat \ {0} /\ frames[k].ports \in Nat
<1>1. frames \in Seq(FrameType) /\ Len(frames) # 0
  BY DEF BusType
<1>2. \A k \in DOMAIN frames : frames[k] \in FrameType
  BY <1>1
<1>3. \A f \in FrameType : /\ f.hub \in Devs \cup {Host} /\ f.addr \in Nat
                           /\ f.port \in Nat \ {0} /\ f.ports \in Nat
  BY DEF FrameType
<1> QED
  BY <1>1, <1>2, <1>3 DEF Frame, Last

\* What is in the list and on the bus.
LEMMA ListFacts ==
  ASSUME BusType
  PROVE  /\ Len(device_list) \in Nat /\ DOMAIN device_list = 1 .. Len(device_list)
         /\ \A i \in DOMAIN device_list :
              device_list[i].dev \in Devs /\ device_list[i].address \in Nat
         /\ \A d \in Devs : bus[d].addr \in Nat
<1>1. device_list \in Seq(Entry)
  BY DEF BusType
<1>2. \A i \in DOMAIN device_list : device_list[i] \in Entry
  BY <1>1
<1>3. \A d \in Devs : bus[d] \in Unit
  BY DEF BusType
<1>4. \A r \in Entry : r.dev \in Devs /\ r.address \in Nat
  BY DEF Entry
<1>5. \A u \in Unit : u.addr \in Nat
  BY DEF Unit
<1> QED
  BY <1>1, <1>2, <1>3, <1>4, <1>5

\* Counting up the port leaves the rest of a frame.
LEMMA PortUp ==
  \A f \in FrameType :
     [f EXCEPT !.port = @ + 1] = [hub |-> f.hub, addr |-> f.addr, port |-> f.port + 1, ports |-> f.ports]
  BY DEF FrameType

\* A frame's port is counted up.
LEMMA CountUp ==
  ASSUME NEW s \in Seq(FrameType), NEW n \in Nat, n \in DOMAIN s
  PROVE  LET t == [s EXCEPT ![n].port = @ + 1]
         IN  /\ t \in Seq(FrameType) /\ Len(t) = Len(s) /\ DOMAIN t = DOMAIN s
             /\ \A k \in DOMAIN s :
                  /\ t[k].hub = s[k].hub /\ t[k].addr = s[k].addr /\ t[k].ports = s[k].ports
                  /\ k # n => t[k].port = s[k].port
             /\ t[n].port = s[n].port + 1
<1>1. PICK f \in FrameType : f = s[n]
  OBVIOUS
<1>2. PICK u \in FrameType :
        u.hub = f.hub /\ u.addr = f.addr /\ u.port = f.port + 1 /\ u.ports = f.ports /\ u = [f EXCEPT !.port = @ + 1]
  <2>1. [f EXCEPT !.port = @ + 1] = [hub |-> f.hub, addr |-> f.addr, port |-> f.port + 1, ports |-> f.ports]
    BY PortUp
  <2>2. [hub |-> f.hub, addr |-> f.addr, port |-> f.port + 1, ports |-> f.ports] \in FrameType
    BY DEF FrameType
  <2> QED
    BY <2>1, <2>2
<1>3. PICK t : t = [s EXCEPT ![n].port = @ + 1]
  OBVIOUS
<1>4. t = [s EXCEPT ![n] = u]
  BY <1>1, <1>2, <1>3
<1>5. /\ t \in Seq(FrameType) /\ Len(t) = Len(s) /\ DOMAIN t = DOMAIN s
      /\ t[n] = u /\ \A k \in DOMAIN s : k # n => t[k] = s[k]
  BY <1>4
<1> QED
  BY <1>1, <1>2, <1>3, <1>5

\* What GoOn does to the frames.
LEMMA GoOnFrames ==
  ASSUME BusType, frames' = NextPort
  PROVE  /\ frames' \in Seq(FrameType) /\ Len(frames') = Len(frames)
         /\ DOMAIN frames' = DOMAIN frames
         /\ \A k \in DOMAIN frames :
              /\ frames'[k].hub = frames[k].hub /\ frames'[k].addr = frames[k].addr
              /\ frames'[k].ports = frames[k].ports
              /\ k # Len(frames) => frames'[k].port = frames[k].port
         /\ frames'[Len(frames)].port = frames[Len(frames)].port + 1
<1>1. frames \in Seq(FrameType) /\ Len(frames) \in DOMAIN frames /\ Len(frames) \in Nat
  BY FrameFacts DEF BusType
<1> QED
  BY <1>1, CountUp, Zenon DEF NextPort

\* All frames but the last.
LEMMA FrontFacts ==
  ASSUME NEW s \in Seq(FrameType), NEW n \in Nat, Len(s) = n + 1
  PROVE  /\ Front(s) \in Seq(FrameType) /\ Len(Front(s)) = n
         /\ DOMAIN Front(s) = 1 .. n
         /\ \A k \in 1 .. n : Front(s)[k] = s[k]
<1>1. Front(s) = SubSeq(s, 1, n)
  BY DEF Front
<1>2. SubSeq(s, 1, n) \in Seq(FrameType) /\ Len(SubSeq(s, 1, n)) = n
      /\ \A k \in 1 .. n : SubSeq(s, 1, n)[k] = s[k]
  OBVIOUS
<1> QED
  BY <1>1, <1>2

\* What the end of a hub's ports does to the frames.
LEMMA PopFrames ==
  ASSUME BusType, NEW n \in Nat \ {0}, Len(frames) = n + 1,
         frames' = [Front(frames) EXCEPT ![Len(frames) - 1].port = @ + 1]
  PROVE  /\ frames' \in Seq(FrameType) /\ Len(frames') = n
         /\ DOMAIN frames' = 1 .. n
         /\ \A k \in 1 .. n :
              /\ frames'[k].hub = frames[k].hub /\ frames'[k].addr = frames[k].addr
              /\ frames'[k].ports = frames[k].ports
              /\ k # n => frames'[k].port = frames[k].port
         /\ frames'[n].port = frames[n].port + 1
<1>1. PICK g : g = Front(frames)
  OBVIOUS
<1>2. /\ g \in Seq(FrameType) /\ Len(g) = n /\ DOMAIN g = 1 .. n
      /\ \A k \in 1 .. n : g[k] = frames[k]
  <2>1. frames \in Seq(FrameType) /\ n \in Nat
    BY DEF BusType
  <2> QED
    BY <1>1, <2>1, FrontFacts, Zenon
<1>3. frames' = [g EXCEPT ![n].port = @ + 1] /\ n \in DOMAIN g /\ n \in Nat
  <2>1. \A m \in Nat \ {0} : (m + 1) - 1 = m /\ m \in 1 .. m
    OBVIOUS
  <2>2. Len(frames) - 1 = n
    BY <2>1, Zenon
  <2> QED
    BY <1>1, <1>2, <2>1, <2>2, Zenon
<1>4. LET t == [g EXCEPT ![n].port = @ + 1]
      IN  /\ t \in Seq(FrameType) /\ Len(t) = Len(g) /\ DOMAIN t = DOMAIN g
          /\ \A k \in DOMAIN g :
               /\ t[k].hub = g[k].hub /\ t[k].addr = g[k].addr /\ t[k].ports = g[k].ports
               /\ k # n => t[k].port = g[k].port
          /\ t[n].port = g[n].port + 1
  <2>1. g \in Seq(FrameType) /\ n \in Nat /\ n \in DOMAIN g
    BY <1>2, <1>3
  <2> QED
    BY ONLY <2>1, CountUp, Zenon
<1>5. /\ frames' \in Seq(FrameType) /\ Len(frames') = Len(g) /\ DOMAIN frames' = DOMAIN g
      /\ \A k \in DOMAIN g :
           /\ frames'[k].hub = g[k].hub /\ frames'[k].addr = g[k].addr /\ frames'[k].ports = g[k].ports
           /\ k # n => frames'[k].port = g[k].port
      /\ frames'[n].port = g[n].port + 1
  BY <1>3, <1>4, Zenon
<1> QED
  BY <1>2, <1>3, <1>5, Zenon

\* What the ports of a hub add to the frames.
LEMMA PushFrames ==
  ASSUME BusType, NEW f \in FrameType, frames' = Append(frames, f)
  PROVE  /\ frames' \in Seq(FrameType) /\ Len(frames') = Len(frames) + 1 /\ Len(frames') # 0
         /\ DOMAIN frames' = 1 .. Len(frames) + 1
         /\ \A k \in 1 .. Len(frames) : frames'[k] = frames[k]
         /\ frames'[Len(frames) + 1] = f
  BY FrameFacts DEF BusType

\* The next port is turned to, and what was enabled and addressed stays so.
LEMMA GoOnPath ==
  ASSUME Wired, BusType, BusType', PathInv, OnceInv, frames' = NextPort, doing' = "port",
         doing \in Enumerating \cup {"port"},
         \A d \in Devs : On(d)' <=> On(d),
         \A d \in Devs : bus[d].addr # 0 => bus'[d].addr = bus[d].addr
  PROVE  PathInv' /\ OnceInv'
<1> DEFINE L == Len(frames)
<1>1. /\ L \in Nat \ {0} /\ DOMAIN frames = 1 .. L /\ Frame = frames[L]
      /\ \A k \in DOMAIN frames : frames[k].port \in Nat
  BY FrameFacts
<1>2. /\ Len(frames') = L /\ DOMAIN frames' = DOMAIN frames
      /\ \A k \in DOMAIN frames :
           /\ frames'[k].hub = frames[k].hub /\ frames'[k].addr = frames[k].addr
           /\ frames'[k].ports = frames[k].ports
           /\ k # L => frames'[k].port = frames[k].port
      /\ frames'[L].port = frames[L].port + 1
  BY GoOnFrames
<1>3. ~ Busy' /\ (doing' = "port")
  BY DEF Busy, Enumerating
<1> HIDE DEF L
<1>4. PathInv'
  <2>1. ASSUME NEW k \in DOMAIN frames, k > 1
        PROVE  k - 1 \in DOMAIN frames /\ k - 1 # L
    BY <1>1, <2>1
  <2>2. ASSUME NEW k \in DOMAIN frames', k > 1
        PROVE  /\ frames'[k].hub \in Devs /\ On(frames[k].hub)'
               /\ Up(frames[k].hub) = frames'[k - 1].hub /\ Port(frames[k].hub) = frames'[k - 1].port
               /\ bus'[frames[k].hub].addr = frames'[k].addr /\ frames'[k].addr # 0
    BY <1>2, <2>1, <2>2 DEF PathInv
  <2>3. \A k \in DOMAIN frames' : frames[k].hub = frames'[k].hub
    BY <1>2
  <2>4. /\ frames'[1].hub = Host /\ frames'[1].ports = ROOT_PORTS
    BY <1>1, <1>2 DEF PathInv
  <2>5. \A j, k \in DOMAIN frames' : frames'[j].hub = frames'[k].hub => j = k
    BY <1>2 DEF PathInv
  <2> QED
    BY <1>2, <1>3, <2>2, <2>3, <2>4, <2>5 DEF PathInv
<1>5. OnceInv'
  <2>1. \A d \in Devs : On(d)' /\ Up(d) # Host => On(Up(d))'
    BY BusAssumption DEF OnceInv, Up
  <2>2. ASSUME NEW d \in Devs, NEW k \in DOMAIN frames', On(d)', Up(d) = frames'[k].hub
        PROVE  Reached(d, k)'
    <3>1. Reached(d, k)
      BY <1>2, <2>2 DEF OnceInv
    <3>2. CASE k = L
      <4>1. Port(d) < frames[L].port \/ Port(d) = frames[L].port
        BY <3>1, <3>2 DEF Reached
      <4>2. Port(d) < frames[L].port + 1
        BY <1>1, <2>2, <4>1 DEF Wired
      <4> QED
        BY <1>2, <3>2, <4>2 DEF Reached
    <3>3. CASE k # L
      BY <1>1, <1>2, <3>1, <3>3 DEF Reached, L
    <3> QED
      BY <3>2, <3>3
  <2> QED
    BY <1>2, <1>3, <2>1, <2>2 DEF OnceInv
<1> QED
  BY <1>4, <1>5

\* The next request to the same device, or the next step of a driver.
LEMMA StayPath ==
  ASSUME Wired, BusType, BusType', PathInv, OnceInv, frames' = frames,
         Busy' <=> Busy, doing = "port" <=> doing' = "port",
         \A d \in Devs : On(d)' <=> On(d),
         \A d \in Devs : bus[d].addr # 0 => bus'[d].addr = bus[d].addr
  PROVE  PathInv' /\ OnceInv'
<1>1. PathInv'
  <2>1. ASSUME NEW k \in DOMAIN frames, k > 1
        PROVE  On(frames[k].hub)' /\ bus'[frames[k].hub].addr = frames[k].addr
    BY <2>1 DEF PathInv
  <2>2. \A k \in DOMAIN frames : k > 1 =>
          On(frames[k].hub)' /\ bus'[frames'[k].hub].addr = frames'[k].addr
    BY <2>1
  <2> QED
    BY <2>2 DEF PathInv
<1>2. OnceInv'
  <2>1. \A d \in Devs : On(d)' /\ Up(d) # Host => On(Up(d))'
    BY BusAssumption DEF OnceInv, Up
  <2>2. \A d \in Devs : Here(d)' <=> Here(d)
    BY DEF Here, Frame
  <2>3. \A d \in Devs, k \in DOMAIN frames : On(d)' /\ Up(d) = frames'[k].hub => Reached(d, k)'
    BY DEF OnceInv, Reached
  <2>4. Busy' => \E c \in Devs : Here(c)' /\ \A d \in Devs : On(d)' => Up(d) # c
    BY <2>2 DEF OnceInv
  <2> QED
    BY <2>1, <2>3, <2>4 DEF OnceInv
<1> QED
  BY <1>1, <1>2

\* A device is never its own hub.
LEMMA NoLoop ==
  ASSUME Wired, NEW d \in Devs
  PROVE  Up(d) # d
<1>1. PICK depth \in [Devs -> Nat] : \A e \in Devs : Up(e) # Host => depth[Up(e)] < depth[e]
  BY DEF Wired
<1>2. Host \notin Devs
  BY BusAssumption
<1> QED
  BY <1>1, <1>2

\* The device in the port whose turn it is was not enabled, nor anything behind it.
LEMMA TurnFacts ==
  ASSUME Wired, BusType, PathInv, OnceInv, doing = "port", NEW d \in Devs, Here(d)
  PROVE  /\ ~ On(d) /\ \A e \in Devs : On(e) => Up(e) # d
         /\ Up(d) # Host => Up(d) \in Devs /\ On(Up(d))
         /\ \A k \in DOMAIN frames : frames[k].hub # d
<1>1. /\ Len(frames) \in Nat \ {0} /\ DOMAIN frames = 1 .. Len(frames)
      /\ Frame = frames[Len(frames)] /\ Frame.port \in Nat
  BY FrameFacts
<1>2. Len(frames) \in DOMAIN frames
  BY <1>1
<1>3. ~ Reached(d, Len(frames))
  BY <1>1 DEF Reached, Here, Busy, Enumerating
<1>4. ~ On(d)
  BY <1>1, <1>2, <1>3 DEF OnceInv, Here
<1>5. \A e \in Devs : On(e) => Up(e) # d
  BY <1>4, BusAssumption DEF OnceInv
<1>6. Up(d) # Host => Up(d) \in Devs /\ On(Up(d))
  BY <1>1, <1>2 DEF PathInv, Here
<1>7. \A k \in DOMAIN frames : frames[k].hub # d
  BY <1>1, <1>4, BusAssumption DEF PathInv
<1> QED
  BY <1>4, <1>5, <1>6, <1>7

\* A port is enabled, or the request has failed.
LEMMA ResetPath ==
  ASSUME Wired, BusType, BusType', PathInv, OnceInv, doing = "port", doing' = "first8",
         frames' = frames, NEW d \in Devs, Here(d),
         \A e \in Devs : e # d => bus'[e] = bus[e]
  PROVE  PathInv' /\ OnceInv'
<1>1. /\ ~ On(d) /\ \A e \in Devs : On(e) => Up(e) # d
      /\ Up(d) # Host => Up(d) \in Devs /\ On(Up(d))
      /\ \A k \in DOMAIN frames : frames[k].hub # d
  BY TurnFacts
<1>2. /\ Len(frames) \in Nat \ {0} /\ DOMAIN frames = 1 .. Len(frames)
      /\ Frame = frames[Len(frames)]
  BY FrameFacts
<1>3. \A e \in Devs : e # d => (On(e)' <=> On(e)) /\ bus'[e].addr = bus[e].addr
  BY DEF On
<1>4. Busy' /\ ~ Busy
  BY DEF Busy, Enumerating
<1>5. Here(d)'
  BY DEF Here, Frame
<1>6. PathInv'
  <2>1. ASSUME NEW k \in DOMAIN frames, k > 1
        PROVE  On(frames[k].hub)' /\ bus'[frames[k].hub].addr = frames[k].addr
    BY <1>1, <1>3, <2>1 DEF PathInv
  <2>2. \A k \in DOMAIN frames : k > 1 =>
          On(frames[k].hub)' /\ bus'[frames'[k].hub].addr = frames'[k].addr
    BY <2>1
  <2> QED
    BY <1>4, <2>2 DEF PathInv
<1>7. OnceInv'
  <2>1. ASSUME NEW e \in Devs, On(e)', Up(e) # Host PROVE On(Up(e))'
    <3>1. Up(e) \in Devs
      BY BusAssumption, <2>1 DEF Up
    <3>2. CASE e = d
      BY <1>1, <1>3, <3>2, <2>1, NoLoop
    <3>3. CASE e # d
      BY <1>1, <1>3, <3>1, <3>3, <2>1 DEF OnceInv
    <3> QED
      BY <3>2, <3>3
  <2>2. ASSUME NEW e \in Devs, NEW k \in DOMAIN frames, On(e)', Up(e) = frames[k].hub
        PROVE  Reached(e, k)'
    <3>1. CASE e = d
      <4>1. k = Len(frames)
        BY <1>2, <2>2, <3>1 DEF PathInv, Here
      <4> QED
        BY <1>2, <1>4, <3>1, <4>1 DEF Reached, Here
    <3>2. CASE e # d
      <4>1. Reached(e, k)
        BY <1>3, <2>2, <3>2 DEF OnceInv
      <4> QED
        BY <1>4, <4>1 DEF Reached
    <3> QED
      BY <3>1, <3>2
  <2>3. \A e \in Devs : On(e)' => Up(e) # d
    BY <1>1, <1>3, NoLoop
  <2> QED
    BY <1>5, <2>1, <2>2, <2>3 DEF OnceInv
<1> QED
  BY <1>6, <1>7

\* The ports of a hub, or of the controller, are done.
LEMMA DonePath ==
  ASSUME Wired, BusType, BusType', PathInv, OnceInv, PortsDone
  PROVE  PathInv' /\ OnceInv'
<1>1. /\ Len(frames) \in Nat \ {0} /\ DOMAIN frames = 1 .. Len(frames)
      /\ Frame = frames[Len(frames)] /\ bus' = bus /\ doing = "port"
      /\ \A k \in DOMAIN frames : frames[k].port \in Nat
  BY FrameFacts DEF PortsDone
<1>2. /\ \A d \in Devs : On(d)' <=> On(d)
      /\ ~ Busy /\ Frame.port > Frame.ports
  BY <1>1 DEF On, Busy, Enumerating, PortsDone
<1>3. CASE Len(frames) = 1
  <2>1. doing' = "hid" /\ frames' = frames /\ ~ Busy'
    BY <1>3 DEF PortsDone, Busy, Enumerating
  <2>2. PathInv'
    BY <1>1, <1>2, <1>3, <2>1 DEF PathInv, On
  <2>3. \A d \in Devs, k \in DOMAIN frames : Reached(d, k)' <=> Reached(d, k)
    BY <1>2, <2>1 DEF Reached
  <2>4. OnceInv'
    BY <1>1, <1>2, <2>1, <2>3, BusAssumption DEF OnceInv, Up
  <2> QED
    BY <2>2, <2>4
<1>4. CASE Len(frames) # 1
  <2>1. PICK n \in Nat \ {0} : Len(frames) = n + 1
    <3>1. Len(frames) - 1 \in Nat \ {0} /\ Len(frames) = (Len(frames) - 1) + 1
      BY <1>1, <1>4
    <3> QED
      BY <3>1
  <2>2. frames' = [Front(frames) EXCEPT ![Len(frames) - 1].port = @ + 1] /\ doing' = "port"
    BY <1>1, <1>4 DEF PortsDone
  <2>3. /\ frames' \in Seq(FrameType) /\ Len(frames') = n /\ DOMAIN frames' = 1 .. n
        /\ \A k \in 1 .. n :
             /\ frames'[k].hub = frames[k].hub /\ frames'[k].addr = frames[k].addr
             /\ frames'[k].ports = frames[k].ports
             /\ k # n => frames'[k].port = frames[k].port
        /\ frames'[n].port = frames[n].port + 1
    BY <2>1, <2>2, PopFrames
  <2>4. ~ Busy'
    BY <2>2 DEF Busy, Enumerating
  <2>5. \A k \in 1 .. n : k \in DOMAIN frames
    BY <1>1, <2>1
  <2>6. ASSUME NEW k \in 1 .. n, k > 1
        PROVE  /\ frames'[k].hub \in Devs /\ On(frames[k].hub)'
               /\ Up(frames[k].hub) = frames'[k - 1].hub /\ Port(frames[k].hub) = frames'[k - 1].port
               /\ bus'[frames[k].hub].addr = frames'[k].addr /\ frames'[k].addr # 0
    <3>1. k - 1 \in 1 .. n /\ k - 1 # n
      BY <2>6
    <3> QED
      BY <1>1, <1>2, <2>3, <2>5, <2>6, <3>1 DEF PathInv
  <2>7. PathInv'
    <3>1. frames'[1].hub = Host /\ frames'[1].ports = ROOT_PORTS
      BY <2>1, <2>3 DEF PathInv
    <3>2. \A j, k \in 1 .. n : frames'[j].hub = frames'[k].hub => j = k
      BY <2>3, <2>5 DEF PathInv
    <3>3. \A k \in 1 .. n : frames[k].hub = frames'[k].hub
      BY <2>3
    <3>4. \A k \in DOMAIN frames' : k > 1 =>
            /\ frames'[k].hub \in Devs /\ On(frames[k].hub)'
            /\ Up(frames'[k].hub) = frames'[k - 1].hub /\ Port(frames'[k].hub) = frames'[k - 1].port
            /\ bus'[frames'[k].hub].addr = frames'[k].addr /\ frames'[k].addr # 0
      BY <2>3, <2>6, <3>3
    <3> QED
      BY <2>2, <2>3, <3>1, <3>2, <3>4 DEF PathInv
  <2>8. ASSUME NEW d \in Devs, NEW k \in 1 .. n, On(d)', Up(d) = frames'[k].hub
        PROVE  Reached(d, k)'
    <3>1. Reached(d, k) /\ Port(d) \in Nat /\ frames[k].port \in Nat
      BY <1>1, <1>2, <2>3, <2>5, <2>8 DEF OnceInv, Wired
    <3>2. Port(d) <= frames[k].port
      BY <3>1 DEF Reached
    <3>3. CASE k = n
      BY <2>3, <3>1, <3>2, <3>3 DEF Reached
    <3>4. CASE k # n
      <4>1. k < n
        BY <3>4
      <4> QED
        BY <2>3, <3>1, <3>2, <3>4, <4>1 DEF Reached
    <3> QED
      BY <3>3, <3>4
  <2>9. OnceInv'
    BY <1>1, <1>2, <2>3, <2>4, <2>8, BusAssumption DEF OnceInv, Up
  <2> QED
    BY <2>7, <2>9
<1> QED
  BY <1>3, <1>4

\* There is one device in a port.
LEMMA SamePlace ==
  ASSUME Wired, NEW d \in Devs, NEW e \in Devs, Up(d) = Up(e), Port(d) = Port(e)
  PROVE  d = e
<1>1. Place[d] = <<Up(d), Port(d)>> /\ Place[e] = <<Up(e), Port(e)>>
  BY DEF Wired
<1>2. Place[d] = Place[e]
  BY <1>1, Zenon
<1> QED
  BY <1>2 DEF Wired

\* The ports of a hub follow; the hub is in no frame yet.
LEMMA PushPath ==
  ASSUME Wired, BusType, BusType', PathInv, OnceInv, CurrentInv, doing = "hub", doing' = "port",
         bus' = bus, NEW f \in FrameType, frames' = Append(frames, f),
         f.hub = seen, f.addr = new_addr, f.port = 1
  PROVE  PathInv' /\ OnceInv'
<1>1. /\ Len(frames) \in Nat \ {0} /\ DOMAIN frames = 1 .. Len(frames)
      /\ Frame = frames[Len(frames)]
      /\ \A k \in DOMAIN frames : frames[k].port \in Nat
  BY FrameFacts
<1>2. PICK n \in Nat \ {0} : n = Len(frames)
  BY <1>1
<1>3. /\ Len(frames') = n + 1 /\ DOMAIN frames' = 1 .. n + 1
      /\ \A k \in 1 .. n : frames'[k] = frames[k]
      /\ frames'[n + 1] = f
  BY <1>2, PushFrames
<1>4. /\ seen \in Devs /\ Up(seen) = frames[n].hub /\ Port(seen) = frames[n].port
      /\ On(seen) /\ bus[seen].addr = new_addr /\ new_addr # 0
  BY <1>1, <1>2 DEF CurrentInv, Here
<1>5. /\ \A d \in Devs : On(d)' <=> On(d)
      /\ Busy /\ ~ Busy'
  BY DEF On, Busy, Enumerating
<1>6. \A d \in Devs : On(d) => Up(d) # seen
  <2>1. PICK c \in Devs : Here(c) /\ \A d \in Devs : On(d) => Up(d) # c
    BY <1>5 DEF OnceInv
  <2>2. c = seen
    BY <1>1, <1>2, <1>4, <2>1, SamePlace DEF Here
  <2> QED
    BY <2>1, <2>2
<1>7. \A k \in 1 .. n : frames[k].hub # seen
  <2>1. SUFFICES ASSUME NEW k \in 1 .. n, frames[k].hub = seen PROVE FALSE
    OBVIOUS
  <2>2. k \in DOMAIN frames /\ n \in DOMAIN frames
    BY <1>1, <1>2
  <2>3. CASE k = 1
    BY <1>4, <2>1, <2>3, BusAssumption DEF PathInv
  <2>4. CASE k # 1
    <3>1. k > 1 /\ k - 1 \in DOMAIN frames /\ k - 1 # n
      BY <1>1, <1>2, <2>4
    <3>2. Up(frames[k].hub) = frames[k - 1].hub
      BY <2>2, <3>1 DEF PathInv
    <3> QED
      BY <1>4, <2>1, <2>2, <3>1, <3>2 DEF PathInv
  <2> QED
    BY <2>3, <2>4
<1>8. \A k \in 1 .. n + 1 : k = n + 1 \/ k \in 1 .. n
  OBVIOUS
<1>9. PathInv'
  <2>1. frames'[1].hub = Host /\ frames'[1].ports = ROOT_PORTS
    BY <1>2, <1>3 DEF PathInv
  <2>2. ASSUME NEW k \in 1 .. n + 1, k > 1
        PROVE  /\ frames'[k].hub \in Devs /\ On(frames[k].hub)'
               /\ Up(frames'[k].hub) = frames'[k - 1].hub /\ Port(frames'[k].hub) = frames'[k - 1].port
               /\ bus'[frames'[k].hub].addr = frames'[k].addr /\ frames'[k].addr # 0
    <3>1. CASE k = n + 1
      <4>1. k - 1 = n /\ n \in 1 .. n
        BY <3>1
      <4>2. frames'[k].hub = seen /\ frames'[k].addr = new_addr /\ frames'[k - 1] = frames[n]
        BY <1>3, <3>1, <4>1
      <4>3. On(frames[k].hub)'
        BY <1>4, <4>2 DEF On
      <4> QED
        BY <1>4, <4>2, <4>3
    <3>2. CASE k \in 1 .. n
      <4>1. k - 1 \in 1 .. n /\ k \in DOMAIN frames
        BY <1>1, <1>2, <2>2, <3>2
      <4>2. frames'[k] = frames[k] /\ frames'[k - 1] = frames[k - 1]
        BY <1>3, <3>2, <4>1
      <4>3. On(frames[k].hub)'
        BY <2>2, <4>1, <4>2 DEF On, PathInv
      <4> QED
        BY <2>2, <4>1, <4>2, <4>3 DEF PathInv
    <3> QED
      BY <1>8, <3>1, <3>2
  <2>3. ASSUME NEW j \in 1 .. n + 1, NEW k \in 1 .. n + 1, frames'[j].hub = frames'[k].hub
        PROVE  j = k
    <3>1. \A i \in 1 .. n : i \in DOMAIN frames
      BY <1>1, <1>2
    <3> QED
      BY <1>3, <1>7, <1>8, <2>3, <3>1 DEF PathInv
  <2> QED
    BY <1>3, <2>1, <2>2, <2>3 DEF PathInv
<1>10. OnceInv'
  <2>1. ASSUME NEW d \in Devs, NEW k \in 1 .. n + 1, On(d), Up(d) = frames'[k].hub
        PROVE  Reached(d, k)'
    <3>1. k # n + 1
      BY <1>3, <1>6, <2>1
    <3>2. k \in 1 .. n /\ k \in DOMAIN frames
      BY <1>1, <1>2, <1>8, <3>1
    <3>3. Reached(d, k)
      BY <1>3, <2>1, <3>2 DEF OnceInv
    <3>4. Port(d) < frames'[k].port \/ Port(d) = frames'[k].port
      BY <1>3, <3>2, <3>3 DEF Reached
    <3>5. k < Len(frames')
      BY <1>3, <3>2
    <3> QED
      BY <3>4, <3>5 DEF Reached
  <2> QED
    BY <1>3, <1>5, <2>1, BusAssumption DEF OnceInv, Up
<1> QED
  BY <1>9, <1>10

\* No address is given or taken back.
LEMMA SameAddresses ==
  ASSUME AddressInv, next_address' = next_address,
         \A d \in Devs : (On(d)' <=> On(d)) /\ bus'[d].addr = bus[d].addr
  PROVE  AddressInv'
<1>1. {d \in Devs : On(d)' /\ bus'[d].addr # 0} = {d \in Devs : On(d) /\ bus[d].addr # 0}
  OBVIOUS
<1> QED
  BY <1>1 DEF AddressInv

\* A device is at address 0 after its port was enabled.
LEMMA ResetAddresses ==
  ASSUME BusType, AddressInv, CurrentInv, doing = "port", NEW d \in Devs, ~ On(d),
         next_address' = next_address,
         \A e \in Devs : e # d => bus'[e] = bus[e],
         bus'[d] = bus[d] \/ bus'[d].addr = 0
  PROVE  AddressInv'
<1>1. \A e \in Devs : e # d => (On(e)' <=> On(e)) /\ bus'[e].addr = bus[e].addr
  BY DEF On
<1>2. \A e \in Devs : On(e) => bus[e].addr # 0
  BY DEF CurrentInv
<1>3. (On(d)' => bus'[d].addr = 0) /\ bus'[d].addr < next_address
  <2>1. bus[d].addr \in Nat /\ next_address \in Nat
    BY ListFacts DEF BusType
  <2>2. bus[d].addr < next_address
    BY DEF AddressInv
  <2> QED
    BY <2>1, <2>2 DEF On
<1>4. {e \in Devs : On(e)' /\ bus'[e].addr # 0} = {e \in Devs : On(e) /\ bus[e].addr # 0}
  BY <1>1, <1>3
<1>5. \A e, g \in Devs : On(e)' /\ On(g)' /\ bus'[e].addr = bus'[g].addr => e = g
  BY <1>1, <1>2, <1>3 DEF AddressInv
<1> QED
  BY <1>1, <1>3, <1>4, <1>5 DEF AddressInv

\* The device in the port gets the next address.
LEMMA NewAddress ==
  ASSUME Wired, BusType, AddressInv, CurrentInv, doing = "address", NEW c \in Devs, Here(c),
         bus' = Addressed(0, next_address), next_address' = (next_address + 1) % ADDRESSES
  PROVE  /\ AddressInv' /\ On(c) /\ On(c)' /\ bus'[c].addr = next_address /\ next_address # 0
         /\ \A d \in Devs : (On(d)' <=> On(d)) /\ (Conf(d)' <=> Conf(d))
         /\ \A d \in Devs : d # c => bus'[d].addr = bus[d].addr
         /\ bus' \in [Devs -> Unit]
         /\ \A d \in Devs : On(d) => bus'[d].addr # 0
<1> DEFINE S == {d \in Devs : On(d) /\ bus[d].addr # 0}
<1>1. On(c) /\ bus[c].addr = 0
  BY DEF CurrentInv
<1>2. \A d \in Devs : On(d) /\ bus[d].addr = 0 <=> d = c
  BY <1>1 DEF AddressInv
<1>3. IsFiniteSet(S) /\ Cardinality(S) \in Nat /\ Cardinality(S \cup {c}) = Cardinality(S) + 1
      /\ Cardinality(S \cup {c}) <= Cardinality(Devs) /\ Cardinality(Devs) \in Nat
  <2>1. IsFiniteSet(Devs) /\ S \subseteq Devs /\ c \notin S /\ S \cup {c} \subseteq Devs
    BY <1>1 DEF Wired
  <2>2. IsFiniteSet(S) /\ IsFiniteSet(S \cup {c})
    BY <2>1, FS_Subset
  <2> QED
    BY <2>1, <2>2, FS_Subset, FS_AddElement, FS_CardinalityType
<1>4. next_address = 1 + Cardinality(S)
  BY DEF AddressInv
<1> HIDE DEF S
<1>5. next_address \in Nat \ {0} /\ next_address + 1 < ADDRESSES /\ ADDRESSES \in Nat \ {0}
  BY <1>3, <1>4, BusAssumption DEF Wired
<1>6. next_address' = next_address + 1
  BY <1>5, Below
<1>7. \A d \in Devs : bus[d] \in Unit
  BY DEF BusType
<1>8. \A r \in Unit, a \in Nat : \A t : t = [r EXCEPT !.addr = a] =>
        t \in Unit /\ t.on = r.on /\ t.addr = a /\ t.conf = r.conf
  BY DEF Unit
<1>9. \A d \in Devs : bus'[d] = IF d = c THEN [bus[d] EXCEPT !.addr = next_address] ELSE bus[d]
  BY <1>2 DEF Addressed, Answering, On
<1>10. /\ \A d \in Devs : bus'[d] \in Unit
       /\ \A d \in Devs : bus'[d].on = bus[d].on /\ bus'[d].conf = bus[d].conf
       /\ \A d \in Devs : d # c => bus'[d].addr = bus[d].addr
       /\ bus'[c].addr = next_address
  <2>1. bus'[c] = [bus[c] EXCEPT !.addr = next_address]
    BY <1>9
  <2>2. bus'[c] \in Unit /\ bus'[c].on = bus[c].on /\ bus'[c].conf = bus[c].conf /\ bus'[c].addr = next_address
    <3>1. PICK u \in Unit : u = bus[c]
      BY <1>7
    <3>2. PICK a \in Nat : a = next_address
      BY <1>5
    <3>3. PICK t : t = bus'[c]
      OBVIOUS
    <3>4. t = [u EXCEPT !.addr = a]
      BY <2>1, <3>1, <3>2, <3>3, Zenon
    <3>5. t \in Unit /\ t.on = u.on /\ t.addr = a /\ t.conf = u.conf
      BY ONLY <1>8, <3>4, u \in Unit, a \in Nat
    <3> QED
      BY <3>1, <3>2, <3>3, <3>5, Zenon
  <2>3. \A d \in Devs : d # c => bus'[d] = bus[d]
    BY <1>9
  <2> QED
    BY <1>7, <2>2, <2>3, Zenon
<1>11. \A d \in Devs : (On(d)' <=> On(d)) /\ (Conf(d)' <=> Conf(d))
  BY <1>10 DEF On, Conf
<1>12. {d \in Devs : On(d)' /\ bus'[d].addr # 0} = S \cup {c}
  BY <1>1, <1>2, <1>5, <1>10, <1>11 DEF S
<1>13. \A d \in Devs : bus[d].addr < next_address /\ bus[d].addr \in Nat
  BY ListFacts DEF AddressInv
<1>14. \A d \in Devs : bus'[d].addr < next_address'
  BY <1>5, <1>6, <1>10, <1>13
<1>15. \A d, e \in Devs : On(d)' /\ On(e)' /\ bus'[d].addr = bus'[e].addr => d = e
  BY <1>5, <1>10, <1>11, <1>13 DEF AddressInv
<1>16. AddressInv'
  <2>1. next_address' = 1 + Cardinality(S \cup {c})
    BY <1>3, <1>4, <1>6
  <2>2. next_address' = 1 + Cardinality({d \in Devs : On(d)' /\ bus'[d].addr # 0})
    BY <1>12, <2>1
  <2> QED
    BY <1>14, <1>15, <2>2, Zenon DEF AddressInv
<1>17. bus' \in [Devs -> Unit]
  BY <1>10 DEF Addressed
<1> QED
  BY <1>1, <1>2, <1>5, <1>10, <1>11, <1>16, <1>17

\* What a device does when it is configured.
LEMMA ConfiguredFacts ==
  ASSUME BusType, NEW a, bus' = Configured(a)
  PROVE  /\ bus' \in [Devs -> Unit]
         /\ \A d \in Devs : (On(d)' <=> On(d)) /\ bus'[d].addr = bus[d].addr
         /\ \A d \in Devs : Conf(d) => Conf(d)'
         /\ \A d \in Answering(a) : Conf(d)'
<1>1. \A d \in Devs : bus[d] \in Unit
  BY DEF BusType
<1>2. \A u \in Unit : \A t : t = [u EXCEPT !.conf = TRUE] =>
        t \in Unit /\ t.on = u.on /\ t.addr = u.addr /\ t.conf = TRUE
  BY DEF Unit
<1>3. \A d \in Devs : bus'[d] = IF d \in Answering(a) THEN [bus[d] EXCEPT !.conf = TRUE] ELSE bus[d]
  BY DEF Configured
<1>4. ASSUME NEW d \in Devs
      PROVE  /\ bus'[d] \in Unit /\ bus'[d].on = bus[d].on /\ bus'[d].addr = bus[d].addr
             /\ bus[d].conf = TRUE \/ d \in Answering(a) => bus'[d].conf = TRUE
  <2>1. PICK u \in Unit : u = bus[d]
    BY <1>1
  <2>2. CASE d \in Answering(a)
    <3>1. PICK t : t = bus'[d]
      OBVIOUS
    <3>2. t = [u EXCEPT !.conf = TRUE]
      BY <1>3, <2>1, <2>2, <3>1, Zenon
    <3>3. t \in Unit /\ t.on = u.on /\ t.addr = u.addr /\ t.conf = TRUE
      BY ONLY <1>2, <3>2, u \in Unit
    <3> QED
      BY <2>1, <3>1, <3>3, Zenon
  <2>3. CASE d \notin Answering(a)
    BY <1>1, <1>3, <2>3, Zenon
  <2> QED
    BY <2>2, <2>3
<1>5. bus' \in [Devs -> Unit]
  BY <1>4 DEF Configured
<1>6. \A d \in Answering(a) : d \in Devs
  BY DEF Answering
<1> QED
  BY <1>4, <1>5, <1>6, Zenon DEF On, Conf

\* What a device does when its port is enabled.
LEMMA ResetFacts ==
  ASSUME BusType, NEW d \in Devs, bus' = ResetPort(d)
  PROVE  /\ bus' \in [Devs -> Unit] /\ On(d)' /\ bus'[d].addr = 0
         /\ \A e \in Devs : e # d => bus'[e] = bus[e]
<1>1. [on |-> TRUE, addr |-> 0, conf |-> FALSE] \in Unit
  BY DEF Unit
<1>2. bus'[d] = [on |-> TRUE, addr |-> 0, conf |-> FALSE]
  BY DEF BusType, ResetPort
<1>3. bus' \in [Devs -> Unit]
  BY <1>1 DEF BusType, ResetPort
<1> QED
  BY <1>2, <1>3 DEF BusType, ResetPort, On

\* The list stays as it is, and so do its devices.
LEMMA SameList ==
  ASSUME BusType, ListInv, device_list' = device_list,
         \A d \in Devs : On(d) => On(d)',
         \A d \in Devs : On(d) /\ bus[d].addr # 0 => bus'[d].addr = bus[d].addr,
         \A d \in Listed : Busy' /\ Here(d)' => doing' = "hub"
  PROVE  ListInv'
<1>1. Listed' = Listed
  BY DEF Listed
<1>2. ASSUME NEW i \in DOMAIN device_list
      PROVE  /\ On(device_list[i].dev)' /\ bus'[device_list[i].dev].addr = device_list[i].address
             /\ device_list[i].address # 0
             /\ Busy' /\ Here(device_list[i].dev)' => doing' = "hub"
  <2>1. device_list[i].dev \in Devs /\ device_list[i].dev \in Listed
    BY ListFacts DEF Listed
  <2>2. device_list'[i] = device_list[i]
    OBVIOUS
  <2> QED
    BY <2>1, <2>2 DEF ListInv
<1> QED
  BY <1>1, <1>2 DEF ListInv

\* A device gets to the head of the list.
LEMMA GrownList ==
  ASSUME BusType, NEW r \in Entry, device_list' = <<r>> \o device_list
  PROVE  /\ device_list' \in Seq(Entry) /\ Len(device_list') = Len(device_list) + 1
         /\ DOMAIN device_list' = 1 .. Len(device_list) + 1
         /\ device_list'[1] = r
         /\ \A i \in DOMAIN device_list : i + 1 \in DOMAIN device_list' /\ device_list'[i + 1] = device_list[i]
         /\ \A i \in DOMAIN device_list' : i # 1 => i - 1 \in DOMAIN device_list /\ device_list'[i] = device_list[i - 1]
         /\ Listed' = Listed \cup {r.dev}
<1>1. device_list \in Seq(Entry) /\ Len(device_list) \in Nat /\ DOMAIN device_list = 1 .. Len(device_list)
  BY DEF BusType
<1>2. PICK s \in Seq(Entry) : s = device_list
  BY <1>1
<1>3. PICK t : t = device_list'
  OBVIOUS
<1>4. t = <<r>> \o s
  BY <1>2, <1>3
<1>5. /\ t \in Seq(Entry) /\ Len(t) = Len(s) + 1 /\ DOMAIN t = 1 .. Len(s) + 1
      /\ t[1] = r /\ \A i \in 1 .. Len(t) : i # 1 => t[i] = s[i - 1]
  BY ONLY <1>4, s \in Seq(Entry), r \in Entry
<1>6. /\ \A i \in DOMAIN s : i + 1 \in DOMAIN t /\ t[i + 1] = s[i]
      /\ \A i \in DOMAIN t : i # 1 => i - 1 \in DOMAIN s /\ t[i] = s[i - 1]
  BY <1>1, <1>2, <1>5
<1>7. {t[i].dev : i \in DOMAIN t} = {s[i].dev : i \in DOMAIN s} \cup {r.dev}
  <2>1. 1 \in DOMAIN t
    BY <1>1, <1>2, <1>5
  <2>2. ASSUME NEW i \in DOMAIN t
        PROVE  t[i].dev \in {s[j].dev : j \in DOMAIN s} \cup {r.dev}
    <3>1. CASE i = 1
      BY <1>5, <3>1
    <3>2. CASE i # 1
      <4>1. PICK j \in DOMAIN s : t[i] = s[j]
        BY <1>6, <3>2
      <4> QED
        BY <4>1, Zenon
    <3> QED
      BY <3>1, <3>2
  <2>3. ASSUME NEW i \in DOMAIN s
        PROVE  s[i].dev \in {t[j].dev : j \in DOMAIN t}
    <3>1. PICK j \in DOMAIN t : t[j] = s[i]
      BY <1>6
    <3> QED
      BY <3>1, Zenon
  <2>4. r.dev \in {t[j].dev : j \in DOMAIN t}
    BY <1>5, <2>1, Zenon
  <2> QED
    BY <2>2, <2>3, <2>4
<1>8. Listed' = Listed \cup {r.dev}
  <2>1. Listed = {s[i].dev : i \in DOMAIN s}
    BY <1>2 DEF Listed
  <2>2. Listed' = {t[i].dev : i \in DOMAIN t}
    BY <1>3 DEF Listed
  <2> QED
    BY <1>7, <2>1, <2>2, Zenon
<1> QED
  BY <1>1, <1>2, <1>3, <1>5, <1>6, <1>8

\* The devices in the list.
LEMMA ListedFacts ==
  ASSUME Wired, BusType
  PROVE  IsFiniteSet(Listed) /\ Listed \subseteq Devs /\ Cardinality(Listed) \in Nat
<1>1. Listed \subseteq Devs
  BY ListFacts DEF Listed
<1> QED
  BY <1>1, FS_Subset, FS_CardinalityType DEF Wired

\* The list stays right when the device that is enumerated gets into it.
LEMMA AddedList ==
  ASSUME Wired, BusType, ListInv, CurrentInv, doing = "register",
         NEW r \in Entry, device_list' = <<r>> \o device_list, r.dev = seen, r.address = new_addr,
         \A d \in Devs : (On(d)' <=> On(d)) /\ bus'[d].addr = bus[d].addr,
         Busy' => doing' = "hub"
  PROVE  ListInv' /\ seen \notin Listed
<1>1. /\ Len(device_list') = Len(device_list) + 1
      /\ DOMAIN device_list' = 1 .. Len(device_list) + 1
      /\ device_list'[1] = r
      /\ \A i \in DOMAIN device_list' : i # 1 => i - 1 \in DOMAIN device_list /\ device_list'[i] = device_list[i - 1]
      /\ Listed' = Listed \cup {r.dev}
  BY GrownList
<1>2. seen \in Devs /\ Here(seen) /\ On(seen) /\ bus[seen].addr = new_addr /\ new_addr # 0
  BY DEF CurrentInv
<1>3. seen \notin Listed
  BY <1>2 DEF ListInv, Listed, Busy, Enumerating
<1>4. Len(device_list') = Cardinality(Listed')
  <2>1. Cardinality(Listed \cup {seen}) = Cardinality(Listed) + 1
    BY <1>3, ListedFacts, FS_AddElement
  <2> QED
    BY <1>1, <2>1 DEF ListInv
<1>5. ASSUME NEW i \in DOMAIN device_list'
      PROVE  /\ On(device_list[i].dev)' /\ bus'[device_list'[i].dev].addr = device_list'[i].address
             /\ device_list'[i].address # 0
  <2>1. CASE i = 1
    <3>1. device_list'[i].dev = seen /\ device_list'[i].address = new_addr
      BY <1>1, <2>1
    <3> QED
      BY <1>2, <3>1 DEF On
  <2>2. CASE i # 1
    <3>1. i - 1 \in DOMAIN device_list /\ device_list'[i] = device_list[i - 1]
      BY <1>1, <2>2
    <3>2. device_list[i - 1].dev \in Devs
      BY <3>1, ListFacts
    <3> QED
      BY <3>1, <3>2 DEF ListInv, On
  <2> QED
    BY <2>1, <2>2
<1> QED
  BY <1>3, <1>4, <1>5 DEF ListInv

\* The next port is turned to:  if nothing has gone wrong, there is no device in the
\* last one, or it is listed and no hub.
LEMMA GoOnFound ==
  ASSUME Wired, BusType, BusType', FoundInv, frames' = NextPort, doing' = "port",
         doing \in Enumerating \cup {"port"},
         \A d \in Devs : On(d)' <=> On(d),
         Listed \subseteq Listed', lapses' = 0 => lapses = 0,
         lapses' = 0 => \A d \in Devs : Here(d) => On(d) /\ d \in Listed' /\ Desc[d].class # "hub"
  PROVE  FoundInv'
<1> SUFFICES ASSUME lapses' = 0
             PROVE  /\ \A d \in Devs : On(d)' => d \in Listed' \/ (Busy' /\ doing' # "hub" /\ Here(d)')
                    /\ \A d \in Devs, k \in DOMAIN frames' : Up(d) = frames'[k].hub /\ Reached(d, k)' => On(d)'
                    /\ \A k \in DOMAIN frames' : k > 1 => frames'[k].ports >= Desc[frames'[k].hub].ports
                    /\ \A d \in Devs :
                         Up(d) # Host => On(d)' \/ ~ On(Up(d))' \/ InFrames(Up(d))' \/ (Busy' /\ Here(Up(d))')
  BY Zenon DEF FoundInv
<1>1. PICK n \in Nat \ {0} : n = Len(frames)
  BY FrameFacts
<1>2. /\ DOMAIN frames = 1 .. n /\ Frame = frames[n] /\ n \in DOMAIN frames
      /\ \A k \in DOMAIN frames : frames[k].port \in Nat
  BY <1>1, FrameFacts
<1>3. /\ Len(frames') = n /\ DOMAIN frames' = DOMAIN frames
      /\ \A k \in DOMAIN frames :
           /\ frames'[k].hub = frames[k].hub /\ frames'[k].ports = frames[k].ports
           /\ k # n => frames'[k].port = frames[k].port
      /\ frames'[n].port = frames[n].port + 1
  BY <1>1, GoOnFrames
<1>4. ~ Busy' /\ lapses = 0
  BY DEF Busy, Enumerating
<1>5. \A d \in Devs : Here(d) => On(d) /\ d \in Listed' /\ Desc[d].class # "hub"
  OBVIOUS
<1>6. \A d \in Devs : On(d)' => d \in Listed'
  BY <1>4, <1>5 DEF FoundInv
<1>7. ASSUME NEW d \in Devs, NEW k \in DOMAIN frames', Up(d) = frames'[k].hub, Reached(d, k)'
      PROVE  On(d)'
  <2>1. k \in DOMAIN frames /\ Up(d) = frames[k].hub /\ Port(d) \in Nat /\ k \in 1 .. n
    BY <1>2, <1>3, <1>7 DEF Wired
  <2>2. CASE k = n
    <3>1. Port(d) < frames[n].port + 1
      BY <1>3, <1>4, <1>7, <2>2 DEF Reached
    <3>2. Port(d) < frames[n].port \/ Port(d) = frames[n].port
      BY <1>2, <2>1, <3>1
    <3>3. CASE Port(d) < frames[n].port
      BY <1>4, <2>1, <2>2, <3>3 DEF Reached, FoundInv
    <3>4. CASE Port(d) = frames[n].port
      BY <1>2, <1>5, <2>1, <2>2, <3>4 DEF Here
    <3> QED
      BY <3>2, <3>3, <3>4
  <2>3. CASE k # n
    <3>1. k < n
      BY <2>1, <2>3
    <3>2. Reached(d, k)
      BY <1>1, <1>3, <1>7, <2>1, <2>3, <3>1 DEF Reached
    <3> QED
      BY <1>4, <2>1, <3>2 DEF FoundInv
  <2> QED
    BY <2>2, <2>3
<1>8. \A k \in DOMAIN frames' : k > 1 => frames'[k].ports >= Desc[frames'[k].hub].ports
  BY <1>3, <1>4 DEF FoundInv
<1>9. ASSUME NEW d \in Devs, Up(d) # Host
      PROVE  On(d)' \/ ~ On(Up(d))' \/ InFrames(Up(d))'
  <2>1. Up(d) \in Devs /\ Desc[Up(d)].class = "hub"
    BY BusAssumption, <1>9 DEF Up, Wired
  <2>2. On(d) \/ ~ On(Up(d)) \/ InFrames(Up(d)) \/ (Busy /\ Here(Up(d)))
    BY <1>4, <1>9 DEF FoundInv
  <2>3. InFrames(Up(d)) => InFrames(Up(d))'
    BY <1>3 DEF InFrames
  <2> QED
    BY <1>5, <2>1, <2>2, <2>3
<1> QED
  BY <1>6, <1>7, <1>8, <1>9

\* The next request to the same device, or the next step of a driver.
LEMMA StayFound ==
  ASSUME Wired, BusType, FoundInv, frames' = frames, Busy' <=> Busy, doing # "hub",
         doing' = "hub" => \A d \in Devs : Here(d) => d \in Listed',
         \A d \in Devs : On(d)' <=> On(d),
         Listed \subseteq Listed', lapses' = 0 => lapses = 0
  PROVE  FoundInv'
<1>1. \A d : Here(d)' <=> Here(d)
  BY DEF Here, Frame
<1>2. \A h : InFrames(h)' <=> InFrames(h)
  BY DEF InFrames
<1>3. \A d \in Devs, k \in DOMAIN frames : Reached(d, k)' <=> Reached(d, k)
  BY DEF Reached
<1>4. \A d \in Devs : Up(d) # Host => Up(d) \in Devs
  BY BusAssumption DEF Up
<1> SUFFICES ASSUME lapses' = 0 PROVE FoundInv'
  BY Zenon DEF FoundInv
<1>5. \A d \in Devs : On(d)' => d \in Listed' \/ (Busy' /\ doing' # "hub" /\ Here(d)')
  BY <1>1 DEF FoundInv
<1>6. \A d \in Devs, k \in DOMAIN frames' : Up(d) = frames'[k].hub /\ Reached(d, k)' => On(d)'
  BY <1>3 DEF FoundInv
<1>7. \A k \in DOMAIN frames' : k > 1 => frames'[k].ports >= Desc[frames'[k].hub].ports
  BY DEF FoundInv
<1>8. \A d \in Devs :
        Up(d) # Host => On(d)' \/ ~ On(Up(d))' \/ InFrames(Up(d))' \/ (Busy' /\ Here(Up(d))')
  BY <1>1, <1>2, <1>4 DEF FoundInv
<1> QED
  BY <1>5, <1>6, <1>7, <1>8, Zenon DEF FoundInv

\* A port is enabled, which does not fail if nothing goes wrong.
LEMMA ResetFound ==
  ASSUME Wired, BusType, PathInv, OnceInv, FoundInv, doing = "port", doing' = "first8",
         frames' = frames, device_list' = device_list, NEW d \in Devs, Here(d),
         \A e \in Devs : e # d => bus'[e] = bus[e],
         lapses' = 0 => lapses = 0 /\ On(d)'
  PROVE  FoundInv'
<1>1. \A h : Here(h)' <=> Here(h)
  BY DEF Here, Frame
<1>2. /\ \A h : InFrames(h)' <=> InFrames(h)
      /\ Listed' = Listed
  BY DEF InFrames, Listed
<1>3. ~ Busy /\ Busy' /\ Frame = frames[Len(frames)]
  BY FrameFacts DEF Busy, Enumerating
<1>4. \A e \in Devs : e # d => (On(e)' <=> On(e))
  BY DEF On
<1>5. ~ On(d)
  BY TurnFacts
<1>6. \A e \in Devs : Up(e) # Host => Up(e) \in Devs
  BY BusAssumption DEF Up
<1> SUFFICES ASSUME lapses' = 0 PROVE FoundInv'
  BY Zenon DEF FoundInv
<1>7. \A e \in Devs : On(e)' => e \in Listed' \/ (Busy' /\ doing' # "hub" /\ Here(e)')
  BY <1>1, <1>2, <1>3, <1>4 DEF FoundInv
<1>8. ASSUME NEW e \in Devs, NEW k \in DOMAIN frames, Up(e) = frames[k].hub, Reached(e, k)'
      PROVE  On(e)'
  <2>1. CASE Reached(e, k)
    BY <1>4, <1>8, <2>1 DEF FoundInv
  <2>2. CASE ~ Reached(e, k)
    <3>1. Port(e) = frames[k].port /\ ~ (k < Len(frames))
      BY <1>8, <2>2 DEF Reached
    <3>2. k = Len(frames)
      BY <1>8, <3>1, FrameFacts
    <3>3. Here(e)
      BY <1>3, <1>8, <3>1, <3>2 DEF Here
    <3>4. e = d
      BY <3>3, SamePlace DEF Here
    <3> QED
      BY <3>4
  <2> QED
    BY <2>1, <2>2
<1>9. \A k \in DOMAIN frames' : k > 1 => frames'[k].ports >= Desc[frames'[k].hub].ports
  BY DEF FoundInv
<1>10. \A e \in Devs :
        Up(e) # Host => On(e)' \/ ~ On(Up(e))' \/ InFrames(Up(e))' \/ (Busy' /\ Here(Up(e))')
  BY <1>1, <1>2, <1>3, <1>4, <1>6 DEF FoundInv
<1> QED
  BY <1>7, <1>8, <1>9, <1>10, Zenon DEF FoundInv

\* All devices behind a hub whose ports are done are enabled if nothing went wrong.
LEMMA DoneFound ==
  ASSUME Wired, BusType, BusType', PathInv, FoundInv, PortsDone
  PROVE  FoundInv'
<1>1. /\ Len(frames) \in Nat \ {0} /\ DOMAIN frames = 1 .. Len(frames)
      /\ Frame = frames[Len(frames)] /\ bus' = bus /\ doing = "port"
      /\ device_list' = device_list /\ lapses' = lapses
      /\ \A k \in DOMAIN frames : frames[k].port \in Nat /\ frames[k].ports \in Nat
  BY FrameFacts DEF PortsDone, lists
<1>2. /\ \A d \in Devs : On(d)' <=> On(d)
      /\ ~ Busy /\ Frame.port > Frame.ports /\ Listed' = Listed
  BY <1>1 DEF On, Busy, Enumerating, PortsDone, Listed
<1>3. CASE Len(frames) = 1
  BY <1>1, <1>2, <1>3, StayFound DEF PortsDone, Busy, Enumerating
<1>4. CASE Len(frames) # 1
  <2> SUFFICES ASSUME lapses' = 0 PROVE FoundInv'
    BY Zenon DEF FoundInv
  <2>1. PICK n \in Nat \ {0} : Len(frames) = n + 1
    <3>1. Len(frames) - 1 \in Nat \ {0} /\ Len(frames) = (Len(frames) - 1) + 1
      BY <1>1, <1>4
    <3> QED
      BY <3>1
  <2>2. frames' = [Front(frames) EXCEPT ![Len(frames) - 1].port = @ + 1] /\ doing' = "port"
    BY <1>1, <1>4 DEF PortsDone
  <2>3. /\ frames' \in Seq(FrameType) /\ Len(frames') = n /\ DOMAIN frames' = 1 .. n
        /\ \A k \in 1 .. n :
             /\ frames'[k].hub = frames[k].hub /\ frames'[k].addr = frames[k].addr
             /\ frames'[k].ports = frames[k].ports
             /\ k # n => frames'[k].port = frames[k].port
        /\ frames'[n].port = frames[n].port + 1
    BY <2>1, <2>2, PopFrames
  <2>4. ~ Busy' /\ lapses = 0
    BY <1>1, <2>2 DEF Busy, Enumerating
  <2>5. /\ \A k \in 1 .. n : k \in DOMAIN frames /\ k < Len(frames)
        /\ \A k \in DOMAIN frames : k \in 1 .. n \/ k = n + 1
    BY <1>1, <2>1
  <2>6. \A d \in Devs : On(d)' => d \in Listed'
    BY <1>2, <2>4 DEF FoundInv
  <2>7. ASSUME NEW d \in Devs, NEW k \in 1 .. n, Up(d) = frames'[k].hub, Reached(d, k)'
        PROVE  On(d)'
    <3>1. Up(d) = frames[k].hub /\ Port(d) \in Nat /\ frames[k].port \in Nat
      BY <1>1, <2>3, <2>5, <2>7 DEF Wired
    <3>2. Port(d) < frames[k].port \/ Port(d) = frames[k].port
      <4>1. CASE k = n
        <5>1. Port(d) < frames[k].port + 1
          BY <2>3, <2>4, <2>7, <4>1 DEF Reached
        <5> QED
          BY <3>1, <5>1
      <4>2. CASE k # n
        BY <2>3, <2>7, <4>2 DEF Reached
      <4> QED
        BY <4>1, <4>2
    <3>3. Reached(d, k)
      BY <2>5, <3>2 DEF Reached
    <3> QED
      BY <1>2, <2>4, <2>5, <3>1, <3>3 DEF FoundInv
  <2>8. \A k \in DOMAIN frames' : k > 1 => frames'[k].ports >= Desc[frames'[k].hub].ports
    BY <2>3, <2>4, <2>5 DEF FoundInv
  <2>9. ASSUME NEW d \in Devs, Up(d) # Host
        PROVE  On(d)' \/ ~ On(Up(d))' \/ InFrames(Up(d))'
    <3>1. Up(d) \in Devs
      BY <2>9, BusAssumption DEF Up
    <3>2. On(d) \/ ~ On(Up(d)) \/ InFrames(Up(d))
      BY <1>2, <2>4, <2>9 DEF FoundInv
    <3>3. CASE InFrames(Up(d))
      <4>1. PICK k \in DOMAIN frames : frames[k].hub = Up(d)
        BY <3>3 DEF InFrames
      <4>2. CASE k \in 1 .. n
        BY <2>3, <4>1, <4>2 DEF InFrames
      <4>3. CASE k = n + 1
        <5>1. k > 1 /\ Port(d) <= Desc[Up(d)].ports /\ Port(d) \in Nat /\ Desc[Up(d)].ports \in Nat
          BY <2>9, <3>1, <4>3 DEF Wired
        <5>2. frames[k].ports >= Desc[Up(d)].ports /\ frames[k].port > frames[k].ports
          BY <1>1, <1>2, <2>1, <2>4, <4>1, <4>3, <5>1 DEF FoundInv
        <5>3. Port(d) < frames[k].port
          BY <1>1, <5>1, <5>2
        <5> QED
          BY <1>2, <2>4, <4>1, <5>3 DEF FoundInv, Reached
      <4> QED
        BY <2>5, <4>2, <4>3
    <3> QED
      BY <1>2, <3>1, <3>2, <3>3
  <2> QED
    BY <2>3, <2>6, <2>7, <2>8, <2>9, Zenon DEF FoundInv
<1> QED
  BY <1>3, <1>4

\* As many ports of a hub are scanned as it has, if nothing goes wrong.
LEMMA PushFound ==
  ASSUME Wired, BusType, FoundInv, CurrentInv, doing = "hub", doing' = "port",
         bus' = bus, device_list' = device_list, NEW f \in FrameType, frames' = Append(frames, f),
         f.hub = seen, f.port = 1, lapses' = 0 => lapses = 0 /\ f.ports >= Desc[seen].ports
  PROVE  FoundInv'
<1> SUFFICES ASSUME lapses' = 0 PROVE FoundInv'
  BY Zenon DEF FoundInv
<1>1. /\ Len(frames) \in Nat \ {0} /\ DOMAIN frames = 1 .. Len(frames)
      /\ Frame = frames[Len(frames)]
      /\ \A k \in DOMAIN frames : frames[k].port \in Nat
  BY FrameFacts
<1>2. PICK n \in Nat \ {0} : n = Len(frames)
  BY <1>1
<1>3. /\ Len(frames') = n + 1 /\ DOMAIN frames' = 1 .. n + 1
      /\ \A k \in 1 .. n : frames'[k] = frames[k]
      /\ frames'[n + 1] = f
  BY <1>2, PushFrames
<1>4. seen \in Devs /\ Here(seen)
  BY DEF CurrentInv
<1>5. /\ \A d \in Devs : On(d)' <=> On(d)
      /\ Busy /\ ~ Busy' /\ Listed' = Listed /\ lapses = 0
  BY DEF On, Busy, Enumerating, Listed
<1>6. /\ \A k \in 1 .. n + 1 : k = n + 1 \/ k \in 1 .. n
      /\ n + 1 \in 1 .. n + 1 /\ \A k \in 1 .. n : k \in DOMAIN frames /\ k \in 1 .. n + 1
  BY <1>1, <1>2
<1>7. \A d \in Devs : On(d)' => d \in Listed'
  BY <1>5 DEF FoundInv
<1>8. ASSUME NEW d \in Devs, NEW k \in 1 .. n + 1, Up(d) = frames'[k].hub, Reached(d, k)'
      PROVE  On(d)'
  <2>1. Port(d) \in Nat \ {0}
    BY DEF Wired
  <2>2. k # n + 1
    BY <1>3, <1>5, <1>8, <2>1 DEF Reached
  <2>3. k \in 1 .. n /\ k \in DOMAIN frames /\ frames'[k] = frames[k]
    BY <1>3, <1>6, <2>2
  <2>4. Reached(d, k)
    <3>1. Port(d) < frames[k].port \/ Port(d) = frames[k].port
      BY <1>8, <2>3 DEF Reached
    <3> QED
      BY <1>5, <3>1 DEF Reached
  <2> QED
    BY <1>5, <1>8, <2>3, <2>4 DEF FoundInv
<1>9. ASSUME NEW k \in 1 .. n + 1, k > 1 PROVE frames'[k].ports >= Desc[frames'[k].hub].ports
  BY <1>3, <1>5, <1>6, <1>9 DEF FoundInv
<1>10. ASSUME NEW d \in Devs, Up(d) # Host
       PROVE  On(d)' \/ ~ On(Up(d))' \/ InFrames(Up(d))'
  <2>1. Up(d) \in Devs
    BY <1>10, BusAssumption DEF Up
  <2>2. On(d) \/ ~ On(Up(d)) \/ InFrames(Up(d)) \/ Here(Up(d))
    BY <1>5, <1>10 DEF FoundInv
  <2>3. InFrames(Up(d)) => InFrames(Up(d))'
    BY <1>1, <1>2, <1>3, <1>6 DEF InFrames
  <2>4. Here(Up(d)) => Up(d) = seen
    BY <1>4, <2>1, SamePlace DEF Here
  <2>5. Up(d) = seen => InFrames(Up(d))'
    BY <1>3, <1>6 DEF InFrames
  <2> QED
    BY <1>5, <2>1, <2>2, <2>3, <2>4, <2>5
<1> QED
  BY <1>3, <1>7, <1>8, <1>9, <1>10, Zenon DEF FoundInv

\* How often something has gone wrong.
LEMMA LapseFacts ==
  ASSUME BusType, NEW n \in Nat, Happens(n)
  PROVE  /\ lapses' \in Nat /\ lapses' <= MaxLapses /\ lapses <= lapses'
         /\ lapses' = 0 => lapses = 0 /\ n = 0
  BY DEF BusType, Happens

\* No driver has begun, and the list stays as it is.
LEMMA SameClaims ==
  ASSUME BusType, ListInv, ClaimInv, device_list' = device_list, claimed' = claimed,
         doing' \in Enumerating \cup {"port", "hid"},
         lapses' \in Nat, lapses <= lapses', lapses' <= MaxLapses,
         \A d \in Devs : On(d) /\ Conf(d) => Conf(d)'
  PROVE  ClaimInv'
<1>1. \A r \in Claimers : doing' \in Before(r)
  BY DEF Before
<1>2. \A i \in DOMAIN device_list : Conf(device_list[i].dev) => Conf(device_list[i].dev)'
  <2> SUFFICES ASSUME NEW i \in DOMAIN device_list, Conf(device_list[i].dev)
               PROVE  Conf(device_list[i].dev)'
    OBVIOUS
  <2>1. PICK d \in Devs : d = device_list[i].dev
    BY ListFacts
  <2>2. On(d) /\ Conf(d)
    BY <2>1 DEF ListInv
  <2>3. d = device_list'[i].dev
    BY <2>1
  <2>4. Conf(d)'
    BY <2>2
  <2> QED
    BY <2>3, <2>4 DEF Conf
<1>3. lapses' <= 1 => lapses <= 1 /\ (lapses = 1 => lapses' = 1)
  BY DEF BusType
<1>4. lapses' <= 1 => \A i \in DOMAIN device_list' : Conf(device_list[i].dev)' \/ lapses' = 1
  BY <1>2, <1>3 DEF ClaimInv
<1>5. \A r \in Claimers : claimed'[r] # 0 =>
        \E i \in DOMAIN device_list' :
          /\ device_list'[i].address = claimed'[r] /\ Fits(r, Desc[device_list'[i].dev])
          /\ lapses' <= 1 => Conf(device_list[i].dev)'
  BY <1>2, <1>3 DEF ClaimInv
<1> QED
  BY <1>1, <1>4, <1>5 DEF ClaimInv

\* The list grows by a device that is configured, or something has gone wrong.
LEMMA GrownClaims ==
  ASSUME BusType, ListInv, ClaimInv, NEW r \in Entry, device_list' = <<r>> \o device_list,
         claimed' = claimed, doing' \in Enumerating \cup {"port", "hid"},
         lapses' \in Nat, lapses <= lapses', lapses' <= MaxLapses,
         \A d \in Devs : Conf(d) => Conf(d)',
         lapses < lapses' \/ bus'[r.dev].conf = TRUE
  PROVE  ClaimInv'
<1>1. \A s \in Claimers : doing' \in Before(s)
  BY DEF Before
<1>2. /\ DOMAIN device_list' = 1 .. Len(device_list) + 1
      /\ device_list'[1] = r
      /\ \A i \in DOMAIN device_list : i + 1 \in DOMAIN device_list' /\ device_list'[i + 1] = device_list[i]
      /\ \A i \in DOMAIN device_list' : i # 1 => i - 1 \in DOMAIN device_list /\ device_list'[i] = device_list[i - 1]
  BY GrownList
<1>3. \A i \in DOMAIN device_list : device_list[i].dev \in Devs
  BY ListFacts
<1>4. \A d \in Devs : bus[d].conf = TRUE => bus'[d].conf = TRUE
  BY DEF Conf
<1>5. lapses' <= 1 => lapses <= 1 /\ (lapses = 1 \/ lapses < lapses' => lapses' = 1)
  BY DEF BusType
<1>6. ASSUME lapses' <= 1, NEW i \in DOMAIN device_list'
      PROVE  bus'[device_list'[i].dev].conf = TRUE \/ lapses' = 1
  <2>1. CASE i = 1
    BY <1>2, <1>5, <1>6, <2>1
  <2>2. CASE i # 1
    <3>1. i - 1 \in DOMAIN device_list /\ device_list'[i] = device_list[i - 1]
      BY <1>2, <2>2
    <3>2. bus[device_list[i - 1].dev].conf = TRUE \/ lapses = 1
      BY <1>5, <1>6, <3>1 DEF ClaimInv, Conf
    <3> QED
      BY <1>3, <1>4, <1>5, <1>6, <3>1, <3>2
  <2> QED
    BY <2>1, <2>2
<1>7. ASSUME NEW s \in Claimers, claimed'[s] # 0
      PROVE  \E i \in DOMAIN device_list' :
               /\ device_list'[i].address = claimed'[s] /\ Fits(s, Desc[device_list'[i].dev])
               /\ lapses' <= 1 => bus'[device_list'[i].dev].conf = TRUE
  <2>1. PICK i \in DOMAIN device_list :
          /\ device_list[i].address = claimed[s] /\ Fits(s, Desc[device_list[i].dev])
          /\ lapses <= 1 => bus[device_list[i].dev].conf = TRUE
    BY <1>7 DEF ClaimInv, Conf
  <2>2. i + 1 \in DOMAIN device_list' /\ device_list'[i + 1] = device_list[i]
    BY <1>2
  <2>3. lapses' <= 1 => bus'[device_list'[i + 1].dev].conf = TRUE
    BY <1>3, <1>4, <1>5, <2>1, <2>2
  <2> QED
    BY <2>1, <2>2, <2>3
<1> QED
  BY <1>1, <1>6, <1>7 DEF ClaimInv, Conf

--------------------------------------------------------------------------------

\* The device in a port is being dealt with.
LEMMA HereFacts ==
  ASSUME Wired, BusType, OnceInv, Busy
  PROVE  \E c \in Devs : Here(c) /\ \A d \in Devs : Here(d) => d = c
<1>1. PICK c \in Devs : Here(c)
  BY DEF OnceInv
<1> QED
  BY <1>1, SamePlace DEF Here

\* A port is enabled, or the request has failed, which is noted; its device is next.
LEMMA EnabledOK ==
  ASSUME Wired, BusInv, doing = "port", doing' = "first8", frames' = frames, NEW d \in Devs, Here(d),
         bus' \in [Devs -> Unit], \A e \in Devs : e # d => bus'[e] = bus[e],
         bus'[d] = bus[d] \/ bus'[d].addr = 0,
         next_address' = next_address, new_addr' = new_addr, device_list' = device_list,
         walk' = walk, claimed' = claimed, lapses' \in Nat, lapses <= lapses', lapses' <= MaxLapses,
         lapses' = 0 => lapses = 0 /\ On(d)'
  PROVE  BusInv'
<1>1. /\ BusType /\ PathInv /\ OnceInv /\ AddressInv /\ CurrentInv /\ ListInv /\ FoundInv /\ ClaimInv
  BY DEF BusInv
<1>2. BusType'
  BY <1>1 DEF BusType, Enumerating
<1>3. ~ On(d)
  BY <1>1, TurnFacts
<1>4. PathInv' /\ OnceInv'
  BY <1>1, <1>2, ResetPath
<1>5. AddressInv'
  BY <1>1, <1>3, ResetAddresses
<1>6. \A e \in Devs : e # d => (On(e)' <=> On(e)) /\ (Conf(e)' <=> Conf(e)) /\ bus'[e].addr = bus[e].addr
  BY DEF On, Conf
<1>7. \A e : Here(e)' <=> Here(e)
  BY DEF Here, Frame
<1>8. On(d)' => bus'[d].addr = 0
  BY <1>3 DEF On
<1>9. \A e \in Devs : Here(e) => e = d
  BY SamePlace DEF Here
<1>10. CurrentInv'
  BY <1>1, <1>6, <1>7, <1>8, <1>9 DEF CurrentInv
<1>11. \A e \in Listed : e \in Devs /\ On(e)
  BY <1>1, ListFacts DEF Listed, ListInv
<1>12. ListInv'
  <2>1. \A e \in Devs : On(e) => On(e)' /\ bus'[e].addr = bus[e].addr
    BY <1>3, <1>6
  <2>2. \A e \in Listed : ~ Here(e)'
    BY <1>3, <1>7, <1>9, <1>11
  <2> QED
    BY <1>1, <2>1, <2>2, SameList
<1>13. FoundInv'
  BY <1>1, ResetFound
<1>14. ClaimInv'
  BY <1>1, <1>3, <1>6, SameClaims DEF Enumerating
<1> QED
  BY <1>2, <1>4, <1>5, <1>10, <1>12, <1>13, <1>14 DEF BusInv

\* The next port is turned to; if nothing went wrong there was nothing in the last.
LEMMA SkipOK ==
  ASSUME Wired, BusInv, AddressInv', GoOn, doing \in Enumerating \cup {"port"},
         bus' \in [Devs -> Unit], \A d \in Devs : (On(d)' <=> On(d)) /\ (Conf(d)' <=> Conf(d)),
         \A d \in Devs : bus[d].addr # 0 => bus'[d].addr = bus[d].addr,
         \A d \in Devs : On(d)' => bus'[d].addr # 0,
         next_address' \in Nat, new_addr' \in Nat, device_list' = device_list,
         walk' = walk, claimed' = claimed, lapses' \in Nat, lapses <= lapses', lapses' <= MaxLapses,
         lapses' = 0 => lapses = 0 /\ \A d \in Devs : ~ Here(d)
  PROVE  BusInv'
<1>1. /\ BusType /\ PathInv /\ OnceInv /\ AddressInv /\ CurrentInv /\ ListInv /\ FoundInv /\ ClaimInv
  BY DEF BusInv
<1>2. frames' = NextPort /\ doing' = "port"
  BY DEF GoOn
<1>3. Listed' = Listed /\ ~ Busy'
  BY <1>2 DEF Listed, Busy, Enumerating
<1>4. BusType'
  BY <1>1, <1>2, GoOnFrames DEF BusType
<1>5. PathInv' /\ OnceInv'
  BY <1>1, <1>2, <1>4, GoOnPath
<1>6. CurrentInv'
  BY <1>2 DEF CurrentInv
<1>7. ListInv'
  BY <1>1, <1>3, SameList
<1>8. FoundInv'
  BY <1>1, <1>2, <1>3, <1>4, GoOnFound
<1>9. ClaimInv'
  BY <1>1, <1>2, SameClaims
<1> QED
  BY <1>4, <1>5, <1>6, <1>7, <1>8, <1>9 DEF BusInv

\* The loop of uhci_init.
LEMMA RootPortOK ==
  ASSUME Wired, BusInv, RootPort
  PROVE  BusInv'
<1>1. /\ BusType /\ PathInv /\ OnceInv /\ AddressInv /\ CurrentInv /\ ListInv /\ FoundInv /\ ClaimInv
  BY DEF BusInv
<1>2. /\ doing = "port" /\ Len(frames) = 1 /\ next_address' = next_address /\ new_addr' = new_addr
      /\ seen' = seen /\ device_list' = device_list /\ walk' = walk /\ claimed' = claimed
      /\ lapses' = lapses
  BY DEF RootPort, lists
<1>3. Frame = frames[1] /\ Frame.hub = Host
  BY <1>1, <1>2, FrameFacts DEF PathInv
<1>4. lapses' \in Nat /\ lapses <= lapses' /\ lapses' <= MaxLapses /\ (lapses' = 0 => lapses = 0) /\ lapses \in Nat
  BY <1>1, <1>2 DEF BusType
<1>5. CASE PluggedIn(Host, Frame.port) = {} /\ GoOn /\ UNCHANGED bus
  <2>1. frames' = NextPort /\ doing' = "port" /\ bus' = bus
    BY <1>5 DEF GoOn
  <2>2. \A d \in Devs : ~ Here(d)
    <3>1. \A d \in Devs : Place[d] # <<Host, Frame.port>>
      BY <1>5 DEF PluggedIn
    <3> QED
      BY <1>3, <3>1 DEF Here, Wired
  <2>3. /\ \A d \in Devs : (On(d)' <=> On(d)) /\ (Conf(d)' <=> Conf(d)) /\ bus'[d].addr = bus[d].addr
        /\ Listed' = Listed /\ ~ Busy'
    BY <1>2, <2>1 DEF On, Conf, Listed, Busy, Enumerating
  <2>4. AddressInv'
    BY <1>1, <1>2, <2>3, SameAddresses
  <2>5. \A d \in Devs : On(d) => bus[d].addr # 0
    BY <1>1, <1>2 DEF CurrentInv
  <2>6. bus' \in [Devs -> Unit] /\ next_address' \in Nat /\ new_addr' \in Nat
    BY <1>1, <1>2, <2>1 DEF BusType
  <2> QED
    BY <1>2, <1>4, <1>5, <2>2, <2>3, <2>4, <2>5, <2>6, SkipOK
<1>6. CASE \E d \in PluggedIn(Host, Frame.port) : bus' = ResetPort(d) /\ doing' = "first8" /\ UNCHANGED frames
  <2>1. PICK d \in Devs : Place[d] = <<Host, Frame.port>> /\ bus' = ResetPort(d) /\ doing' = "first8" /\ frames' = frames
    BY <1>6 DEF PluggedIn
  <2>2. Here(d)
    BY <1>3, <2>1 DEF Here, Up, Port
  <2>3. /\ bus' \in [Devs -> Unit] /\ On(d)' /\ bus'[d].addr = 0
        /\ \A e \in Devs : e # d => bus'[e] = bus[e]
    BY <1>1, <2>1, ResetFacts
  <2> QED
    BY <1>2, <1>4, <2>1, <2>2, <2>3, EnabledOK
<1> QED
  BY <1>5, <1>6 DEF RootPort

\* What is in a hub's port answers, or rather the hub does for it, as long as
\* nothing is lost.
LEMMA HubAnswers ==
  ASSUME Wired, BusType, PathInv, Len(frames) # 1, NEW d \in Devs, Here(d)
  PROVE  {h \in Answering(Frame.addr) : Desc[h].ports > 0} # {}
<1>1. /\ Len(frames) \in DOMAIN frames /\ Len(frames) > 1 /\ Frame = frames[Len(frames)]
  BY FrameFacts
<1>2. Frame.hub \in Devs /\ On(Frame.hub) /\ bus[Frame.hub].addr = Frame.addr
  BY <1>1 DEF PathInv
<1>3. Frame.hub \in Answering(Frame.addr)
  BY <1>2 DEF Answering, On
<1>4. Up(d) = Frame.hub /\ Up(d) # Host
  BY <1>2, BusAssumption DEF Here
<1>5. Port(d) \in Nat \ {0} /\ Port(d) <= Desc[Frame.hub].ports /\ Desc[Frame.hub].ports \in Nat
  BY <1>2, <1>4 DEF Wired
<1>6. Desc[Frame.hub].ports > 0
  BY <1>5
<1> QED
  BY <1>3, <1>6

\* The loop of usb_hub_scan.
LEMMA HubPortOK ==
  ASSUME Wired, BusInv, HubPort
  PROVE  BusInv'
<1> DEFINE hubs == {h \in Answering(Frame.addr) : Desc[h].ports > 0}
           there == PluggedIn(Frame.hub, Frame.port)
<1>1. /\ BusType /\ PathInv /\ OnceInv /\ AddressInv /\ CurrentInv /\ ListInv /\ FoundInv /\ ClaimInv
  BY DEF BusInv
<1>2. /\ doing = "port" /\ Len(frames) # 1 /\ next_address' = next_address /\ new_addr' = new_addr
      /\ seen' = seen /\ device_list' = device_list /\ walk' = walk /\ claimed' = claimed
  BY <1>1, FrameFacts DEF HubPort, lists
<1>3. \A d \in Devs : d \in there <=> Here(d)
  <2>1. \A d \in Devs : Place[d] = <<Up(d), Port(d)>>
    BY DEF Wired
  <2> QED
    BY <2>1 DEF PluggedIn, Here
<1>4. (\E d \in Devs : Here(d)) => hubs # {}
  BY <1>1, <1>2, HubAnswers
<1>5. PICK st \in Outcomes(hubs, Lapses \cap {"lost"}) :
        IF ~ st.ok \/ there = {}
        THEN GoOn /\ Happens(st.lapse) /\ UNCHANGED bus
        ELSE \E rs \in Outcomes(hubs, Lapses), d \in there :
               /\ Happens(st.lapse + rs.lapse)
               /\ bus' = IF rs.done THEN ResetPort(d) ELSE bus
               /\ doing' = "first8" /\ UNCHANGED frames
  BY DEF HubPort
<1>6. /\ st.ok \in BOOLEAN /\ st.lapse \in {0, 1}
      /\ hubs # {} /\ st.lapse = 0 => st.ok = TRUE
  BY OutcomeFacts
<1>7. there \subseteq Devs
  BY DEF PluggedIn
<1> HIDE DEF hubs, there
<1>8. CASE ~ st.ok \/ there = {}
  <2>1. GoOn /\ Happens(st.lapse) /\ bus' = bus
    BY <1>5, <1>8
  <2>2. /\ lapses' \in Nat /\ lapses' <= MaxLapses /\ lapses <= lapses'
        /\ lapses' = 0 => lapses = 0 /\ st.lapse = 0
    BY <1>1, <1>6, <2>1, LapseFacts
  <2>3. lapses' = 0 => \A d \in Devs : ~ Here(d)
    BY <1>3, <1>4, <1>6, <1>8, <2>2
  <2>4. \A d \in Devs : (On(d)' <=> On(d)) /\ (Conf(d)' <=> Conf(d)) /\ bus'[d].addr = bus[d].addr
    BY <2>1 DEF On, Conf
  <2>5. AddressInv'
    BY <1>1, <1>2, <2>4, SameAddresses
  <2>6. \A d \in Devs : On(d) => bus[d].addr # 0
    BY <1>1, <1>2 DEF CurrentInv
  <2>7. bus' \in [Devs -> Unit] /\ next_address' \in Nat /\ new_addr' \in Nat
    BY <1>1, <1>2, <2>1 DEF BusType
  <2> QED
    BY <1>2, <2>1, <2>2, <2>3, <2>4, <2>5, <2>6, <2>7, SkipOK
<1>9. CASE ~ (~ st.ok \/ there = {})
  <2>1. PICK rs \in Outcomes(hubs, Lapses), d \in there :
          /\ Happens(st.lapse + rs.lapse)
          /\ bus' = IF rs.done THEN ResetPort(d) ELSE bus
          /\ doing' = "first8" /\ frames' = frames
    BY <1>5, <1>9
  <2>2. /\ rs.done \in BOOLEAN /\ rs.lapse \in {0, 1}
        /\ hubs # {} /\ rs.lapse = 0 => rs.done = TRUE
    BY OutcomeFacts
  <2>3. d \in Devs /\ Here(d) /\ hubs # {}
    BY <1>3, <1>4, <1>7
  <2>4. PICK n \in Nat : n = st.lapse + rs.lapse /\ (n = 0 => st.lapse = 0 /\ rs.lapse = 0)
    BY <1>6, <2>2
  <2>5. /\ lapses' \in Nat /\ lapses' <= MaxLapses /\ lapses <= lapses'
        /\ lapses' = 0 => lapses = 0 /\ n = 0
    BY <1>1, <2>1, <2>4, LapseFacts
  <2>6. rs.done = TRUE =>
          /\ bus' \in [Devs -> Unit] /\ On(d)' /\ bus'[d].addr = 0
          /\ \A e \in Devs : e # d => bus'[e] = bus[e]
    BY <1>1, <2>1, <2>3, ResetFacts
  <2>7. rs.done = FALSE => bus' = bus
    BY <2>1
  <2>8. /\ bus' \in [Devs -> Unit] /\ (bus'[d] = bus[d] \/ bus'[d].addr = 0)
        /\ \A e \in Devs : e # d => bus'[e] = bus[e]
    BY <1>1, <2>2, <2>6, <2>7 DEF BusType
  <2>9. lapses' = 0 => lapses = 0 /\ On(d)'
    BY <2>2, <2>3, <2>4, <2>5, <2>6
  <2> QED
    BY <1>2, <2>1, <2>3, <2>5, <2>8, <2>9, EnabledOK
<1> QED
  BY <1>8, <1>9

\* The end of the ports.
LEMMA PortsDoneOK ==
  ASSUME Wired, BusInv, PortsDone
  PROVE  BusInv'
<1>1. /\ BusType /\ PathInv /\ OnceInv /\ AddressInv /\ CurrentInv /\ ListInv /\ FoundInv /\ ClaimInv
  BY DEF BusInv
<1>2. /\ doing = "port" /\ next_address' = next_address /\ new_addr' = new_addr /\ bus' = bus
      /\ seen' = seen /\ device_list' = device_list /\ walk' = walk /\ claimed' = claimed
      /\ lapses' = lapses
  BY DEF PortsDone, lists
<1>3. doing' \in {"hid", "port"} /\ ~ Busy'
  BY <1>2 DEF PortsDone, Busy, Enumerating
<1>4. /\ \A d \in Devs : (On(d)' <=> On(d)) /\ (Conf(d)' <=> Conf(d)) /\ bus'[d].addr = bus[d].addr
      /\ Listed' = Listed
  BY <1>2 DEF On, Conf, Listed
<1>5. frames' \in Seq(FrameType) /\ Len(frames') # 0
  <2>1. CASE Len(frames) = 1
    BY <1>1, <2>1 DEF PortsDone, BusType
  <2>2. CASE Len(frames) # 1
    <3>1. PICK n \in Nat \ {0} : Len(frames) = n + 1
      <4>1. Len(frames) - 1 \in Nat \ {0} /\ Len(frames) = (Len(frames) - 1) + 1
        BY <1>1, <2>2, FrameFacts
      <4> QED
        BY <4>1
    <3>2. frames' = [Front(frames) EXCEPT ![Len(frames) - 1].port = @ + 1]
      BY <2>2 DEF PortsDone
    <3>3. frames' \in Seq(FrameType) /\ Len(frames') = n
      BY <1>1, <3>1, <3>2, PopFrames
    <3> QED
      BY <3>3
  <2> QED
    BY <2>1, <2>2
<1>6. BusType'
  BY <1>1, <1>2, <1>3, <1>5 DEF BusType
<1>7. PathInv' /\ OnceInv'
  BY <1>1, <1>6, DonePath
<1>8. AddressInv'
  BY <1>1, <1>2, <1>4, SameAddresses
<1>9. CurrentInv'
  BY <1>1, <1>2, <1>3, <1>4 DEF CurrentInv
<1>10. ListInv'
  BY <1>1, <1>2, <1>3, <1>4, SameList
<1>11. FoundInv'
  BY <1>1, <1>6, DoneFound
<1>12. lapses \in Nat /\ lapses <= lapses' /\ lapses' <= MaxLapses
  BY <1>1, <1>2 DEF BusType
<1>13. ClaimInv'
  BY <1>1, <1>2, <1>3, <1>4, <1>12, SameClaims
<1> QED
  BY <1>6, <1>7, <1>8, <1>9, <1>10, <1>11, <1>13 DEF BusInv

\* The next request to the device in the port.
LEMMA StayOK ==
  ASSUME Wired, BusInv, AddressInv', CurrentInv', frames' = frames,
         doing \in Enumerating \ {"hub"}, doing' \in Enumerating \ {"hub"},
         bus' \in [Devs -> Unit], \A d \in Devs : (On(d)' <=> On(d)) /\ (Conf(d)' <=> Conf(d)),
         \A d \in Devs : bus[d].addr # 0 => bus'[d].addr = bus[d].addr,
         next_address' \in Nat, new_addr' \in Nat, device_list' = device_list,
         walk' = walk, claimed' = claimed, lapses' \in Nat, lapses <= lapses', lapses' <= MaxLapses,
         lapses' = 0 => lapses = 0
  PROVE  BusInv'
<1>1. /\ BusType /\ PathInv /\ OnceInv /\ AddressInv /\ CurrentInv /\ ListInv /\ FoundInv /\ ClaimInv
  BY DEF BusInv
<1>2. BusType'
  BY <1>1 DEF BusType
<1>3. Busy /\ Busy' /\ doing # "port" /\ doing' # "port" /\ Listed' = Listed
  BY DEF Busy, Enumerating, Listed
<1>4. PathInv' /\ OnceInv'
  BY <1>1, <1>2, <1>3, StayPath
<1>5. ListInv'
  <2>1. \A d \in Listed : ~ Here(d)
    BY <1>1, <1>3 DEF ListInv, Listed
  <2>2. \A d : Here(d)' <=> Here(d)
    BY DEF Here, Frame
  <2> QED
    BY <1>1, <2>1, <2>2, SameList
<1>6. FoundInv'
  BY <1>1, <1>3, StayFound
<1>7. ClaimInv'
  BY <1>1, SameClaims
<1> QED
  BY <1>2, <1>4, <1>5, <1>6, <1>7 DEF BusInv

\* At address 0 nothing is lost on the way there, by assumption.
LEMMA AtZeroFacts ==
  ASSUME ~ StuckAtZero, NEW K
  PROVE  "lost" \notin AtZero(K) /\ "early" \notin AtZero(K) /\ "late" \notin AtZero(K \cap {"lost"})
  BY DEF AtZero

\* The first 8 bytes of the device descriptor.
LEMMA ReadFirst8OK ==
  ASSUME Wired, ~ StuckAtZero, BusInv, ReadFirst8
  PROVE  BusInv'
<1>1. /\ BusType /\ PathInv /\ OnceInv /\ AddressInv /\ CurrentInv /\ ListInv /\ FoundInv /\ ClaimInv
  BY DEF BusInv
<1>2. /\ doing = "first8" /\ next_address' = next_address /\ new_addr' = new_addr /\ bus' = bus
      /\ seen' = seen /\ device_list' = device_list /\ walk' = walk /\ claimed' = claimed
  BY DEF ReadFirst8, lists
<1>3. PICK o \in Outcomes(Answering(0), AtZero(Lapses \cap {"lost"})) :
        /\ Happens(o.lapse)
        /\ IF o.ok THEN doing' = "address" /\ frames' = frames ELSE GoOn
  BY DEF ReadFirst8
<1>4. /\ o.ok \in BOOLEAN /\ o.lapse \in {0, 1}
      /\ o.ok = TRUE <=> Answering(0) # {}
  BY OutcomeFacts, AtZeroFacts
<1>5. /\ lapses' \in Nat /\ lapses' <= MaxLapses /\ lapses <= lapses'
      /\ lapses' = 0 => lapses = 0
  BY <1>1, <1>3, <1>4, LapseFacts
<1>6. \A d \in Devs : (On(d)' <=> On(d)) /\ (Conf(d)' <=> Conf(d)) /\ bus'[d].addr = bus[d].addr
  BY <1>2 DEF On, Conf
<1>7. AddressInv'
  BY <1>1, <1>2, <1>6, SameAddresses
<1>8. bus' \in [Devs -> Unit] /\ next_address' \in Nat /\ new_addr' \in Nat /\ Busy
  BY <1>1, <1>2 DEF BusType, Busy, Enumerating
<1>9. PICK c \in Devs : Here(c) /\ \A d \in Devs : Here(d) => d = c
  BY <1>1, <1>8, HereFacts
<1>10. Answering(0) # {} <=> On(c)
  BY <1>1, <1>2, <1>9 DEF Answering, CurrentInv, On
<1>11. CASE o.ok = TRUE
  <2>1. doing' = "address" /\ frames' = frames
    BY <1>3, <1>11
  <2>2. \A d : Here(d)' <=> Here(d)
    BY <2>1 DEF Here, Frame
  <2>3. CurrentInv'
    BY <1>1, <1>2, <1>4, <1>6, <1>9, <1>10, <1>11, <2>1, <2>2 DEF CurrentInv
  <2> QED
    BY <1>2, <1>5, <1>6, <1>7, <1>8, <2>1, <2>3, StayOK DEF Enumerating
<1>12. CASE o.ok = FALSE
  <2>1. GoOn
    BY <1>3, <1>12
  <2>2. ~ On(c)
    BY <1>4, <1>10, <1>12
  <2>3. \A d \in Devs : On(d)' => bus'[d].addr # 0
    BY <1>1, <1>6, <1>9, <2>2 DEF CurrentInv
  <2>4. lapses' # 0
    <3>1. Len(frames) \in DOMAIN frames /\ Frame = frames[Len(frames)]
      BY <1>1, FrameFacts
    <3>2. Up(c) = frames[Len(frames)].hub /\ Reached(c, Len(frames))
      BY <1>8, <1>9, <3>1 DEF Here, Reached
    <3> QED
      BY <1>1, <1>5, <2>2, <3>1, <3>2 DEF FoundInv
  <2> QED
    BY <1>2, <1>5, <1>6, <1>7, <1>8, <2>1, <2>3, <2>4, SkipOK DEF Enumerating
<1> QED
  BY <1>4, <1>11, <1>12

\* SET_ADDRESS:  whether or not the driver sees it, the device has its address.
LEMMA SetAddressOK ==
  ASSUME Wired, ~ StuckAtZero, BusInv, SetAddress
  PROVE  BusInv'
<1>1. /\ BusType /\ PathInv /\ OnceInv /\ AddressInv /\ CurrentInv /\ ListInv /\ FoundInv /\ ClaimInv
  BY DEF BusInv
<1>2. /\ doing = "address" /\ new_addr' = (IF next_address = 0 THEN 1 ELSE next_address)
      /\ seen' = seen /\ device_list' = device_list /\ walk' = walk /\ claimed' = claimed
  BY DEF SetAddress, lists
<1>3. PICK o \in Outcomes(Answering(0), AtZero(Lapses)) :
        /\ Happens(o.lapse)
        /\ next_address' = (next_address + 1) % ADDRESSES
        /\ bus' = IF o.done THEN Addressed(0, new_addr') ELSE bus
        /\ IF o.ok THEN doing' = "device" /\ frames' = frames ELSE GoOn
  BY DEF SetAddress, SpentAddress
<1>4. Busy
  BY <1>2 DEF Busy, Enumerating
<1>5. PICK c \in Devs : Here(c) /\ \A d \in Devs : Here(d) => d = c
  BY <1>1, <1>4, HereFacts
<1>6. c \in Answering(0)
  BY <1>1, <1>2, <1>5 DEF CurrentInv, Answering, On
<1>7. /\ o.ok \in BOOLEAN /\ o.lapse \in {0, 1} /\ o.done = TRUE
      /\ o.lapse = 0 => o.ok = TRUE
  BY <1>6, OutcomeFacts, AtZeroFacts
<1>8. /\ lapses' \in Nat /\ lapses' <= MaxLapses /\ lapses <= lapses'
      /\ lapses' = 0 => lapses = 0 /\ o.lapse = 0
  BY <1>1, <1>3, <1>7, LapseFacts
<1>9. next_address # 0
  <2>1. bus[c].addr \in Nat /\ bus[c].addr < next_address /\ next_address \in Nat
    BY <1>1, ListFacts DEF AddressInv, BusType
  <2> QED
    BY <2>1
<1>10. new_addr' = next_address /\ bus' = Addressed(0, next_address)
  BY <1>2, <1>3, <1>7, <1>9
<1>11. /\ AddressInv' /\ On(c) /\ On(c)' /\ bus'[c].addr = next_address
       /\ \A d \in Devs : (On(d)' <=> On(d)) /\ (Conf(d)' <=> Conf(d))
       /\ \A d \in Devs : d # c => bus'[d].addr = bus[d].addr
       /\ bus' \in [Devs -> Unit]
       /\ \A d \in Devs : On(d) => bus'[d].addr # 0
  BY <1>1, <1>2, <1>3, <1>5, <1>10, NewAddress
<1>12. bus[c].addr = 0
  BY <1>1, <1>2, <1>5, <1>11 DEF CurrentInv
<1>13. \A d \in Devs : bus[d].addr # 0 => bus'[d].addr = bus[d].addr
  BY <1>11, <1>12
<1>14. next_address' \in Nat /\ new_addr' \in Nat
  BY <1>1, <1>3, <1>10, BusAssumption DEF BusType
<1>15. CASE o.ok = TRUE
  <2>1. doing' = "device" /\ frames' = frames
    BY <1>3, <1>15
  <2>2. \A d : Here(d)' <=> Here(d)
    BY <2>1 DEF Here, Frame
  <2>3. CurrentInv'
    BY <1>5, <1>9, <1>10, <1>11, <2>1, <2>2 DEF CurrentInv
  <2> QED
    BY <1>2, <1>8, <1>11, <1>13, <1>14, <2>1, <2>3, StayOK DEF Enumerating
<1>16. CASE o.ok = FALSE
  <2>1. GoOn /\ lapses' # 0
    BY <1>3, <1>7, <1>8, <1>16
  <2> QED
    BY <1>2, <1>8, <1>11, <1>13, <1>14, <2>1, SkipOK DEF Enumerating
<1> QED
  BY <1>7, <1>15, <1>16

\* The descriptors are those of the device in the port.
LEMMA ReadDescriptorsOK ==
  ASSUME Wired, BusInv, ReadDescriptors
  PROVE  BusInv'
<1>1. /\ BusType /\ PathInv /\ OnceInv /\ AddressInv /\ CurrentInv /\ ListInv /\ FoundInv /\ ClaimInv
  BY DEF BusInv
<1>2. /\ doing = "device" /\ next_address' = next_address /\ new_addr' = new_addr /\ bus' = bus
      /\ device_list' = device_list /\ walk' = walk /\ claimed' = claimed
  BY DEF ReadDescriptors, lists
<1>3. PICK o \in Outcomes(Answering(new_addr), Lapses \cap {"lost"}) :
        /\ Happens(o.lapse)
        /\ IF o.ok THEN doing' = "register" /\ frames' = frames /\ seen' \in Answering(new_addr)
                   ELSE GoOn /\ UNCHANGED seen
  BY DEF ReadDescriptors
<1>4. bus' \in [Devs -> Unit] /\ next_address' \in Nat /\ new_addr' \in Nat /\ Busy
  BY <1>1, <1>2 DEF BusType, Busy, Enumerating
<1>5. PICK c \in Devs : Here(c) /\ \A d \in Devs : Here(d) => d = c
  BY <1>1, <1>4, HereFacts
<1>6. On(c) /\ bus[c].addr = new_addr /\ new_addr # 0 /\ c \in Answering(new_addr)
  BY <1>1, <1>2, <1>5 DEF CurrentInv, Answering, On
<1>7. /\ o.ok \in BOOLEAN /\ o.lapse \in {0, 1}
      /\ o.lapse = 0 => o.ok = TRUE
  <2>1. PICK A : A = Answering(new_addr) /\ A # {} /\ o \in Outcomes(A, Lapses \cap {"lost"})
    BY <1>3, <1>6
  <2> QED
    BY <2>1, OutcomeFacts, Zenon
<1>8. /\ lapses' \in Nat /\ lapses' <= MaxLapses /\ lapses <= lapses'
      /\ lapses' = 0 => lapses = 0 /\ o.lapse = 0
  BY <1>1, <1>3, <1>7, LapseFacts
<1>9. \A d \in Devs : (On(d)' <=> On(d)) /\ (Conf(d)' <=> Conf(d)) /\ bus'[d].addr = bus[d].addr
  BY <1>2 DEF On, Conf
<1>10. AddressInv'
  BY <1>1, <1>2, <1>9, SameAddresses
<1>11. \A d \in Devs : On(d) => bus[d].addr # 0
  BY <1>1, <1>2 DEF CurrentInv
<1>12. CASE o.ok = TRUE
  <2>1. doing' = "register" /\ frames' = frames /\ seen' \in Answering(new_addr)
    BY <1>3, <1>12
  <2>2. \A d : Here(d)' <=> Here(d)
    BY <2>1 DEF Here, Frame
  <2>3. seen' = c
    BY <1>1, <1>6, <2>1 DEF Answering, On, AddressInv
  <2>4. CurrentInv'
    <3>1. Here(seen)'
      BY <1>5, <2>1, <2>3 DEF Here, Frame
    <3> QED
      BY <1>2, <1>5, <1>6, <1>9, <1>11, <2>1, <2>2, <2>3, <3>1 DEF CurrentInv
  <2> QED
    BY <1>2, <1>4, <1>8, <1>9, <1>10, <2>1, <2>4, StayOK DEF Enumerating
<1>13. CASE o.ok = FALSE
  <2>1. GoOn /\ lapses' # 0
    BY <1>3, <1>7, <1>8, <1>13
  <2> QED
    BY <1>2, <1>4, <1>8, <1>9, <1>10, <1>11, <2>1, SkipOK DEF Enumerating
<1> QED
  BY <1>7, <1>12, <1>13

\* The device gets into the list and is configured.
LEMMA RegisterOK ==
  ASSUME Wired, BusInv, Register
  PROVE  BusInv'
<1>1. /\ BusType /\ PathInv /\ OnceInv /\ AddressInv /\ CurrentInv /\ ListInv /\ FoundInv /\ ClaimInv
  BY DEF BusInv
<1>2. /\ doing = "register" /\ next_address' = next_address /\ new_addr' = new_addr
      /\ seen' = seen /\ walk' = walk /\ claimed' = claimed
  BY DEF Register
<1>3. /\ seen \in Devs /\ Here(seen) /\ On(seen) /\ bus[seen].addr = new_addr /\ new_addr # 0
      /\ seen \in Answering(new_addr)
  BY <1>1, <1>2 DEF CurrentInv, Answering, On
<1>4. \A d \in Devs : On(d) => bus[d].addr # 0
  BY <1>1, <1>2 DEF CurrentInv
<1>5. next_address' \in Nat /\ new_addr' \in Nat /\ Busy
  BY <1>1, <1>2 DEF BusType, Busy, Enumerating
<1>6. \A d \in Devs : Here(d) => d = seen
  BY <1>3, SamePlace DEF Here
<1>7. CASE /\ "memory" \in Lapses /\ Happens(1)
           /\ GoOn
           /\ UNCHANGED <<bus, device_list>>
  <2>1. bus' = bus /\ device_list' = device_list
    BY <1>7
  <2>2. /\ lapses' \in Nat /\ lapses' <= MaxLapses /\ lapses <= lapses' /\ lapses' # 0
    BY <1>1, <1>7, LapseFacts
  <2>3. \A d \in Devs : (On(d)' <=> On(d)) /\ (Conf(d)' <=> Conf(d)) /\ bus'[d].addr = bus[d].addr
    BY <2>1 DEF On, Conf
  <2>4. AddressInv'
    BY <1>1, <1>2, <2>3, SameAddresses
  <2>5. bus' \in [Devs -> Unit]
    BY <1>1, <2>1 DEF BusType
  <2> QED
    BY <1>2, <1>4, <1>5, <1>7, <2>1, <2>2, <2>3, <2>4, <2>5, SkipOK DEF Enumerating
<1>8. CASE \E o \in Outcomes(Answering(new_addr), Lapses) :
             /\ Happens(o.lapse)
             /\ device_list' = <<[address |-> new_addr, dev |-> seen]>> \o device_list
             /\ bus' = IF o.done THEN Configured(new_addr) ELSE bus
             /\ IF Desc[seen].class = "hub" THEN doing' = "hub" /\ UNCHANGED frames ELSE GoOn
  <2>1. PICK A : A = Answering(new_addr) /\ A # {} /\ seen \in A
    BY <1>3
  <2>2. PICK o \in Outcomes(A, Lapses) :
          /\ Happens(o.lapse)
          /\ device_list' = <<[address |-> new_addr, dev |-> seen]>> \o device_list
          /\ bus' = IF o.done THEN Configured(new_addr) ELSE bus
          /\ IF Desc[seen].class = "hub" THEN doing' = "hub" /\ UNCHANGED frames ELSE GoOn
    BY <1>8, <2>1
  <2>3. /\ o.done \in BOOLEAN /\ o.lapse \in {0, 1}
        /\ o.lapse = 0 => o.done = TRUE
    BY <2>1, OutcomeFacts, Zenon
  <2>4. /\ lapses' \in Nat /\ lapses' <= MaxLapses /\ lapses <= lapses'
        /\ lapses' = 0 => lapses = 0
        /\ o.lapse = 1 => lapses < lapses'
    <3>1. lapses \in Nat /\ lapses' = lapses + o.lapse
      BY <1>1, <2>2 DEF BusType, Happens
    <3> QED
      BY <1>1, <2>2, <2>3, <3>1, LapseFacts
  <2>5. PICK r \in Entry : r = [address |-> new_addr, dev |-> seen] /\ r.address = new_addr /\ r.dev = seen
    <3>1. \A a \in Nat, d \in Devs :
            LET e == [address |-> a, dev |-> d] IN e \in Entry /\ e.address = a /\ e.dev = d
      BY DEF Entry
    <3>2. new_addr \in Nat /\ seen \in Devs
      BY <1>1, <1>3 DEF BusType
    <3> QED
      BY <3>1, <3>2, Zenon
  <2>6. device_list' = <<r>> \o device_list
    BY <2>2, <2>5
  <2>7. o.done = TRUE =>
          /\ bus' \in [Devs -> Unit]
          /\ \A d \in Devs : (On(d)' <=> On(d)) /\ bus'[d].addr = bus[d].addr
          /\ \A d \in Devs : Conf(d) => Conf(d)'
          /\ bus'[seen].conf = TRUE
    <3> SUFFICES ASSUME o.done = TRUE
                 PROVE  /\ bus' \in [Devs -> Unit]
                        /\ \A d \in Devs : (On(d)' <=> On(d)) /\ bus'[d].addr = bus[d].addr
                        /\ \A d \in Devs : Conf(d) => Conf(d)'
                        /\ bus'[seen].conf = TRUE
      OBVIOUS
    <3>1. bus' = Configured(new_addr)
      BY <2>2
    <3>2. \A d \in Answering(new_addr) : bus'[d].conf = TRUE
      BY <1>1, <3>1, ConfiguredFacts DEF Conf
    <3> QED
      BY <1>1, <1>3, <3>1, <3>2, ConfiguredFacts
  <2>8. o.done = FALSE => bus' = bus
    BY <2>2
  <2>9. /\ bus' \in [Devs -> Unit]
        /\ \A d \in Devs : (On(d)' <=> On(d)) /\ bus'[d].addr = bus[d].addr
        /\ \A d \in Devs : Conf(d) => Conf(d)'
        /\ lapses < lapses' \/ bus'[seen].conf = TRUE
    <3>1. CASE o.done = TRUE
      BY <2>7, <3>1
    <3>2. CASE o.done = FALSE
      BY <1>1, <2>3, <2>4, <2>8, <3>2 DEF BusType, On, Conf
    <3> QED
      BY <2>3, <3>1, <3>2
  <2>10. /\ device_list' \in Seq(Entry) /\ Listed' = Listed \cup {seen}
    BY <1>1, <2>5, <2>6, GrownList
  <2>11. AddressInv'
    BY <1>1, <1>2, <2>9, SameAddresses
  <2>12. CASE Desc[seen].class = "hub"
    <3>1. doing' = "hub" /\ frames' = frames /\ Busy'
      BY <2>2, <2>12 DEF Busy, Enumerating
    <3>2. BusType'
      BY <1>1, <1>2, <2>4, <2>9, <2>10, <3>1 DEF BusType, Enumerating
    <3>3. PathInv' /\ OnceInv'
      BY <1>1, <1>2, <1>5, <2>9, <3>1, <3>2, StayPath
    <3>4. CurrentInv'
      <4>1. \A d : Here(d)' <=> Here(d)
        BY <3>1 DEF Here, Frame
      <4>2. Here(seen)'
        BY <1>2, <1>3, <3>1 DEF Here, Frame
      <4> QED
        BY <1>2, <1>3, <1>4, <1>6, <2>9, <3>1, <4>1, <4>2 DEF CurrentInv
    <3>5. ListInv'
      BY <1>1, <1>2, <2>5, <2>6, <2>9, <3>1, AddedList
    <3>6. FoundInv'
      BY <1>1, <1>2, <1>5, <1>6, <2>4, <2>9, <2>10, <3>1, StayFound
    <3>7. ClaimInv'
      BY <1>1, <1>2, <2>4, <2>5, <2>6, <2>9, <3>1, GrownClaims DEF Enumerating
    <3> QED
      BY <2>11, <3>2, <3>3, <3>4, <3>5, <3>6, <3>7 DEF BusInv
  <2>13. CASE Desc[seen].class # "hub"
    <3>1. frames' = NextPort /\ doing' = "port" /\ ~ Busy'
      BY <2>2, <2>13 DEF Busy, Enumerating, GoOn
    <3>2. BusType'
      BY <1>1, <1>2, <2>4, <2>9, <2>10, <3>1, GoOnFrames DEF BusType, Enumerating
    <3>3. PathInv' /\ OnceInv'
      BY <1>1, <1>2, <2>9, <3>1, <3>2, GoOnPath DEF Enumerating
    <3>4. CurrentInv'
      BY <1>4, <2>9, <3>1 DEF CurrentInv
    <3>5. ListInv'
      BY <1>1, <1>2, <2>5, <2>6, <2>9, <3>1, AddedList
    <3>6. FoundInv'
      BY <1>1, <1>2, <1>3, <1>6, <2>4, <2>9, <2>10, <2>13, <3>1, <3>2, GoOnFound DEF Enumerating
    <3>7. ClaimInv'
      BY <1>1, <1>2, <2>4, <2>5, <2>6, <2>9, <3>1, GrownClaims
    <3> QED
      BY <2>11, <3>2, <3>3, <3>4, <3>5, <3>6, <3>7 DEF BusInv
  <2> QED
    BY <2>12, <2>13
<1> QED
  BY <1>7, <1>8 DEF Register

\* The ports of the hub are next.
LEMMA HubPortsOK ==
  ASSUME Wired, BusInv, HubPorts
  PROVE  BusInv'
<1>1. /\ BusType /\ PathInv /\ OnceInv /\ AddressInv /\ CurrentInv /\ ListInv /\ FoundInv /\ ClaimInv
  BY DEF BusInv
<1>2. /\ doing = "hub" /\ doing' = "port" /\ next_address' = next_address /\ new_addr' = new_addr /\ bus' = bus
      /\ seen' = seen /\ device_list' = device_list /\ walk' = walk /\ claimed' = claimed
  BY DEF HubPorts, lists
<1>3. /\ seen \in Devs /\ Here(seen) /\ On(seen) /\ bus[seen].addr = new_addr /\ new_addr # 0
      /\ seen \in Answering(new_addr)
  BY <1>1, <1>2 DEF CurrentInv, Answering, On
<1>4. PICK A : A = {h \in Answering(new_addr) : Desc[h].ports > 0}
  OBVIOUS
<1>5. PICK o \in Outcomes(A, Lapses \cap {"lost"}) :
        /\ Happens(o.lapse)
        /\ frames' = Append(frames, [hub |-> seen, addr |-> new_addr, port |-> 1,
                                     ports |-> IF o.ok THEN Desc[seen].ports ELSE FALLBACK])
  BY <1>4 DEF HubPorts
<1>6. /\ o.ok \in BOOLEAN /\ o.lapse \in {0, 1}
      /\ A # {} /\ o.lapse = 0 => o.ok = TRUE
  BY OutcomeFacts
<1>7. /\ lapses' \in Nat /\ lapses' <= MaxLapses /\ lapses <= lapses'
      /\ lapses' = 0 => lapses = 0 /\ o.lapse = 0
  BY <1>1, <1>5, <1>6, LapseFacts
<1>8. PICK p \in Nat : p = IF o.ok THEN Desc[seen].ports ELSE FALLBACK
  BY <1>3, BusAssumption DEF Wired
<1>9. PICK f \in FrameType : f = [hub |-> seen, addr |-> new_addr, port |-> 1, ports |-> p]
                              /\ f.hub = seen /\ f.addr = new_addr /\ f.port = 1 /\ f.ports = p
  <2>1. \A h \in Devs, a \in Nat, q \in Nat :
          LET e == [hub |-> h, addr |-> a, port |-> 1, ports |-> q]
          IN  e \in FrameType /\ e.hub = h /\ e.addr = a /\ e.port = 1 /\ e.ports = q
    BY DEF FrameType
  <2>2. new_addr \in Nat /\ seen \in Devs /\ p \in Nat
    BY <1>1, <1>3 DEF BusType
  <2>3. LET e == [hub |-> seen, addr |-> new_addr, port |-> 1, ports |-> p]
        IN  e \in FrameType /\ e.hub = seen /\ e.addr = new_addr /\ e.port = 1 /\ e.ports = p
    BY ONLY <2>1, <2>2, Zenon
  <2> QED
    BY ONLY <2>3, Zenon
<1>10. frames' = Append(frames, f)
  BY <1>5, <1>8, <1>9
<1>11. o.lapse = 0 => f.ports >= Desc[seen].ports
  <2>1. Desc[seen].ports \in Nat /\ FALLBACK \in Nat
    BY <1>3, BusAssumption DEF Wired
  <2>2. CASE Desc[seen].ports > 0
    <3>1. A # {}
      BY <1>3, <1>4, <2>2
    <3> QED
      BY <1>6, <1>8, <1>9, <2>1, <3>1
  <2>3. CASE Desc[seen].ports = 0
    BY <1>8, <1>9, <2>1, <2>3
  <2> QED
    BY <2>1, <2>2, <2>3
<1>12. BusType'
  BY <1>1, <1>2, <1>7, <1>10, PushFrames DEF BusType
<1>13. PathInv' /\ OnceInv'
  BY <1>1, <1>2, <1>9, <1>10, <1>12, PushPath
<1>14. \A d \in Devs : (On(d)' <=> On(d)) /\ (Conf(d)' <=> Conf(d)) /\ bus'[d].addr = bus[d].addr
  BY <1>2 DEF On, Conf
<1>15. AddressInv'
  BY <1>1, <1>2, <1>14, SameAddresses
<1>16. CurrentInv'
  BY <1>1, <1>2, <1>14 DEF CurrentInv
<1>17. ListInv'
  <2>1. ~ Busy'
    BY <1>2 DEF Busy, Enumerating
  <2> QED
    BY <1>1, <1>2, <1>14, <2>1, SameList
<1>18. FoundInv'
  BY <1>1, <1>2, <1>7, <1>9, <1>10, <1>11, PushFound
<1>19. ClaimInv'
  BY <1>1, <1>2, <1>7, <1>14, SameClaims
<1> QED
  BY <1>12, <1>13, <1>15, <1>16, <1>17, <1>18, <1>19 DEF BusInv

\* The drivers in their order.
LEMMA AfterFacts ==
  /\ After("hid") = "storage" /\ After("storage") = "keyboard"
  /\ After("keyboard") = "mouse" /\ After("mouse") = "over"
<1>1. DOMAIN Drivers = 1 .. 5
  BY DEF Drivers
<1>2. /\ Drivers[1] = "hid" /\ Drivers[2] = "storage" /\ Drivers[3] = "keyboard"
      /\ Drivers[4] = "mouse" /\ Drivers[5] = "over"
  BY DEF Drivers
<1>3. \A i \in 1 .. 5 : i = 1 \/ i = 2 \/ i = 3 \/ i = 4 \/ i = 5
  OBVIOUS
<1>4. ASSUME NEW n \in 1 .. 4, NEW s, Drivers[n] = s, \A i \in 1 .. 5 : Drivers[i] = s => i = n
      PROVE  After(s) = Drivers[n + 1]
  <2>1. n \in 1 .. 5
    OBVIOUS
  <2>2. (CHOOSE i \in DOMAIN Drivers : Drivers[i] = s) = n
    BY <1>1, <1>4, <2>1
  <2> QED
    BY <2>2, Zenon DEF After
<1>5. After("hid") = Drivers[1 + 1]
  BY <1>2, <1>3, <1>4
<1>6. After("storage") = Drivers[2 + 1]
  BY <1>2, <1>3, <1>4
<1>7. After("keyboard") = Drivers[3 + 1]
  BY <1>2, <1>3, <1>4
<1>8. After("mouse") = Drivers[4 + 1]
  BY <1>2, <1>3, <1>4
<1> QED
  BY <1>2, <1>5, <1>6, <1>7, <1>8

\* While the drivers look nothing changes on the bus but what is configured.
LEMMA DriverKeeps ==
  ASSUME Wired, BusInv, frames' = frames, device_list' = device_list,
         next_address' = next_address, new_addr' = new_addr,
         doing \in Claimers \cup {"hid"}, doing' \in Claimers \cup {"hid", "over"},
         bus' \in [Devs -> Unit],
         \A d \in Devs : (On(d)' <=> On(d)) /\ bus'[d].addr = bus[d].addr,
         walk' \in Nat \ {0}, claimed' \in [Claimers -> Nat],
         lapses' \in Nat, lapses <= lapses', lapses' <= MaxLapses
  PROVE  BusType' /\ PathInv' /\ OnceInv' /\ AddressInv' /\ CurrentInv' /\ ListInv' /\ FoundInv'
<1>1. /\ BusType /\ PathInv /\ OnceInv /\ AddressInv /\ CurrentInv /\ ListInv /\ FoundInv
  BY DEF BusInv
<1>2. BusType'
  BY <1>1 DEF BusType
<1>3. /\ ~ Busy /\ ~ Busy' /\ doing # "port" /\ doing' # "port" /\ doing # "hub" /\ doing' # "hub"
      /\ Listed' = Listed
  BY DEF Busy, Enumerating, Claimers, Listed
<1>4. PathInv' /\ OnceInv'
  BY <1>1, <1>2, <1>3, StayPath
<1>5. AddressInv'
  BY <1>1, SameAddresses
<1>6. CurrentInv'
  BY <1>1 DEF CurrentInv, Claimers
<1>7. ListInv'
  BY <1>1, <1>3, SameList
<1>8. lapses' = 0 => lapses = 0
  BY <1>1 DEF BusType
<1>9. FoundInv'
  BY <1>1, <1>3, <1>8, StayFound
<1> QED
  BY <1>2, <1>4, <1>5, <1>6, <1>7, <1>9

\* The next driver has not come to any device.
LEMMA NextDriverOK ==
  ASSUME Wired, BusInv, NextDriver
  PROVE  BusInv'
<1>1. /\ BusType /\ PathInv /\ OnceInv /\ AddressInv /\ CurrentInv /\ ListInv /\ FoundInv /\ ClaimInv
  BY DEF BusInv
<1>2. /\ doing \in Claimers \cup {"hid"} /\ walk > Len(device_list) /\ doing' = After(doing) /\ walk' = 1
      /\ frames' = frames /\ next_address' = next_address /\ new_addr' = new_addr /\ bus' = bus
      /\ seen' = seen /\ device_list' = device_list /\ claimed' = claimed /\ lapses' = lapses
  BY DEF NextDriver, Claimers
<1>3. \/ doing = "hid" /\ doing' = "storage"
      \/ doing = "storage" /\ doing' = "keyboard"
      \/ doing = "keyboard" /\ doing' = "mouse"
      \/ doing = "mouse" /\ doing' = "over"
  BY <1>2, AfterFacts DEF Claimers
<1>4. doing' \in Claimers \cup {"hid", "over"}
  BY <1>3 DEF Claimers
<1>5. \A d \in Devs : (On(d)' <=> On(d)) /\ bus'[d].addr = bus[d].addr
  BY <1>2 DEF On
<1>6. /\ bus' \in [Devs -> Unit] /\ walk' \in Nat \ {0} /\ claimed' \in [Claimers -> Nat]
      /\ lapses' \in Nat /\ lapses <= lapses' /\ lapses' <= MaxLapses
  BY <1>1, <1>2 DEF BusType
<1>7. BusType' /\ PathInv' /\ OnceInv' /\ AddressInv' /\ CurrentInv' /\ ListInv' /\ FoundInv'
  BY <1>2, <1>4, <1>5, <1>6, DriverKeeps
<1>8. ClaimInv'
  <2>1. lapses' <= 1 => \A i \in DOMAIN device_list' : Conf(device_list[i].dev)' \/ lapses' = 1
    BY <1>1, <1>2 DEF ClaimInv, Conf
  <2>2. \A r \in Claimers : claimed'[r] # 0 =>
          \E i \in DOMAIN device_list' :
            /\ device_list'[i].address = claimed'[r] /\ Fits(r, Desc[device_list'[i].dev])
            /\ lapses' <= 1 => Conf(device_list[i].dev)'
    BY <1>1, <1>2 DEF ClaimInv, Conf
  <2>3. ASSUME lapses' = 0, NEW r \in Claimers, NEW i \in DOMAIN device_list',
               Fits(r, Desc[device_list'[i].dev]), doing' \notin Before(r), doing' = r => i < walk'
        PROVE  claimed'[r] # 0
    <3>1. i \in DOMAIN device_list /\ i \in Nat /\ i >= 1 /\ i < walk /\ doing' # r
      <4>1. i \in DOMAIN device_list /\ i \in 1 .. Len(device_list) /\ Len(device_list) \in Nat
        BY <1>1, <1>2, <2>3, ListFacts
      <4>2. walk \in Nat
        BY <1>1 DEF BusType
      <4> QED
        BY <1>2, <2>3, <4>1, <4>2
    <3>2. doing \notin Before(r)
      BY <1>3, <2>3, <3>1 DEF Before, Claimers, Enumerating
    <3> QED
      BY <1>1, <1>2, <2>3, <3>1, <3>2 DEF ClaimInv
  <2> QED
    BY <2>1, <2>2, <2>3 DEF ClaimInv
<1> QED
  BY <1>7, <1>8 DEF BusInv

\* Those that answer at the address of a listed device:  the device.
LEMMA OwnAddress ==
  ASSUME BusType, AddressInv, ListInv, NEW i \in DOMAIN device_list
  PROVE  Answering(device_list[i].address) = {device_list[i].dev}
<1>1. PICK d \in Devs : d = device_list[i].dev
  BY ListFacts
<1>2. On(d) /\ bus[d].addr = device_list[i].address
  BY <1>1 DEF ListInv
<1> QED
  BY <1>1, <1>2 DEF Answering, On, AddressInv

\* What comes of a visit:  the device is taken, or it does not fit, or something has
\* gone wrong, or the driver only configures it.
LEMMA VisitFacts ==
  ASSUME Wired, BusInv, Visit
  PROVE  LET r == device_list[walk]
         IN  /\ bus' \in [Devs -> Unit] /\ claimed' \in [Claimers -> Nat]
             /\ \A d \in Devs : (On(d)' <=> On(d)) /\ bus'[d].addr = bus[d].addr
             /\ \A d \in Devs : Conf(d) => Conf(d)'
             /\ lapses' \in Nat /\ lapses <= lapses' /\ lapses' <= MaxLapses
             /\ \/ /\ claimed' = claimed
                   /\ lapses < lapses' \/ doing = "hid" \/ ~ Fits(doing, Desc[r.dev])
                \/ /\ doing \in Claimers
                   /\ claimed' = [claimed EXCEPT ![doing] = r.address]
                   /\ Fits(doing, Desc[r.dev])
                   /\ lapses < lapses' \/ bus'[r.dev].conf = TRUE
                \/ /\ doing \in Claimers
                   /\ claimed' = [claimed EXCEPT ![doing] = 0] /\ lapses < lapses'
<1>1. /\ BusType /\ AddressInv /\ ListInv
  BY DEF BusInv
<1>2. walk \in DOMAIN device_list /\ doing \in Claimers \cup {"hid"}
  BY <1>1, ListFacts DEF Visit, BusType, Claimers
<1>3. PICK r \in Entry : r = device_list[walk]
  BY <1>1, <1>2 DEF BusType
<1>4. r.dev \in Devs /\ r.address \in Nat
  BY DEF Entry
<1>5. PICK A : A = Answering(r.address) /\ A = {r.dev} /\ A # {}
  BY <1>1, <1>2, <1>3, OwnAddress
<1>6. PICK rd \in IF LooksAt(doing, Desc[r.dev].class) THEN Outcomes(A, Lapses \cap {"lost"}) ELSE {Refused} :
        IF ~ rd.ok \/ ~ Wants(doing, Desc[r.dev].iface)
        THEN Happens(rd.lapse) /\ UNCHANGED <<bus, claimed>>
        ELSE \E cf \in Outcomes(A, Lapses), started \in BOOLEAN :
               /\ Happens(rd.lapse + cf.lapse + (IF started THEN 0 ELSE 1))
               /\ started \/ (doing # "hid" /\ "memory" \in Lapses /\ (cf.ok \/ doing \in Careless))
               /\ bus' = IF cf.done THEN Configured(r.address) ELSE bus
               /\ claimed' = IF doing = "hid" \/ ~ (cf.ok \/ doing \in Careless) THEN claimed
                             ELSE [claimed EXCEPT ![doing] = IF started THEN r.address ELSE 0]
  BY <1>3, <1>5 DEF Visit
<1>7. /\ rd.ok \in BOOLEAN /\ rd.lapse \in {0, 1}
      /\ rd.ok = TRUE => LooksAt(doing, Desc[r.dev].class)
      /\ LooksAt(doing, Desc[r.dev].class) /\ rd.lapse = 0 => rd.ok = TRUE
  <2>1. CASE LooksAt(doing, Desc[r.dev].class)
    <3>1. rd \in Outcomes(A, Lapses \cap {"lost"})
      BY <1>6, <2>1
    <3> QED
      BY <1>5, <2>1, <3>1, OutcomeFacts, Zenon
  <2>2. CASE ~ LooksAt(doing, Desc[r.dev].class)
    <3>1. rd = Refused
      BY <1>6, <2>2
    <3>2. \A a, b, l : LET x == [ok |-> a, done |-> b, lapse |-> l] IN x.ok = a /\ x.lapse = l
      OBVIOUS
    <3>3. rd.ok = FALSE /\ rd.lapse = 0
      BY <3>1, <3>2, Zenon DEF Refused
    <3> QED
      BY <2>2, <3>3
  <2> QED
    BY <2>1, <2>2
<1>8. Fits(doing, Desc[r.dev]) <=> LooksAt(doing, Desc[r.dev].class) /\ Wants(doing, Desc[r.dev].iface)
  BY DEF Fits
<1>9. bus \in [Devs -> Unit] /\ claimed \in [Claimers -> Nat] /\ lapses \in Nat
  BY <1>1 DEF BusType
<1>10. CASE ~ rd.ok \/ ~ Wants(doing, Desc[r.dev].iface)
  <2>1. Happens(rd.lapse) /\ bus' = bus /\ claimed' = claimed
    BY <1>6, <1>10
  <2>2. lapses' \in Nat /\ lapses <= lapses' /\ lapses' <= MaxLapses /\ (rd.lapse = 1 => lapses < lapses')
    BY <1>7, <1>9, <2>1 DEF Happens
  <2>3. lapses < lapses' \/ ~ Fits(doing, Desc[r.dev])
    BY <1>7, <1>8, <1>10, <2>2
  <2>4. \A d \in Devs : (On(d)' <=> On(d)) /\ bus'[d].addr = bus[d].addr /\ (Conf(d) => Conf(d)')
    BY <2>1 DEF On, Conf
  <2> QED
    BY <1>3, <1>9, <2>1, <2>2, <2>3, <2>4
<1>11. CASE ~ (~ rd.ok \/ ~ Wants(doing, Desc[r.dev].iface))
  <2>1. PICK cf \in Outcomes(A, Lapses), started \in BOOLEAN :
          /\ Happens(rd.lapse + cf.lapse + (IF started THEN 0 ELSE 1))
          /\ started \/ (doing # "hid" /\ "memory" \in Lapses /\ (cf.ok \/ doing \in Careless))
          /\ bus' = IF cf.done THEN Configured(r.address) ELSE bus
          /\ claimed' = IF doing = "hid" \/ ~ (cf.ok \/ doing \in Careless) THEN claimed
                        ELSE [claimed EXCEPT ![doing] = IF started THEN r.address ELSE 0]
    BY <1>6, <1>11
  <2>2. Fits(doing, Desc[r.dev])
    BY <1>7, <1>8, <1>11
  <2>3. /\ cf.ok \in BOOLEAN /\ cf.done \in BOOLEAN /\ cf.lapse \in {0, 1}
        /\ cf.lapse = 0 => cf.ok = TRUE /\ cf.done = TRUE
    BY <1>5, OutcomeFacts, Zenon
  <2>4. /\ lapses' \in Nat /\ lapses <= lapses' /\ lapses' <= MaxLapses
        /\ cf.lapse = 1 \/ ~ started => lapses < lapses'
    BY <1>7, <1>9, <2>1, <2>3 DEF Happens
  <2>5. cf.done = TRUE =>
          /\ bus' \in [Devs -> Unit]
          /\ \A d \in Devs : (On(d)' <=> On(d)) /\ bus'[d].addr = bus[d].addr
          /\ \A d \in Devs : Conf(d) => Conf(d)'
          /\ bus'[r.dev].conf = TRUE
    <3> SUFFICES ASSUME cf.done = TRUE
                 PROVE  /\ bus' \in [Devs -> Unit]
                        /\ \A d \in Devs : (On(d)' <=> On(d)) /\ bus'[d].addr = bus[d].addr
                        /\ \A d \in Devs : Conf(d) => Conf(d)'
                        /\ bus'[r.dev].conf = TRUE
      OBVIOUS
    <3>1. bus' = Configured(r.address)
      BY <2>1
    <3>2. \A d \in Answering(r.address) : bus'[d].conf = TRUE
      BY <1>1, <3>1, ConfiguredFacts DEF Conf
    <3> QED
      BY <1>1, <1>5, <3>1, <3>2, ConfiguredFacts
  <2>6. /\ bus' \in [Devs -> Unit]
        /\ \A d \in Devs : (On(d)' <=> On(d)) /\ bus'[d].addr = bus[d].addr
        /\ \A d \in Devs : Conf(d) => Conf(d)'
        /\ lapses < lapses' \/ bus'[r.dev].conf = TRUE
    <3>1. CASE cf.done = TRUE
      BY <2>5, <3>1
    <3>2. CASE cf.done = FALSE
      <4>1. bus' = bus /\ cf.lapse = 1
        BY <2>1, <2>3, <3>2
      <4> QED
        BY <1>9, <2>4, <4>1 DEF On, Conf
    <3> QED
      BY <2>3, <3>1, <3>2
  <2>7. CASE doing = "hid" \/ ~ (cf.ok \/ doing \in Careless)
    <3>1. claimed' = claimed /\ (lapses < lapses' \/ doing = "hid")
      BY <2>1, <2>3, <2>4, <2>7
    <3> QED
      BY <1>3, <1>9, <2>4, <2>6, <3>1
  <2>8. CASE ~ (doing = "hid" \/ ~ (cf.ok \/ doing \in Careless))
    <3>1. doing \in Claimers /\ claimed' = [claimed EXCEPT ![doing] = IF started THEN r.address ELSE 0]
      BY <1>2, <2>1, <2>8
    <3>2. CASE started
      <4>1. claimed' = [claimed EXCEPT ![doing] = r.address]
        BY <3>1, <3>2
      <4>2. claimed' \in [Claimers -> Nat]
        BY <1>4, <1>9, <4>1
      <4> QED
        BY <1>3, <2>2, <2>4, <2>6, <3>1, <4>1, <4>2
    <3>3. CASE ~ started
      <4>1. claimed' = [claimed EXCEPT ![doing] = 0]
        BY <3>1, <3>3
      <4>2. claimed' \in [Claimers -> Nat]
        BY <1>9, <4>1
      <4> QED
        BY <1>3, <2>4, <2>6, <3>1, <3>3, <4>1, <4>2
    <3> QED
      BY <3>2, <3>3
  <2> QED
    BY <2>7, <2>8
<1> QED
  BY <1>10, <1>11

\* A driver looks at a device.
LEMMA VisitOK ==
  ASSUME Wired, BusInv, Visit
  PROVE  BusInv'
<1>1. /\ BusType /\ AddressInv /\ ListInv /\ ClaimInv
  BY DEF BusInv
<1>2. /\ doing \in Claimers \cup {"hid"} /\ doing' = doing /\ walk \in DOMAIN device_list
      /\ frames' = frames /\ next_address' = next_address /\ new_addr' = new_addr
      /\ device_list' = device_list
      /\ walk' = IF doing \in StopsAtFirst /\ claimed'[doing] # 0 THEN Len(device_list) + 1
                 ELSE walk + 1
  BY <1>1, ListFacts DEF Visit, Claimers, BusType
<1>3. PICK r \in Entry : r = device_list[walk]
  BY <1>1, <1>2 DEF BusType
<1>4. /\ bus' \in [Devs -> Unit] /\ claimed' \in [Claimers -> Nat]
      /\ \A d \in Devs : (On(d)' <=> On(d)) /\ bus'[d].addr = bus[d].addr
      /\ \A d \in Devs : Conf(d) => Conf(d)'
      /\ lapses' \in Nat /\ lapses <= lapses' /\ lapses' <= MaxLapses
      /\ \/ /\ claimed' = claimed
            /\ lapses < lapses' \/ doing = "hid" \/ ~ Fits(doing, Desc[r.dev])
         \/ /\ doing \in Claimers
            /\ claimed' = [claimed EXCEPT ![doing] = r.address]
            /\ Fits(doing, Desc[r.dev])
            /\ lapses < lapses' \/ bus'[r.dev].conf = TRUE
         \/ /\ doing \in Claimers
            /\ claimed' = [claimed EXCEPT ![doing] = 0] /\ lapses < lapses'
  BY <1>3, VisitFacts, Zenon
<1>5. walk' \in Nat \ {0} /\ walk \in Nat \ {0} /\ Len(device_list) \in Nat /\ lapses \in Nat
      /\ claimed \in [Claimers -> Nat]
  BY <1>1, <1>2, ListFacts DEF BusType
<1>6. BusType' /\ PathInv' /\ OnceInv' /\ AddressInv' /\ CurrentInv' /\ ListInv' /\ FoundInv'
  BY <1>2, <1>4, <1>5, DriverKeeps
<1>7. \A i \in DOMAIN device_list :
        /\ device_list[i].dev \in Devs /\ device_list[i].address # 0
        /\ bus[device_list[i].dev].conf = TRUE => bus'[device_list[i].dev].conf = TRUE
  <2>1. \A d \in Devs : bus[d].conf = TRUE => bus'[d].conf = TRUE
    BY <1>4 DEF Conf
  <2> QED
    BY <1>1, <2>1, ListFacts DEF ListInv
<1>8. lapses' <= 1 => lapses <= 1 /\ (lapses = 1 => lapses' = 1) /\ (lapses < lapses' => lapses = 0)
  BY <1>4, <1>5
<1>9. lapses' <= 1 => \A i \in DOMAIN device_list : bus'[device_list[i].dev].conf = TRUE \/ lapses' = 1
  BY <1>1, <1>7, <1>8 DEF ClaimInv, Conf
<1>10. lapses' <= 1 => (lapses < lapses' \/ bus'[r.dev].conf = TRUE => bus'[r.dev].conf = TRUE)
  <2>1. lapses' <= 1 /\ lapses < lapses' => bus[r.dev].conf = TRUE
    <3> SUFFICES ASSUME lapses' <= 1, lapses < lapses' PROVE bus[r.dev].conf = TRUE
      OBVIOUS
    <3>1. lapses # 1
      BY <1>4, <1>5, <1>8
    <3> QED
      BY <1>1, <1>2, <1>3, <1>8, <3>1 DEF ClaimInv, Conf
  <2> QED
    BY <1>2, <1>3, <1>7, <2>1
<1>11. ASSUME NEW s \in Claimers, claimed'[s] # 0
       PROVE  \E i \in DOMAIN device_list :
                /\ device_list[i].address = claimed'[s] /\ Fits(s, Desc[device_list[i].dev])
                /\ lapses' <= 1 => bus'[device_list[i].dev].conf = TRUE
  <2>1. CASE claimed'[s] = claimed[s]
    <3>1. PICK i \in DOMAIN device_list :
            /\ device_list[i].address = claimed[s] /\ Fits(s, Desc[device_list[i].dev])
            /\ lapses <= 1 => bus[device_list[i].dev].conf = TRUE
      BY <1>1, <1>11, <2>1 DEF ClaimInv, Conf
    <3> QED
      BY <1>7, <1>8, <2>1, <3>1
  <2>2. CASE claimed'[s] # claimed[s]
    <3>1. /\ s = doing /\ claimed'[s] = r.address /\ Fits(doing, Desc[r.dev])
          /\ lapses < lapses' \/ bus'[r.dev].conf = TRUE
      BY <1>4, <1>5, <1>11, <2>2
    <3>2. lapses' <= 1 => bus'[r.dev].conf = TRUE
      BY <1>10, <3>1
    <3> QED
      BY <1>2, <1>3, <3>1, <3>2
  <2> QED
    BY <2>1, <2>2
<1>12. ASSUME lapses' = 0, NEW s \in Claimers, NEW i \in DOMAIN device_list,
              Fits(s, Desc[device_list[i].dev]), doing \notin Before(s), doing = s => i < walk'
       PROVE  claimed'[s] # 0
  <2>1. lapses = 0 /\ ~ (lapses < lapses')
    BY <1>4, <1>5, <1>12
  <2>2. CASE s # doing
    <3>1. claimed'[s] = claimed[s]
      BY <1>4, <1>5, <2>2
    <3> QED
      BY <1>1, <1>12, <2>1, <2>2, <3>1 DEF ClaimInv
  <2>3. CASE s = doing
    <3>1. CASE i < walk
      <4>1. claimed[s] # 0
        BY <1>1, <1>12, <2>1, <2>3, <3>1 DEF ClaimInv
      <4>2. claimed' = claimed \/ claimed'[s] = r.address
        BY <1>4, <1>5, <2>1, <2>3
      <4> QED
        BY <1>2, <1>3, <1>7, <4>1, <4>2
    <3>2. CASE i = walk
      <4>1. doing # "hid" /\ Fits(doing, Desc[r.dev])
        BY <1>3, <1>12, <2>3, <3>2 DEF Claimers
      <4>2. claimed'[s] = r.address
        BY <1>4, <1>5, <2>1, <2>3, <4>1
      <4> QED
        BY <1>2, <1>3, <1>7, <4>2
    <3>3. CASE ~ (i < walk) /\ i # walk
      <4>1. i \in Nat /\ ~ (i < walk + 1)
        BY <1>1, <1>5, <3>3, ListFacts
      <4> QED
        BY <1>2, <1>12, <2>3, <4>1
    <3> QED
      BY <3>1, <3>2, <3>3
  <2> QED
    BY <2>2, <2>3
<1>13. ClaimInv'
  BY <1>2, <1>9, <1>11, <1>12 DEF ClaimInv, Conf
<1> QED
  BY <1>6, <1>13 DEF BusInv

\* Nothing is enabled at first.
LEMMA BusInitially ==
  ASSUME Wired, BusInit
  PROVE  BusInv
<1> DEFINE u == [on |-> FALSE, addr |-> 0, conf |-> FALSE]
           f == [hub |-> Host, addr |-> 0, port |-> 1, ports |-> ROOT_PORTS]
<1>1. /\ bus = [d \in Devs |-> u] /\ frames = <<f>> /\ doing = "port" /\ next_address = 1
      /\ new_addr = 0 /\ device_list = <<>> /\ walk = 1 /\ lapses = 0
      /\ claimed = [r \in Claimers |-> 0]
  BY DEF BusInit, Claimers
<1>2. u \in Unit /\ u.on = FALSE /\ u.addr = 0 /\ u.conf = FALSE
  <2>1. \A a, b, c : LET x == [on |-> a, addr |-> b, conf |-> c] IN x.on = a /\ x.addr = b /\ x.conf = c
    OBVIOUS
  <2>2. u \in Unit
    BY DEF Unit
  <2> QED
    BY <2>1, <2>2, Zenon
<1>3. f \in FrameType /\ f.hub = Host /\ f.addr = 0 /\ f.port = 1 /\ f.ports = ROOT_PORTS
  BY BusAssumption DEF FrameType
<1> HIDE DEF u, f
<1>4. \A d \in Devs : bus[d] = u /\ ~ On(d)
  BY <1>1, <1>2 DEF On
<1>5. /\ frames \in Seq(FrameType) /\ Len(frames) = 1 /\ DOMAIN frames = {1} /\ frames[1] = f
  BY <1>1, <1>3
<1>6. BusType
  <2>1. bus \in [Devs -> Unit] /\ claimed \in [Claimers -> Nat] /\ device_list \in Seq(Entry)
    BY <1>1, <1>2
  <2>2. lapses \in Nat /\ lapses <= MaxLapses
    BY <1>1, BusAssumption
  <2> QED
    BY <1>1, <1>5, <2>1, <2>2 DEF BusType
<1>7. ~ Busy /\ doing = "port"
  BY <1>1 DEF Busy, Enumerating
<1>8. Listed = {} /\ DOMAIN device_list = {} /\ Len(device_list) = 0
  BY <1>1 DEF Listed
<1>9. PathInv
  BY <1>3, <1>5, <1>7 DEF PathInv
<1>10. OnceInv
  BY <1>4, <1>7 DEF OnceInv
<1>11. AddressInv
  <2>1. {d \in Devs : On(d) /\ bus[d].addr # 0} = {}
    BY <1>4
  <2>2. Cardinality({d \in Devs : On(d) /\ bus[d].addr # 0}) = 0
    BY <2>1, FS_EmptySet
  <2>3. next_address = 1 + Cardinality({d \in Devs : On(d) /\ bus[d].addr # 0})
    BY <1>1, <2>2
  <2>4. \A d \in Devs : bus[d].addr < next_address
    BY <1>1, <1>2, <1>4
  <2> QED
    BY <1>4, <2>3, <2>4 DEF AddressInv
<1>12. CurrentInv
  BY <1>4, <1>7 DEF CurrentInv
<1>13. ListInv
  BY <1>8, FS_EmptySet DEF ListInv
<1>14. FoundInv
  <2>1. \A d \in Devs, k \in DOMAIN frames : ~ Reached(d, k)
    <3>1. \A d \in Devs : Port(d) \in Nat \ {0}
      BY DEF Wired
    <3> QED
      BY <1>3, <1>5, <1>7, <3>1 DEF Reached
  <2>2. \A d \in Devs : Up(d) # Host => Up(d) \in Devs
    BY BusAssumption DEF Up
  <2> QED
    BY <1>4, <1>5, <2>1, <2>2 DEF FoundInv
<1>15. ClaimInv
  <2>1. \A r \in Claimers : claimed[r] = 0 /\ doing \in Before(r)
    BY <1>1 DEF Before
  <2> QED
    BY <1>8, <2>1 DEF ClaimInv
<1> QED
  BY <1>6, <1>9, <1>10, <1>11, <1>12, <1>13, <1>14, <1>15 DEF BusInv

\* Every step of enumeration and of the drivers keeps the invariant.
LEMMA BusStepOK ==
  ASSUME Wired, ~ StuckAtZero, BusInv, BusStep
  PROVE  BusInv'
BY RootPortOK, HubPortOK, PortsDoneOK, ReadFirst8OK, SetAddressOK, ReadDescriptorsOK,
   RegisterOK, HubPortsOK, VisitOK, NextDriverOK DEF BusStep

\* So does a step of another device.
LEMMA BusUnchanged ==
  ASSUME BusInv, UNCHANGED busVars
  PROVE  BusInv'
<1>1. /\ bus' = bus /\ frames' = frames /\ doing' = doing /\ next_address' = next_address
      /\ new_addr' = new_addr /\ seen' = seen /\ device_list' = device_list /\ walk' = walk
      /\ claimed' = claimed /\ lapses' = lapses
  BY DEF busVars
<1>2. BusType' /\ PathInv' /\ OnceInv'
  BY <1>1 DEF BusInv, BusType, PathInv, OnceInv, On, Here, Frame, Busy, Reached
<1>3. AddressInv' /\ CurrentInv' /\ ListInv'
  BY <1>1 DEF BusInv, AddressInv, CurrentInv, ListInv, On, Here, Frame, Busy, Listed
<1>4. FoundInv' /\ ClaimInv'
  BY <1>1 DEF BusInv, FoundInv, ClaimInv, On, Conf, Here, Frame, Busy, Listed, InFrames, Reached
<1> QED
  BY <1>2, <1>3, <1>4 DEF BusInv

\* Ports are enabled and addresses given once and in order, whatever is lost or comes
\* late behind address 0 (uhci_init, usb_hub_scan, enumerate_device).
THEOREM BusInvariance ==
  ASSUME Wired, ~ StuckAtZero
  PROVE  Spec => []BusInv
<1>1. Init => BusInv
  BY BusInitially DEF Init
<1>2. BusInv /\ [Next]_vars => BusInv'
  <2> SUFFICES ASSUME BusInv, [Next]_vars PROVE BusInv'
    OBVIOUS
  <2>1. CASE Bus
    BY <2>1, BusStepOK DEF Bus
  <2>2. CASE Clock \/ Disks \/ Keyboard \/ UNCHANGED vars
    BY <2>2, BusUnchanged DEF Clock, Disks, Keyboard, vars
  <2> QED
    BY <2>1, <2>2 DEF Next
<1> QED
  BY <1>1, <1>2, PTL DEF Spec

\* A sequence of the elements of a finite set is as long as the set is large.
LEMMA LengthOfSet ==
  ASSUME NEW S, IsFiniteSet(S)
  PROVE  Len(SetToSeq(S)) = Cardinality(S)
<1>1. Cardinality(S) \in Nat /\ ExistsBijection(1 .. Cardinality(S), S)
  BY FS_CardinalityType
<1>2. PICK n \in Nat : n = Cardinality(S)
  BY <1>1
<1>3. PICK g : g \in Bijection(1 .. n, S)
  BY <1>1, <1>2 DEF ExistsBijection
<1>4. g \in [1 .. n -> S] /\ IsInjective(g)
  BY <1>3 DEF Bijection, Injection
<1>5. SetToSeq(S) \in [1 .. n -> S]
  BY <1>2, <1>4, Zenon DEF SetToSeq
<1>6. \A h \in [1 .. n -> S] : Len(h) = n
  OBVIOUS
<1> QED
  BY <1>2, <1>5, <1>6, Zenon

\* At the end, if nothing went wrong, all devices are enabled, by their depth.
LEMMA AllEnabled ==
  ASSUME Wired, BusInv, doing = "over", lapses = 0
  PROVE  \A d \in Devs : On(d)
<1>1. /\ BusType /\ PathInv /\ FoundInv
  BY DEF BusInv
<1>2. PICK depth \in [Devs -> Nat] : \A d \in Devs : Up(d) # Host => depth[Up(d)] < depth[d]
  BY DEF Wired
<1>3. ~ Busy /\ doing # "port"
  BY DEF Busy, Enumerating
<1>4. /\ Len(frames) = 1 /\ DOMAIN frames = {1} /\ frames[1].hub = Host /\ frames[1].ports = ROOT_PORTS
      /\ frames[1].port > frames[1].ports /\ frames[1].port \in Nat /\ ROOT_PORTS \in Nat
  BY <1>1, <1>3, FrameFacts, BusAssumption DEF PathInv
<1> DEFINE S == {n \in Nat : \A d \in Devs : depth[d] < n => On(d)}
<1>5. 0 \in S
  BY <1>2
<1>6. ASSUME NEW n \in Nat, n \in S PROVE n + 1 \in S
  <2> SUFFICES ASSUME NEW d \in Devs, depth[d] < n + 1 PROVE On(d)
    OBVIOUS
  <2>1. CASE Up(d) = Host
    <3>1. Port(d) < frames[1].port
      <4>1. Port(d) \in Nat /\ Port(d) <= ROOT_PORTS
        BY <2>1 DEF Wired
      <4> QED
        BY <1>4, <4>1
    <3>2. Reached(d, 1)
      BY <3>1 DEF Reached
    <3> QED
      BY <1>1, <1>4, <2>1, <3>2 DEF FoundInv
  <2>2. CASE Up(d) # Host
    <3>1. Up(d) \in Devs /\ depth[Up(d)] \in Nat /\ depth[d] \in Nat /\ depth[Up(d)] < depth[d]
      BY <1>2, <2>2, BusAssumption DEF Up
    <3>2. depth[Up(d)] < n
      BY <3>1
    <3>3. On(Up(d))
      BY <1>6, <3>1, <3>2
    <3>4. ~ InFrames(Up(d))
      BY <1>4, <2>2 DEF InFrames
    <3> QED
      BY <1>1, <1>3, <2>2, <3>3, <3>4 DEF FoundInv
  <2> QED
    BY <2>1, <2>2
<1> HIDE DEF S
<1>7. \A n \in Nat : n \in S
  BY <1>5, <1>6, Induction
<1>8. ASSUME NEW d \in Devs PROVE On(d)
  <2>1. PICK m \in Nat : m = depth[d]
    BY <1>2
  <2>2. m + 1 \in S /\ m < m + 1
    BY <1>7
  <2> QED
    BY <2>1, <2>2 DEF S
<1> QED
  BY <1>8

\* At the address of a listed device that device answers and no other, whatever goes
\* wrong behind address 0 and however often (next_address, enumerate_device).
THEOREM AddressesAlwaysOwn ==
  ASSUME Wired, ~ StuckAtZero
  PROVE  Spec => []AddressesOwn
<1>1. ASSUME BusInv PROVE AddressesOwn
  BY <1>1, OwnAddress DEF AddressesOwn, BusInv
<1> QED
  BY <1>1, BusInvariance, PTL

\* If nothing goes wrong every device is found, behind any number of hubs, and every
\* driver has a device if there is one for it (usb_hub_scan, the probes).
THEOREM AllAlwaysFound ==
  ASSUME Wired, ~ StuckAtZero
  PROVE  Spec => []AllFound
<1>1. ASSUME BusInv PROVE AllFound
  <2>1. /\ BusType /\ ListInv /\ FoundInv /\ ClaimInv
    BY <1>1 DEF BusInv
  <2>2. SUFFICES ASSUME doing = "over", lapses = 0
                 PROVE  /\ Listed = Devs
                        /\ Len(device_list) = Len(SetToSeq(Devs))
                        /\ \A r \in DOMAIN claimed : (\E d \in Devs : Fits(r, Desc[d])) => claimed[r] # 0
    BY Zenon DEF AllFound, Listed
  <2>3. Listed = Devs
    <3>1. \A d \in Devs : On(d)
      BY <1>1, <2>2, AllEnabled
    <3>2. ~ Busy
      BY <2>2 DEF Busy, Enumerating
    <3>3. \A d \in Devs : d \in Listed
      BY <2>1, <2>2, <3>1, <3>2 DEF FoundInv
    <3> QED
      BY <2>1, <3>3, ListedFacts
  <2>4. Len(device_list) = Len(SetToSeq(Devs))
    BY <2>1, <2>3, LengthOfSet DEF ListInv, Wired
  <2>5. ASSUME NEW r \in DOMAIN claimed, NEW d \in Devs, Fits(r, Desc[d]) PROVE claimed[r] # 0
    <3>1. r \in Claimers /\ doing \notin Before(r) /\ doing # r
      BY <2>1, <2>2 DEF BusType, Before, Claimers, Enumerating
    <3>2. PICK i \in DOMAIN device_list : device_list[i].dev = d
      BY <2>3 DEF Listed
    <3> QED
      BY <2>1, <2>2, <2>5, <3>1, <3>2 DEF ClaimInv
  <2> QED
    BY <2>3, <2>4, <2>5
<1> QED
  BY <1>1, BusInvariance, PTL

\* Enumeration and claiming are sound while no more than one request goes wrong:
\* each listed device answers at its address alone, the drivers work with different
\* devices, each configured, and all are found if nothing goes wrong.  Configured it
\* need not be after two: its configuration is asked for twice, by enumerate_device
\* and by the driver, and the keyboard's driver goes on without.
THEOREM BusAlwaysSound ==
  ASSUME Wired, ~ StuckAtZero
  PROVE  Spec => [](lapses <= 1 => BusSound)
<1>1. ASSUME BusInv, lapses <= 1 PROVE ClaimsSound
  <2>1. /\ BusType /\ AddressInv /\ ListInv /\ ClaimInv
    BY <1>1 DEF BusInv
  <2>2. DOMAIN claimed = Claimers
    BY <2>1 DEF BusType
  <2>3. ASSUME NEW r \in Claimers, claimed[r] # 0
        PROVE  \E d \in Devs : /\ Answering(claimed[r]) = {d} /\ Conf(d) /\ Fits(r, Desc[d])
    <3>1. PICK i \in DOMAIN device_list :
            /\ device_list[i].address = claimed[r] /\ Fits(r, Desc[device_list[i].dev])
            /\ Conf(device_list[i].dev)
      BY <1>1, <2>1, <2>3 DEF ClaimInv
    <3>2. device_list[i].dev \in Devs
      BY <2>1, ListFacts
    <3> QED
      BY <2>1, <3>1, <3>2, OwnAddress
  <2>4. \A r \in Claimers, d \in Devs : Fits(r, Desc[d]) => Desc[d].iface = r
    BY DEF Fits, Wants, Claimers
  <2>5. ASSUME NEW r \in Claimers, NEW s \in Claimers, claimed[r] # 0
        PROVE  /\ r # s => claimed[r] # claimed[s]
               /\ \A d \in Answering(claimed[r]) : bus[d].conf /\ Fits(r, Desc[d])
    <3>1. PICK d \in Devs : Answering(claimed[r]) = {d} /\ Conf(d) /\ Fits(r, Desc[d])
      BY <2>3, <2>5
    <3>2. claimed[r] = claimed[s] => r = s
      <4> SUFFICES ASSUME claimed[r] = claimed[s] PROVE r = s
        OBVIOUS
      <4>1. PICK e \in Devs : Answering(claimed[s]) = {e} /\ Fits(s, Desc[e])
        BY <2>3, <2>5
      <4>2. d = e
        BY <3>1, <4>1
      <4> QED
        BY <2>4, <3>1, <4>1, <4>2
    <3>3. \A e \in Answering(claimed[r]) : bus[e].conf /\ Fits(r, Desc[e])
      BY <3>1 DEF Conf
    <3> QED
      BY <3>2, <3>3
  <2> QED
    BY <2>2, <2>5, Zenon DEF ClaimsSound
<1>2. Spec => [](lapses <= 1 => ClaimsSound)
  BY <1>1, BusInvariance, PTL
<1> QED
  BY <1>2, AddressesAlwaysOwn, AllAlwaysFound, PTL DEF BusSound

================================================================================
