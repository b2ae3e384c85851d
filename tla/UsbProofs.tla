------------------------------- MODULE UsbProofs -------------------------------
(* The schedule of the host controller and the storage commands stay sound for    *)
(* pools, endpoints, time-outs and numbers of attempts of any size.               *)
(*                                                                                *)
(* The inductive invariant says of a synchronous transfer how its chain lies in   *)
(* the pool and is linked, and of a bulk transfer how far the device has got when *)
(* the controller is at a certain descriptor of the chain: behind the command the *)
(* device has taken this command and no earlier one.                              *)
EXTENDS Usb, TLAPS

Requests == {"other", "bulk", "reset", "clear"}
XferType == [pc : {"hook", "wait", "over"}, chain : Seq(TDs), polls : Nat,
             request : Requests, saved_el : TDs \cup {End}, saved_used : Nat, ok : BOOLEAN]
CmdType == [pc : {"send", "sent", "status", "reset1", "reset2", "reset3", "done"},
            data : BOOLEAN, attempt : 1 .. ATTEMPTS, sent : Nat, polls : Nat, ok : BOOLEAN]
DeviceType == [mode : {"cbw", "data", "csw"}, tag : Nat, data : BOOLEAN, done : SUBSET Nat]

Types ==
  /\ TypeOK
  /\ xfer \in {NoXfer} \cup XferType
  /\ cmd \in {NoCmd} \cup CmdType
  /\ csw \in [tag : Nat, good : BOOLEAN] /\ buf \in Nat
  /\ device \in DeviceType
  /\ errors \in Nat /\ controls \in Nat

\* The TDs of the interrupt transfers are the first of the pool, each for itself.
Urbs ==
  /\ Len(int_urbs) <= MAX_URBS
  /\ \A i \in DOMAIN int_urbs : int_urbs[i].td = i
  /\ \A t \in 1 .. Len(int_urbs) : td[t].link = End /\ td[t].stage = "int"

\* Which command a transfer belongs to.
Owners ==
  /\ xfer # NoXfer =>
       /\ xfer.request = "other" => cmd = NoCmd
       /\ xfer.request = "bulk" => cmd.pc = "sent"
       /\ xfer.request \in {"reset", "clear"} => cmd.pc \in {"reset1", "reset2", "reset3"}
  /\ cmd.pc = "sent" => xfer # NoXfer /\ xfer.request = "bulk"
  /\ cmd.pc \in {"send", "status", "done"} => xfer = NoXfer

\* The chain of a transfer lies behind the TDs of the interrupt transfers.
ChainAt(n) == {<<n + 1, n + 2>>, <<n + 1, n + 3, n + 2>>}
Chains ==
  xfer # NoXfer =>
    /\ xfer.saved_used = Len(int_urbs)
    /\ xfer.saved_el \in 0 .. Len(int_urbs)
    /\ xfer.chain \in ChainAt(Len(int_urbs))
Used ==
  td_used = IF xfer.pc \in {"hook", "wait"} THEN Len(int_urbs) + Len(xfer.chain)
            ELSE Len(int_urbs)

\* How it is linked, and its stages.
Stages ==
  xfer.pc \in {"hook", "wait"} =>
    LET n == Len(int_urbs)
        bulk == xfer.request = "bulk"
    IN  IF Len(xfer.chain) = 2
        THEN /\ td[n + 1].link = n + 2 /\ td[n + 2].link = End
             /\ bulk => td[n + 1].stage = "cbw" /\ td[n + 2].stage = "csw" /\ ~ cmd.data
             /\ ~ bulk => td[n + 1].stage = "setup" /\ td[n + 2].stage = "status"
        ELSE /\ td[n + 1].link = n + 3 /\ td[n + 3].link = n + 2 /\ td[n + 2].link = End
             /\ bulk => /\ td[n + 1].stage = "cbw" /\ td[n + 3].stage = "data"
                        /\ td[n + 2].stage = "csw" /\ cmd.data
             /\ ~ bulk => /\ td[n + 1].stage = "setup" /\ td[n + 3].stage = "data0"
                          /\ td[n + 2].stage = "status"
Numbered ==
  (xfer.pc \in {"hook", "wait"} /\ xfer.request = "bulk") =>
    td[Len(int_urbs) + 1].of = cmd.sent

\* What is hooked: of the interrupt transfers unless a transfer waits for its chain.
Hooked ==
  IF xfer.pc = "wait"
  THEN el = End \/ el \in Len(int_urbs) + 1 .. Len(int_urbs) + Len(xfer.chain)
  ELSE el \in 0 .. Len(int_urbs)

\* The command of number t has been executed and its data has come.
Executed(t) == t \in device.done /\ (cmd.data => buf = t)

\* Behind the first TD of a bulk transfer the device works on its command.
Progress ==
  (xfer.pc = "wait" /\ xfer.request = "bulk") =>
    /\ el = Len(int_urbs) + 3 => device.mode = "data"
    /\ el = Len(int_urbs) + 2 => device.mode = "csw" /\ Executed(cmd.sent)
    /\ el \in {Len(int_urbs) + 2, Len(int_urbs) + 3} => device.tag = cmd.sent

\* A status with the number of a command tells of that command.
Believed ==
  /\ csw.tag < tag
  /\ cmd # NoCmd =>
       /\ cmd.sent < tag
       /\ cmd.pc \in {"sent", "status"} => cmd.sent # 0
       /\ (cmd.sent # 0 /\ csw.tag = cmd.sent) => Executed(cmd.sent)
       /\ (cmd.pc = "done" /\ cmd.ok) => csw.tag = cmd.sent /\ cmd.sent # 0

\* Tags are taken by attempts.
Attempts ==
  cmd # NoCmd =>
    tag <= (MaxCommands - 1) * ATTEMPTS + cmd.attempt + (IF cmd.pc = "send" THEN 0 ELSE 1)

IInv ==
  /\ Types /\ Urbs /\ Owners /\ Chains /\ Used /\ Stages /\ Numbered /\ Hooked
  /\ Progress /\ Believed /\ Attempts

--------------------------------------------------------------------------------
(* Lemmas on the state. *)

LEMMA UrbTdsFirst ==
  ASSUME Types, Urbs
  PROVE  UrbTds = 1 .. Len(int_urbs) /\ Len(int_urbs) \in Nat /\ Len(int_urbs) + 3 <= MAX_TDS
BY UsbAssumption DEF Types, TypeOK, Urbs, UrbTds

LEMMA XferFields ==
  ASSUME Types
  PROVE  /\ xfer = NoXfer <=> xfer.pc = "none"
         /\ xfer # NoXfer => xfer \in XferType
         /\ xfer.pc \in {"hook", "wait", "over"} => xfer \in XferType
BY DEF Types, XferType, NoXfer

LEMMA CmdFields ==
  ASSUME Types
  PROVE  /\ cmd = NoCmd <=> cmd.pc = "none"
         /\ cmd # NoCmd => cmd \in CmdType
BY DEF Types, CmdType, NoCmd

\* A chain by its elements.
LEMMA ChainElements ==
  ASSUME NEW n \in Nat, NEW ch \in ChainAt(n)
  PROVE  /\ Len(ch) \in {2, 3} /\ ch[1] = n + 1
         /\ DOMAIN ch = 1 .. Len(ch)
         /\ \A k \in DOMAIN ch : ch[k] \in n + 1 .. n + Len(ch)
<1>1. CASE ch = <<n + 1, n + 2>>
  BY <1>1
<1>2. CASE ch = <<n + 1, n + 3, n + 2>>
  BY <1>2
<1> QED
  BY <1>1, <1>2 DEF ChainAt

LEMMA Room ==
  ASSUME NEW n \in Nat, NEW k \in {2, 3}, n + 3 <= MAX_TDS
  PROVE  n + k \in 0 .. MAX_TDS
BY UsbAssumption

\* What every proof of a step starts from.
LEMMA Basics ==
  ASSUME IInv
  PROVE  /\ Types /\ Urbs /\ Owners /\ Chains /\ Used /\ Stages /\ Numbered /\ Hooked
         /\ Progress /\ Believed /\ Attempts
         /\ Len(int_urbs) \in Nat /\ Len(int_urbs) + 3 <= MAX_TDS
         /\ xfer # NoXfer => xfer \in XferType
         /\ cmd # NoCmd => cmd \in CmdType
         /\ xfer = NoXfer <=> xfer.pc = "none"
         /\ cmd = NoCmd <=> cmd.pc = "none"
         /\ xfer # NoXfer => xfer.chain[1] = Len(int_urbs) + 1 /\ Len(xfer.chain) \in {2, 3}
<1>1. /\ Types /\ Urbs /\ Owners /\ Chains /\ Used /\ Stages /\ Numbered /\ Hooked
      /\ Progress /\ Believed /\ Attempts
  BY DEF IInv
<1>2. Len(int_urbs) \in Nat /\ Len(int_urbs) + 3 <= MAX_TDS
  BY <1>1, UrbTdsFirst
<1>3. xfer # NoXfer => xfer.chain[1] = Len(int_urbs) + 1 /\ Len(xfer.chain) \in {2, 3}
  BY <1>1, <1>2, ChainElements DEF Chains
<1> QED
  BY <1>1, <1>2, <1>3, XferFields, CmdFields

--------------------------------------------------------------------------------
(* Steps of the driver in a transfer. *)

LEMMA HookStep ==
  ASSUME IInv, Hook
  PROVE  IInv'
<1> DEFINE n == Len(int_urbs)
<1> USE Basics
<1>1. xfer \in XferType /\ xfer.pc = "hook" /\ xfer # NoXfer
  BY DEF Hook
<1>3. /\ xfer' \in XferType /\ xfer' # NoXfer /\ xfer'.pc = "wait"
      /\ xfer'.chain = xfer.chain /\ xfer'.request = xfer.request
      /\ xfer'.saved_el = xfer.saved_el /\ xfer'.saved_used = xfer.saved_used
  BY <1>1 DEF Hook, XferType, NoXfer
<1>4. /\ el' = n + 1
      /\ UNCHANGED <<td, td_used, int_urbs, cmd, tag, csw, buf, device, errors, controls>>
  BY <1>1 DEF Hook, pool, storage, counts
<1>5. Types'
  <2>1. el' \in TDs
    BY <1>1, <1>4, UsbAssumption DEF TDs
  <2> QED
    BY <1>3, <1>4, <2>1 DEF Types, TypeOK
<1>6. Urbs' /\ Owners' /\ Chains' /\ Used'
  BY <1>1, <1>3, <1>4 DEF Urbs, Owners, Chains, Used
<1>7. Stages' /\ Numbered'
  BY <1>1, <1>3, <1>4 DEF Stages, Numbered
<1>8. Hooked'
  BY <1>1, <1>3, <1>4 DEF Hooked
<1>9. Progress'
  BY <1>1, <1>4 DEF Progress
<1>10. Believed' /\ Attempts'
  BY <1>4 DEF Believed, Executed, Attempts
<1> QED
  BY <1>5, <1>6, <1>7, <1>8, <1>9, <1>10 DEF IInv

LEMMA LookStep ==
  ASSUME IInv, Look
  PROVE  IInv'
<1> USE Basics
<1>1. xfer \in XferType /\ xfer.pc = "wait" /\ xfer # NoXfer
  BY DEF Look
<1>2. /\ xfer' \in XferType /\ xfer' # NoXfer /\ xfer'.pc = "wait"
      /\ xfer'.chain = xfer.chain /\ xfer'.request = xfer.request
      /\ xfer'.saved_el = xfer.saved_el /\ xfer'.saved_used = xfer.saved_used
  <2>1. xfer' = [xfer EXCEPT !.polls = @ + 1] /\ xfer.polls + 1 \in Nat
    BY <1>1 DEF Look, XferType
  <2> QED
    BY <1>1, <2>1 DEF XferType, NoXfer
<1>3. UNCHANGED <<el, td, td_used, int_urbs, cmd, tag, csw, buf, device, errors, controls>>
  BY DEF Look, pool, storage, counts
<1>4. Types' /\ Urbs' /\ Owners' /\ Chains' /\ Used'
  BY <1>1, <1>2, <1>3 DEF Types, TypeOK, Urbs, Owners, Chains, Used
<1>5. Stages' /\ Numbered' /\ Hooked' /\ Progress'
  BY <1>1, <1>2, <1>3 DEF Stages, Numbered, Hooked, Progress, Executed
<1>6. Believed' /\ Attempts'
  BY <1>3 DEF Believed, Executed, Attempts
<1> QED
  BY <1>4, <1>5, <1>6 DEF IInv

LEMMA FinishStep ==
  ASSUME IInv, Finish
  PROVE  IInv'
<1> USE Basics
<1>1. xfer \in XferType /\ xfer.pc = "wait" /\ xfer # NoXfer
  BY DEF Finish
<1>2. /\ xfer' \in XferType /\ xfer' # NoXfer /\ xfer'.pc = "over"
      /\ xfer'.chain = xfer.chain /\ xfer'.request = xfer.request
      /\ xfer'.saved_el = xfer.saved_el /\ xfer'.saved_used = xfer.saved_used
  BY <1>1 DEF Finish, XferType, NoXfer
<1>3. /\ el' = xfer.saved_el /\ el' \in 0 .. Len(int_urbs) /\ td_used' = Len(int_urbs)
      /\ UNCHANGED <<td, int_urbs, cmd, tag, csw, buf, device, errors, controls>>
  BY <1>1 DEF Finish, PutBack, GivenBack, Chains, storage, counts
<1>4. Types'
  <2>1. el' \in TDs \cup {End} /\ td_used' \in 0 .. MAX_TDS
    BY <1>3, UsbAssumption DEF TDs, End
  <2> QED
    BY <1>2, <1>3, <2>1 DEF Types, TypeOK
<1>5. Urbs' /\ Owners' /\ Chains' /\ Used'
  BY <1>1, <1>2, <1>3 DEF Urbs, Owners, Chains, Used
<1>6. Stages' /\ Numbered' /\ Hooked' /\ Progress'
  BY <1>2, <1>3 DEF Stages, Numbered, Hooked, Progress
<1>7. Believed' /\ Attempts'
  BY <1>3 DEF Believed, Executed, Attempts
<1> QED
  BY <1>4, <1>5, <1>6, <1>7 DEF IInv

\* A transfer is over and its caller goes on.
LEMMA TransferReturns ==
  ASSUME IInv, xfer.pc = "over", xfer' = NoXfer,
         UNCHANGED <<el, td, td_used, int_urbs, csw, buf, device, errors, controls>>
  PROVE  /\ Urbs' /\ Chains' /\ Used' /\ Stages' /\ Numbered' /\ Hooked' /\ Progress'
         /\ (cmd' \in {NoCmd} \cup CmdType /\ tag' = tag) => Types'
<1> USE Basics
<1>1. xfer # NoXfer /\ xfer'.pc = "none"
  BY DEF NoXfer
<1>2. Urbs' /\ Chains' /\ Used' /\ Stages' /\ Numbered' /\ Hooked' /\ Progress'
  BY <1>1 DEF Urbs, Chains, Used, Stages, Numbered, Hooked, Progress
<1>3. (cmd' \in {NoCmd} \cup CmdType /\ tag' = tag) => Types'
  BY DEF Types, TypeOK
<1> QED
  BY <1>2, <1>3

LEMMA ControlReturnsStep ==
  ASSUME IInv, ControlReturns
  PROVE  IInv'
<1> USE Basics
<1>1. /\ xfer.pc = "over" /\ xfer' = NoXfer /\ xfer # NoXfer /\ cmd = NoCmd
      /\ UNCHANGED <<el, td, td_used, int_urbs, cmd, tag, csw, buf, device, errors, controls>>
  BY DEF ControlReturns, pool, storage, counts, Owners, NoXfer
<1>2. Owners' /\ Believed' /\ Attempts'
  BY <1>1 DEF Owners, Believed, Executed, Attempts, NoXfer, NoCmd
<1> QED
  BY <1>1, <1>2, TransferReturns DEF IInv, Types

LEMMA SentStep ==
  ASSUME IInv, Sent
  PROVE  IInv'
<1> USE Basics
<1>1. /\ xfer.pc = "over" /\ xfer' = NoXfer /\ cmd.pc = "sent" /\ cmd \in CmdType
      /\ UNCHANGED <<el, td, td_used, int_urbs, tag, csw, buf, device, errors, controls>>
  BY DEF Sent, pool, counts
<1>2. /\ cmd' \in CmdType /\ cmd'.pc \in {"status", "reset1"} /\ cmd' # NoCmd
      /\ cmd'.data = cmd.data /\ cmd'.sent = cmd.sent /\ cmd'.attempt = cmd.attempt
  BY <1>1 DEF Sent, CmdType, NoCmd
<1>3. Owners' /\ Believed' /\ Attempts'
  BY <1>1, <1>2 DEF Owners, Believed, Executed, Attempts, NoXfer, NoCmd
<1> QED
  BY <1>1, <1>2, <1>3, TransferReturns DEF IInv

LEMMA ResetReturnsStep ==
  ASSUME IInv, ResetReturns
  PROVE  IInv'
<1> USE Basics
<1>1. /\ xfer.pc = "over" /\ xfer' = NoXfer /\ cmd.pc \in {"reset1", "reset2", "reset3"}
      /\ cmd \in CmdType
      /\ UNCHANGED <<el, td, td_used, int_urbs, tag, csw, buf, device, errors, controls>>
  BY DEF ResetReturns, Resetting, Request, pool, counts
<1>2. /\ cmd' \in CmdType /\ cmd'.pc \in {"reset2", "reset3", "send", "done"} /\ cmd' # NoCmd
      /\ cmd'.data = cmd.data /\ cmd'.sent = cmd.sent
      /\ cmd'.pc = "done" => ~ cmd'.ok
      /\ cmd'.attempt = IF cmd'.pc = "send" THEN cmd.attempt + 1 ELSE cmd.attempt
  <2>1. CASE cmd.pc \in {"reset1", "reset2"}
    BY <1>1, <2>1 DEF ResetReturns, CmdType, NoCmd
  <2>2. CASE cmd.pc = "reset3" /\ cmd.attempt < ATTEMPTS
    <3>1. cmd' = [cmd EXCEPT !.pc = "send", !.attempt = @ + 1]
      BY <2>2 DEF ResetReturns
    <3>2. cmd.attempt + 1 \in 1 .. ATTEMPTS
      BY <1>1, <2>2, UsbAssumption DEF CmdType
    <3> QED
      BY <1>1, <3>1, <3>2 DEF CmdType, NoCmd
  <2>3. CASE cmd.pc = "reset3" /\ ~ (cmd.attempt < ATTEMPTS)
    BY <1>1, <2>3 DEF ResetReturns, CmdType, NoCmd
  <2> QED
    BY <1>1, <2>1, <2>2, <2>3
<1>3. Owners' /\ Believed'
  BY <1>1, <1>2 DEF Owners, Believed, Executed, NoXfer, NoCmd
<1>4. Attempts'
  <2> DEFINE base == (MaxCommands - 1) * ATTEMPTS
  <2>1. base \in Int /\ tag \in Int /\ cmd.attempt \in Int
    BY UsbAssumption, <1>1 DEF Types, TypeOK, CmdType
  <2>2. tag <= base + cmd.attempt + 1
    BY <1>1 DEF Attempts
  <2> HIDE DEF base
  <2>3. tag' <= base + cmd'.attempt + (IF cmd'.pc = "send" THEN 0 ELSE 1)
    BY <1>1, <1>2, <2>1, <2>2
  <2> QED
    BY <2>3 DEF Attempts, base
<1> QED
  BY <1>1, <1>2, <1>3, <1>4, TransferReturns DEF IInv

--------------------------------------------------------------------------------
(* The start of a transfer. *)

TdType == [link : TDs \cup {End}, st : {"off", "active", "done", "error"},
           stage : {"none", "int", "setup", "data0", "status", "cbw", "data", "csw"},
           of : Nat]
ControlStages == {<<"setup", "status">>, <<"setup", "data0", "status">>}
BulkStages == {<<"cbw", "csw">>, <<"cbw", "data", "csw">>}
NewTd(link, stage, of) == [link |-> link, st |-> "active", stage |-> stage, of |-> of]

\* The chain that Begin builds: where its TDs are and what is in them.
LEMMA BeginBuilds ==
  ASSUME IInv, xfer = NoXfer, NEW stages \in ControlStages \cup BulkStages, NEW of \in Nat,
         NEW request, Begin(stages, of, request)
  PROVE  LET n == Len(int_urbs)
         IN  /\ td_used' = n + Len(stages)
             /\ xfer' = [pc |-> "hook", chain |-> Chain(Len(stages)), polls |-> 0,
                         request |-> request, saved_el |-> el, saved_used |-> n, ok |-> FALSE]
             /\ Chain(Len(stages)) \in ChainAt(n) /\ Len(Chain(Len(stages))) = Len(stages)
             /\ \A t \in 1 .. n : td'[t] = td[t]
             /\ td' \in [TDs -> TdType]
             /\ Len(stages) \in {2, 3}
             /\ Len(stages) = 2 => /\ td'[n + 1] = NewTd(n + 2, stages[1], of)
                                   /\ td'[n + 2] = NewTd(End, stages[2], of)
             /\ Len(stages) = 3 => /\ td'[n + 1] = NewTd(n + 3, stages[1], of)
                                   /\ td'[n + 3] = NewTd(n + 2, stages[2], of)
                                   /\ td'[n + 2] = NewTd(End, stages[3], of)
<1> DEFINE n == Len(int_urbs)
<1> DEFINE ch == Chain(Len(stages))
<1> DEFINE New(t) == LET k == CHOOSE k \in DOMAIN ch : ch[k] = t
                     IN  [link |-> IF k = Len(ch) THEN End ELSE ch[k + 1],
                          st |-> "active", stage |-> stages[k], of |-> of]
<1> USE Basics
<1>1. td_used = n /\ n \in Nat /\ n + 1 \in TDs /\ n + 2 \in TDs /\ n + 3 \in TDs
      /\ 1 .. n \subseteq TDs
  BY UsbAssumption DEF Used, NoXfer, TDs
<1>2. td \in [TDs -> TdType]
  BY DEF Types, TypeOK, TdType
<1>3. /\ td' = [t \in TDs |-> IF \E k \in DOMAIN ch : ch[k] = t THEN New(t) ELSE td[t]]
      /\ td_used' = td_used + Len(stages)
      /\ xfer' = [pc |-> "hook", chain |-> ch, polls |-> 0, request |-> request,
                  saved_el |-> el, saved_used |-> td_used, ok |-> FALSE]
  BY DEF Begin
<1>3a. td' = [t \in TDs |-> td'[t]]
  BY <1>3
<1> HIDE DEF New
<1>4. CASE Len(stages) = 2
  <2>1. /\ ch = <<n + 1, n + 2>> /\ DOMAIN ch = {1, 2} /\ Len(ch) = 2
        /\ ch[1] = n + 1 /\ ch[2] = n + 2
    BY <1>1, <1>4 DEF Chain
  <2> HIDE DEF ch
  <2>2. (CHOOSE k \in DOMAIN ch : ch[k] = n + 1) = 1 /\ (CHOOSE k \in DOMAIN ch : ch[k] = n + 2) = 2
    BY <1>1, <2>1
  <2>3. /\ td'[n + 1] = NewTd(n + 2, stages[1], of)
        /\ td'[n + 2] = NewTd(End, stages[2], of)
        /\ \A t \in TDs \ {n + 1, n + 2} : td'[t] = td[t]
    <3>1. /\ New(n + 1) = NewTd(n + 2, stages[1], of)
          /\ New(n + 2) = NewTd(End, stages[2], of)
      BY <2>1, <2>2 DEF NewTd, New
    <3>2. td'[n + 1] = New(n + 1) /\ td'[n + 2] = New(n + 2)
      <4>1. (\E k \in DOMAIN ch : ch[k] = n + 1) /\ (\E k \in DOMAIN ch : ch[k] = n + 2)
        BY <2>1
      <4> QED
        BY <1>1, <1>3, <4>1
    <3>3. \A t \in TDs \ {n + 1, n + 2} : td'[t] = td[t]
      BY <1>3, <2>1
    <3> QED
      BY <3>1, <3>2, <3>3
  <2>4. NewTd(n + 2, stages[1], of) \in TdType /\ NewTd(End, stages[2], of) \in TdType
    <3>1. stages[1] \in {"setup", "cbw"} /\ stages[2] \in {"status", "csw"}
      BY <1>4 DEF ControlStages, BulkStages
    <3> QED
      BY <1>1, <3>1 DEF NewTd, TdType
  <2>5. td' \in [TDs -> TdType]
    <3>1. \A t \in TDs : td'[t] \in TdType
      BY <1>2, <2>3, <2>4
    <3> QED
      BY <1>3a, <3>1
  <2> QED
    BY <1>1, <1>3, <1>4, <2>1, <2>3, <2>5 DEF ChainAt, ch
<1>5. CASE Len(stages) = 3
  <2>1. /\ ch = <<n + 1, n + 3, n + 2>> /\ DOMAIN ch = {1, 2, 3} /\ Len(ch) = 3
        /\ ch[1] = n + 1 /\ ch[2] = n + 3 /\ ch[3] = n + 2
    BY <1>1, <1>5 DEF Chain
  <2> HIDE DEF ch
  <2>2. /\ (CHOOSE k \in DOMAIN ch : ch[k] = n + 1) = 1
        /\ (CHOOSE k \in DOMAIN ch : ch[k] = n + 3) = 2
        /\ (CHOOSE k \in DOMAIN ch : ch[k] = n + 2) = 3
    BY <1>1, <2>1
  <2>3. /\ td'[n + 1] = NewTd(n + 3, stages[1], of)
        /\ td'[n + 3] = NewTd(n + 2, stages[2], of)
        /\ td'[n + 2] = NewTd(End, stages[3], of)
        /\ \A t \in TDs \ {n + 1, n + 2, n + 3} : td'[t] = td[t]
    <3>1. /\ New(n + 1) = NewTd(n + 3, stages[1], of)
          /\ New(n + 3) = NewTd(n + 2, stages[2], of)
          /\ New(n + 2) = NewTd(End, stages[3], of)
      <4>1. New(n + 1) = NewTd(n + 3, stages[1], of)
        BY <2>1, <2>2 DEF NewTd, New
      <4>2. New(n + 3) = NewTd(n + 2, stages[2], of)
        BY <2>1, <2>2 DEF NewTd, New
      <4>3. New(n + 2) = NewTd(End, stages[3], of)
        BY <2>1, <2>2 DEF NewTd, New
      <4> QED
        BY <4>1, <4>2, <4>3
    <3>2. td'[n + 1] = New(n + 1) /\ td'[n + 2] = New(n + 2) /\ td'[n + 3] = New(n + 3)
      <4>1. /\ \E k \in DOMAIN ch : ch[k] = n + 1
            /\ \E k \in DOMAIN ch : ch[k] = n + 2
            /\ \E k \in DOMAIN ch : ch[k] = n + 3
        BY <2>1
      <4> QED
        BY <1>1, <1>3, <4>1
    <3>3. \A t \in TDs \ {n + 1, n + 2, n + 3} : td'[t] = td[t]
      BY <1>3, <2>1
    <3> QED
      BY <3>1, <3>2, <3>3
  <2>4. /\ NewTd(n + 3, stages[1], of) \in TdType /\ NewTd(n + 2, stages[2], of) \in TdType
        /\ NewTd(End, stages[3], of) \in TdType
    <3>1. stages[1] \in {"setup", "cbw"} /\ stages[2] \in {"data0", "data"}
          /\ stages[3] \in {"status", "csw"}
      <4>1. CASE stages = <<"setup", "data0", "status">>
        BY <4>1
      <4>2. CASE stages = <<"cbw", "data", "csw">>
        BY <4>2
      <4> QED
        BY <1>5, <4>1, <4>2 DEF ControlStages, BulkStages
    <3> QED
      BY <1>1, <3>1 DEF NewTd, TdType
  <2>5. td' \in [TDs -> TdType]
    <3>1. \A t \in TDs : td'[t] \in TdType
      BY <1>2, <2>3, <2>4
    <3> QED
      BY <1>3a, <3>1
  <2> QED
    BY <1>1, <1>3, <1>5, <2>1, <2>3, <2>5 DEF ChainAt, ch
<1>6. Len(stages) \in {2, 3}
  BY DEF ControlStages, BulkStages
<1> QED
  BY <1>4, <1>5, <1>6

\* The parts of the invariant that do not depend on whose transfer it is.
LEMMA BeginStep ==
  ASSUME IInv, xfer = NoXfer, NEW stages \in ControlStages \cup BulkStages, NEW of \in Nat,
         NEW request \in Requests, Begin(stages, of, request),
         UNCHANGED <<el, int_urbs>>
  PROVE  /\ xfer' \in XferType /\ xfer' # NoXfer /\ xfer'.pc = "hook" /\ xfer'.request = request
         /\ Urbs' /\ Chains' /\ Used' /\ Hooked' /\ Progress'
         /\ td'[Len(int_urbs) + 1].of = of
         /\ (/\ cmd' \in {NoCmd} \cup CmdType /\ csw' \in [tag : Nat, good : BOOLEAN]
             /\ tag' \in 1 .. MaxCommands * ATTEMPTS + 1
             /\ UNCHANGED <<buf, device, errors>> /\ controls' \in Nat) => Types'
         /\ (request # "bulk" /\ stages \in ControlStages) => Stages'
         /\ (request = "bulk" /\ cmd'.data /\ stages = <<"cbw", "data", "csw">>) => Stages'
         /\ (request = "bulk" /\ ~ cmd'.data /\ stages = <<"cbw", "csw">>) => Stages'
<1> DEFINE n == Len(int_urbs)
<1> DEFINE ch == Chain(Len(stages))
<1> USE Basics
<1>1. /\ td_used' = n + Len(stages)
      /\ xfer' = [pc |-> "hook", chain |-> ch, polls |-> 0, request |-> request,
                  saved_el |-> el, saved_used |-> n, ok |-> FALSE]
      /\ ch \in ChainAt(n) /\ Len(ch) = Len(stages)
      /\ \A t \in 1 .. n : td'[t] = td[t]
      /\ td' \in [TDs -> TdType]
      /\ Len(stages) \in {2, 3}
      /\ Len(stages) = 2 => /\ td'[n + 1] = NewTd(n + 2, stages[1], of)
                            /\ td'[n + 2] = NewTd(End, stages[2], of)
      /\ Len(stages) = 3 => /\ td'[n + 1] = NewTd(n + 3, stages[1], of)
                            /\ td'[n + 3] = NewTd(n + 2, stages[2], of)
                            /\ td'[n + 2] = NewTd(End, stages[3], of)
  BY BeginBuilds
<1> HIDE DEF ch
<1>2. /\ xfer'.pc = "hook" /\ xfer'.request = request /\ xfer'.chain = ch
      /\ xfer'.saved_el = el /\ xfer'.saved_used = n /\ xfer' # NoXfer
  BY <1>1 DEF NoXfer
<1>3. ch \in Seq(TDs)
  <2>1. n + 1 \in TDs /\ n + 2 \in TDs /\ n + 3 \in TDs
    BY UsbAssumption DEF TDs
  <2>2. CASE ch = <<n + 1, n + 2>>
    BY <2>1, <2>2
  <2>3. CASE ch = <<n + 1, n + 3, n + 2>>
    BY <2>1, <2>3
  <2> QED
    BY <1>1, <2>2, <2>3 DEF ChainAt
<1>4. xfer' \in XferType
  BY <1>1, <1>3 DEF XferType, Types, TypeOK
<1>5. el \in 0 .. n
  BY DEF Hooked, NoXfer
<1>6. Urbs' /\ Chains' /\ Used' /\ Hooked' /\ Progress'
  BY <1>1, <1>2, <1>5 DEF Urbs, Chains, Used, Hooked, Progress
<1>7. td'[n + 1].of = of
  BY <1>1 DEF NewTd
<1>8. ASSUME /\ cmd' \in {NoCmd} \cup CmdType /\ csw' \in [tag : Nat, good : BOOLEAN]
             /\ tag' \in 1 .. MaxCommands * ATTEMPTS + 1
             /\ UNCHANGED <<buf, device, errors>> /\ controls' \in Nat
      PROVE  Types'
  <2>1. td_used' \in 0 .. MAX_TDS
    BY <1>1, Room
  <2> QED
    BY <1>1, <1>4, <1>8, <2>1 DEF Types, TypeOK, TdType
<1>9. ASSUME request # "bulk", stages \in ControlStages
      PROVE  Stages'
  <2>1. CASE stages = <<"setup", "status">>
    BY <1>1, <1>2, <1>9, <2>1 DEF Stages, NewTd
  <2>2. CASE stages = <<"setup", "data0", "status">>
    <3>1. Len(stages) = 3 /\ stages[1] = "setup" /\ stages[2] = "data0" /\ stages[3] = "status"
      BY <2>2
    <3> QED
      BY <1>1, <1>2, <1>9, <3>1 DEF Stages, NewTd
  <2> QED
    BY <1>9, <2>1, <2>2 DEF ControlStages
<1>10. ASSUME request = "bulk", cmd'.data, stages = <<"cbw", "data", "csw">>
       PROVE  Stages'
  <2>1. Len(stages) = 3 /\ stages[1] = "cbw" /\ stages[2] = "data" /\ stages[3] = "csw"
    BY <1>10
  <2>2. request = "bulk" /\ cmd'.data
    BY <1>10
  <2>3. /\ td'[n + 1].link = n + 3 /\ td'[n + 3].link = n + 2 /\ td'[n + 2].link = End
        /\ td'[n + 1].stage = "cbw" /\ td'[n + 3].stage = "data" /\ td'[n + 2].stage = "csw"
    BY <1>1, <2>1 DEF NewTd
  <2>4. Len(xfer'.chain) = 3 /\ xfer'.request = "bulk" /\ int_urbs' = int_urbs
    BY <1>1, <1>2, <2>1, <2>2
  <2> HIDE Basics
  <2> QED
    BY <2>2, <2>3, <2>4 DEF Stages
<1>11. ASSUME request = "bulk", ~ cmd'.data, stages = <<"cbw", "csw">>
       PROVE  Stages'
  BY <1>1, <1>2, <1>11 DEF Stages, NewTd
<1> QED
  BY <1>2, <1>4, <1>6, <1>7, <1>8, <1>9, <1>10, <1>11

LEMMA ControlTransferStep ==
  ASSUME IInv, ControlTransfer
  PROVE  IInv'
<1>1. /\ xfer = NoXfer /\ cmd = NoCmd
      /\ UNCHANGED <<el, int_urbs, cmd, tag, csw, buf, device, errors>>
      /\ controls' = controls + 1
  BY Basics DEF ControlTransfer, storage
<1>2. PICK stages \in ControlStages : Begin(stages, 0, "other")
  BY DEF ControlTransfer, ControlStages
<1>3. /\ cmd' \in {NoCmd} \cup CmdType /\ csw' \in [tag : Nat, good : BOOLEAN]
      /\ tag' \in 1 .. MaxCommands * ATTEMPTS + 1 /\ controls' \in Nat
  BY <1>1, Basics DEF Types, TypeOK
<1>4. /\ xfer' \in XferType /\ xfer' # NoXfer /\ xfer'.pc = "hook" /\ xfer'.request = "other"
      /\ Urbs' /\ Chains' /\ Used' /\ Hooked' /\ Progress' /\ Types' /\ Stages'
  BY <1>1, <1>2, <1>3, BeginStep DEF Requests
<1>5. Owners' /\ Numbered'
  BY <1>1, <1>4 DEF Owners, Numbered, NoCmd
<1>6. Believed' /\ Attempts'
  BY <1>1, Basics DEF Believed, Attempts
<1> QED
  BY <1>4, <1>5, <1>6 DEF IInv

LEMMA ResetStep ==
  ASSUME IInv, Reset
  PROVE  IInv'
<1>1. /\ xfer = NoXfer /\ cmd.pc \in {"reset1", "reset2", "reset3"}
      /\ UNCHANGED <<el, int_urbs, cmd, tag, csw, buf, device, errors, controls>>
  BY Basics DEF Reset, Resetting, Request, storage, counts
<1>2. Request[cmd.pc] \in {"reset", "clear"}
  BY <1>1 DEF Request
<1>3. PICK request \in {"reset", "clear"} : Begin(<<"setup", "status">>, 0, request)
  BY <1>2 DEF Reset
<1>4. /\ cmd' \in {NoCmd} \cup CmdType /\ csw' \in [tag : Nat, good : BOOLEAN]
      /\ tag' \in 1 .. MaxCommands * ATTEMPTS + 1 /\ controls' \in Nat
  BY <1>1, Basics DEF Types, TypeOK
<1>5. request \in Requests /\ request # "bulk" /\ <<"setup", "status">> \in ControlStages
  BY <1>3 DEF Requests, ControlStages
<1>6. /\ xfer' \in XferType /\ xfer' # NoXfer /\ xfer'.pc = "hook" /\ xfer'.request = request
      /\ Urbs' /\ Chains' /\ Used' /\ Hooked' /\ Progress' /\ Types' /\ Stages'
  BY <1>1, <1>3, <1>4, <1>5, BeginStep
<1>7. Owners' /\ Numbered'
  BY <1>1, <1>3, <1>6 DEF Owners, Numbered
<1>8. Believed' /\ Attempts'
  BY <1>1, Basics DEF Believed, Executed, Attempts
<1> QED
  BY <1>6, <1>7, <1>8 DEF IInv

LEMMA SendStep ==
  ASSUME IInv, Send
  PROVE  IInv'
<1> DEFINE stages == IF cmd.data THEN <<"cbw", "data", "csw">> ELSE <<"cbw", "csw">>
<1> DEFINE base == (MaxCommands - 1) * ATTEMPTS
<1>1. /\ xfer = NoXfer /\ cmd.pc = "send" /\ cmd \in CmdType /\ cmd # NoCmd
      /\ tag' = tag + 1 /\ csw' \in {csw, NoStatus}
      /\ cmd' = [cmd EXCEPT !.pc = "sent", !.sent = tag, !.polls = 0]
      /\ Begin(stages, tag, "bulk")
      /\ UNCHANGED <<el, int_urbs, buf, device, errors, controls>>
  BY Basics DEF Send, counts
<1>2. /\ tag \in Nat \ {0} /\ csw.tag \in Nat /\ csw.tag < tag /\ csw.good \in BOOLEAN
      /\ csw \in [tag : Nat, good : BOOLEAN] /\ controls \in Nat
  BY Basics DEF Types, TypeOK, Believed
<1>3. /\ cmd' \in CmdType /\ cmd' # NoCmd /\ cmd'.pc = "sent" /\ cmd'.sent = tag
      /\ cmd'.data = cmd.data /\ cmd'.attempt = cmd.attempt
  BY <1>1, <1>2 DEF CmdType, NoCmd
<1>4. csw' \in [tag : Nat, good : BOOLEAN] /\ csw'.tag < tag
  <2>1. NoStatus \in [tag : Nat, good : BOOLEAN] /\ NoStatus.tag = 0 /\ 0 < tag
    BY <1>2 DEF NoStatus
  <2> QED
    BY <1>1, <1>2, <2>1
<1>5. tag' <= base + cmd.attempt + 1 /\ tag' \in 1 .. MaxCommands * ATTEMPTS + 1
  <2>1. base \in Int /\ cmd.attempt \in 1 .. ATTEMPTS /\ base + ATTEMPTS = MaxCommands * ATTEMPTS
    BY <1>1, UsbAssumption DEF CmdType
  <2>2. tag <= base + cmd.attempt
    BY <1>1, <2>1, Basics DEF Attempts
  <2> HIDE DEF base
  <2> QED
    BY <1>1, <1>2, <2>1, <2>2, UsbAssumption
<1> HIDE DEF base
<1>6. stages \in BulkStages /\ "bulk" \in Requests
  BY DEF BulkStages, Requests
<1>7. (cmd'.data /\ stages = <<"cbw", "data", "csw">>) \/ (~ cmd'.data /\ stages = <<"cbw", "csw">>)
  BY <1>1, <1>3 DEF CmdType
<1> HIDE DEF stages
<1>8. /\ xfer' \in XferType /\ xfer' # NoXfer /\ xfer'.pc = "hook" /\ xfer'.request = "bulk"
      /\ Urbs' /\ Chains' /\ Used' /\ Hooked' /\ Progress' /\ Types' /\ Stages'
      /\ td'[Len(int_urbs) + 1].of = tag
  BY <1>1, <1>2, <1>3, <1>4, <1>5, <1>6, <1>7, BeginStep
<1>9. Owners' /\ Numbered'
  BY <1>1, <1>3, <1>8 DEF Owners, Numbered
<1>10. Believed'
  BY <1>1, <1>2, <1>3, <1>4 DEF Believed
<1>11. Attempts'
  BY <1>3, <1>5 DEF Attempts, base
<1> QED
  BY <1>8, <1>9, <1>10, <1>11 DEF IInv

--------------------------------------------------------------------------------
(* Steps of a command outside transfers. *)

LEMMA CommandStep ==
  ASSUME IInv, NEW data \in BOOLEAN, Command(data)
  PROVE  IInv'
<1>1. /\ xfer = NoXfer /\ cmd = NoCmd /\ tag <= (MaxCommands - 1) * ATTEMPTS + 1
      /\ cmd' = [pc |-> "send", data |-> data, attempt |-> 1, sent |-> 0, polls |-> 0,
                 ok |-> FALSE]
      /\ UNCHANGED <<el, td, td_used, int_urbs, xfer, tag, csw, buf, device, errors, controls>>
  BY Basics DEF Command, pool, counts
<1>2. /\ cmd' \in CmdType /\ cmd' # NoCmd /\ cmd'.pc = "send" /\ cmd'.sent = 0
      /\ cmd'.attempt = 1
  BY <1>1, UsbAssumption DEF CmdType, NoCmd
<1>3. Types'
  BY <1>1, <1>2, Basics DEF Types, TypeOK
<1>4. Urbs' /\ Owners' /\ Chains' /\ Used' /\ Hooked'
  BY <1>1, <1>2, Basics DEF Urbs, Owners, Chains, Used, Hooked
<1>5. Stages' /\ Numbered' /\ Progress'
  BY <1>1, Basics DEF Stages, Numbered, Progress
<1>6. Believed'
  BY <1>1, <1>2, Basics DEF Believed, Types, TypeOK
<1>7. Attempts'
  <2> DEFINE base == (MaxCommands - 1) * ATTEMPTS
  <2>1. base \in Int
    BY UsbAssumption
  <2> HIDE DEF base
  <2>2. tag' <= base + cmd'.attempt + 0
    <3>1. tag' <= base + 1
      BY <1>1 DEF base
    <3> QED
      BY <1>2, <2>1, <3>1
  <2> QED
    BY <1>2, <2>2 DEF Attempts, base
<1> QED
  BY <1>3, <1>4, <1>5, <1>6, <1>7 DEF IInv

\* Only the command changes, and it has no transfer.
LEMMA CommandAlone ==
  ASSUME IInv, xfer = NoXfer, cmd' \in {NoCmd} \cup CmdType,
         cmd'.pc \in {"none", "status", "done", "reset1"},
         UNCHANGED <<el, td, td_used, int_urbs, xfer, tag, csw, buf, device, errors, controls>>
  PROVE  /\ Types' /\ Urbs' /\ Owners' /\ Chains' /\ Used' /\ Stages' /\ Numbered' /\ Hooked'
         /\ Progress'
<1>1. Types'
  BY Basics DEF Types, TypeOK
<1>2. Urbs' /\ Owners' /\ Chains' /\ Used' /\ Hooked'
  BY Basics DEF Urbs, Owners, Chains, Used, Hooked
<1>3. Stages' /\ Numbered' /\ Progress'
  BY Basics DEF Stages, Numbered, Progress
<1> QED
  BY <1>1, <1>2, <1>3

LEMMA StatusStep ==
  ASSUME IInv, Status
  PROVE  IInv'
<1>1. /\ xfer = NoXfer /\ cmd.pc = "status" /\ cmd \in CmdType /\ cmd # NoCmd
      /\ cmd.sent # 0
      /\ UNCHANGED <<el, td, td_used, int_urbs, xfer, tag, csw, buf, device, errors, controls>>
  BY Basics DEF Status, Owners, Believed, pool, counts
<1>2. /\ cmd' \in CmdType /\ cmd' # NoCmd /\ cmd'.pc \in {"status", "done", "reset1"}
      /\ cmd'.data = cmd.data /\ cmd'.sent = cmd.sent /\ cmd'.attempt = cmd.attempt
      /\ cmd'.pc = "done" => csw.tag = cmd.sent
  <2>1. CASE CswFor(cmd.sent)
    <3>1. csw.good \in BOOLEAN
      BY Basics DEF Types
    <3> QED
      BY <1>1, <2>1, <3>1 DEF Status, CswFor, CmdType, NoCmd
  <2>2. CASE ~ CswFor(cmd.sent) /\ cmd.polls < CSW_POLLS
    <3>1. cmd' = [cmd EXCEPT !.polls = @ + 1] /\ cmd.polls + 1 \in Nat
      BY <1>1, <2>2 DEF Status, CmdType
    <3> QED
      BY <1>1, <3>1 DEF CmdType, NoCmd
  <2>3. CASE ~ CswFor(cmd.sent) /\ ~ (cmd.polls < CSW_POLLS)
    BY <1>1, <2>3 DEF Status, CmdType, NoCmd
  <2> QED
    BY <2>1, <2>2, <2>3
<1>3. Believed'
  BY <1>1, <1>2, Basics DEF Believed, Executed
<1>4. Attempts'
  BY <1>1, <1>2, Basics DEF Attempts
<1> QED
  BY <1>1, <1>2, <1>3, <1>4, CommandAlone DEF IInv

LEMMA ReturnStep ==
  ASSUME IInv, Return
  PROVE  IInv'
<1>1. /\ xfer = NoXfer /\ cmd' = NoCmd /\ cmd'.pc = "none"
      /\ UNCHANGED <<el, td, td_used, int_urbs, xfer, tag, csw, buf, device, errors, controls>>
  BY Basics DEF Return, Owners, pool, counts, NoCmd
<1>2. Believed' /\ Attempts'
  BY <1>1, Basics DEF Believed, Attempts
<1> QED
  BY <1>1, <1>2, CommandAlone DEF IInv

--------------------------------------------------------------------------------
(* Interrupt transfers. *)

LEMMA SubmitStep ==
  ASSUME IInv, NEW ep \in Endpoints, Submit(ep)
  PROVE  IInv'
<1> DEFINE n == Len(int_urbs)
<1> DEFINE new == [link |-> End, st |-> "active", stage |-> "int", of |-> 0]
<1>1. /\ xfer = NoXfer /\ cmd = NoCmd /\ n < MAX_URBS /\ td_used = n /\ n \in Nat
      /\ int_urbs \in Seq([ep : Endpoints, td : TDs]) /\ td \in [TDs -> TdType]
  BY Basics DEF Submit, Used, NoXfer, Types, TypeOK, TdType
<1>2. /\ td_used' = n + 1 /\ el' = n + 1 /\ td' = [td EXCEPT ![n + 1] = new]
      /\ int_urbs' = Append(int_urbs, [ep |-> ep, td |-> n + 1])
      /\ UNCHANGED <<xfer, cmd, tag, csw, buf, device, errors, controls>>
  BY <1>1 DEF Submit, storage, counts
<1>3. n + 1 \in TDs /\ n + 1 \in 0 .. MAX_TDS /\ 1 .. n + 1 \subseteq TDs
  BY <1>1, UsbAssumption DEF TDs
<1>4. /\ int_urbs' \in Seq([ep : Endpoints, td : TDs]) /\ Len(int_urbs') = n + 1
      /\ \A i \in 1 .. n : int_urbs'[i] = int_urbs[i]
      /\ int_urbs'[n + 1] = [ep |-> ep, td |-> n + 1]
  BY <1>1, <1>2, <1>3
<1>5. new \in TdType
  BY DEF TdType
<1>6. td' \in [TDs -> TdType] /\ td'[n + 1] = new /\ \A t \in 1 .. n : td'[t] = td[t]
  BY <1>1, <1>2, <1>3, <1>5
<1>7. Types'
  BY <1>2, <1>3, <1>4, <1>6, Basics DEF Types, TypeOK, TdType
<1>8. Urbs'
  <2>1. Len(int_urbs') <= MAX_URBS
    BY <1>1, <1>4, UsbAssumption
  <2>2. \A i \in DOMAIN int_urbs' : int_urbs'[i].td = i
    <3>1. DOMAIN int_urbs' = 1 .. n + 1 /\ DOMAIN int_urbs = 1 .. n
      BY <1>1, <1>4
    <3> QED
      BY <1>1, <1>4, <3>1, Basics DEF Urbs
  <2>3. \A t \in 1 .. Len(int_urbs') : td'[t].link = End /\ td'[t].stage = "int"
    BY <1>1, <1>4, <1>6, Basics DEF Urbs
  <2> QED
    BY <2>1, <2>2, <2>3 DEF Urbs
<1>9. Owners' /\ Chains' /\ Used' /\ Hooked'
  BY <1>1, <1>2, <1>4, Basics DEF Owners, Chains, Used, Hooked, NoXfer, NoCmd
<1>10. Stages' /\ Numbered' /\ Progress'
  BY <1>1, <1>2 DEF Stages, Numbered, Progress, NoXfer
<1>11. Believed' /\ Attempts'
  BY <1>1, <1>2, Basics DEF Believed, Attempts
<1> QED
  BY <1>7, <1>8, <1>9, <1>10, <1>11 DEF IInv

LEMMA PollStep ==
  ASSUME IInv, NEW i \in DOMAIN int_urbs, usb_poll(i)
  PROVE  IInv'
<1> DEFINE n == Len(int_urbs)
<1> DEFINE new == [link |-> End, st |-> "active", stage |-> "int", of |-> 0]
<1>1. /\ xfer = NoXfer /\ cmd = NoCmd /\ td \in [TDs -> TdType] /\ int_urbs[i].td = i
      /\ i \in 1 .. n /\ i \in TDs /\ n \in Nat
  <2>1. xfer = NoXfer /\ cmd = NoCmd
    BY Basics DEF usb_poll
  <2>2. td \in [TDs -> TdType] /\ int_urbs \in Seq([ep : Endpoints, td : TDs])
    BY Basics DEF Types, TypeOK, TdType
  <2>3. int_urbs[i].td = i /\ n \in Nat /\ n + 3 <= MAX_TDS
    BY Basics DEF Urbs
  <2>4. i \in 1 .. n
    BY <2>2
  <2>5. i \in TDs
    BY <2>3, <2>4, UsbAssumption DEF TDs
  <2> QED
    BY <2>1, <2>2, <2>3, <2>4, <2>5
<1>2. /\ el' = i /\ td' = [td EXCEPT ![i] = new]
      /\ UNCHANGED <<td_used, int_urbs, xfer, cmd, tag, csw, buf, device, errors, controls>>
  BY <1>1 DEF usb_poll, storage, counts
<1>3. new \in TdType
  BY DEF TdType
<1>4. td' \in [TDs -> TdType] /\ td'[i] = new /\ \A t \in TDs \ {i} : td'[t] = td[t]
  BY <1>1, <1>2, <1>3
<1>5. Types'
  BY <1>1, <1>2, <1>4, Basics DEF Types, TypeOK, TdType
<1>6. Urbs'
  <2>1. 1 .. n \subseteq TDs
    BY Basics, UsbAssumption DEF TDs
  <2> QED
    BY <1>1, <1>2, <1>4, <2>1, Basics DEF Urbs
<1>7. Owners' /\ Chains' /\ Used' /\ Hooked'
  BY <1>1, <1>2, Basics DEF Owners, Chains, Used, Hooked, NoXfer, NoCmd
<1>8. Stages' /\ Numbered' /\ Progress'
  BY <1>1, <1>2 DEF Stages, Numbered, Progress, NoXfer
<1>9. Believed' /\ Attempts'
  BY <1>1, <1>2, Basics DEF Believed, Attempts
<1> QED
  BY <1>5, <1>6, <1>7, <1>8, <1>9 DEF IInv

--------------------------------------------------------------------------------
(* The controller. *)

\* A descriptor only changes its state: the schedule stays as it is built.
LEMMA DescriptorDone ==
  ASSUME IInv, NEW st \in {"off", "active", "done", "error"}, el # End,
         td' = [td EXCEPT ![el].st = st],
         UNCHANGED <<td_used, int_urbs, xfer, cmd, tag>>
  PROVE  /\ td' \in [TDs -> TdType]
         /\ Urbs' /\ Owners' /\ Chains' /\ Used' /\ Stages' /\ Numbered' /\ Attempts'
<1>1. td \in [TDs -> TdType] /\ el \in TDs
  BY Basics DEF Types, TypeOK, TdType
<1>2. /\ td' \in [TDs -> TdType]
      /\ \A t \in TDs : /\ td'[t].link = td[t].link /\ td'[t].stage = td[t].stage
                        /\ td'[t].of = td[t].of
  <2>1. [td[el] EXCEPT !.st = st] \in TdType
    BY <1>1 DEF TdType
  <2> QED
    BY <1>1, <2>1 DEF TdType
<1>3. /\ 1 .. Len(int_urbs) \subseteq TDs /\ Len(int_urbs) + 1 \in TDs
      /\ Len(int_urbs) + 2 \in TDs /\ Len(int_urbs) + 3 \in TDs
  BY Basics, UsbAssumption DEF TDs
<1>4. Urbs'
  BY <1>2, <1>3, Basics DEF Urbs
<1>5. Owners' /\ Chains' /\ Used' /\ Attempts'
  BY Basics DEF Owners, Chains, Used, Attempts
<1>6. Stages'
  BY <1>2, <1>3, Basics DEF Stages
<1>7. Numbered'
  BY <1>2, <1>3, Basics DEF Numbered
<1> QED
  BY <1>2, <1>4, <1>5, <1>6, <1>7

LEMMA HcErrorStep ==
  ASSUME IInv, HcError
  PROVE  IInv'
<1>1. /\ el # End /\ td' = [td EXCEPT ![el].st = "error"] /\ errors' \in {errors, errors + 1}
      /\ UNCHANGED <<el, td_used, int_urbs, xfer, cmd, tag, csw, buf, device, controls>>
  BY DEF HcError, Active, storage
<1>2. /\ td' \in [TDs -> TdType]
      /\ Urbs' /\ Owners' /\ Chains' /\ Used' /\ Stages' /\ Numbered' /\ Attempts'
  BY <1>1, DescriptorDone
<1>3. Types'
  BY <1>1, <1>2, Basics DEF Types, TypeOK, TdType
<1>4. Hooked' /\ Progress' /\ Believed'
  BY <1>1, Basics DEF Hooked, Progress, Believed, Executed
<1> QED
  BY <1>2, <1>3, <1>4 DEF IInv

Stage == {"int", "setup", "data0", "status", "cbw", "data", "csw"}

\* Where the queue moves on to.
LEMMA QueueMoves ==
  ASSUME IInv, Active(Stage)
  PROVE  LET n == Len(int_urbs)
         IN  /\ el \in TDs /\ td[el] \in TdType
             /\ xfer.pc # "wait" => td[el].stage = "int" /\ td[el].link = End
             /\ xfer.pc = "wait" =>
                  /\ td[el].stage # "int"
                  /\ td[el].link \in {End} \cup (n + 1 .. n + Len(xfer.chain))
                  /\ td[el].link = n + 3 => el = n + 1 /\ Len(xfer.chain) = 3
                  /\ td[el].link = n + 2 => el = IF Len(xfer.chain) = 2 THEN n + 1 ELSE n + 3
                  /\ td[el].stage = "cbw" => el = n + 1 /\ xfer.request = "bulk"
                  /\ td[el].stage = "csw" => el = n + 2 /\ xfer.request = "bulk"
                  /\ td[el].stage = "data" => el = n + 3 /\ xfer.request = "bulk"
                  /\ xfer.request = "bulk" => td[el].stage \in {"cbw", "data", "csw"}
<1> DEFINE n == Len(int_urbs)
<1>1. el \in TDs /\ td[el] \in TdType
  BY Basics DEF Types, TypeOK, TdType, Active, Stage
<1>2. CASE xfer.pc # "wait"
  <2>1. el \in 1 .. n
    BY <1>1, <1>2, Basics, UsbAssumption DEF Hooked, Active, End, TDs
  <2> QED
    BY <1>1, <1>2, <2>1, Basics DEF Urbs
<1>3. CASE xfer.pc = "wait"
  <2>1. el \in n + 1 .. n + Len(xfer.chain) /\ Len(xfer.chain) \in {2, 3} /\ n \in Nat
    BY <1>3, Basics DEF Hooked, Active
  <2>2. CASE Len(xfer.chain) = 2
    <3>1. el = n + 1 \/ el = n + 2
      BY <2>1, <2>2
    <3>2. /\ td[n + 1].link = n + 2 /\ td[n + 2].link = End
          /\ xfer.request = "bulk" => td[n + 1].stage = "cbw" /\ td[n + 2].stage = "csw"
          /\ xfer.request # "bulk" => td[n + 1].stage = "setup" /\ td[n + 2].stage = "status"
      BY <1>3, <2>2, Basics DEF Stages
    <3> QED
      BY <1>1, <1>3, <2>1, <2>2, <3>1, <3>2 DEF End
  <2>3. CASE Len(xfer.chain) = 3
    <3>1. el = n + 1 \/ el = n + 2 \/ el = n + 3
      BY <2>1, <2>3
    <3>2. /\ td[n + 1].link = n + 3 /\ td[n + 3].link = n + 2 /\ td[n + 2].link = End
          /\ xfer.request = "bulk" => /\ td[n + 1].stage = "cbw" /\ td[n + 3].stage = "data"
                                      /\ td[n + 2].stage = "csw"
          /\ xfer.request # "bulk" => /\ td[n + 1].stage = "setup" /\ td[n + 3].stage = "data0"
                                      /\ td[n + 2].stage = "status"
      BY <1>3, <2>3, Basics DEF Stages
    <3> QED
      BY <1>1, <1>3, <2>1, <2>3, <3>1, <3>2 DEF End
  <2> QED
    BY <2>1, <2>2, <2>3
<1> QED
  BY <1>1, <1>2, <1>3

LEMMA CompleteStep ==
  ASSUME IInv, Active(Stage), Complete
  PROVE  /\ td' \in [TDs -> TdType] /\ el' \in TDs \cup {End} /\ el' = td[el].link
         /\ Urbs' /\ Owners' /\ Chains' /\ Used' /\ Stages' /\ Numbered' /\ Attempts'
         /\ Hooked'
         /\ UNCHANGED <<td_used, int_urbs, xfer, cmd, tag>>
<1>1. /\ el # End /\ td' = [td EXCEPT ![el].st = "done"] /\ el' = td[el].link
      /\ UNCHANGED <<td_used, int_urbs, xfer, cmd, tag>>
  BY DEF Complete, Active
<1>2. /\ td' \in [TDs -> TdType]
      /\ Urbs' /\ Owners' /\ Chains' /\ Used' /\ Stages' /\ Numbered' /\ Attempts'
  BY <1>1, DescriptorDone
<1>3. /\ el \in TDs /\ td[el] \in TdType
      /\ xfer.pc # "wait" => td[el].link = End
      /\ xfer.pc = "wait" =>
           td[el].link \in {End} \cup (Len(int_urbs) + 1 .. Len(int_urbs) + Len(xfer.chain))
  BY QueueMoves
<1>4. el' \in TDs \cup {End}
  BY <1>1, <1>3 DEF TdType
<1>5. Hooked'
  BY <1>1, <1>3, Basics DEF Hooked, End
<1> QED
  BY <1>1, <1>2, <1>4, <1>5

LEMMA HcOtherStep ==
  ASSUME IInv, HcOther
  PROVE  IInv'
<1>1. Active(Stage) /\ Complete /\ UNCHANGED <<csw, buf, errors, controls>>
      /\ td[el].stage \in {"int", "setup", "data0", "status"}
  BY DEF HcOther, Active, Stage, counts
<1>2. device' \in DeviceType /\ device'.done = device.done
  <2>1. device \in DeviceType
    BY Basics DEF Types
  <2>2. [device EXCEPT !.mode = "cbw"] \in DeviceType
        /\ [device EXCEPT !.mode = "cbw"].done = device.done
    BY <2>1 DEF DeviceType
  <2> QED
    BY <2>1, <2>2 DEF HcOther
<1>3. Types'
  BY <1>1, <1>2, CompleteStep, Basics DEF Types, TypeOK, TdType
<1>4. Progress'
  <2>1. xfer' = xfer
    BY <1>1, CompleteStep
  <2>2. ~ (xfer.pc = "wait" /\ xfer.request = "bulk")
    BY <1>1, QueueMoves
  <2> QED
    BY <2>1, <2>2 DEF Progress
<1>5. Believed'
  <2>1. UNCHANGED <<cmd, tag>>
    BY <1>1, CompleteStep
  <2> QED
    BY <1>1, <1>2, <2>1, Basics DEF Believed, Executed
<1> QED
  BY <1>1, <1>3, <1>4, <1>5, CompleteStep DEF IInv

\* A stage of a bulk transfer is executed.
LEMMA BulkStage ==
  ASSUME IInv, Active({"cbw", "data", "csw"})
  PROVE  /\ Active(Stage) /\ xfer.pc = "wait" /\ xfer.request = "bulk" /\ cmd.pc = "sent"
         /\ cmd \in CmdType /\ cmd # NoCmd /\ cmd.sent \in Nat \ {0} /\ cmd.sent < tag
         /\ td[el].stage = "cbw" => /\ el = Len(int_urbs) + 1 /\ td[el].of = cmd.sent
                                    /\ td[el].link = IF cmd.data THEN Len(int_urbs) + 3
                                                     ELSE Len(int_urbs) + 2
         /\ td[el].stage = "data" => /\ el = Len(int_urbs) + 3
                                     /\ td[el].link = Len(int_urbs) + 2
         /\ td[el].stage = "csw" => el = Len(int_urbs) + 2 /\ td[el].link = End
<1> DEFINE n == Len(int_urbs)
<1>1. Active(Stage)
  BY DEF Active, Stage
<1>2. /\ xfer.pc = "wait" /\ xfer.request = "bulk"
      /\ td[el].stage = "cbw" => el = n + 1
      /\ td[el].stage = "csw" => el = n + 2
      /\ td[el].stage = "data" => el = n + 3
  BY <1>1, QueueMoves DEF Active
<1>3. xfer # NoXfer /\ cmd.pc = "sent"
  BY <1>2, Basics DEF Owners, NoXfer
<1>4. cmd # NoCmd /\ cmd \in CmdType /\ cmd.sent \in Nat \ {0} /\ cmd.sent < tag
  BY <1>3, Basics DEF Believed, CmdType
<1>5. td[n + 1].of = cmd.sent
  BY <1>2, Basics DEF Numbered
<1>6. n \in Nat /\ Len(xfer.chain) \in {2, 3} /\ el \in n + 1 .. n + Len(xfer.chain)
  BY <1>2, <1>3, Basics DEF Hooked, Active
<1>7. td[el].stage = "data" => Len(xfer.chain) = 3
  <2>1. SUFFICES ASSUME td[el].stage = "data", Len(xfer.chain) = 2 PROVE FALSE
    BY <1>6
  <2>2. el = n + 3 /\ el \in n + 1 .. n + 2
    BY <1>2, <1>6, <2>1
  <2> QED
    BY <1>6, <2>2
<1>8. /\ td[n + 2].link = End
      /\ Len(xfer.chain) = 3 => td[n + 1].link = n + 3 /\ td[n + 3].link = n + 2 /\ cmd.data
      /\ Len(xfer.chain) = 2 => td[n + 1].link = n + 2 /\ ~ cmd.data
  <2>1. CASE Len(xfer.chain) = 2
    BY <1>2, <2>1, Basics DEF Stages
  <2>2. CASE Len(xfer.chain) = 3
    BY <1>2, <2>2, Basics DEF Stages
  <2> QED
    BY <1>6, <2>1, <2>2
<1> QED
  BY <1>1, <1>2, <1>3, <1>4, <1>5, <1>6, <1>7, <1>8

LEMMA HcCbwStep ==
  ASSUME IInv, HcCbw
  PROVE  IInv'
<1> DEFINE n == Len(int_urbs)
<1>1. Active({"cbw", "data", "csw"}) /\ td[el].stage = "cbw" /\ Complete
      /\ UNCHANGED <<csw, buf, errors, controls>>
  BY DEF HcCbw, Active, counts
<1>2. /\ Active(Stage) /\ cmd \in CmdType /\ cmd # NoCmd /\ cmd.sent \in Nat \ {0}
      /\ cmd.pc = "sent" /\ td[el].of = cmd.sent
      /\ td[el].link = IF cmd.data THEN n + 3 ELSE n + 2
  BY <1>1, BulkStage
<1>3. el' = td[el].link /\ UNCHANGED <<td_used, int_urbs, xfer, cmd, tag>>
  BY <1>1, <1>2, CompleteStep
<1>4. /\ device'.mode = IF cmd.data THEN "data" ELSE "csw"
      /\ device'.tag = cmd.sent
      /\ device'.done = IF cmd.data THEN device.done ELSE device.done \cup {cmd.sent}
      /\ device' \in DeviceType
  <2>1. device.done \in SUBSET Nat
    BY Basics DEF Types, DeviceType
  <2>2. device' = [mode |-> IF cmd.data THEN "data" ELSE "csw",
                   tag |-> cmd.sent, data |-> cmd.data,
                   done |-> IF cmd.data THEN device.done ELSE device.done \cup {cmd.sent}]
    BY <1>2 DEF HcCbw
  <2> QED
    BY <1>2, <2>1, <2>2 DEF DeviceType, CmdType
<1>5. Types'
  BY <1>1, <1>2, <1>4, CompleteStep, Basics DEF Types, TypeOK, TdType
<1>6. Progress'
  <2>1. n \in Nat /\ n + 2 # n + 3
    BY Basics
  <2> QED
    BY <1>1, <1>2, <1>3, <1>4, <2>1 DEF Progress, Executed
<1>7. Believed'
  BY <1>1, <1>2, <1>3, <1>4, Basics DEF Believed, Executed
<1> QED
  BY <1>1, <1>2, <1>5, <1>6, <1>7, CompleteStep DEF IInv

LEMMA HcDataStep ==
  ASSUME IInv, HcData
  PROVE  IInv'
<1> DEFINE n == Len(int_urbs)
<1>1. Active({"cbw", "data", "csw"}) /\ td[el].stage = "data" /\ Complete
      /\ buf' = device.tag /\ UNCHANGED <<csw, errors, controls>>
  BY DEF HcData, Active, counts
<1>2. /\ Active(Stage) /\ cmd \in CmdType /\ cmd # NoCmd /\ cmd.sent \in Nat \ {0}
      /\ cmd.pc = "sent" /\ el = n + 3 /\ td[el].link = n + 2
      /\ xfer.pc = "wait" /\ xfer.request = "bulk"
  BY <1>1, BulkStage
<1>3. el' = n + 2 /\ UNCHANGED <<td_used, int_urbs, xfer, cmd, tag>>
  BY <1>1, <1>2, CompleteStep
<1>4. device.tag = cmd.sent
  BY <1>2, Basics DEF Progress
<1>5. /\ device'.mode = "csw" /\ device'.tag = cmd.sent
      /\ device'.done = device.done \cup {cmd.sent}
      /\ device' \in DeviceType
  <2>1. device \in DeviceType
    BY Basics DEF Types
  <2>2. device' = [device EXCEPT !.mode = "csw", !.done = @ \cup {cmd.sent}]
    BY <1>4 DEF HcData
  <2> QED
    BY <1>2, <1>4, <2>1, <2>2 DEF DeviceType
<1>6. Types'
  BY <1>1, <1>2, <1>4, <1>5, CompleteStep, Basics DEF Types, TypeOK, TdType
<1>7. Progress'
  <2>1. n \in Nat /\ n + 2 # n + 3
    BY Basics
  <2> QED
    BY <1>1, <1>3, <1>4, <1>5, <2>1 DEF Progress, Executed
<1>8. Believed'
  BY <1>1, <1>2, <1>3, <1>4, <1>5, Basics DEF Believed, Executed
<1> QED
  BY <1>1, <1>2, <1>6, <1>7, <1>8, CompleteStep DEF IInv

LEMMA HcCswStep ==
  ASSUME IInv, HcCsw
  PROVE  IInv'
<1> DEFINE n == Len(int_urbs)
<1>1. Active({"cbw", "data", "csw"}) /\ td[el].stage = "csw" /\ Complete
      /\ device' = [device EXCEPT !.mode = "cbw"] /\ UNCHANGED <<buf, errors, controls>>
  BY DEF HcCsw, Active, counts
<1>2. /\ Active(Stage) /\ cmd \in CmdType /\ cmd # NoCmd /\ cmd.sent \in Nat \ {0}
      /\ cmd.pc = "sent" /\ el = n + 2 /\ td[el].link = End /\ cmd.sent < tag
      /\ xfer.pc = "wait" /\ xfer.request = "bulk"
  BY <1>1, BulkStage
<1>3. el' = End /\ UNCHANGED <<td_used, int_urbs, xfer, cmd, tag>>
  BY <1>1, <1>2, CompleteStep
<1>4. device.tag = cmd.sent /\ Executed(cmd.sent)
  BY <1>2, Basics DEF Progress
<1>5. csw' \in [tag : Nat, good : BOOLEAN] /\ csw'.tag = cmd.sent
  <2>1. PICK good \in BOOLEAN : csw' = [tag |-> device.tag, good |-> good]
    BY DEF HcCsw
  <2> QED
    BY <1>2, <1>4, <2>1
<1>6. device' \in DeviceType /\ device'.done = device.done
  <2>1. device \in DeviceType
    BY Basics DEF Types
  <2> QED
    BY <1>1, <2>1 DEF DeviceType
<1>7. Types'
  BY <1>1, <1>2, <1>5, <1>6, CompleteStep, Basics DEF Types, TypeOK, TdType
<1>8. Progress'
  BY <1>3, Basics DEF Progress, End
<1>9. Believed'
  BY <1>1, <1>2, <1>3, <1>4, <1>5, <1>6, Basics DEF Believed, Executed
<1> QED
  BY <1>1, <1>2, <1>7, <1>8, <1>9, CompleteStep DEF IInv

--------------------------------------------------------------------------------
(* The theorems. *)

LEMMA Initially == Init => IInv
<1> SUFFICES ASSUME Init PROVE IInv
  OBVIOUS
<1> DEFINE off == [link |-> End, st |-> "off", stage |-> "none", of |-> 0]
<1>1. xfer.pc = "none" /\ cmd.pc = "none" /\ int_urbs = <<>> /\ Len(int_urbs) = 0
      /\ DOMAIN int_urbs = {} /\ csw.tag = 0
  BY DEF Init, NoXfer, NoCmd, NoStatus
<1>2. Types
  <2>1. td \in [TDs -> TdType]
    <3>1. off \in TdType
      BY DEF TdType
    <3> QED
      BY <3>1 DEF Init
  <2>2. tag \in 1 .. MaxCommands * ATTEMPTS + 1
    <3>1. MaxCommands * ATTEMPTS \in Nat
      BY UsbAssumption
    <3> QED
      BY <3>1 DEF Init
  <2>3. device \in DeviceType /\ csw \in [tag : Nat, good : BOOLEAN]
    BY DEF Init, DeviceType, NoStatus
  <2>4. td_used \in 0 .. MAX_TDS /\ int_urbs \in Seq([ep : Endpoints, td : TDs])
    BY UsbAssumption DEF Init
  <2> QED
    BY <2>1, <2>2, <2>3, <2>4 DEF Init, Types, TypeOK, TdType
<1>3. Urbs /\ Owners /\ Chains /\ Used /\ Hooked
  BY <1>1, UsbAssumption DEF Init, Urbs, Owners, Chains, Used, Hooked, End
<1>4. Stages /\ Numbered /\ Progress /\ Believed /\ Attempts
  BY <1>1 DEF Init, Stages, Numbered, Progress, Believed, Attempts
<1> QED
  BY <1>2, <1>3, <1>4 DEF IInv

LEMMA Stuttering == IInv /\ UNCHANGED vars => IInv'
<1> SUFFICES ASSUME IInv, UNCHANGED vars PROVE IInv'
  OBVIOUS
<1>1. UNCHANGED <<el, td, td_used, int_urbs, xfer, cmd, tag, csw, buf, device, errors, controls>>
  BY DEF vars
<1>2. Types' /\ Urbs' /\ Owners' /\ Chains' /\ Used'
  BY <1>1, Basics DEF Types, TypeOK, Urbs, Owners, Chains, Used
<1>3. Stages' /\ Numbered' /\ Hooked' /\ Progress' /\ Believed' /\ Attempts'
  BY <1>1, Basics DEF Stages, Numbered, Hooked, Progress, Believed, Attempts, Executed
<1> QED
  BY <1>2, <1>3 DEF IInv

\* The schedule, the pool, the device and the command in progress stay related
\* as the invariant says whatever the driver, the controller and the device do
\* next (usb_controller.c, usb_mass_storage.c).
THEOREM Invariance == Spec => []IInv
<1>1. ASSUME IInv, Next PROVE IInv'
  <2>1. CASE Driver
    BY <1>1, <2>1, HookStep, LookStep, FinishStep, ControlReturnsStep, SendStep, SentStep,
       StatusStep, ResetStep, ResetReturnsStep, ReturnStep DEF Driver
  <2>2. CASE Controller
    BY <1>1, <2>2, HcOtherStep, HcCbwStep, HcDataStep, HcCswStep, HcErrorStep DEF Controller
  <2>3. CASE ControlTransfer
    BY <1>1, <2>3, ControlTransferStep
  <2>4. CASE SubmitAny
    BY <1>1, <2>4, SubmitStep DEF SubmitAny
  <2>5. CASE PollAny
    BY <1>1, <2>5, PollStep DEF PollAny
  <2>6. CASE CommandAny
    BY <1>1, <2>6, CommandStep DEF CommandAny
  <2> QED
    BY <1>1, <2>1, <2>2, <2>3, <2>4, <2>5, <2>6 DEF Next
<1> QED
  BY <1>1, Initially, Stuttering, PTL DEF Spec

\* Between transfers only interrupt transfers are hooked and counted, and no
\* synchronous transfer takes a descriptor of one of them: the element link and
\* td_used are put back after each transfer (uhci_control_transfer, usb_bulk_bot).
THEOREM ScheduleAlwaysSound == Spec => []ScheduleSound
<1>1. ASSUME IInv PROVE ScheduleSound
  <2>1. UrbTds = 1 .. Len(int_urbs) /\ Len(int_urbs) \in Nat
    BY <1>1, Basics, UrbTdsFirst
  <2>2. NothingLeftHooked
    BY <1>1, <2>1, Basics DEF NothingLeftHooked, Between, Hooked, End
  <2>3. TypeOK
    BY <1>1, Basics DEF Types
  <2>4. Between => td_used = Len(int_urbs)
    BY <1>1, Basics DEF Between, Used
  <2>5. ASSUME xfer.pc # "none", NEW k \in DOMAIN xfer.chain
        PROVE  xfer.chain[k] \notin UrbTds
    <3>1. xfer.chain[k] \in Len(int_urbs) + 1 .. Len(int_urbs) + Len(xfer.chain)
      BY <1>1, <2>1, <2>5, Basics, ChainElements DEF Chains
    <3> QED
      BY <2>1, <3>1
  <2> QED
    BY <2>1, <2>2, <2>3, <2>4, <2>5 DEF ScheduleSound, PoolExact
<1> QED
  BY <1>1, Invariance, PTL

\* A command that msc_bot_command reports as executed has been executed by the
\* device and its data is in the buffer, however many attempts it took and
\* whatever status an earlier attempt left in the status buffer.
THEOREM CommandsAlwaysTruthful == Spec => []CommandTruthful
<1>1. ASSUME IInv PROVE CommandTruthful
  BY <1>1, Basics, CmdFields DEF CommandTruthful, Believed, Executed, NoCmd
<1> QED
  BY <1>1, Invariance, PTL
================================================================================
