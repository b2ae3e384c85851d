-------------------------------- MODULE UsbBus --------------------------------
(* What is on the bus:  enumeration through root ports and hubs                     *)
(* (driver/usb_controller.c), and the drivers that look for their devices in the   *)
(* list it leaves (usb_hid.c, usb_mass_storage.c, mouse.c).  It happens once,      *)
(* before the first task.  A control transfer is one step here (Usb has its        *)
(* inside): it may be lost, it may be executed and reported as failed, and, since  *)
(* the driver waits for the SETUP stage only, it may be reported as done and never *)
(* be executed.                                                                    *)
EXTENDS Integers, Sequences, SequencesExt

CONSTANTS
  Devs,          \* devices
  Host,          \* the controller, as the place of its root ports
  Place,         \* where a device is plugged in: <<Host or a hub, port>>
  Desc,          \* class of a device, what its first interface is, ports of a hub
  ROOT_PORTS,    \* 2
  FALLBACK,      \* ports that are tried if the hub does not say, 4
  ADDRESSES,     \* values of next_address, 256
  Lapses,        \* what may go wrong: "lost", "late", "early", "memory"
  StuckAtZero,   \* it may also leave a device at address 0
  MaxLapses      \* bound: how often it does

ASSUME BusAssumption ==
  /\ Host \notin Devs /\ \A d \in Devs : Place[d][1] \in Devs \cup {Host}
  /\ ROOT_PORTS \in Nat /\ FALLBACK \in Nat /\ MaxLapses \in Nat
  /\ ADDRESSES \in Nat \ {0, 1} /\ StuckAtZero \in BOOLEAN

VARIABLES
  bus,            \* a device: its port is enabled, its address, it is configured
  frames,         \* ports being scanned: the root's and those of the hubs above
  doing,          \* step of enumerate_device, or the driver that walks the list
  next_address, new_addr,
  seen,           \* the device whose descriptor was read
  device_list, walk,
  claimed,        \* address that each driver works with, 0 if none
  lapses

busVars == <<bus, frames, doing, next_address, new_addr, seen, device_list, walk, claimed, lapses>>

\* Nothing is enabled yet; the ports of the root are scanned first.
BusInit ==
  /\ bus = [d \in Devs |-> [on |-> FALSE, addr |-> 0, conf |-> FALSE]]
  /\ frames = <<[hub |-> Host, addr |-> 0, port |-> 1, ports |-> ROOT_PORTS]>>
  /\ doing = "port"
  /\ next_address = 1 /\ new_addr = 0 /\ seen = Host
  /\ device_list = <<>> /\ walk = 1
  /\ claimed = [r \in {"storage", "keyboard", "mouse"} |-> 0]
  /\ lapses = 0

--------------------------------------------------------------------------------
(* The devices (external). *)

Answering(a) == {d \in Devs : bus[d].on /\ bus[d].addr = a}

\* What may come of a request: the result that the driver sees, and whether the
\* device has executed it.
Fine == [ok |-> TRUE, done |-> TRUE, lapse |-> 0]
Refused == [ok |-> FALSE, done |-> FALSE, lapse |-> 0]
Outcomes(answers, kinds) ==
  IF answers = {} THEN {Refused}
  ELSE {Fine}
       \cup (IF "lost" \in kinds THEN {[ok |-> FALSE, done |-> FALSE, lapse |-> 1]} ELSE {})
       \cup (IF "late" \in kinds THEN {[ok |-> FALSE, done |-> TRUE, lapse |-> 1]} ELSE {})
       \cup (IF "early" \in kinds THEN {[ok |-> TRUE, done |-> FALSE, lapse |-> 1]} ELSE {})

Happens(n) == lapses' = lapses + n /\ lapses' <= MaxLapses

ResetPort(d) == [bus EXCEPT ![d] = [on |-> TRUE, addr |-> 0, conf |-> FALSE]]
Addressed(old, new) == [d \in Devs |-> IF d \in Answering(old) THEN [bus[d] EXCEPT !.addr = new]
                                                               ELSE bus[d]]
Configured(a) == [d \in Devs |-> IF d \in Answering(a) THEN [bus[d] EXCEPT !.conf = TRUE]
                                                       ELSE bus[d]]
PluggedIn(hub, port) == {d \in Devs : Place[d] = <<hub, port>>}

--------------------------------------------------------------------------------
(* Enumeration. *)

Frame == Last(frames)
NextPort == [frames EXCEPT ![Len(frames)].port = @ + 1]
GoOn == doing' = "port" /\ frames' = NextPort
lists == <<device_list, walk, claimed>>

\* The loop of uhci_init: a device on the port is reset and enumerated.
RootPort ==
  /\ doing = "port" /\ Len(frames) = 1 /\ Frame.port <= Frame.ports
  /\ LET there == PluggedIn(Host, Frame.port)
     IN  \/ there = {} /\ GoOn /\ UNCHANGED bus
         \/ \E d \in there : bus' = ResetPort(d) /\ doing' = "first8" /\ UNCHANGED frames
  /\ UNCHANGED <<next_address, new_addr, seen, lists, lapses>>

\* The loop of usb_hub_scan: status of the port, power (of no consequence), reset.
\* A device that calls itself a hub and is none answers neither.
HubPort ==
  /\ doing = "port" /\ Len(frames) > 1 /\ Frame.port <= Frame.ports
  /\ LET hubs == {h \in Answering(Frame.addr) : Desc[h].ports > 0}
         there == PluggedIn(Frame.hub, Frame.port)
     IN  \E st \in Outcomes(hubs, Lapses \cap {"lost"}) :
           IF ~ st.ok \/ there = {}
           THEN GoOn /\ Happens(st.lapse) /\ UNCHANGED bus
           ELSE \E rs \in Outcomes(hubs, Lapses), d \in there :
                  /\ Happens(st.lapse + rs.lapse)
                  /\ bus' = IF rs.done THEN ResetPort(d) ELSE bus
                  /\ doing' = "first8" /\ UNCHANGED frames
  /\ UNCHANGED <<next_address, new_addr, seen, lists>>

\* The last port is done; after the root's the drivers follow.
PortsDone ==
  /\ doing = "port" /\ Frame.port > Frame.ports
  /\ IF Len(frames) = 1
     THEN doing' = "hid" /\ UNCHANGED frames
     ELSE /\ frames' = [Front(frames) EXCEPT ![Len(frames) - 1].port = @ + 1]
          /\ UNCHANGED doing
  /\ UNCHANGED <<bus, next_address, new_addr, seen, lists, lapses>>

\* enumerate_device, a request per step.
AtZero(kinds) == IF StuckAtZero THEN kinds ELSE kinds \cap {"late"}

ReadFirst8 ==
  /\ doing = "first8"
  /\ \E o \in Outcomes(Answering(0), AtZero(Lapses \cap {"lost"})) :
       /\ Happens(o.lapse)
       /\ IF o.ok THEN doing' = "address" /\ UNCHANGED frames ELSE GoOn
  /\ UNCHANGED <<bus, next_address, new_addr, seen, lists>>

\* Mutant of SpentAddress: an address is used up only if the device has taken it.
SpentAddressIf(ok) == IF ok THEN (next_address + 1) % ADDRESSES ELSE next_address
SpentAddress(ok) == (next_address + 1) % ADDRESSES

SetAddress ==
  /\ doing = "address"
  /\ new_addr' = IF next_address = 0 THEN 1 ELSE next_address
  /\ \E o \in Outcomes(Answering(0), AtZero(Lapses)) :
       /\ Happens(o.lapse)
       /\ next_address' = SpentAddress(o.ok)
       /\ bus' = IF o.done THEN Addressed(0, new_addr') ELSE bus
       /\ IF o.ok THEN doing' = "device" /\ UNCHANGED frames ELSE GoOn
  /\ UNCHANGED <<seen, lists>>

\* The device descriptor, then the configuration's, in two requests.
ReadDescriptors ==
  /\ doing = "device"
  /\ \E o \in Outcomes(Answering(new_addr), Lapses \cap {"lost"}) :
       /\ Happens(o.lapse)
       /\ IF o.ok THEN doing' = "register" /\ UNCHANGED frames /\ seen' \in Answering(new_addr)
                  ELSE GoOn /\ UNCHANGED seen
  /\ UNCHANGED <<bus, next_address, new_addr, lists>>

\* The device gets into the list, at its head, and is configured, which may fail; a
\* hub is scanned before anything else.
Register ==
  /\ doing = "register"
  /\ \/ /\ "memory" \in Lapses /\ Happens(1)
        /\ GoOn
        /\ UNCHANGED <<bus, device_list>>
     \/ \E o \in Outcomes(Answering(new_addr), Lapses) :
          /\ Happens(o.lapse)
          /\ device_list' = <<[address |-> new_addr, dev |-> seen]>> \o device_list
          /\ bus' = IF o.done THEN Configured(new_addr) ELSE bus
          /\ IF Desc[seen].class = "hub" THEN doing' = "hub" /\ UNCHANGED frames ELSE GoOn
  /\ UNCHANGED <<next_address, new_addr, seen, walk, claimed>>

\* usb_hub_port_count; the frame of the hub's ports is pushed.
HubPorts ==
  /\ doing = "hub"
  /\ \E o \in Outcomes({h \in Answering(new_addr) : Desc[h].ports > 0}, Lapses \cap {"lost"}) :
       /\ Happens(o.lapse)
       /\ frames' = Append(frames, [hub |-> seen, addr |-> new_addr, port |-> 1,
                                    ports |-> IF o.ok THEN Desc[seen].ports ELSE FALLBACK])
  /\ doing' = "port"
  /\ UNCHANGED <<bus, next_address, new_addr, seen, lists>>

--------------------------------------------------------------------------------
(* The drivers walk the list, in this order. *)

Drivers == <<"hid", "storage", "keyboard", "mouse", "over">>
After(driver) == Drivers[(CHOOSE i \in DOMAIN Drivers : Drivers[i] = driver) + 1]

\* Whose configuration a driver reads, by the class of the device, and what it must
\* find there as the first interface of the kind it knows.
LooksAt(driver, class) ==
  CASE driver = "hid"      -> class = "none"
    [] driver = "storage"  -> class # "storage"
    [] driver = "keyboard" -> TRUE
    [] driver = "mouse"    -> class \in {"none", "hid"}
\* Mutant of Wants: the mouse driver takes any input device (an earlier version).
WantsAny(driver, iface) == iface = driver \/ (driver \in {"hid", "mouse"} /\ iface \in {"keyboard", "mouse"})
Wants(driver, iface) == iface = driver \/ (driver = "hid" /\ iface \in {"keyboard", "mouse"})
Fits(driver, d) == LooksAt(driver, d.class) /\ Wants(driver, d.iface)

\* Whether the driver goes on although the device could not be configured, and
\* whether it stops at the first one it has taken.
Careless == {"keyboard"}
StopsAtFirst == {"keyboard", "mouse"}

\* The configuration descriptor is read and the device configured; then storage must
\* become ready, and the transfer of a keyboard or mouse must find a descriptor.
Visit ==
  /\ doing \in {"hid", "storage", "keyboard", "mouse"} /\ walk <= Len(device_list)
  /\ LET r == device_list[walk]
         found == Answering(r.address)
         read == LooksAt(doing, Desc[r.dev].class)
     IN  \E rd \in IF read THEN Outcomes(found, Lapses \cap {"lost"}) ELSE {Refused} :
           IF ~ rd.ok \/ ~ Wants(doing, Desc[r.dev].iface)
           THEN Happens(rd.lapse) /\ UNCHANGED <<bus, claimed>>
           ELSE \E cf \in Outcomes(found, Lapses), started \in BOOLEAN :
                  /\ Happens(rd.lapse + cf.lapse + (IF started THEN 0 ELSE 1))
                  /\ started \/ (doing # "hid" /\ "memory" \in Lapses /\ (cf.ok \/ doing \in Careless))
                  /\ bus' = IF cf.done THEN Configured(r.address) ELSE bus
                  /\ claimed' = IF doing = "hid" \/ ~ (cf.ok \/ doing \in Careless) THEN claimed
                                ELSE [claimed EXCEPT ![doing] = IF started THEN r.address ELSE 0]
  /\ walk' = IF doing \in StopsAtFirst /\ claimed'[doing] # 0 THEN Len(device_list) + 1
             ELSE walk + 1
  /\ UNCHANGED <<frames, doing, next_address, new_addr, seen, device_list>>

NextDriver ==
  /\ doing \in {"hid", "storage", "keyboard", "mouse"} /\ walk > Len(device_list)
  /\ doing' = After(doing) /\ walk' = 1
  /\ UNCHANGED <<bus, frames, next_address, new_addr, seen, device_list, claimed, lapses>>

BusStep ==
  \/ RootPort \/ HubPort \/ PortsDone \/ ReadFirst8 \/ SetAddress \/ ReadDescriptors
  \/ Register \/ HubPorts \/ Visit \/ NextDriver

--------------------------------------------------------------------------------
(* Properties. *)

\* At the address of a device in the list that device answers and no other one,
\* whatever was lost or came late while others were enumerated.
AddressesOwn ==
  \A i \in DOMAIN device_list : Answering(device_list[i].address) = {device_list[i].dev}

\* The drivers work with different devices, each configured.
ClaimsSound ==
  \A r, s \in DOMAIN claimed :
     (doing = "over" /\ claimed[r] # 0) =>
        /\ r # s => claimed[r] # claimed[s]
        /\ \A d \in Answering(claimed[r]) : bus[d].conf /\ Fits(r, Desc[d])

\* If nothing goes wrong every device is found, behind any number of hubs, and a
\* driver has a device if there is one for it.
AllFound ==
  (doing = "over" /\ lapses = 0) =>
     /\ {device_list[i].dev : i \in DOMAIN device_list} = Devs
     /\ Len(device_list) = Len(SetToSeq(Devs))
     /\ \A r \in DOMAIN claimed : (\E d \in Devs : Fits(r, Desc[d])) => claimed[r] # 0

\* Enumeration and claiming are sound.
BusSound == AddressesOwn /\ ClaimsSound /\ AllFound
================================================================================
