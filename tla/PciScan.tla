------------------------------ MODULE PciScan -------------------------------
(***************************************************************************)
(* pci_enumerate_devices of pci.c: the scan of all buses, devices and      *)
(* functions into a list of at most MAX_PCI_DEVICES entries.  One step is  *)
(* one probe of the configuration space.                                   *)
(*                                                                         *)
(* The bus counter is a byte, so its test against 256 never ends the loop: *)
(* after the last bus the scan starts over, and it ends only when the list *)
(* is full.                                                                *)
(***************************************************************************)
EXTENDS Integers, Sequences, FiniteSets

CONSTANTS
  BUSES, DEVICES, FUNCTIONS,   \* 256, 32 and 8 in the code
  MAX_PCI_DEVICES

ASSUME PciAssumption ==
  /\ BUSES \in Nat \ {0} /\ DEVICES \in Nat \ {0} /\ FUNCTIONS \in Nat \ {0}
  /\ MAX_PCI_DEVICES \in Nat \ {0}

VARIABLES
  config,                  \* what the hardware answers at each place; it never changes
  bus, device, function,   \* the loop counters
  list,                    \* dev_list.pci_device[0 .. device_count - 1], by place
  state                    \* "start", "scan", "done" or "failed" (no memory for the list)

pciVars == <<config, bus, device, function, list, state>>

Places == (0 .. BUSES - 1) \X (0 .. DEVICES - 1) \X (0 .. FUNCTIONS - 1)

\* "absent" reads as 0xFFFFFFFF, "invalid" has one of its two ids 0xFFFF.
Answers == {"absent", "invalid", "valid"}
Present == {p \in Places : config[p] = "valid"}

device_count == Len(list)

PciInit ==
  /\ config \in [Places -> Answers]
  /\ bus = 0 /\ device = 0 /\ function = 0
  /\ list = <<>>
  /\ state = "start"

\* A call of pci_enumerate_devices, up to its test of what malloc returned.
Begin(allocated) ==
  /\ bus' = 0 /\ device' = 0 /\ function' = 0
  /\ list' = <<>>
  /\ state' = IF allocated THEN "scan" ELSE "failed"
  /\ UNCHANGED config

Allocate == state = "start" /\ \E allocated \in BOOLEAN : Begin(allocated)

\* Variant: the limit is not looked at when a bus is finished.
NextDeviceNoLimit ==
  /\ function' = 0
  /\ device' = (device + 1) % DEVICES
  /\ bus' = IF device + 1 < DEVICES THEN bus ELSE (bus + 1) % BUSES
  /\ UNCHANGED state

\* The function loop is over: the next device, or the end of the bus, where
\* the scan stops when the list is full.
NextDevice ==
  /\ function' = 0
  /\ device' = (device + 1) % DEVICES
  /\ IF device + 1 < DEVICES THEN UNCHANGED <<bus, state>>
     ELSE IF Len(list') >= MAX_PCI_DEVICES THEN state' = "done" /\ UNCHANGED bus
     ELSE bus' = (bus + 1) % BUSES /\ UNCHANGED state

NextFunction ==
  IF function + 1 < FUNCTIONS
    THEN function' = function + 1 /\ UNCHANGED <<bus, device, state>>
    ELSE NextDevice

\* The place being probed.
Here == <<bus, device, function>>

Skip ==
  /\ state = "scan" /\ config[Here] # "valid"
  /\ UNCHANGED <<config, list>>
  /\ NextFunction

\* Variant: the limit of the list off by one.
RecordOneMore ==
  /\ state = "scan" /\ config[Here] = "valid"
  /\ device_count <= MAX_PCI_DEVICES
  /\ list' = Append(list, Here)
  /\ UNCHANGED config
  /\ NextFunction

\* Variant: a device found leaves the rest of its functions out.
RecordFirstFunction ==
  /\ state = "scan" /\ config[Here] = "valid"
  /\ device_count < MAX_PCI_DEVICES
  /\ list' = Append(list, Here)
  /\ UNCHANGED config
  /\ NextDevice

Record ==
  /\ state = "scan" /\ config[Here] = "valid"
  /\ device_count < MAX_PCI_DEVICES
  /\ list' = Append(list, Here)
  /\ UNCHANGED config
  /\ NextFunction

\* A device too many only leaves the function loop.
Refuse ==
  /\ state = "scan" /\ config[Here] = "valid"
  /\ device_count >= MAX_PCI_DEVICES
  /\ UNCHANGED <<config, list>>
  /\ NextDevice

Probe == Skip \/ Record \/ Refuse

PciNext == Allocate \/ Probe

\* The scan is a loop of the only program running: it goes on while it can.
PciSpec == PciInit /\ [][PciNext]_pciVars /\ WF_pciVars(PciNext)

PciTypeOK ==
  /\ config \in [Places -> Answers]
  /\ bus \in 0 .. BUSES - 1
  /\ device \in 0 .. DEVICES - 1
  /\ function \in 0 .. FUNCTIONS - 1
  /\ list \in Seq(Places)
  /\ state \in {"start", "scan", "done", "failed"}

(***************************************************************************)
(* The list never outgrows the memory allocated for it, every entry is a   *)
(* device that answered with valid ids, a finished scan has a full list,   *)
(* and without memory the list is empty (pci.c:44-49, 83-111).             *)
(***************************************************************************)
ListSound ==
  /\ device_count <= MAX_PCI_DEVICES
  /\ \A i \in DOMAIN list : config[list[i]] = "valid"
  /\ state = "done" => device_count = MAX_PCI_DEVICES
  /\ state \in {"start", "failed"} => list = <<>>

Before(p, q) ==
  \/ p[1] < q[1]
  \/ p[1] = q[1] /\ p[2] < q[2]
  \/ p[1] = q[1] /\ p[2] = q[2] /\ p[3] < q[3]

\* How many of the devices come before a place in the order of the scan.
Rank(p) == Cardinality({q \in Present : Before(q, p)})

(***************************************************************************)
(* The list goes through the devices in bus order, leaving none out, and   *)
(* starts over when it has them all: entry i is the device with rank       *)
(* (i - 1) modulo the number of devices (pci.c:57-105).                    *)
(***************************************************************************)
ListCycles ==
  \A i \in DOMAIN list : Rank(list[i]) = (i - 1) % Cardinality(Present)

(***************************************************************************)
(* The enumeration returns, if there is any device (pci.c:57-117).         *)
(***************************************************************************)
ScanEnds == (state = "start" /\ Present # {}) ~> state \in {"done", "failed"}
=============================================================================
