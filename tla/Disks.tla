-------------------------------- MODULE Disks -------------------------------
(***************************************************************************)
(* The lsdisks command: pci_enumerate_devices allocates and fills a list   *)
(* (the probes of module PciScan, in memory of module Heap),               *)
(* get_ahci_devices maps every entry and counts the drives, allocates a    *)
(* second list for that many, and maps and tests every entry once more to  *)
(* fill it.  The memory is taken for good: one step is one probe, or one   *)
(* entry with its call of mmap.                                            *)
(*                                                                         *)
(* mmap hands out fresh zeroed memory, not the registers of the device,    *)
(* and its failure is not looked at: the address -1 makes check_type read  *)
(* the bytes of low memory at 0x23 to 0x2A.                                *)
(***************************************************************************)
EXTENDS Heap, PciScan

\* MAX_PCI_DEVICES is 128 in the code.
CONSTANTS
  DEVICE_SIZE,       \* sizeof(struct pci_device), 12
  PORT_SIZE          \* sizeof(HBA_PORT), 128

\* In the code: 256 = 2 * 128 mappings, and 34304 of 1048576 bytes.
ASSUME DisksAssumption ==
  /\ DEVICE_SIZE \in Nat \ {0}
  /\ PORT_SIZE \in MapLengths
  /\ MAX_MAPPINGS = 2 * MAX_PCI_DEVICES
  /\ MAX_PCI_DEVICES * DEVICE_SIZE + MAX_MAPPINGS * PORT_SIZE <= HEAP_SIZE
  /\ \A n \in 0 .. MAX_PCI_DEVICES : n * DEVICE_SIZE \in Sizes

VARIABLES
  low,          \* what low memory looks like as port registers
  step,         \* where lsdisks is
  length,       \* device_list.length
  i,            \* the loop counter
  ahci_count,
  ahci_devices, \* the address of the second list
  index

disksVars == <<heapVars, pciVars, low, step, length, i, ahci_count, ahci_devices, index>>

\* Status and signature of a port, by the values check_type tells apart.
Registers == [det : {"none", "present"}, ipm : {"off", "active"},
              sig : {"ata", "atapi", "semb", "pm"}]
Zeroed == [det |-> "none", ipm |-> "off", sig |-> "ata"]

check_type(port) ==
  IF port.det # "present" \/ port.ipm # "active" THEN "null"
  ELSE [ata |-> "sata", atapi |-> "satapi", semb |-> "semb", pm |-> "pm"][port.sig]

\* Maps the port of an entry; the result of mmap is the port.
get_hba_port == mmap(PORT_SIZE)

IsDrive == check_type(IF result' = MAP_FAILED THEN low ELSE Zeroed) # "null"

DisksInit ==
  /\ HeapInit /\ PciInit
  /\ low \in Registers
  /\ step = "idle"
  /\ length = 0 /\ i = 0
  /\ ahci_count = 0 /\ ahci_devices = NULL /\ index = 0

\* The call of pci_enumerate_devices.
Enumerate ==
  /\ step = "idle"
  /\ malloc(MAX_PCI_DEVICES * DEVICE_SIZE)
  /\ Begin(result' # NULL)
  /\ step' = "enumerate"
  /\ UNCHANGED <<low, length, i, ahci_count, ahci_devices, index>>

ProbeOne ==
  /\ step = "enumerate"
  /\ Probe
  /\ UNCHANGED <<heapVars, low, step, length, i, ahci_count, ahci_devices, index>>

\* Its return, and the start of get_ahci_devices.
Enumerated ==
  /\ step = "enumerate" /\ state \in {"done", "failed"}
  /\ length' = device_count
  /\ step' = "count"
  /\ i' = 0 /\ ahci_count' = 0 /\ index' = 0
  /\ UNCHANGED <<heapVars, pciVars, low, ahci_devices>>

CountOne ==
  /\ step = "count" /\ i < length
  /\ get_hba_port
  /\ ahci_count' = IF IsDrive THEN ahci_count + 1 ELSE ahci_count
  /\ i' = i + 1
  /\ UNCHANGED <<pciVars, low, step, length, ahci_devices, index>>

AllocateList ==
  /\ step = "count" /\ i = length
  /\ malloc(ahci_count * DEVICE_SIZE)
  /\ ahci_devices' = result'
  /\ step' = "fill"
  /\ i' = 0
  /\ UNCHANGED <<pciVars, low, length, ahci_count, index>>

\* A copy to a list that could not be allocated goes to low memory.
FillOne ==
  /\ step = "fill" /\ i < length
  /\ get_hba_port
  /\ IF IsDrive
       THEN /\ index' = index + 1
            /\ low' \in IF ahci_devices = NULL THEN Registers ELSE {low}
       ELSE UNCHANGED <<index, low>>
  /\ i' = i + 1
  /\ UNCHANGED <<pciVars, step, length, ahci_count, ahci_devices>>

\* The list is printed and the prompt comes back.
Finish ==
  /\ step = "fill" /\ i = length
  /\ step' = "idle"
  /\ UNCHANGED <<heapVars, pciVars, low, length, i, ahci_count, ahci_devices, index>>

lsdisks == Enumerate \/ ProbeOne \/ Enumerated \/ CountOne \/ AllocateList \/ FillOne \/ Finish

DisksSpec == DisksInit /\ [][lsdisks]_disksVars

(***************************************************************************)
(* The second pass writes exactly the list the first one made room for:    *)
(* never past its end, and, if it could be allocated, leaving no entry     *)
(* unwritten, although mappings and memory run out for good over the calls *)
(* and an unmapped port reads as low memory (kernel.c:238-261).            *)
(***************************************************************************)
FillMatchesCount ==
  /\ index <= ahci_count
  /\ step = "fill" /\ i = length /\ ahci_devices # NULL => index = ahci_count
=============================================================================
