----------------------------- MODULE BootMemory -----------------------------
(***************************************************************************)
(* The memory of the machine from the boot loader's map to the buddy       *)
(* system: setup_arch first lets setup_memory_region fill e820 (E820), and *)
(* everything that then asks for RAM goes by that table (MemInit).         *)
(***************************************************************************)
EXTENDS E820, MemInit

bootMemoryVars == <<vars, inputs, stage, nr>>

BootMemoryInit ==
  /\ MapInit
  /\ Allocators

(* setup_memory_region: nobody has any memory yet. *)
SetupMemoryRegion ==
  /\ MapNext
  /\ UNCHANGED <<bootVars, zoneVars, at, i, totalram_pages, reservedpages>>

(* The rest, on a table that ends where the model's machine does.  *)
UseMemory ==
  /\ stage = "done" /\ LowPfn(e820) = max_low_pfn
  /\ Next
  /\ UNCHANGED <<inputs, stage, nr>>

BootMemoryNext == SetupMemoryRegion \/ UseMemory

(* A single thread with interrupts off and nothing to wait for. *)
BootMemorySpec ==
  /\ BootMemoryInit
  /\ [][BootMemoryNext]_bootMemoryVars
  /\ WF_bootMemoryVars(BootMemoryNext)
=============================================================================
