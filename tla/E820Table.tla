----------------------------- MODULE E820Table ------------------------------
(* struct e820map of include/asm-i386/e820.h, which setup_memory_region    *)
(* fills (E820) and the rest of setup_arch and mem_init read (MemInit).    *)

CONSTANTS
  E820MAX,            \* entries that e820.map has room for
  HIGH_MEMORY         \* 0x100000, where memory goes on behind the hole

VARIABLE
  e820                \* e820.map up to e820.nr_map
=============================================================================
