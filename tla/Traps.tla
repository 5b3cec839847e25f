-------------------------------- MODULE Traps --------------------------------
(***************************************************************************)
(* The interrupt descriptor table: setup_idt of arch/i386/kernel/head.S,   *)
(* trap_init of traps.c, and the gates that init_IRQ of i8259.c adds.  The *)
(* handlers of the exceptions are not written yet: their gates hold NULL.  *)
(***************************************************************************)
EXTENDS Integers

CONSTANTS
  FIRST_EXTERNAL_VECTOR, NR_IRQS, \* the vectors from 0x20 on, 224 of them
  SYSCALL_VECTOR,                 \* 0x80
  nmi, int3, overflow, bounds,    \* 2, 3, 4, 5
  LastException                   \* 19

Vectors    == 0 .. FIRST_EXTERNAL_VECTOR + NR_IRQS - 1
Exceptions == 0 .. LastException

ASSUME TrapsAssumption ==
  /\ {LastException, FIRST_EXTERNAL_VECTOR, NR_IRQS} \subseteq Nat
  /\ FIRST_EXTERNAL_VECTOR > LastException /\ FIRST_EXTERNAL_VECTOR + NR_IRQS <= 256
  /\ {nmi, int3, overflow, bounds} \subseteq Exceptions
  /\ nmi \notin {int3, overflow, bounds}
  /\ SYSCALL_VECTOR \in Vectors /\ SYSCALL_VECTOR >= FIRST_EXTERNAL_VECTOR

VARIABLE idt_table

(* A handler is one of these, or the stub of a line, which pushes a number *)
(* for do_IRQ. *)
ignore_int == <<"ignore_int">>
NULL == <<"NULL">>
Stub(pushed) == <<"interrupt", pushed>>

(* A gate: an interrupt gate turns interrupts off; a gate of level 3 can   *)
(* be used by user mode. *)
Gate(type, dpl, addr) == [type |-> type, dpl |-> dpl, addr |-> addr]

intr_gate(addr)   == Gate("interrupt", 0, addr)
trap_gate(addr)   == Gate("trap", 0, addr)
system_gate(addr) == Gate("trap", 3, addr)

setup_idt == idt_table' = [n \in Vectors |-> intr_gate(ignore_int)]

trap_init ==
  idt_table' = [n \in Vectors |->
    CASE n \in {int3, overflow, bounds, SYSCALL_VECTOR} -> system_gate(NULL)
      [] n = nmi -> intr_gate(NULL)
      [] n \in Exceptions \ {nmi, int3, overflow, bounds} -> trap_gate(NULL)
      [] OTHER -> idt_table[n]]

(* The stub of a line pushes its number less 256, so that it differs from  *)
(* the number of a system call; what do_IRQ makes of that is the number    *)
(* modulo 256 (external: do_IRQ is a stub). *)
Pushed(nr) == nr - 256

LineOf(gate) == gate.addr[2] % 256

(* The table interrupt: lines that no chip has are left NULL. *)
interrupt(nr, lines) == IF nr \in lines THEN Stub(Pushed(nr)) ELSE NULL

(* Fault: the gate of system calls is among those of the lines. *)
SetInterruptGatesAll(lines) ==
  idt_table' = [n \in Vectors |->
    IF n >= FIRST_EXTERNAL_VECTOR
      THEN intr_gate(interrupt(n - FIRST_EXTERNAL_VECTOR, lines)) ELSE idt_table[n]]

(* The loop of init_IRQ. *)
SetInterruptGates(lines) ==
  idt_table' = [n \in Vectors |->
    IF n >= FIRST_EXTERNAL_VECTOR /\ n # SYSCALL_VECTOR
      THEN intr_gate(interrupt(n - FIRST_EXTERNAL_VECTOR, lines)) ELSE idt_table[n]]

(* The vectors that a program may ask for by itself. *)
ForUsers == {n \in Vectors : idt_table[n].dpl = 3}
=============================================================================
