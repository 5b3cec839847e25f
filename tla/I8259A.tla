------------------------------- MODULE I8259A -------------------------------
(***************************************************************************)
(* The two cascaded interrupt controllers and the lines' descriptors:      *)
(* arch/i386/kernel/i8259.c and irq.c, on top of the gates.  A mask that   *)
(* is cached in memory has to agree with the two chips' masks, and every   *)
(* interrupt that the chips deliver has to be ended in the chip, or in     *)
(* both.                                                                   *)
(*                                                                         *)
(* The functions run with interrupts off, and what the devices do          *)
(* meanwhile only shows at the next interrupt: each is one step.  The      *)
(* chips, the devices and the callers are external.  In src do_IRQ is a    *)
(* stub and nothing sets the interrupt flag yet, so what calls ack and end *)
(* is modelled as the flags in irq.h and the check in end_8259A_irq        *)
(* suppose it: a line that is in progress or disabled is not handled.      *)
(***************************************************************************)
EXTENDS Traps, Sequences, SequencesExt, FiniteSetsExt

CONSTANTS
  Half,               \* lines of a chip: 8
  Cascade,            \* the master's line on which the slave hangs: 2
  TimerLine,          \* 0
  Actions,            \* struct irqactions, among them
  irq2, irq0,         \*   those of the cascade and the timer
  SA_SHIRQ            \* those that may share a line

Lines  == 0 .. 2 * Half - 1
Master == 0 .. Half - 1
Slave  == Lines \ Master

ASSUME I8259AAssumption ==
  /\ Half \in Nat \ {0}
  /\ Cascade \in Master /\ TimerLine \in Master \ {Cascade}
  /\ {irq2, irq0} \subseteq Actions \ SA_SHIRQ /\ irq2 # irq0
  /\ SA_SHIRQ \subseteq Actions
  /\ FIRST_EXTERNAL_VECTOR + 2 * Half <= SYSCALL_VECTOR

VARIABLES
  cached_irq_mask,    \* the lines that are masked
  status,             \* a line's flags IRQ_DISABLED and IRQ_INPROGRESS
  action,             \* a line's list of actions
  at,                 \* what start_kernel does next with interrupts
  imr, irr, isr,      \* the chips' registers, as sets of lines
  cpu,                \* "run", or how far it is with an interrupt
  vector,             \* the line it was given
  handling            \* lines whose actions run, the latest at the end

kernel == <<cached_irq_mask, status, action, idt_table>>
chips  == <<imr, irr, isr>>
vars   == <<kernel, at, chips, cpu, vector, handling>>
----------------------------------------------------------------------------
(* The chips (external).  A lower line has priority.                       *)

Chip(irq) == IF irq \in Master THEN Master ELSE Slave

(* What a chip sees of its lines, and the one it would interrupt with:     *)
(* unmasked, and above all that is in service. *)
Candidates(chip, requests) ==
  {irq \in (requests \cap chip) \ imr : \A k \in isr \cap chip : irq < k}

SlaveAsserts == Candidates(Slave, irr) # {}

MasterRequests == irr \cup (IF SlaveAsserts THEN {Cascade} ELSE {})

(* The vector that a chip gives for a line: its ICW2, plus the line. *)
VectorOf(irq) ==
  IF irq \in Master THEN FIRST_EXTERNAL_VECTOR + irq
                    ELSE FIRST_EXTERNAL_VECTOR + Half + (irq - Half)

Raise(irq) ==
  /\ irq \notin irr /\ irq # Cascade
  /\ irr' = irr \cup {irq}
  /\ UNCHANGED <<kernel, at, imr, isr, cpu, vector, handling>>

(* A device may change its mind. *)
Withdraw(irq) ==
  /\ irq \in irr
  /\ irr' = irr \ {irq}
  /\ UNCHANGED <<kernel, at, imr, isr, cpu, vector, handling>>

(* The CPU sees the master's INT, and will acknowledge. *)
Accept ==
  /\ at = "running" /\ cpu = "run"
  /\ Candidates(Master, MasterRequests) # {}
  /\ cpu' = "acknowledge"
  /\ UNCHANGED <<kernel, at, chips, vector, handling>>

(* The master answers for itself, with its last line if the request is     *)
(* gone, or leaves the answer to the slave. *)
AcknowledgeMaster ==
  /\ cpu = "acknowledge"
  /\ LET C == Candidates(Master, MasterRequests)
     IN /\ vector' = IF C = {} THEN Half - 1 ELSE Min(C)
        /\ isr' = IF C = {} THEN isr ELSE isr \cup {vector'}
  /\ irr' = irr \ (isr' \ isr)
  /\ cpu' = IF vector' = Cascade THEN "acknowledge_slave" ELSE "ack"
  /\ UNCHANGED <<kernel, at, imr, handling>>

(* The slave's request may be gone by now as well. *)
AcknowledgeSlave ==
  /\ cpu = "acknowledge_slave"
  /\ LET C == Candidates(Slave, irr)
     IN /\ vector' = IF C = {} THEN 2 * Half - 1 ELSE Min(C)
        /\ isr' = IF C = {} THEN isr ELSE isr \cup {vector'}
  /\ irr' = irr \ (isr' \ isr)
  /\ cpu' = "ack"
  /\ UNCHANGED <<kernel, at, imr, handling>>
----------------------------------------------------------------------------
(* The driver *)

(* Fault: the mask is written to the master only. *)
WriteMasterMask(irq, mask) == imr' = (imr \ Master) \cup (mask \cap Master)

(* The cached mask is written to the chip of a line; each chip has a byte  *)
(* of it. *)
WriteMask(irq, mask) == imr' = (imr \ Chip(irq)) \cup (mask \cap Chip(irq))

enable_8259A_irq(irq) ==
  /\ cached_irq_mask' = cached_irq_mask \ {irq}
  /\ WriteMask(irq, cached_irq_mask')

disable_8259A_irq(irq) ==
  /\ cached_irq_mask' = cached_irq_mask \cup {irq}
  /\ WriteMask(irq, cached_irq_mask')

(* Fault: the line may be disabled or in progress. *)
end_8259A_irq_always(irq, flags) == enable_8259A_irq(irq)

end_8259A_irq(irq, flags) ==
  IF flags \cap {"DISABLED", "INPROGRESS"} = {}
    THEN enable_8259A_irq(irq)
    ELSE UNCHANGED <<cached_irq_mask, imr>>

(* Fault: what looks spurious gets no EOI. *)
MaskAndAckRealOnly ==
  /\ cpu = "ack"
  /\ cached_irq_mask' = cached_irq_mask \cup {vector}
  /\ WriteMask(vector, cached_irq_mask')
  /\ isr' = IF vector \in isr
              THEN isr \ ({vector} \cup (IF vector \in Slave THEN {Cascade} ELSE {}))
              ELSE isr
  /\ cpu' = "dispatch"
  /\ UNCHANGED <<status, action, idt_table, at, irr, vector, handling>>

(* mask_and_ack_8259A: the line is masked, then ended in its chip and,     *)
(* if that is the slave, also in the master.  An interrupt from a line     *)
(* that is masked is counted as spurious if it is not in service, and then *)
(* treated like any other. *)
MaskAndAck ==
  /\ cpu = "ack"
  /\ cached_irq_mask' = cached_irq_mask \cup {vector}
  /\ WriteMask(vector, cached_irq_mask')
  /\ isr' = isr \ ({vector} \cup (IF vector \in Slave THEN {Cascade} ELSE {}))
  /\ cpu' = "dispatch"
  /\ UNCHANGED <<status, action, idt_table, at, irr, vector, handling>>

(* Fault: it is enough if one of them agrees. *)
OneShares(irq, new) == action[irq] # <<>> => Head(action[irq]) \in SA_SHIRQ \/ new \in SA_SHIRQ

(* setup_irq(irq, new), its caller left aside.  The first action opens the *)
(* line; the actions of a line all have to agree to share it. *)
CanShare(irq, new) == action[irq] # <<>> => Head(action[irq]) \in SA_SHIRQ /\ new \in SA_SHIRQ

SetupIrq(irq, new) ==
  IF ~CanShare(irq, new) THEN UNCHANGED <<cached_irq_mask, status, action, imr>>
  ELSE /\ action' = [action EXCEPT ![irq] = Append(@, new)]
       /\ IF action[irq] = <<>>
            THEN /\ status' = [status EXCEPT ![irq] = @ \ {"DISABLED"}]
                 /\ enable_8259A_irq(irq)
            ELSE UNCHANGED <<status, cached_irq_mask, imr>>

(* The table of gates as head.S leaves it, and trap_init. *)
SetupIdt ==
  /\ at = "setup_idt"
  /\ setup_idt
  /\ at' = "trap_init"
  /\ UNCHANGED <<cached_irq_mask, status, action, chips, cpu, vector, handling>>

TrapInit ==
  /\ at = "trap_init"
  /\ trap_init
  /\ at' = "init_ISA_irqs"
  /\ UNCHANGED <<cached_irq_mask, status, action, chips, cpu, vector, handling>>

(* init_ISA_irqs: the chips are programmed with all lines masked, then get *)
(* the cached mask back; no line has an action. *)
InitISAIrqs ==
  /\ at = "init_ISA_irqs"
  /\ imr' = cached_irq_mask
  /\ isr' = {}
  /\ status' = [irq \in Lines |-> {"DISABLED"}]
  /\ action' = [irq \in Lines |-> <<>>]
  /\ at' = "init_IRQ"
  /\ UNCHANGED <<cached_irq_mask, idt_table, irr, cpu, vector, handling>>

InterruptGates ==
  /\ at = "init_IRQ"
  /\ SetInterruptGates(Lines)
  /\ at' = "setup_irq"
  /\ UNCHANGED <<cached_irq_mask, status, action, chips, cpu, vector, handling>>

(* The end of init_IRQ, and time_init. *)
SetupCascade ==
  /\ at = "setup_irq"
  /\ SetupIrq(Cascade, irq2)
  /\ at' = "time_init"
  /\ UNCHANGED <<idt_table, irr, isr, cpu, vector, handling>>

SetupTimer ==
  /\ at = "time_init"
  /\ SetupIrq(TimerLine, irq0)
  /\ at' = "running"
  /\ UNCHANGED <<idt_table, irr, isr, cpu, vector, handling>>
----------------------------------------------------------------------------
(* Callers that src does not have yet (external) *)

(* A driver wants to use a line with an action that is not in use. *)
SetupDevice(irq, new) ==
  /\ at = "running" /\ cpu = "run"
  /\ \A k \in Lines : new \notin ToSet(action[k])
  /\ SetupIrq(irq, new)
  /\ UNCHANGED <<idt_table, at, irr, isr, cpu, vector, handling>>

(* A line is disabled for a while; nobody disables the cascade. *)
DisableDevice(irq) ==
  /\ at = "running" /\ cpu = "run"
  /\ irq # Cascade /\ action[irq] # <<>> /\ "DISABLED" \notin status[irq]
  /\ status' = [status EXCEPT ![irq] = @ \cup {"DISABLED"}]
  /\ disable_8259A_irq(irq)
  /\ UNCHANGED <<action, idt_table, at, irr, isr, cpu, vector, handling>>

(* It is left to end to open a line that is in progress. *)
EnableDevice(irq) ==
  /\ at = "running" /\ cpu = "run"
  /\ action[irq] # <<>> /\ "DISABLED" \in status[irq]
  /\ status' = [status EXCEPT ![irq] = @ \ {"DISABLED"}]
  /\ end_8259A_irq(irq, status'[irq])
  /\ UNCHANGED <<action, idt_table, at, irr, isr, cpu, vector, handling>>

(* After ack, the actions run with interrupts on, unless they run already  *)
(* or must not; then end follows at once. *)
Handle ==
  /\ cpu = "dispatch"
  /\ status[vector] = {}
  /\ status' = [status EXCEPT ![vector] = {"INPROGRESS"}]
  /\ handling' = Append(handling, vector)
  /\ cpu' = "run"
  /\ UNCHANGED <<cached_irq_mask, action, idt_table, at, chips, vector>>

Skip ==
  /\ cpu = "dispatch"
  /\ status[vector] # {}
  /\ end_8259A_irq(vector, status[vector])
  /\ cpu' = "run"
  /\ UNCHANGED <<status, action, idt_table, at, irr, isr, vector, handling>>

Finish ==
  /\ cpu = "run" /\ handling # <<>>
  /\ LET irq == Last(handling)
     IN /\ status' = [status EXCEPT ![irq] = @ \ {"INPROGRESS"}]
        /\ end_8259A_irq(irq, status'[irq])
  /\ handling' = Front(handling)
  /\ UNCHANGED <<action, idt_table, at, irr, isr, cpu, vector>>
----------------------------------------------------------------------------
(* What firmware leaves in the chips' masks is unknown. *)
Init ==
  /\ cached_irq_mask = Lines
  /\ status = [irq \in Lines |-> {}]
  /\ action = [irq \in Lines |-> <<>>]
  /\ at = "setup_idt"
  /\ idt_table = [n \in Vectors |-> Gate("none", 0, NULL)]
  /\ imr \in {{}, Lines}
  /\ irr = {} /\ isr = {}
  /\ cpu = "run" /\ vector = 0
  /\ handling = <<>>

Boot == SetupIdt \/ TrapInit \/ InitISAIrqs \/ InterruptGates \/ SetupCascade \/ SetupTimer

Interrupt == AcknowledgeMaster \/ AcknowledgeSlave \/ MaskAndAck \/ Handle \/ Skip

Next ==
  \/ Boot
  \/ Accept
  \/ Interrupt
  \/ Finish
  \/ \E irq \in Lines :
       Raise(irq) \/ Withdraw(irq) \/ DisableDevice(irq) \/ EnableDevice(irq)
  \/ \E irq \in Lines, new \in Actions : SetupDevice(irq, new)

Spec == Init /\ [][Next]_vars
----------------------------------------------------------------------------
Programmed == at \notin {"setup_idt", "trap_init", "init_ISA_irqs"}

(* What the kernel believes to be masked is what the chips mask.           *)
MasksAgree == Programmed => imr = cached_irq_mask

(* Once an interrupt is acknowledged nothing is in service any more, in    *)
(* either chip, so that all lines that are open can interrupt; also when   *)
(* the slave had withdrawn what the master has in service.                 *)
ServiceEnds == cpu \in {"run", "acknowledge", "dispatch"} => isr = {}

(* While the actions of a line run the line is masked, and they do not run *)
(* twice, also when the chip reports that line for no reason.              *)
HandledOnce ==
  /\ IsInjective(handling)
  /\ \A irq \in Lines :
       "INPROGRESS" \in status[irq] <=> irq \in ToSet(handling)
  /\ ToSet(handling) \subseteq imr

(* A line that is open has actions that may run, which all agree to share  *)
(* it if they are several, and the slave can get through if it is open. *)
OpenLinesServed ==
  Programmed =>
    \A irq \in Lines :
      /\ irq \notin imr => action[irq] # <<>> /\ "DISABLED" \notin status[irq]
      /\ Len(action[irq]) > 1 => ToSet(action[irq]) \subseteq SA_SHIRQ
      /\ irq \in Slave \ imr /\ at = "running" => Cascade \notin imr

(* Any interrupt the CPU is given takes it through an interrupt gate, to   *)
(* the stub that tells do_IRQ the line in question and no system call; the *)
(* gates that trap_init set survive init_IRQ, so that from trap_init on    *)
(* user mode can ask for three exceptions and for system calls, and those  *)
(* leave interrupts on. *)
GatesRight ==
  /\ cpu = "ack" =>
       LET gate == idt_table[VectorOf(vector)]
       IN /\ gate.type = "interrupt" /\ gate.dpl = 0
          /\ gate.addr # NULL /\ LineOf(gate) = vector /\ gate.addr[2] < 0
  /\ at \notin {"setup_idt", "trap_init"} =>
       /\ ForUsers = {int3, overflow, bounds, SYSCALL_VECTOR}
       /\ \A n \in ForUsers : idt_table[n].type = "trap"
=============================================================================
