---------------------------- MODULE I8259AProofs ----------------------------
(***************************************************************************)
(* Theorems about I8259A: its invariants hold for chips of every size,     *)
(* every set of drivers and wherever the gates begin.  None of them is     *)
(* inductive alone.  That the line of a handler stays masked rests on the  *)
(* flags of the line, these on its list of actions, and that the cascade   *)
(* stays open on the vectors the chips can give.                           *)
(***************************************************************************)
EXTENDS I8259A, SequenceTheorems, WellFoundedInduction, TLAPS

(* Every non-empty set of numbers has a least one. *)
LEMMA LeastNat ==
  ASSUME NEW C \in SUBSET Nat, C # {}
  PROVE  \E m \in C : \A c \in C : m <= c
<1> DEFINE R == OpToRel(<, Nat)
<1>1. IsWellFoundedOn(R, Nat)
  BY NatLessThanWellFounded
<1>2. \A m, c \in Nat : m < c => <<m, c>> \in R
  BY DEF OpToRel
<1> HIDE DEF R
<1>3. PICK m \in C : \A c \in C : ~(<<c, m>> \in R)
  BY <1>1, WFMin
<1>4. ASSUME NEW c \in C PROVE m <= c
  <2>1. c \in Nat /\ m \in Nat /\ ~(c < m)
    BY <1>2, <1>3
  <2> QED
    BY <2>1
<1> QED
  BY <1>4
----------------------------------------------------------------------------
Steps == {"setup_idt", "trap_init", "init_ISA_irqs", "init_IRQ", "setup_irq", "time_init", "running"}

Types ==
  /\ {cached_irq_mask, imr, isr} \subseteq SUBSET Lines
  /\ status \in [Lines -> SUBSET {"DISABLED", "INPROGRESS"}]
  /\ action \in [Lines -> Seq(Actions)]
  /\ at \in Steps
  /\ cpu \in {"run", "acknowledge", "acknowledge_slave", "ack", "dispatch"}
  /\ vector \in Lines
  /\ handling \in Seq(Lines)

(* What is in service at each point of an interrupt, and that the boot     *)
(* gets none. *)
Service ==
  /\ cpu \in {"run", "acknowledge", "dispatch"} => isr = {}
  /\ cpu = "acknowledge_slave" => isr \subseteq {Cascade}
  /\ cpu = "ack" => isr \subseteq {vector} \cup (IF vector \in Slave THEN {Cascade} ELSE {})
  /\ at # "running" => cpu = "run" /\ handling = <<>>

(* An interrupt that is dispatched is masked; the cascade is none.         *)
Dispatched ==
  /\ cpu \in {"ack", "dispatch"} => vector # Cascade
  /\ cpu = "dispatch" => vector \in cached_irq_mask

(* A line without actions is disabled; an open line has actions that may   *)
(* run and do not. *)
LineState(irq) ==
  /\ action[irq] = <<>> => status[irq] = {"DISABLED"}
  /\ irq \notin cached_irq_mask => action[irq] # <<>> /\ status[irq] = {}
  /\ Len(action[irq]) > 1 => \A n \in 1 .. Len(action[irq]) : action[irq][n] \in SA_SHIRQ

LineStates ==
  IF Programmed THEN \A irq \in Lines : LineState(irq) ELSE cached_irq_mask = Lines

(* The cascade is opened before interrupts can come, and stays open.       *)
CascadeOpen ==
  /\ at \in {"init_IRQ", "setup_irq"} => \A irq \in Lines : action[irq] = <<>>
  /\ at \in {"time_init", "running"} => Cascade \notin cached_irq_mask

Handlers ==
  /\ \A m, n \in 1 .. Len(handling) : handling[m] = handling[n] => m = n
  /\ \A irq \in Lines :
       "INPROGRESS" \in status[irq] <=> \E n \in 1 .. Len(handling) : handling[n] = irq

Gates ==
  /\ at = "trap_init" => \A n \in Vectors : idt_table[n].dpl = 0
  /\ at \notin {"setup_idt", "trap_init"} =>
       \A n \in Vectors :
         IF n \in {int3, overflow, bounds, SYSCALL_VECTOR}
           THEN idt_table[n].dpl = 3 /\ idt_table[n].type = "trap"
           ELSE idt_table[n].dpl = 0
  /\ at \in {"setup_irq", "time_init", "running"} =>
       \A irq \in Lines :
         idt_table[FIRST_EXTERNAL_VECTOR + irq] = intr_gate(Stub(Pushed(irq)))

IInv ==
  /\ Types /\ MasksAgree /\ Service /\ Dispatched
  /\ LineStates /\ CascadeOpen /\ Handlers /\ Gates
----------------------------------------------------------------------------
LEMMA Constants ==
  /\ Half \in Nat \ {0} /\ Lines \subseteq Nat
  /\ Master \subseteq Lines /\ Slave \subseteq Lines /\ Master \cap Slave = {}
  /\ Cascade \in Master /\ TimerLine \in Master /\ TimerLine # Cascade
  /\ Half - 1 \in Master /\ 2 * Half - 1 \in Slave
  /\ irq2 \in Actions /\ irq0 \in Actions
BY I8259AAssumption DEF Lines, Master, Slave

LEMMA MinOfLines ==
  ASSUME NEW C \in SUBSET Lines, C # {}
  PROVE  Min(C) \in C
<1>1. \E m \in C : \A k \in C : m <= k
  BY Constants, LeastNat
<1> QED
  BY <1>1 DEF Min

(* Writing one chip's byte is enough if only a line of that chip changes.  *)
LEMMA ByteIsEnough ==
  ASSUME NEW irq \in Lines, NEW mask \in SUBSET Lines, imr \subseteq Lines,
         imr \ {irq} = mask \ {irq}, WriteMask(irq, mask)
  PROVE  imr' = mask
<1>1. irq \in Chip(irq)
  BY DEF Chip, Slave
<1> QED
  BY <1>1 DEF WriteMask

LEMMA EnableExact ==
  ASSUME cached_irq_mask \subseteq Lines, imr = cached_irq_mask, NEW irq \in Lines,
         enable_8259A_irq(irq)
  PROVE  cached_irq_mask' = cached_irq_mask \ {irq} /\ imr' = cached_irq_mask'
BY ByteIsEnough DEF enable_8259A_irq

LEMMA DisableExact ==
  ASSUME cached_irq_mask \subseteq Lines, imr = cached_irq_mask, NEW irq \in Lines,
         disable_8259A_irq(irq)
  PROVE  cached_irq_mask' = cached_irq_mask \cup {irq} /\ imr' = cached_irq_mask'
BY ByteIsEnough DEF disable_8259A_irq

(* Nothing in IInv is about the lines that devices raise.                  *)
LEMMA ChangesNothing ==
  ASSUME IInv, UNCHANGED <<kernel, at, imr, isr, cpu, vector, handling>>
  PROVE  IInv'
BY DEF IInv, kernel, Types, MasksAgree, Programmed, Service, Dispatched,
       LineStates, LineState, CascadeOpen, Handlers, Gates

LEMMA InitIInv == Init => IInv
<1> SUFFICES ASSUME Init PROVE IInv
  OBVIOUS
<1>1. Types
  BY Constants DEF Init, Types, Steps, Lines
<1>2. MasksAgree /\ Service /\ Dispatched /\ LineStates /\ CascadeOpen /\ Handlers /\ Gates
  BY DEF Init, MasksAgree, Programmed, Service, Dispatched, LineStates, CascadeOpen, Handlers, Gates
<1> QED
  BY <1>1, <1>2 DEF IInv
----------------------------------------------------------------------------
(* Interrupts                                                              *)

LEMMA AcceptIInv == IInv /\ Accept => IInv'
BY DEF IInv, Accept, kernel, chips, Types, MasksAgree, Programmed, Service, Dispatched,
       LineStates, LineState, CascadeOpen, Handlers, Gates

(* What an acknowledge leaves alone. *)
LEMMA AcknowledgeKeeps ==
  ASSUME IInv, cpu # "run", UNCHANGED <<kernel, at, imr, handling>>
  PROVE  MasksAgree' /\ LineStates' /\ CascadeOpen' /\ Handlers' /\ Gates' /\ at' = "running"
BY DEF IInv, Types, kernel, MasksAgree, Programmed, Service,
       LineStates, LineState, CascadeOpen, Handlers, Gates

LEMMA AcknowledgeMasterIInv == IInv /\ AcknowledgeMaster => IInv'
<1> SUFFICES ASSUME IInv, AcknowledgeMaster PROVE IInv'
  OBVIOUS
<1> DEFINE C == Candidates(Master, MasterRequests)
<1>1. C \in SUBSET Lines /\ C \subseteq Master
  BY Constants DEF Candidates
<1>2. isr = {}
  BY DEF IInv, Service, AcknowledgeMaster
<1>3. vector' \in Master /\ isr' \subseteq {vector'}
  <2>1. CASE C = {}
    BY <1>2, <2>1, Constants DEF AcknowledgeMaster
  <2>2. CASE C # {}
    BY <1>1, <1>2, <2>2, MinOfLines DEF AcknowledgeMaster
  <2> QED
    BY <2>1, <2>2
<1> HIDE DEF C
<1>4. MasksAgree' /\ LineStates' /\ CascadeOpen' /\ Handlers' /\ Gates' /\ at' = "running"
  BY AcknowledgeKeeps DEF AcknowledgeMaster
<1>5. cpu' = IF vector' = Cascade THEN "acknowledge_slave" ELSE "ack"
  BY DEF AcknowledgeMaster
<1>6. Service' /\ Dispatched'
  BY <1>3, <1>4, <1>5 DEF Service, Dispatched
<1>7. Types'
  BY <1>3, <1>5, Constants DEF IInv, Types, AcknowledgeMaster, kernel
<1> QED
  BY <1>4, <1>6, <1>7 DEF IInv

LEMMA AcknowledgeSlaveIInv == IInv /\ AcknowledgeSlave => IInv'
<1> SUFFICES ASSUME IInv, AcknowledgeSlave PROVE IInv'
  OBVIOUS
<1> DEFINE C == Candidates(Slave, irr)
<1>1. C \in SUBSET Lines /\ C \subseteq Slave
  BY Constants DEF Candidates
<1>2. isr \subseteq {Cascade}
  BY DEF IInv, Service, AcknowledgeSlave
<1>3. vector' \in Slave /\ isr' \subseteq {vector', Cascade}
  <2>1. CASE C = {}
    BY <1>2, <2>1, Constants DEF AcknowledgeSlave
  <2>2. CASE C # {}
    BY <1>1, <1>2, <2>2, MinOfLines DEF AcknowledgeSlave
  <2> QED
    BY <2>1, <2>2
<1> HIDE DEF C
<1>4. MasksAgree' /\ LineStates' /\ CascadeOpen' /\ Handlers' /\ Gates' /\ at' = "running"
  BY AcknowledgeKeeps DEF AcknowledgeSlave
<1>5. cpu' = "ack"
  BY DEF AcknowledgeSlave
<1>6. Service' /\ Dispatched'
  BY <1>3, <1>4, <1>5, Constants DEF Service, Dispatched
<1>7. Types'
  BY <1>3, <1>5, Constants DEF IInv, Types, AcknowledgeSlave, kernel
<1> QED
  BY <1>4, <1>6, <1>7 DEF IInv

(* The line that was given is masked and ended, in both chips if need be.  *)
LEMMA MaskAndAckIInv == IInv /\ MaskAndAck => IInv'
<1> SUFFICES ASSUME IInv, MaskAndAck PROVE IInv'
  OBVIOUS
<1>1. at = "running" /\ Programmed /\ vector \in Lines /\ vector # Cascade
  BY DEF IInv, Types, Service, Dispatched, MaskAndAck, Programmed
<1>2. cached_irq_mask' = cached_irq_mask \cup {vector} /\ imr' = cached_irq_mask'
  <2>1. imr = cached_irq_mask /\ imr \subseteq Lines
    BY <1>1 DEF IInv, Types, MasksAgree
  <2>2. imr \ {vector} = cached_irq_mask' \ {vector} /\ WriteMask(vector, cached_irq_mask')
    BY <2>1 DEF MaskAndAck
  <2>3. cached_irq_mask' \in SUBSET Lines
    BY <1>1, <2>1 DEF MaskAndAck
  <2> QED
    BY <1>1, <2>1, <2>2, <2>3, ByteIsEnough DEF MaskAndAck
<1>3. isr' = {} /\ cpu' = "dispatch" /\ vector' = vector /\ at' = at /\ handling' = handling
  BY DEF IInv, Service, MaskAndAck
<1>4. Types'
  BY <1>1, <1>2, <1>3 DEF IInv, Types, MaskAndAck
<1>5. MasksAgree' /\ Service' /\ Dispatched'
  BY <1>1, <1>2, <1>3 DEF MasksAgree, Service, Dispatched
<1>6. LineStates' /\ CascadeOpen' /\ Handlers' /\ Gates'
  BY <1>1, <1>2, <1>3 DEF IInv, MaskAndAck, LineStates, LineState, CascadeOpen, Handlers, Gates, Programmed
<1> QED
  BY <1>4, <1>5, <1>6 DEF IInv

LEMMA HandleIInv == IInv /\ Handle => IInv'
<1> SUFFICES ASSUME IInv, Handle PROVE IInv'
  OBVIOUS
<1>1. /\ at = "running" /\ Programmed /\ vector \in Lines /\ vector \in cached_irq_mask
      /\ status[vector] = {} /\ handling \in Seq(Lines)
  BY DEF IInv, Types, Service, Dispatched, Handle, Programmed
<1>2. /\ status' = [status EXCEPT ![vector] = {"INPROGRESS"}]
      /\ handling' = Append(handling, vector) /\ cpu' = "run"
      /\ UNCHANGED <<cached_irq_mask, action, idt_table, at, imr, isr, vector>>
  BY DEF Handle, chips
<1>3. Types'
  BY <1>1, <1>2 DEF IInv, Types
<1>4. MasksAgree' /\ Service' /\ Dispatched' /\ CascadeOpen' /\ Gates'
  BY <1>1, <1>2 DEF IInv, Handle, MasksAgree, Programmed, Service, Dispatched, CascadeOpen, Gates
<1>5. LineStates'
  <2>1. \A irq \in Lines : LineState(irq)
    BY <1>1 DEF IInv, LineStates
  <2>2. ASSUME NEW irq \in Lines PROVE LineState(irq)'
    BY <1>1, <1>2, <2>1 DEF LineState, IInv, Types
  <2> QED
    BY <1>1, <1>2, <2>2 DEF LineStates, Programmed
<1>6. Handlers'
  <2>1. \A n \in 1 .. Len(handling) : handling[n] # vector
    BY <1>1 DEF IInv, Handlers
  <2>2. /\ Len(handling') = Len(handling) + 1 /\ Len(handling) \in Nat
        /\ \A n \in 1 .. Len(handling) : handling'[n] = handling[n]
        /\ handling'[Len(handling) + 1] = vector
    BY <1>1, <1>2
  <2>3. \A m, n \in 1 .. Len(handling') : handling'[m] = handling'[n] => m = n
    BY <2>1, <2>2 DEF IInv, Handlers
  <2>4. ASSUME NEW irq \in Lines
        PROVE  "INPROGRESS" \in status'[irq] <=> \E n \in 1 .. Len(handling') : handling'[n] = irq
    <3>1. CASE irq = vector
      BY <1>1, <1>2, <2>2, <3>1 DEF IInv, Types
    <3>2. CASE irq # vector
      <4>1. "INPROGRESS" \in status'[irq] <=> "INPROGRESS" \in status[irq]
        BY <1>1, <1>2, <3>2 DEF IInv, Types
      <4>2. (\E n \in 1 .. Len(handling') : handling'[n] = irq)
              <=> \E n \in 1 .. Len(handling) : handling[n] = irq
        BY <2>2, <3>2
      <4> QED
        BY <4>1, <4>2 DEF IInv, Handlers
    <3> QED
      BY <3>1, <3>2
  <2> QED
    BY <2>3, <2>4 DEF Handlers
<1> QED
  BY <1>3, <1>4, <1>5, <1>6 DEF IInv

LEMMA SkipIInv == IInv /\ Skip => IInv'
<1> SUFFICES ASSUME IInv, Skip PROVE IInv'
  OBVIOUS
<1>1. status[vector] \cap {"DISABLED", "INPROGRESS"} # {}
  BY DEF IInv, Types, Skip
<1>2. cpu' = "run" /\ UNCHANGED <<cached_irq_mask, imr>>
  BY <1>1 DEF Skip, end_8259A_irq
<1>3. Service'
  BY <1>2 DEF IInv, Service, Skip
<1> QED
  BY <1>2, <1>3 DEF IInv, Skip, Types, MasksAgree, Programmed, Dispatched,
                    LineStates, LineState, CascadeOpen, Handlers, Gates

(* end_8259A_irq opens a line of which the flags allow it, and nothing     *)
(* else. *)
LEMMA EndExact ==
  ASSUME cached_irq_mask \subseteq Lines, imr = cached_irq_mask, NEW irq \in Lines,
         NEW flags \in SUBSET {"DISABLED", "INPROGRESS"}, end_8259A_irq(irq, flags)
  PROVE  /\ cached_irq_mask' = IF flags = {} THEN cached_irq_mask \ {irq} ELSE cached_irq_mask
         /\ imr' = cached_irq_mask'
<1>1. CASE flags = {}
  BY <1>1, EnableExact DEF end_8259A_irq
<1>2. CASE flags # {}
  BY <1>2 DEF end_8259A_irq
<1> QED
  BY <1>1, <1>2

LEMMA FinishIInv == IInv /\ Finish => IInv'
<1> SUFFICES ASSUME IInv, Finish PROVE IInv'
  OBVIOUS
<1> DEFINE irq == Last(handling)
           len == Len(handling)
<1>1. /\ at = "running" /\ Programmed /\ imr = cached_irq_mask /\ cached_irq_mask \subseteq Lines
      /\ handling \in Seq(Lines) /\ handling # <<>>
  BY DEF IInv, Types, Service, Finish, Programmed, MasksAgree
<1>2. len \in Nat /\ len > 0 /\ irq = handling[len] /\ irq \in Lines
  BY <1>1 DEF Last
<1>3. status' = [status EXCEPT ![irq] = @ \ {"INPROGRESS"}] /\ end_8259A_irq(irq, status'[irq])
  BY DEF Finish
<1>4. handling' = SubSeq(handling, 1, len - 1) /\ UNCHANGED <<action, idt_table, at, isr, cpu, vector>>
  BY DEF Finish, Front
<1>5. /\ status' \in [Lines -> SUBSET {"DISABLED", "INPROGRESS"}]
      /\ \A k \in Lines \ {irq} : status'[k] = status[k]
      /\ status'[irq] = status[irq] \ {"INPROGRESS"}
  BY <1>2, <1>3 DEF IInv, Types
<1>6. /\ Len(handling') = len - 1 /\ handling' \in Seq(Lines)
      /\ \A n \in 1 .. len - 1 : handling'[n] = handling[n]
  <2> HIDE DEF irq
  <2>1. \A n \in 1 .. len - 1 : handling[n] \in Lines
    BY <1>1, <1>2
  <2> DEFINE front == SubSeq(handling, 1, len - 1)
  <2> HIDE DEF len
  <2>2. /\ front \in Seq(Lines)
        /\ Len(front) = IF 1 <= len - 1 THEN len - 1 - 1 + 1 ELSE 0
        /\ \A n \in 1 .. len - 1 - 1 + 1 : front[n] = handling[1 + n - 1]
    BY <1>2, <2>1, SubSeqProperties
  <2> HIDE DEF front
  <2>3. Len(front) = len - 1 /\ \A n \in 1 .. len - 1 : front[n] = handling[n]
    <3>1. len - 1 - 1 + 1 = len - 1 /\ \A n \in 1 .. len - 1 : 1 + n - 1 = n
      BY <1>2
    <3>2. \A n \in 1 .. len - 1 : front[n] = handling[n]
      BY <2>2, <3>1
    <3>3. Len(front) = len - 1
      BY <1>2, <2>2
    <3> QED
      BY <3>2, <3>3
  <2>4. handling' = front
    BY <1>4 DEF front
  <2> QED
    BY <2>2, <2>3, <2>4
<1>7. /\ cached_irq_mask' = IF status'[irq] = {} THEN cached_irq_mask \ {irq} ELSE cached_irq_mask
      /\ imr' = cached_irq_mask'
  BY <1>1, <1>2, <1>3, <1>5, EndExact
<1>8. "INPROGRESS" \in status[irq]
  BY <1>2 DEF IInv, Handlers
<1> HIDE DEF irq, len
<1>9. Types'
  BY <1>1, <1>4, <1>5, <1>6, <1>7 DEF IInv, Types
<1>10. MasksAgree' /\ Service' /\ Dispatched' /\ Gates'
  BY <1>1, <1>4, <1>7 DEF IInv, Finish, MasksAgree, Programmed, Service, Dispatched, Gates
<1>11. CascadeOpen'
  BY <1>1, <1>4, <1>7 DEF IInv, CascadeOpen
<1>12. LineStates'
  <2>1. \A k \in Lines : LineState(k)
    BY <1>1 DEF IInv, LineStates
  <2>2. ASSUME NEW k \in Lines PROVE LineState(k)'
    BY <1>2, <1>4, <1>5, <1>7, <1>8, <2>1 DEF LineState
  <2> QED
    BY <1>1, <1>4, <2>2 DEF LineStates, Programmed
<1>13. Handlers'
  <2>1. \A m, n \in 1 .. Len(handling') : handling'[m] = handling'[n] => m = n
    BY <1>2, <1>6 DEF IInv, Handlers, len
  <2>2. \A n \in 1 .. len - 1 : handling[n] # irq
    BY <1>2 DEF IInv, Handlers, len
  <2>3. ASSUME NEW k \in Lines
        PROVE  "INPROGRESS" \in status'[k] <=> \E n \in 1 .. Len(handling') : handling'[n] = k
    <3>1. CASE k = irq
      BY <1>5, <1>6, <2>2, <3>1
    <3>2. CASE k # irq
      <4>1. (\E n \in 1 .. len : handling[n] = k) <=> \E n \in 1 .. len - 1 : handling'[n] = k
        BY <1>2, <1>6, <3>2
      <4> QED
        BY <1>5, <1>6, <3>2, <4>1 DEF IInv, Handlers, len
    <3> QED
      BY <3>1, <3>2
  <2> QED
    BY <2>1, <2>3 DEF Handlers
<1> QED
  BY <1>9, <1>10, <1>11, <1>12, <1>13 DEF IInv
----------------------------------------------------------------------------
(* Starting to use lines, and their owners                                 *)

(* The first action opens its line, the others change neither the mask nor *)
(* the flags. *)
LEMMA SetupIrqEffect ==
  ASSUME Types, MasksAgree, LineStates, Programmed,
         NEW irq \in Lines, NEW new \in Actions, SetupIrq(irq, new)
  PROVE  /\ cached_irq_mask' \subseteq cached_irq_mask /\ imr' = cached_irq_mask'
         /\ status' \in [Lines -> SUBSET {"DISABLED", "INPROGRESS"}]
         /\ action' \in [Lines -> Seq(Actions)]
         /\ action[irq] = <<>> => irq \notin cached_irq_mask'
         /\ \A k \in Lines : LineState(k)'
         /\ \A k \in Lines : "INPROGRESS" \in status'[k] <=> "INPROGRESS" \in status[k]
         /\ \A k \in Lines \ {irq} : action'[k] = action[k]
<1>1. /\ imr = cached_irq_mask /\ cached_irq_mask \subseteq Lines
      /\ \A k \in Lines : LineState(k)
  BY DEF Types, MasksAgree, LineStates
<1>2. CASE ~CanShare(irq, new)
  BY <1>1, <1>2 DEF SetupIrq, CanShare, LineState, Types
<1>3. CASE CanShare(irq, new) /\ action[irq] = <<>>
  <2>1. /\ action' = [action EXCEPT ![irq] = Append(@, new)]
        /\ status' = [status EXCEPT ![irq] = @ \ {"DISABLED"}]
        /\ enable_8259A_irq(irq)
    BY <1>3 DEF SetupIrq
  <2>2. cached_irq_mask' = cached_irq_mask \ {irq} /\ imr' = cached_irq_mask'
    BY <1>1, <2>1, EnableExact
  <2>3. action'[irq] = <<new>> /\ \A k \in Lines \ {irq} : action'[k] = action[k]
    BY <1>3, <2>1 DEF Types
  <2>4. status[irq] = {"DISABLED"} /\ status'[irq] = {}
    BY <1>1, <1>3, <2>1 DEF Types, LineState
  <2>5. \A k \in Lines \ {irq} : status'[k] = status[k]
    BY <2>1 DEF Types
  <2>6. ASSUME NEW k \in Lines PROVE LineState(k)'
    <3>1. CASE k = irq
      <4>1. action'[irq] # <<>> /\ Len(action'[irq]) = 1
        BY <2>3
      <4> QED
        BY <2>4, <3>1, <4>1 DEF LineState
    <3>2. CASE k # irq
      BY <1>1, <2>2, <2>3, <2>5, <3>2 DEF LineState
    <3> QED
      BY <3>1, <3>2
  <2>7. action' \in [Lines -> Seq(Actions)]
    BY <2>1 DEF Types
  <2>8. status' \in [Lines -> SUBSET {"DISABLED", "INPROGRESS"}]
    BY <2>1 DEF Types
  <2> QED
    BY <2>2, <2>3, <2>4, <2>5, <2>6, <2>7, <2>8
<1>4. CASE CanShare(irq, new) /\ action[irq] # <<>>
  <2>1. /\ action' = [action EXCEPT ![irq] = Append(@, new)]
        /\ UNCHANGED <<status, cached_irq_mask, imr>>
    BY <1>4 DEF SetupIrq
  <2>2. action' \in [Lines -> Seq(Actions)] /\ \A k \in Lines \ {irq} : action'[k] = action[k]
    BY <2>1 DEF Types
  <2> DEFINE list == action[irq]
  <2>3. list \in Seq(Actions) /\ list # <<>> /\ action'[irq] = Append(list, new)
    BY <1>4, <2>1 DEF Types
  <2>4. Head(list) \in SA_SHIRQ /\ new \in SA_SHIRQ
    BY <1>4 DEF CanShare
  <2>5. \A n \in 1 .. Len(list) : list[n] \in SA_SHIRQ
    <3>1. CASE Len(list) > 1
      BY <1>1, <3>1 DEF LineState
    <3>2. CASE Len(list) = 1
      BY <2>3, <2>4, <3>2
    <3>3. Len(list) > 1 \/ Len(list) = 1
      <4> HIDE DEF list
      <4>1. list \in Seq(Actions) /\ list # <<>>
        BY <2>3
      <4>2. Len(list) \in Nat /\ Len(list) # 0
        BY <4>1, EmptySeq, LenProperties
      <4> QED
        BY <4>2
    <3> QED
      BY <3>1, <3>2, <3>3
  <2>6. ASSUME NEW k \in Lines PROVE LineState(k)'
    <3>1. CASE k = irq
      <4> HIDE DEF list
      <4>1. \A n \in 1 .. Len(Append(list, new)) : Append(list, new)[n] \in SA_SHIRQ
        BY <2>3, <2>4, <2>5
      <4>2. Append(list, new) # <<>>
        BY <2>3
      <4>3. irq \notin cached_irq_mask => status[irq] = {}
        BY <1>1 DEF LineState
      <4> QED
        BY <2>1, <2>3, <3>1, <4>1, <4>2, <4>3 DEF LineState
    <3>2. CASE k # irq
      BY <1>1, <2>1, <2>2, <3>2 DEF LineState
    <3> QED
      BY <3>1, <3>2
  <2> QED
    BY <1>1, <1>4, <2>1, <2>2, <2>6 DEF Types
<1> QED
  BY <1>2, <1>3, <1>4

LEMMA SetupDeviceIInv ==
  ASSUME NEW irq \in Lines, NEW new \in Actions, IInv, SetupDevice(irq, new)
  PROVE  IInv'
<1>1. /\ at = "running" /\ cpu = "run" /\ Programmed /\ SetupIrq(irq, new)
      /\ UNCHANGED <<idt_table, at, isr, cpu, vector, handling>>
  BY DEF SetupDevice, Programmed
<1>2. /\ cached_irq_mask' \subseteq cached_irq_mask /\ imr' = cached_irq_mask'
      /\ status' \in [Lines -> SUBSET {"DISABLED", "INPROGRESS"}]
      /\ action' \in [Lines -> Seq(Actions)]
      /\ \A k \in Lines : LineState(k)'
      /\ \A k \in Lines : "INPROGRESS" \in status'[k] <=> "INPROGRESS" \in status[k]
  BY <1>1, SetupIrqEffect DEF IInv
<1>3. Types'
  BY <1>1, <1>2 DEF IInv, Types
<1>4. LineStates' /\ CascadeOpen' /\ MasksAgree'
  BY <1>1, <1>2 DEF IInv, LineStates, CascadeOpen, MasksAgree, Programmed
<1>5. Service' /\ Dispatched' /\ Handlers' /\ Gates'
  BY <1>1, <1>2 DEF IInv, Service, Dispatched, Handlers, Gates
<1> QED
  BY <1>3, <1>4, <1>5 DEF IInv

LEMMA DisableDeviceIInv ==
  ASSUME NEW irq \in Lines, IInv, DisableDevice(irq)
  PROVE  IInv'
<1>1. /\ at = "running" /\ cpu = "run" /\ Programmed /\ irq # Cascade /\ action[irq] # <<>>
      /\ status' = [status EXCEPT ![irq] = @ \cup {"DISABLED"}]
      /\ UNCHANGED <<action, idt_table, at, isr, cpu, vector, handling>>
  BY DEF DisableDevice, Programmed
<1>2. cached_irq_mask' = cached_irq_mask \cup {irq} /\ imr' = cached_irq_mask'
  BY <1>1, DisableExact DEF IInv, Types, MasksAgree, DisableDevice
<1>3. /\ status' \in [Lines -> SUBSET {"DISABLED", "INPROGRESS"}]
      /\ \A k \in Lines \ {irq} : status'[k] = status[k]
      /\ status'[irq] = status[irq] \cup {"DISABLED"}
  BY <1>1 DEF IInv, Types
<1>4. Types'
  BY <1>1, <1>2, <1>3 DEF IInv, Types
<1>5. LineStates'
  <2>1. \A k \in Lines : LineState(k)
    BY <1>1 DEF IInv, LineStates
  <2>2. ASSUME NEW k \in Lines PROVE LineState(k)'
    BY <1>1, <1>2, <1>3, <2>1 DEF LineState
  <2> QED
    BY <1>1, <2>2 DEF LineStates, Programmed
<1>6. CascadeOpen' /\ MasksAgree'
  BY <1>1, <1>2 DEF IInv, CascadeOpen, MasksAgree
<1>7. Service' /\ Dispatched' /\ Gates'
  BY <1>1 DEF IInv, Service, Dispatched, Gates
<1>8. Handlers'
  <2>1. \A k \in Lines : "INPROGRESS" \in status'[k] <=> "INPROGRESS" \in status[k]
    BY <1>3
  <2> QED
    BY <1>1, <2>1 DEF IInv, Handlers
<1> QED
  BY <1>4, <1>5, <1>6, <1>7, <1>8 DEF IInv

LEMMA EnableDeviceIInv ==
  ASSUME NEW irq \in Lines, IInv, EnableDevice(irq)
  PROVE  IInv'
<1>1. /\ at = "running" /\ cpu = "run" /\ Programmed /\ action[irq] # <<>>
      /\ "DISABLED" \in status[irq] /\ status' = [status EXCEPT ![irq] = @ \ {"DISABLED"}]
      /\ UNCHANGED <<action, idt_table, at, isr, cpu, vector, handling>>
  BY DEF EnableDevice, Programmed
<1>2. /\ status' \in [Lines -> SUBSET {"DISABLED", "INPROGRESS"}]
      /\ \A k \in Lines \ {irq} : status'[k] = status[k]
      /\ status'[irq] = status[irq] \ {"DISABLED"}
  BY <1>1 DEF IInv, Types
<1>3. /\ cached_irq_mask' = IF status'[irq] = {} THEN cached_irq_mask \ {irq} ELSE cached_irq_mask
      /\ imr' = cached_irq_mask'
  BY <1>1, <1>2, EndExact DEF IInv, Types, MasksAgree, EnableDevice
<1>4. Types'
  BY <1>1, <1>2, <1>3 DEF IInv, Types
<1>5. LineStates'
  <2>1. \A k \in Lines : LineState(k)
    BY <1>1 DEF IInv, LineStates
  <2>2. ASSUME NEW k \in Lines PROVE LineState(k)'
    BY <1>1, <1>2, <1>3, <2>1 DEF LineState
  <2> QED
    BY <1>1, <2>2 DEF LineStates, Programmed
<1>6. CascadeOpen' /\ MasksAgree'
  BY <1>1, <1>3 DEF IInv, CascadeOpen, MasksAgree
<1>7. Service' /\ Dispatched' /\ Gates'
  BY <1>1 DEF IInv, Service, Dispatched, Gates
<1>8. Handlers'
  <2>1. \A k \in Lines : "INPROGRESS" \in status'[k] <=> "INPROGRESS" \in status[k]
    BY <1>2
  <2> QED
    BY <1>1, <2>1 DEF IInv, Handlers
<1> QED
  BY <1>4, <1>5, <1>6, <1>7, <1>8 DEF IInv
----------------------------------------------------------------------------
(* Boot                                                                    *)

(* The lines' vectors: none is that of a system call, or an exception's.   *)
LEMMA LineVectors ==
  ASSUME NEW irq \in Lines
  PROVE  /\ FIRST_EXTERNAL_VECTOR + irq \in Vectors
         /\ FIRST_EXTERNAL_VECTOR + irq < SYSCALL_VECTOR
         /\ FIRST_EXTERNAL_VECTOR + irq >= FIRST_EXTERNAL_VECTOR
         /\ (FIRST_EXTERNAL_VECTOR + irq) - FIRST_EXTERNAL_VECTOR = irq
         /\ irq \in 0 .. 255
<1>1. /\ FIRST_EXTERNAL_VECTOR \in Nat /\ NR_IRQS \in Nat /\ SYSCALL_VECTOR \in Nat /\ Half \in Nat
      /\ FIRST_EXTERNAL_VECTOR + NR_IRQS <= 256
      /\ SYSCALL_VECTOR < FIRST_EXTERNAL_VECTOR + NR_IRQS
      /\ FIRST_EXTERNAL_VECTOR + 2 * Half <= SYSCALL_VECTOR
  BY TrapsAssumption, I8259AAssumption DEF Vectors
<1>2. irq \in Nat /\ irq < 2 * Half
  BY <1>1 DEF Lines
<1> QED
  BY <1>1, <1>2 DEF Vectors

LEMMA Users ==
  /\ {int3, overflow, bounds, SYSCALL_VECTOR} \subseteq Vectors
  /\ nmi \notin {int3, overflow, bounds, SYSCALL_VECTOR}
  /\ \A n \in {nmi, int3, overflow, bounds} : n < FIRST_EXTERNAL_VECTOR
BY TrapsAssumption DEF Vectors, Exceptions

LEMMA SetupIdtIInv == IInv /\ SetupIdt => IInv'
<1> SUFFICES ASSUME IInv, SetupIdt PROVE IInv'
  OBVIOUS
<1>1. Gates'
  BY DEF SetupIdt, setup_idt, Gates, intr_gate, Gate
<1> QED
  BY <1>1 DEF IInv, SetupIdt, chips, Types, Steps, MasksAgree, Programmed, Service, Dispatched,
              LineStates, CascadeOpen, Handlers

LEMMA TrapInitIInv == IInv /\ TrapInit => IInv'
<1> SUFFICES ASSUME IInv, TrapInit PROVE IInv'
  OBVIOUS
<1> DEFINE users == {int3, overflow, bounds, SYSCALL_VECTOR}
<1>1. /\ idt_table' = [n \in Vectors |->
           CASE n \in users -> system_gate(NULL)
             [] n = nmi -> intr_gate(NULL)
             [] n \in Exceptions \ {nmi, int3, overflow, bounds} -> trap_gate(NULL)
             [] OTHER -> idt_table[n]]
      /\ at' = "init_ISA_irqs"
  BY DEF TrapInit, trap_init
<1>2. \A n \in Vectors : idt_table[n].dpl = 0
  BY DEF IInv, Gates, TrapInit
<1>3. ASSUME NEW n \in Vectors
      PROVE  IF n \in users THEN idt_table'[n].dpl = 3 /\ idt_table'[n].type = "trap"
                            ELSE idt_table'[n].dpl = 0
  <2>1. CASE n \in users
    <3>1. n # nmi /\ n \notin Exceptions \ {nmi, int3, overflow, bounds}
      <4>1. SYSCALL_VECTOR \notin Exceptions
        BY TrapsAssumption DEF Exceptions
      <4> QED
        BY <2>1, <4>1, Users
    <3>2. idt_table'[n] = system_gate(NULL)
      BY <1>1, <2>1, <3>1
    <3> QED
      BY <2>1, <3>2 DEF system_gate, Gate
  <2>2. CASE n \notin users
    <3>1. idt_table'[n] \in {intr_gate(NULL), trap_gate(NULL), idt_table[n]}
      BY <1>1, <2>2
    <3> QED
      BY <1>2, <2>2, <3>1 DEF intr_gate, trap_gate, Gate
  <2> QED
    BY <2>1, <2>2
<1>4. Gates'
  BY <1>1, <1>3 DEF Gates
<1> QED
  BY <1>4 DEF IInv, TrapInit, chips, Types, Steps, MasksAgree, Programmed, Service, Dispatched,
              LineStates, CascadeOpen, Handlers

LEMMA InitISAIrqsIInv == IInv /\ InitISAIrqs => IInv'
<1> SUFFICES ASSUME IInv, InitISAIrqs PROVE IInv'
  OBVIOUS
<1>1. /\ cached_irq_mask = Lines /\ cpu = "run" /\ handling = <<>> /\ ~Programmed
  BY DEF IInv, InitISAIrqs, LineStates, Programmed, Service
<1>2. Types'
  BY DEF IInv, InitISAIrqs, Types, Steps
<1>3. MasksAgree' /\ Service' /\ Dispatched' /\ CascadeOpen' /\ Gates'
  BY <1>1 DEF IInv, InitISAIrqs, MasksAgree, Service, Dispatched, CascadeOpen, Gates
<1>4. LineStates'
  BY <1>1 DEF InitISAIrqs, LineStates, LineState, Programmed
<1>5. Handlers'
  BY <1>1 DEF InitISAIrqs, Handlers
<1> QED
  BY <1>2, <1>3, <1>4, <1>5 DEF IInv

LEMMA InterruptGatesIInv == IInv /\ InterruptGates => IInv'
<1> SUFFICES ASSUME IInv, InterruptGates PROVE IInv'
  OBVIOUS
<1> DEFINE users == {int3, overflow, bounds, SYSCALL_VECTOR}
<1>1. /\ idt_table' = [n \in Vectors |->
           IF n >= FIRST_EXTERNAL_VECTOR /\ n # SYSCALL_VECTOR
             THEN intr_gate(interrupt(n - FIRST_EXTERNAL_VECTOR, Lines)) ELSE idt_table[n]]
      /\ at = "init_IRQ" /\ at' = "setup_irq"
  BY DEF InterruptGates, SetInterruptGates
<1>2. \A n \in Vectors :
        IF n \in users THEN idt_table[n].dpl = 3 /\ idt_table[n].type = "trap"
                       ELSE idt_table[n].dpl = 0
  BY <1>1 DEF IInv, Gates
<1>3. ASSUME NEW n \in Vectors
      PROVE  IF n \in users THEN idt_table'[n].dpl = 3 /\ idt_table'[n].type = "trap"
                            ELSE idt_table'[n].dpl = 0
  <2>1. CASE n \in users
    <3>1. ~(n >= FIRST_EXTERNAL_VECTOR /\ n # SYSCALL_VECTOR)
      BY <2>1, Users, TrapsAssumption DEF Vectors
    <3> QED
      BY <1>1, <1>2, <2>1, <3>1
  <2>2. CASE n \notin users
    <3>1. idt_table'[n] \in {intr_gate(interrupt(n - FIRST_EXTERNAL_VECTOR, Lines)), idt_table[n]}
      BY <1>1
    <3> QED
      BY <1>2, <2>2, <3>1 DEF intr_gate, Gate
  <2> QED
    BY <2>1, <2>2
<1>4. ASSUME NEW irq \in Lines
      PROVE  idt_table'[FIRST_EXTERNAL_VECTOR + irq] = intr_gate(Stub(Pushed(irq)))
  <2>1. idt_table'[FIRST_EXTERNAL_VECTOR + irq]
          = intr_gate(interrupt((FIRST_EXTERNAL_VECTOR + irq) - FIRST_EXTERNAL_VECTOR, Lines))
    BY <1>1, LineVectors, TrapsAssumption
  <2> QED
    BY <2>1, LineVectors DEF interrupt
<1>5. Gates'
  BY <1>1, <1>3, <1>4 DEF Gates
<1> QED
  BY <1>5 DEF IInv, InterruptGates, chips, Types, Steps, MasksAgree, Programmed, Service,
              Dispatched, LineStates, LineState, CascadeOpen, Handlers

(* The first calls of setup_irq, which open the cascade and the timer.     *)
LEMMA SetupCascadeIInv == IInv /\ SetupCascade => IInv'
<1> SUFFICES ASSUME IInv, SetupCascade PROVE IInv'
  OBVIOUS
<1>1. /\ at = "setup_irq" /\ at' = "time_init" /\ Programmed /\ SetupIrq(Cascade, irq2)
      /\ UNCHANGED <<idt_table, isr, cpu, vector, handling>>
  BY DEF SetupCascade, Programmed
<1>2. /\ cached_irq_mask' \subseteq cached_irq_mask /\ imr' = cached_irq_mask'
      /\ status' \in [Lines -> SUBSET {"DISABLED", "INPROGRESS"}]
      /\ action' \in [Lines -> Seq(Actions)]
      /\ action[Cascade] = <<>> => Cascade \notin cached_irq_mask'
      /\ \A k \in Lines : LineState(k)'
      /\ \A k \in Lines : "INPROGRESS" \in status'[k] <=> "INPROGRESS" \in status[k]
  BY <1>1, SetupIrqEffect, Constants DEF IInv
<1>3. Types'
  BY <1>1, <1>2 DEF IInv, Types, Steps
<1>4. CascadeOpen'
  BY <1>1, <1>2, Constants DEF IInv, CascadeOpen
<1>5. LineStates' /\ MasksAgree'
  BY <1>1, <1>2 DEF LineStates, MasksAgree, Programmed
<1>6. Service' /\ Dispatched' /\ Handlers' /\ Gates'
  BY <1>1, <1>2 DEF IInv, Service, Dispatched, Handlers, Gates
<1> QED
  BY <1>3, <1>4, <1>5, <1>6 DEF IInv

LEMMA SetupTimerIInv == IInv /\ SetupTimer => IInv'
<1> SUFFICES ASSUME IInv, SetupTimer PROVE IInv'
  OBVIOUS
<1>1. /\ at = "time_init" /\ at' = "running" /\ Programmed /\ SetupIrq(TimerLine, irq0)
      /\ UNCHANGED <<idt_table, isr, cpu, vector, handling>>
  BY DEF SetupTimer, Programmed
<1>2. /\ cached_irq_mask' \subseteq cached_irq_mask /\ imr' = cached_irq_mask'
      /\ status' \in [Lines -> SUBSET {"DISABLED", "INPROGRESS"}]
      /\ action' \in [Lines -> Seq(Actions)]
      /\ \A k \in Lines : LineState(k)'
      /\ \A k \in Lines : "INPROGRESS" \in status'[k] <=> "INPROGRESS" \in status[k]
  BY <1>1, SetupIrqEffect, Constants DEF IInv
<1>3. Types'
  BY <1>1, <1>2 DEF IInv, Types, Steps
<1>4. LineStates' /\ CascadeOpen' /\ MasksAgree'
  BY <1>1, <1>2 DEF IInv, LineStates, CascadeOpen, MasksAgree, Programmed
<1>5. Service' /\ Dispatched' /\ Handlers' /\ Gates'
  BY <1>1, <1>2 DEF IInv, Service, Dispatched, Handlers, Gates
<1> QED
  BY <1>3, <1>4, <1>5 DEF IInv
----------------------------------------------------------------------------
LEMMA NextIInv == IInv /\ [Next]_vars => IInv'
<1> SUFFICES ASSUME IInv, [Next]_vars PROVE IInv'
  OBVIOUS
<1>1. CASE UNCHANGED vars
  BY <1>1, ChangesNothing DEF vars, chips, kernel
<1>2. CASE Boot
  BY <1>2, SetupIdtIInv, TrapInitIInv, InitISAIrqsIInv, InterruptGatesIInv, SetupCascadeIInv,
     SetupTimerIInv DEF Boot
<1>3. CASE Accept
  BY <1>3, AcceptIInv
<1>4. CASE Interrupt
  BY <1>4, AcknowledgeMasterIInv, AcknowledgeSlaveIInv, MaskAndAckIInv, HandleIInv, SkipIInv
     DEF Interrupt
<1>5. CASE Finish
  BY <1>5, FinishIInv
<1>6. ASSUME NEW irq \in Lines, Raise(irq) \/ Withdraw(irq)
      PROVE  IInv'
  BY <1>6, ChangesNothing DEF Raise, Withdraw
<1>7. ASSUME NEW irq \in Lines, DisableDevice(irq) \/ EnableDevice(irq)
      PROVE  IInv'
  BY <1>7, DisableDeviceIInv, EnableDeviceIInv
<1>8. ASSUME NEW irq \in Lines, NEW new \in Actions, SetupDevice(irq, new)
      PROVE  IInv'
  BY <1>8, SetupDeviceIInv
<1> QED
  BY <1>1, <1>2, <1>3, <1>4, <1>5, <1>6, <1>7, <1>8 DEF Next

LEMMA SpecIInv == Spec => []IInv
BY InitIInv, NextIInv, PTL DEF Spec

(* The kernel's idea of the masks is always that of the chips, though it   *)
(* writes only the byte of the line's chip. *)
THEOREM AgreeAlways == Spec => []MasksAgree
<1>1. IInv => MasksAgree
  BY DEF IInv
<1> QED
  BY <1>1, SpecIInv, PTL

(* Each interrupt, also one from a line that had withdrawn its request, is *)
(* ended in every chip that has it in service before anything else runs.   *)
THEOREM EndsAlways == Spec => []ServiceEnds
<1>1. IInv => ServiceEnds
  BY DEF IInv, Service, ServiceEnds
<1> QED
  BY <1>1, SpecIInv, PTL

(* A line's actions are never entered while they run, and the line is      *)
(* masked meanwhile. *)
THEOREM OnceAlways == Spec => []HandledOnce
<1>1. ASSUME IInv PROVE HandledOnce
  <2>1. handling \in Seq(Lines) /\ DOMAIN handling = 1 .. Len(handling)
    BY <1>1 DEF IInv, Types
  <2>2. IsInjective(handling)
    BY <1>1, <2>1 DEF IInv, Handlers, IsInjective
  <2>3. \A irq \in Lines : "INPROGRESS" \in status[irq] <=> irq \in ToSet(handling)
    BY <1>1, <2>1 DEF IInv, Handlers, ToSet
  <2>4. ASSUME NEW irq \in ToSet(handling) PROVE irq \in imr
    <3>1. irq \in Lines /\ handling # <<>>
      BY <2>1 DEF ToSet
    <3>2. Programmed
      BY <1>1, <3>1 DEF IInv, Service, Programmed
    <3>3. irq \in cached_irq_mask
      BY <1>1, <2>3, <3>1, <3>2 DEF IInv, LineStates, LineState
    <3> QED
      BY <1>1, <3>2, <3>3 DEF IInv, MasksAgree
  <2> QED
    BY <2>2, <2>3, <2>4 DEF HandledOnce
<1> QED
  BY <1>1, SpecIInv, PTL

(* No line is open that nobody would serve, and the slave's lines can get  *)
(* through. *)
THEOREM ServedAlways == Spec => []OpenLinesServed
<1>1. ASSUME IInv, Programmed, NEW irq \in Lines
      PROVE  /\ irq \notin imr => action[irq] # <<>> /\ "DISABLED" \notin status[irq]
             /\ Len(action[irq]) > 1 => ToSet(action[irq]) \subseteq SA_SHIRQ
             /\ irq \in Slave \ imr /\ at = "running" => Cascade \notin imr
  <2>1. LineState(irq) /\ imr = cached_irq_mask
    BY <1>1 DEF IInv, LineStates, MasksAgree
  <2>2. at = "running" => Cascade \notin cached_irq_mask
    BY <1>1 DEF IInv, CascadeOpen
  <2>3. action[irq] \in Seq(Actions)
    BY <1>1 DEF IInv, Types
  <2>4. DOMAIN action[irq] = 1 .. Len(action[irq])
    BY <2>3
  <2>5. Len(action[irq]) > 1 => ToSet(action[irq]) \subseteq SA_SHIRQ
    BY <2>1, <2>4 DEF LineState, ToSet
  <2> QED
    BY <2>1, <2>2, <2>5 DEF LineState
<1>2. IInv => OpenLinesServed
  BY <1>1 DEF OpenLinesServed
<1> QED
  BY <1>2, SpecIInv, PTL

(* Whatever line the chips give, its gate leads to its own stub with       *)
(* interrupts off; what user mode may call is what trap_init allowed.      *)
THEOREM GatesAlways == Spec => []GatesRight
<1>1. ASSUME IInv, cpu = "ack"
      PROVE  LET gate == idt_table[VectorOf(vector)]
             IN /\ gate.type = "interrupt" /\ gate.dpl = 0
                /\ gate.addr # NULL /\ LineOf(gate) = vector /\ gate.addr[2] < 0
  <2>1. at = "running" /\ vector \in Lines
    BY <1>1 DEF IInv, Service, Types
  <2>2. VectorOf(vector) = FIRST_EXTERNAL_VECTOR + vector
    <3>1. vector \in Nat /\ Half \in Nat /\ FIRST_EXTERNAL_VECTOR \in Nat
      BY <2>1, Constants, TrapsAssumption
    <3> QED
      BY <3>1 DEF VectorOf
  <2>3. idt_table[VectorOf(vector)] = intr_gate(Stub(Pushed(vector)))
    BY <1>1, <2>1, <2>2 DEF IInv, Gates
  <2>4. vector \in 0 .. 255
    BY <2>1, LineVectors
  <2>5. \A n \in 0 .. 255 : Pushed(n) < 0 /\ Pushed(n) % 256 = n
    BY DEF Pushed
  <2>6. \A n : Stub(n) # NULL /\ Stub(n)[2] = n
    BY DEF Stub, NULL
  <2> QED
    BY <2>3, <2>4, <2>5, <2>6 DEF intr_gate, Gate, LineOf
<1>2. ASSUME IInv, at \notin {"setup_idt", "trap_init"}
      PROVE  /\ ForUsers = {int3, overflow, bounds, SYSCALL_VECTOR}
             /\ \A n \in ForUsers : idt_table[n].type = "trap"
  BY <1>2, Users DEF IInv, Gates, ForUsers
<1>3. IInv => GatesRight
  BY <1>1, <1>2 DEF GatesRight
<1> QED
  BY <1>3, SpecIInv, PTL
=============================================================================
