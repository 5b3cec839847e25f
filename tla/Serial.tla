------------------------------- MODULE Serial -------------------------------
(***************************************************************************)
(* serial_console_write of driver/char/serial.c, and the UART it polls.    *)
(* The processor waits for the transmitter, though not for ever: after so  *)
(* many polls it writes the byte in any case.  The UART (external) has a   *)
(* holding register and a shift register.  A driver (external) may use the *)
(* same UART by its interrupts, which the console turns off meanwhile.     *)
(* Whether a register is a port or in memory (io_type) is left aside.      *)
(***************************************************************************)
EXTENDS Integers, Sequences, SequencesExt

CONSTANTS
  TMOUT,              \* polls of wait_for_xmitr: 1000000
  LF, CR,             \* 10 and 13
  Foreign,            \* the bytes of the driver, all alike here
  Texts,              \* what the console may be asked to write
  DriverBytes         \* a bound of the model: how many the driver sends

ASSUME SerialAssumption ==
  /\ TMOUT \in Nat \ {0} /\ DriverBytes \in Nat
  /\ Foreign \notin {LF, CR}
  /\ \A t \in Texts : t \in Seq(ToSet(t)) /\ Foreign \notin ToSet(t)

VARIABLES
  s, i,               \* the text, and how many of its bytes are done
  feed,               \* its last byte was LF, and CR is due
  tmout, ier, lsr_break_flag,
  stage,
  IER, holding, shift, BI, \* the UART's registers; a break was received
  line,               \* what it has sent
  broken, forced      \* history: a break was received; a wait was given up

console == <<s, i, feed, tmout, ier, lsr_break_flag, stage>>
uart    == <<IER, holding, shift, BI, line>>
serialVars == <<console, uart, broken, forced>>
----------------------------------------------------------------------------
(* The UART, whose pace nothing bounds, and the driver (external). *)
Load ==
  /\ holding # <<>> /\ shift = <<>>
  /\ shift' = holding /\ holding' = <<>>
  /\ UNCHANGED <<console, IER, BI, line, broken, forced>>

Send ==
  /\ shift # <<>>
  /\ line' = line \o shift /\ shift' = <<>>
  /\ UNCHANGED <<console, IER, holding, BI, broken, forced>>

ReceiveBreak ==
  /\ ~BI /\ BI' = TRUE /\ broken' = TRUE
  /\ UNCHANGED <<console, IER, holding, shift, line, forced>>

(* What is on its way, in order. *)
Flow == line \o shift \o holding

DriverInterrupt ==
  /\ IER # 0 /\ holding = <<>>
  /\ Cardinality({n \in DOMAIN Flow : Flow[n] = Foreign}) < DriverBytes
  /\ holding' = <<Foreign>>
  /\ UNCHANGED <<console, IER, shift, BI, line, broken, forced>>

BothEmpty == holding = <<>> /\ shift = <<>>

----------------------------------------------------------------------------
SaveIer ==
  /\ stage = "save"
  /\ ier' = IER
  /\ stage' = "disable"
  /\ UNCHANGED <<s, i, feed, tmout, lsr_break_flag, uart, broken, forced>>

DisableInterrupts ==
  /\ stage = "disable"
  /\ IER' = 0
  /\ tmout' = TMOUT /\ stage' = "wait_for_xmitr"
  /\ UNCHANGED <<s, i, feed, ier, lsr_break_flag, holding, shift, BI, line, broken, forced>>

(* Fault: the polls are not counted. *)
CountNothing == tmout

CountDown == tmout - 1

(* A turn of wait_for_xmitr.  To read the register clears BI (external). *)
Poll ==
  /\ stage = "wait_for_xmitr"
  /\ lsr_break_flag' = (lsr_break_flag \/ BI)
  /\ BI' = FALSE
  /\ tmout' = CountDown
  /\ stage' = IF tmout' = 0 \/ BothEmpty THEN "out" ELSE stage
  /\ forced' = (forced \/ (tmout' = 0 /\ ~BothEmpty))
  /\ UNCHANGED <<s, i, feed, ier, IER, holding, shift, line, broken>>

(* Fault: the carriage return does not wait for the line feed. *)
OutAtOnce(b) ==
  /\ stage = "out"
  /\ holding' = <<b>>
  /\ tmout' = TMOUT /\ stage' = IF feed' THEN "out" ELSE "wait_for_xmitr"
  /\ UNCHANGED <<s, ier, lsr_break_flag, IER, shift, BI, line, broken, forced>>

(* A byte that is written before the last is gone replaces that. *)
Out(b) ==
  /\ stage = "out"
  /\ holding' = <<b>>
  /\ tmout' = TMOUT /\ stage' = "wait_for_xmitr"
  /\ UNCHANGED <<s, ier, lsr_break_flag, IER, shift, BI, line, broken, forced>>

OutChar ==
  /\ i < Len(s) /\ ~feed
  /\ feed' = (s[i + 1] = LF)
  /\ Out(s[i + 1])
  /\ i' = IF feed' THEN i ELSE i + 1

OutFeed ==
  /\ feed
  /\ feed' = FALSE /\ i' = i + 1
  /\ Out(CR)

RestoreIer ==
  /\ stage = "out" /\ i = Len(s)
  /\ IER' = ier
  /\ stage' = "done"
  /\ UNCHANGED <<s, i, feed, tmout, ier, lsr_break_flag, holding, shift, BI, line, broken, forced>>
----------------------------------------------------------------------------
SerialInit ==
  /\ s \in Texts /\ i = 0 /\ feed = FALSE
  /\ tmout = 0 /\ ier = 0 /\ lsr_break_flag = FALSE
  /\ stage = "save"
  /\ IER \in {0, 1} /\ BI = FALSE /\ line = <<>>
  /\ holding = <<>> /\ shift = <<>>
  /\ broken = FALSE /\ forced = FALSE

SerialConsoleWrite ==
  SaveIer \/ DisableInterrupts \/ Poll \/ OutChar \/ OutFeed \/ RestoreIer

SerialNext == SerialConsoleWrite \/ Load \/ Send \/ ReceiveBreak \/ DriverInterrupt

(* The processor goes on.  Nothing is assumed of the UART, which may be    *)
(* stuck or missing. *)
SerialSpec == SerialInit /\ [][SerialNext]_serialVars /\ WF_serialVars(SerialConsoleWrite)
----------------------------------------------------------------------------
(* The bytes that the console has written so far. *)
Written ==
  FlattenSeq([n \in 1 .. i |-> IF s[n] = LF THEN <<LF, CR>> ELSE <<s[n]>>])
    \o (IF feed THEN <<LF>> ELSE <<>>)

Subsequence(t, u) ==
  \E place \in [DOMAIN t -> DOMAIN u] :
    \A m, n \in DOMAIN t : t[m] = u[place[m]] /\ (m < n => place[m] < place[n])

FromConsole(flow) ==
  FlattenSeq([n \in 1 .. Len(flow) |-> IF flow[n] = Foreign THEN <<>> ELSE <<flow[n]>>])

(* Each byte, and a carriage return after each line feed, goes out once    *)
(* and in order, with no byte of the driver in between, as long as the     *)
(* UART answers within the limit; if not, bytes get lost, but none twice   *)
(* or out of order (serial.c:95).  When the console returns the driver has *)
(* its interrupts back, and a break that a poll consumed is remembered.    *)
ConsoleExact ==
  /\ IF forced THEN Subsequence(FromConsole(Flow), Written)
               ELSE FromConsole(Flow) = Written
  /\ \A l, m, n \in DOMAIN Flow :
       (l < m /\ m < n /\ Flow[l] # Foreign /\ Flow[n] # Foreign) => Flow[m] # Foreign
  /\ broken => BI \/ lsr_break_flag
  /\ stage = "done" => IER = ier

(* The console returns, even if the UART never sends anything.             *)
WriteReturns == <>(stage = "done")
=============================================================================
