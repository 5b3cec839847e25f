CONSTANTS
  FIRST_EXTERNAL_VECTOR = 7
  NR_IRQS = 9
  SYSCALL_VECTOR = 14
  nmi = 2
  int3 = 3
  overflow = 4
  bounds = 5
  LastException = 6
  Half = 3
  Cascade = 1
  TimerLine = 0
  irq2 = irq2
  irq0 = irq0
  a1 = a1
  a2 = a2
  Actions = {irq2, irq0, a1, a2}
  SA_SHIRQ = {a1, a2}
SPECIFICATION Spec
SYMMETRY Drivers
INVARIANTS MasksAgree ServiceEnds HandledOnce OpenLinesServed GatesRight
CHECK_DEADLOCK FALSE
