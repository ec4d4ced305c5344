\* Every program the core is expected to run; what they avoid is in the README.
SPECIFICATION Spec
CONSTANTS
  Last = 9
  Handler = 7
  Families = {"branches", "exceptions", "interrupts", "sleep"}
  Programs <- MCPrograms
  IcMiss = 6
  DcMisses = {6, 10}
  DivWaits = {0, 1, 4}
INVARIANTS
  TypeOK
  LabelledByOwnPc
  TrapWriteDrained
  HandlerDecodes
PROPERTIES
  ImplementsMachine
  OwnQuotient
  KeepsRetiring
