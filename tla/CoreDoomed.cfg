\* A wrong-path jump that a data-cache stall keeps in DEC.
SPECIFICATION Spec
CONSTANTS
  Last = 9
  Handler = 7
  Families = {"doomed"}
  Programs <- MCPrograms
  IcMiss = 6
  DcMisses = {6, 10}
  DivWaits = {0, 1, 4}
INVARIANTS
  DoomedDiscarded
