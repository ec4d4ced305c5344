\* An interrupt that wakes a wfi while the back end stalls.
SPECIFICATION Spec
CONSTANTS
  Last = 9
  Handler = 7
  Families = {"drowsy"}
  Programs <- MCPrograms
  IcMiss = 6
  DcMisses = {6, 10}
  DivWaits = {0, 1, 4}
PROPERTIES
  WakeTagRides
