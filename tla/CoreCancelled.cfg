\* An interrupt taken on a branch that is also speculated on.
SPECIFICATION Spec
CONSTANTS
  Last = 9
  Handler = 7
  Families = {"crossroads"}
  Programs <- MCPrograms
  IcMiss = 6
  DcMisses = {6, 10}
  DivWaits = {0, 1, 4}
PROPERTIES
  OnlyExceptionsCancelled
