\* An mret on the wrong path of a branch.
SPECIFICATION Spec
CONSTANTS
  Last = 9
  Handler = 7
  Families = {"return"}
  Programs <- MCPrograms
  IcMiss = 6
  DcMisses = {6, 10}
  DivWaits = {0, 1, 4}
INVARIANTS
  MretOnItsWay
