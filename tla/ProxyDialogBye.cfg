\* One BYE, and the dialog it ends.
CONSTANTS
  None = None
  Caller = Caller
  Callee = Callee
  Other = Other
  Req = {r1}
  MaxDialogs = 1
SPECIFICATION Spec
INVARIANT FailedByeLeavesDialog
CHECK_DEADLOCK FALSE
