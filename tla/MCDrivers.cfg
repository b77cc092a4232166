SPECIFICATION Spec
CONSTANTS
  None = None
  MaxCalls = 3
  MaxConns = 2
  MaxLogs = 1
  MaxLate = 1
  Chatty = {"panos"}
  Brief = {"asa", "ios"}
  RebootPolicy = TRUE
  Keys = {k1, k2}
  Tofu = TRUE
INVARIANTS NotSentIsTrue SuccessIsOwn RanAtMostOnce CommitFollowsCheck ConnectIsClean
SYMMETRY KeySymmetry
CHECK_DEADLOCK FALSE
