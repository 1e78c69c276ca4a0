SPECIFICATION MCSpec
INVARIANTS StoresAgree TurnsAreDistinct
PROPERTIES RevertCutsTheEnd ApprovalStaysResolved
CONSTANTS
  None = None
  MaxThreadMessages = 10
  MaxThreadCheckpoints = 10
  MaxThreadPlans = 10
  MaxThreadActivities = 10
