SPECIFICATION SteeringSpec
INVARIANT SteeredKeepsMessages
CONSTANTS
  None = None
  MaxThreadMessages = 10
  MaxThreadCheckpoints = 10
  MaxThreadPlans = 10
  MaxThreadActivities = 10
