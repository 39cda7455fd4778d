SPECIFICATION CommunitySpec
CONSTANTS
  People = {"ann", "bob"}
  Handlers = {"h1", "h2"}
  ReplicaOf <- MCReplicaOf
  Private = {}
  UserLimit = 1
  UserWindow = 1
  ConversationLimit = 2
  ConversationWindow = 1
  MaxRequests = 4
  LastTick = 2
  ReportIds = {1}
  Admins = {"bob", "m1"}
  Moderators = {"m1", "m2"}
CHECK_DEADLOCK FALSE
INVARIANTS BlockExcludesFollow  ResolvedOnceWithItsEffect
PROPERTIES RequestsReturn
