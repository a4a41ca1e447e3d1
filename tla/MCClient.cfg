CONSTANTS
  Rooms = {r1}
  Nobody = Nobody
  MaxTokens = 2
  MaxTabOps = 4
  MaxCalmOps = 3
  Tabs = {t1, t2}
  DisconnectBuffer = 1
  MaxFaults = 1
  MaxPresOps = 3
  Composers = {c1, c2}
  MaxTimers = 3
  MaxTypingOps = 3
  LOAD_OLDER_THRESHOLD = 2
  NEAR_BOTTOM_THRESHOLD = 2
  ViewHeight = 3
  PageRows = 5
  MaxPages = 2
  MaxNew = 1
  MaxScrolls = 2
  Others = {u1, u2}
  NoData = NoData
  MaxPanelOps = 3
  Self = u0
  People = {u0, u1, u2}
  NoOne = NoOne
  MIN_GROUP_MEMBERS = 2
  MaxDialogOps = 12
SPECIFICATION MCSpec
CHECK_DEADLOCK FALSE
INVARIANTS
  ClientTypeOK
  OneSocket
  SubscriptionsFollow
  Reconciled
  TypingBacked
  MembersFollow
  RequestWellFormed
PROPERTIES
  PresenceHeals
  
