SPECIFICATION MCSpec
CHECK_DEADLOCK FALSE
SYMMETRY Symmetry
CONSTANTS
  Nodes = {m, n}
  Writers = {m, n}
  Extensions = {"none", "es"}
  MaxCheckpoint = 2
  MaxEpoch = 2
  MaxCalls = 1
INVARIANTS
  TypeOK
  EpochIdentifiesTarget
  TicketsMatchViews
  PublicationNotLost
PROPERTIES
  PromotionIsAcknowledged
  MembershipFixedWithinEpoch
  ImplementsFrontier
  ImplementsCutover
  ActiveIsPrefetched
