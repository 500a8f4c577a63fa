SPECIFICATION FairSpec
CONSTANTS
  Requests = {r1, r2}
  Deliveries = {"d1", "d2"}
  Payloads <- Sent
  Setting <- SettingsUsed
  Template <- PlainTemplate
  WithIndex = TRUE
  NameLength = 60
  Hash <- HashUsed
  MaxFaults = 1
  MaxRedeliveries = 1
  MaxChanges = 1
INVARIANTS TypeOK OneBuildPerDelivery NothingLost
PROPERTIES ReplayNeverBuilds OnlySelectedBuild EveryDeliveryConcludes
CHECK_DEADLOCK FALSE
