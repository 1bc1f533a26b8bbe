SPECIFICATION Spec
CONSTANTS
  NoAddon = NoAddon
  Specs = {"a", "b", "c", "d"}
  Checksums = {"a", "b", "c", "d"}
  Checksum <- MCChecksum
  PkgVersion <- MCPkgVersion
  Templates <- UpgradeTemplates
  Versions = {"v1", "v2"}
  NewSpecs = {"a", "c"}
  Edits <- Upgrades
  Faults = {"delwf"}
  Inputs = {}
  Outcomes = {"Succeeded"}
  ValidationOutcomes = {"valid"}
  TTL = 1
  MaxRetries = 1
  MaxFaults = 1
  MaxCrashes = 0
  MaxEdits = 1
  MaxCreates = 1
  MaxTime = 1
  MaxLag = 2
INVARIANTS SucceededMeansDeployed VersionCacheFollowsStatus
PROPERTIES PrereqsBeforeInstall
CHECK_DEADLOCK FALSE
