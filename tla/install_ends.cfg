SPECIFICATION FairSpec
CONSTANTS
  NoAddon = NoAddon
  Specs = {"a"}
  Checksums = {"a"}
  Checksum <- MCChecksum
  PkgVersion <- MCPkgVersion
  Templates <- InstallOnly
  Versions = {"v1"}
  NewSpecs = {"a"}
  Edits <- NoEdits
  Faults = {"create", "getwf", "update", "updateLost"}
  Inputs = {"event"}
  Outcomes = {"Succeeded", "Failed"}
  ValidationOutcomes = {"valid"}
  TTL = 1
  MaxRetries = 2
  MaxFaults = 1
  MaxCrashes = 1
  MaxEdits = 0
  MaxCreates = 1
  MaxTime = 1
  MaxLag = 2
INVARIANTS VersionCacheFollowsStatus
PROPERTIES NoSecondInstallation InstallEnds
CHECK_DEADLOCK FALSE
