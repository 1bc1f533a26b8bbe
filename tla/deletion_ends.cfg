SPECIFICATION FairSpec
CONSTANTS
  NoAddon = NoAddon
  Specs = {"a"}
  Checksums = {"a"}
  Checksum <- MCChecksum
  PkgVersion <- MCPkgVersion
  Templates <- InstallAndDelete
  Versions = {"v1"}
  NewSpecs = {"a"}
  Edits <- NoEdits
  Faults = {}
  Inputs = {"delete"}
  Outcomes = {"Succeeded", "Failed"}
  ValidationOutcomes = {"valid"}
  TTL = 1
  MaxRetries = 1
  MaxFaults = 0
  MaxCrashes = 0
  MaxEdits = 0
  MaxCreates = 1
  MaxTime = 1
  MaxLag = 2
PROPERTIES DeletionEnds
CHECK_DEADLOCK FALSE
