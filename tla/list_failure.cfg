SPECIFICATION Spec
CONSTANTS
  NoAddon = NoAddon
  Specs = {"a", "b"}
  Checksums = {"a", "b"}
  Checksum <- MCChecksum
  PkgVersion <- MCPkgVersion
  Templates <- InstallOnly
  Versions = {"v1", "v2"}
  NewSpecs = {"a"}
  Edits <- Upgrades
  Faults = {"list"}
  Inputs = {}
  Outcomes = {"Succeeded", "Failed"}
  ValidationOutcomes = {"valid"}
  TTL = 1
  MaxRetries = 2
  MaxFaults = 1
  MaxCrashes = 0
  MaxEdits = 1
  MaxCreates = 1
  MaxTime = 1
  MaxLag = 2
INVARIANTS SucceededMeansDeployed
CHECK_DEADLOCK FALSE
