SPECIFICATION Spec
CONSTANTS
  NoAddon = NoAddon
  Specs = {"a"}
  Checksums = {"a"}
  Checksum <- MCChecksum
  PkgVersion <- MCPkgVersion
  Templates <- PrereqsAndInstall
  Versions = {"v1"}
  NewSpecs = {"a"}
  Edits <- NoEdits
  Faults = {"list", "create", "getwf", "secrets", "observe", "update", "updateLost", "panic"}
  Inputs = {}
  Outcomes = {"Succeeded", "Failed"}
  ValidationOutcomes = {"valid"}
  TTL = 1
  MaxRetries = 1
  MaxFaults = 1
  MaxCrashes = 0
  MaxEdits = 0
  MaxCreates = 1
  MaxTime = 2
  MaxLag = 2
INVARIANTS TypeOK SucceededMeansDeployed
PROPERTIES TerminalNotRegressed PrereqsBeforeInstall
CHECK_DEADLOCK FALSE
