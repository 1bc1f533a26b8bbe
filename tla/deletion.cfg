SPECIFICATION Spec
CONSTANTS
  NoAddon = NoAddon
  Specs = {"a"}
  Checksums = {"a"}
  Checksum <- MCChecksum
  PkgVersion <- MCPkgVersion
  Templates <- InstallAndDelete
  Versions = {"v1"}
  NewSpecs = {"a"}
  Edits <- NoEdits
  Faults = {"create", "panic"}
  Inputs = {"delete"}
  Outcomes = {"Succeeded", "Failed"}
  ValidationOutcomes = {"valid", "depPending", "invalid", "panic"}
  TTL = 1
  MaxRetries = 1
  MaxFaults = 1
  MaxCrashes = 1
  MaxEdits = 0
  MaxCreates = 1
  MaxTime = 1
  MaxLag = 2
INVARIANTS StaleCopiesHarmless
PROPERTIES NoWorkflowWithoutFinalizer GoneMeansDeleted ImplementsLife
CHECK_DEADLOCK FALSE
