--------------------------- MODULE MCAddonManager ---------------------------
(***************************************************************************)
(* Small instances of AddonManager.                                        *)
(***************************************************************************)
EXTENDS AddonManager

\* A spec is named for its checksum.  "a" and "c" are applied first, "b" and "d" are
\* edits of them that upgrade the package.
MCChecksum == [s \in Specs |-> s]
MCPkgVersion == [s \in Specs |-> IF s \in {"b", "d"} THEN "v2" ELSE "v1"]

\* The lifecycle steps that have a workflow.
InstallOnly == [s \in Specs |-> {"install"}]
PrereqsAndInstall == [s \in Specs |-> {"prereqs", "install"}]
InstallAndDelete == [s \in Specs |-> {"install", "delete"}]

\* From no workflows to prereqs and install, or from one install workflow to another.
UpgradeTemplates ==
  [s \in Specs |-> CASE s = "a" -> {}
                     [] s = "b" -> {"prereqs", "install"}
                     [] OTHER -> {"install"}]

\* No edit, and an upgrade.
NoEdits == {}
Upgrades == {<<"a", "b">>, <<"c", "d">>} \cap (Specs \X Specs)

=============================================================================
