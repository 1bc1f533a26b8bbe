---------------------------- MODULE VersionCache ----------------------------
(***************************************************************************)
(* The version cache (pkg/addon/addon_version_cache.go): which addon holds *)
(* which version of which package, and in which phase.  A cache is a set   *)
(* of entries; the two levels of maps in the code mean that no two entries *)
(* agree on package and version.  Go ranges over a map in any order: an    *)
(* operator that stands for such a loop returns the set of its possible    *)
(* answers, and NoVersion is the nil answer.                               *)
(***************************************************************************)

\* The pairs <<requirement, version>> such that the requirement is a semver
\* constraint that the semver version satisfies.  A requirement that is no
\* constraint, and a version that is no semver, is in no pair.
CONSTANT Satisfies

NoVersion == [name |-> "nil"]

\* No two entries of a cache are for the same version of the same package.
IsCache(c) == \A e, f \in c : e.pkg = f.pkg /\ e.ver = f.ver => e = f

AddVersion(c, v) == {e \in c : ~(e.pkg = v.pkg /\ e.ver = v.ver)} \cup {v}

GetVersions(c, pkg) == {e \in c : e.pkg = pkg}

resolveVersion(m, ver) == {e \in m : <<ver, e.ver>> \in Satisfies}

\* The entry of this very version; else any entry that satisfies it.
GetVersion(c, pkg, ver) ==
  LET vmap == GetVersions(c, pkg)
      exact == {e \in vmap : e.ver = ver}
      found == IF exact # {} THEN exact ELSE resolveVersion(vmap, ver)
  IN IF found = {} THEN {NoVersion} ELSE found

RemoveVersion(c, pkg, ver) == {e \in c : ~(e.pkg = pkg /\ e.ver = ver)}

HasVersionName(c, name) == {e \in c : e.name = name}

=============================================================================
