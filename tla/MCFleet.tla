------------------------------ MODULE MCFleet -------------------------------
(***************************************************************************)
(* Small fleets: "base" is the package "b" and may be upgraded, "app"      *)
(* depends on any version of it, "top" on a given version of "a".          *)
(***************************************************************************)
EXTENDS Fleet

MCSatisfies == {<<"*", "v1">>, <<"*", "v2">>}

MCSpecs ==
  [base1 |-> [pkg |-> "b", ver |-> "v1", deps |-> {}],
   base2 |-> [pkg |-> "b", ver |-> "v2", deps |-> {}],
   app |-> [pkg |-> "a", ver |-> "v1", deps |-> {<<"b", "*">>}],
   top |-> [pkg |-> "t", ver |-> "v1", deps |-> {<<"a", "v1">>}],
   both |-> [pkg |-> "t", ver |-> "v1", deps |-> {<<"a", "v1">>, <<"b", "v1">>}]]

\* A chain of dependencies whose base may be upgraded.
Chain == [base |-> {"base1", "base2"}, app |-> {"app"}, top |-> {"top"}]

\* One addon that needs two others.
TwoNeeded == [base |-> {"base1"}, app |-> {"app"}, top |-> {"both"}]

\* Two addons for the same package.
Twins == [base |-> {"base1"}, other |-> {"base1"}]

MCFirst == [a \in Names |-> IF a \in {"base", "other"} THEN "base1"
                            ELSE IF "both" \in MayHave[a] THEN "both" ELSE a]

=============================================================================
