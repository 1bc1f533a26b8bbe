------------------------------ MODULE Addonctl ------------------------------
(***************************************************************************)
(* addonctl create (pkg/addonctl/addonctl.go): from the flags of the       *)
(* command line to an Addon.  A flag is what its text comes to:            *)
(*   prereqs, install   a path: [is, ext, objects], where "is" says what   *)
(*             is there ("none" for no flag, "missing", "file", "dir", or  *)
(*             "cwd" for the working directory), "ext" what it contains    *)
(*   params    "none", "pairs" or "unseparated"                            *)
(*   deps, selector, secrets   the lists they come to                      *)
(*   malformed   the flags among "deps" and "selector" of which some item  *)
(*             is not of the form key:value                                *)
(* The Addon gets the command's argument as its name and as its package:   *)
(* arg has the argument as either.                                         *)
(***************************************************************************)
EXTENDS WorkflowBuilder

\* extractResources for one path: what it adds to the scripts and the resources.
\* The files of a directory are looked for in the working directory (scripts) or
\* the directory itself is read as a file (resources).
extract(path) ==
  LET nothing == [answer |-> "ok", scripts |-> {}, objects |-> {}]
  IN CASE path.is = "missing" -> [nothing EXCEPT !.answer = "error"]
       [] path.is \in {"file", "cwd"} /\ path.ext = "py" -> [nothing EXCEPT !.scripts = {"script"}]
       [] path.is = "dir" /\ path.ext = "py" -> [nothing EXCEPT !.answer = "error"]
       [] path.is = "file" /\ path.ext = "yaml" -> [nothing EXCEPT !.objects = path.objects]
       [] path.is \in {"dir", "cwd"} /\ path.ext = "yaml" -> [nothing EXCEPT !.answer = "error"]
       [] OTHER -> nothing

parseAddonParams(raw) == IF raw = "unseparated" THEN "panic" ELSE "ok"

parsePairs(flags, flag) == IF flag \in flags.malformed THEN "error" ELSE "ok"

validatePkgType(t) ==
  IF t \in {"helm", "ship", "kustomize", "cnab", "composite"} THEN "ok" ELSE "error"

parseAllArgs(flags) ==
  CHOOSE answer \in FirstWrong(<<extract(flags.prereqs).answer, extract(flags.install).answer,
                                parseAddonParams(flags.params), parsePairs(flags, "deps"),
                                parsePairs(flags, "selector"), validatePkgType(flags.pkgType)>>) : TRUE

\* Mutant: the builder of the delete template comes first.
TemplatesDeleteFirst(flags) ==
  LET built(path) == Build(Resources(Scripts(New, extract(path).scripts),
                                     extract(path).objects), TRUE)
  IN [prereqs |-> built(flags.prereqs), install |-> built(flags.install),
      delete |-> Build(New, TRUE)]

\* The three builders, in this order: the delete one sets doDelete.
Templates(flags) ==
  LET built(path) == Build(Resources(Scripts(New, extract(path).scripts),
                                     extract(path).objects), FALSE)
  IN [prereqs |-> built(flags.prereqs), install |-> built(flags.install),
      delete |-> Build(New, TRUE)]

\* The Run function up to the calls of the API.  A parameter is assigned to a map
\* that nobody made.
Create(arg, flags) ==
  LET parsed == parseAllArgs(flags)
      built == Templates(flags)
      panics == \/ flags.params = "pairs"
                \/ \E step \in DOMAIN built : built[step].answer = "panic"
  IN [answer |-> IF parsed # "ok" THEN parsed
                 ELSE IF panics THEN "panic"
                 ELSE IF flags.dryRun THEN "printed" ELSE "ok",
      addon |-> [name |-> arg.name, longName |-> FALSE, pkg |-> arg.pkg, ver |-> flags.ver,
                 checksum |-> "c1", deps |-> flags.deps, namespace |-> flags.namespace,
                 configs |-> {}, data |-> {}, selector |-> flags.selector,
                 secrets |-> flags.secrets, templates |-> built,
                 prefix |-> [step \in DOMAIN built |-> << >>]]]

=============================================================================
