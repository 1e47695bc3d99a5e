---------------------------- MODULE MCConfigFile ----------------------------
(***************************************************************************)
(* Instances of ConfigFile for TLC.                                        *)
(***************************************************************************)
EXTENDS ConfigFile, TLC

MCKeys == {"server", "report_interval", "path_loss", "webroot"}

(* A file that has everything, one setting with another type than it is    *)
(* looked up as; the same without a web root; and one with little in it.   *)
FullFile ==
    [k \in MCKeys |-> [type |-> IF k = "path_loss" THEN "int" ELSE LookedUpAs[k],
                       val  |-> "good"]]
PlainFile == [FullFile EXCEPT !["webroot"] = Unset]
PoorFile ==
    [k \in MCKeys |-> IF k = "server" THEN [type |-> "bool", val |-> "good"] ELSE Unset]

MCFiles   == {FullFile, PoorFile}
MCNoRoots == {PlainFile, PoorFile}
MCPlain   == {PlainFile}

MCSymmetry == Permutations(Contents)
=============================================================================
