---------------------------- MODULE ActionModes ----------------------------
(***************************************************************************)
(* The action postures of finops_core/modes.py and what each permits.      *)
(***************************************************************************)

Modes == {"advisory", "artifacts", "guarded_write"}

NormalizeMode(mode) == IF mode \in Modes THEN mode ELSE "advisory"

CanGenerateArtifacts(mode) == mode \in {"artifacts", "guarded_write"}

CanApplyActions(mode) == mode \in {"guarded_write"}
=============================================================================
