--------------------------- MODULE MC_ReleaseWorkflow ---------------------------
(* Two names, two pushes of the tag, and jobs of their runs run again.        *)
EXTENDS ReleaseWorkflow
================================================================================
