------------------------- MODULE MC_ReleaseVerification -------------------------
(* Two projects, two artifacts, two attempts, two runs; the index moves twice. *)
EXTENDS ReleaseVerification

ProjectsDef == <<"ariadion", "daidalon">>
FilesDef == <<"ariadion.tar.gz", "ariadion.whl">>
==============================================================================
