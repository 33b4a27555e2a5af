------------------------------ MODULE StagedRelease ------------------------------
(***************************************************************************)
(* What the publication workflow promises of the two package indexes: a    *)
(* file name is used once; and production receives files of a build only   *)
(* when the staging index holds all of that build, so that what production *)
(* holds is always part of one build that was staged completely.           *)
(***************************************************************************)
CONSTANTS Names,    \* the files of the release
          Builds,   \* what a build of the release may be
          None      \* a name the workflow has not used

VARIABLES staging,      \* the build whose file the staging index has, per name
          production    \* the same of the production index

stagedVars == <<staging, production>>

StagedInit ==
    /\ staging = [f \in Names |-> None]
    /\ production = [f \in Names |-> None]

Stage(f, b) ==
    /\ staging[f] = None
    /\ staging' = [staging EXCEPT ![f] = b]
    /\ UNCHANGED production

Promote(f, b) ==
    /\ production[f] = None
    /\ \A g \in Names : staging[g] = b
    /\ production' = [production EXCEPT ![f] = b]
    /\ UNCHANGED staging

StagedNext == \E f \in Names, b \in Builds : Stage(f, b) \/ Promote(f, b)

StagedSpec == StagedInit /\ [][StagedNext]_stagedVars
==================================================================================
