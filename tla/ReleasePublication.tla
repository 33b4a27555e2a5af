--------------------------- MODULE ReleasePublication ---------------------------
(***************************************************************************)
(* What the release verifier promises of the directory it downloads into:  *)
(* artifacts appear one at a time in a directory opened for them; a        *)
(* directory that is withdrawn loses them and is closed only when it is    *)
(* empty; and a directory that is settled, complete or abandoned, is never *)
(* touched again, by this verification or by a later one.                  *)
(***************************************************************************)
CONSTANT Artifacts

VARIABLES published,   \* the artifacts in the directory
          state        \* "none", "open", "withdrawing" or "settled"

pubVars == <<published, state>>

PubTypeOK ==
    /\ published \subseteq Artifacts
    /\ state \in {"none", "open", "withdrawing", "settled"}

PubInit ==
    /\ published = {}
    /\ state = "none"

Open ==
    /\ state = "none"
    /\ state' = "open"
    /\ UNCHANGED published

Publish(a) ==
    /\ state = "open"
    /\ a \notin published
    /\ published' = published \cup {a}
    /\ UNCHANGED state

Withdraw ==
    /\ state = "open"
    /\ state' = "withdrawing"
    /\ UNCHANGED published

Remove(a) ==
    /\ state = "withdrawing"
    /\ a \in published
    /\ published' = published \ {a}
    /\ UNCHANGED state

Close ==
    /\ state = "withdrawing"
    /\ published = {}
    /\ state' = "none"
    /\ UNCHANGED published

\* The directory stays as it is: everything was delivered, or the process gave
\* up or was killed.
Settle ==
    /\ state \in {"open", "withdrawing"}
    /\ state' = "settled"
    /\ UNCHANGED published

PubNext ==
    \/ Open \/ Withdraw \/ Close \/ Settle
    \/ \E a \in Artifacts : Publish(a) \/ Remove(a)

PubSpec == PubInit /\ [][PubNext]_pubVars
================================================================================
