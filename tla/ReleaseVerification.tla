-------------------------- MODULE ReleaseVerification --------------------------
(***************************************************************************)
(* tools/verify_index_release.py: one process checks a package index,      *)
(* whose contents move while it asks, either that the release is absent    *)
(* from it (--require-absent) or that it is exactly the approved manifest, *)
(* and then downloads the approved artifacts into a directory that must    *)
(* not exist yet.                                                          *)
(*                                                                         *)
(* Pages, digests and sizes are abstracted to what the code tells apart: a *)
(* project's page is missing (404), lists exactly the approved files, or   *)
(* lists something else (a file missing, added, altered or yanked); the    *)
(* bytes of a download are right or wrong for the manifest's digest.       *)
(* An error is "reported" (IndexReleaseError, into which HTTPError and     *)
(* OSError are turned) or "raw" (any other exception that leaves a call:   *)
(* http.client.HTTPException, KeyboardInterrupt, an OSError raised inside  *)
(* a finally or except clause).                                            *)
(***************************************************************************)
EXTENDS Integers, Sequences, Functions

CONSTANTS Projects,     \* PUBLISHABLE_DISTRIBUTIONS, in their order
          Files,        \* sorted(manifest)
          Attempts,     \* --attempts
          MaxRuns,      \* bound: how often the tool is started
          MaxChanges    \* bound: how often the index moves

ASSUME ReleaseAssumption ==
    /\ Projects \in Seq(STRING) /\ IsInjective(Projects)
    /\ Files \in Seq(STRING) /\ IsInjective(Files) /\ Files # <<>>
    /\ Attempts \in Nat \ {0} /\ MaxRuns \in Nat /\ MaxChanges \in Nat

VARIABLES
    index,      \* what the index shows of each project
    changes,    \* how often it has moved
    runs,       \* how often the tool was started
    mode,       \* "absence" or "verify"
    phase,      \* where the process is
    attempt,    \* attempts of wait_for_verified_release used up
    listing,    \* the pages fetched in this attempt, in the order of Projects
    witnessed,  \* history: what each project has shown since the attempt began
    owned,      \* this run made the destination directory
    current,    \* the file of Files being downloaded
    part,       \* the bytes of the temporary file, or "none"
    final,      \* the artifacts in place: name to bytes
    made,       \* the destination exists
    alien,      \* another program made a directory inside it
    pending,    \* the error a finally clause is about to pass on
    doomed      \* the entries the cleanup has listed and not yet removed

indexVars == <<index, changes, witnessed>>
fetchVars == <<mode, attempt, listing>>
diskVars == <<part, final, made, alien>>
vars == <<indexVars, fetchVars, diskVars, runs, phase, owned, current, pending, doomed>>

ProjectSet == Range(Projects)
FileSet == Range(Files)
IndexStates == {"absent", "exact", "other"}
Downloading == {"opening", "receiving", "checking", "linking", "unlinking", "finally"}
Ended == {"absent", "delivered", "failed", "refused", "obstructed", "escaped", "killed"}
Directory == "a directory"

ReleaseTypeOK ==
    /\ index \in [ProjectSet -> IndexStates]
    /\ changes \in 0 .. MaxChanges
    /\ witnessed \in [ProjectSet -> SUBSET IndexStates]
    /\ runs \in Nat
    /\ mode \in {"absence", "verify"}
    /\ attempt \in 0 .. Attempts - 1
    /\ listing \in Seq(IndexStates) /\ Len(listing) <= Len(Projects)
    /\ phase \in Ended \cup Downloading \cup {"fetching", "preparing", "cleaning"}
    /\ owned \in BOOLEAN /\ made \in BOOLEAN /\ alien \in BOOLEAN
    /\ current \in 1 .. Len(Files) + 1
    /\ part \in {"none", "cut", "right", "wrong"}
    /\ DOMAIN final \subseteq FileSet
    /\ \A f \in DOMAIN final : final[f] \in {"right", "wrong", "foreign"}
    /\ pending \in {"none", "reported", "raw"}
    /\ doomed \subseteq FileSet \cup {Directory}

------------------------------------------------------------------------------
(* The start of the tool and the index around it                            *)

ReleaseInit ==
    /\ index \in [ProjectSet -> IndexStates]
    /\ witnessed = [p \in ProjectSet |-> {index[p]}]
    /\ changes = 0 /\ runs = 1
    /\ mode \in {"absence", "verify"}
    /\ phase = "fetching" /\ attempt = 0 /\ listing = <<>>
    /\ owned = FALSE /\ current = 1 /\ pending = "none" /\ doomed = {}
    /\ part = "none" /\ final = [f \in {} |-> "right"] /\ made = FALSE /\ alien = FALSE

\* Started again, with whatever the last run left on disk.
Restart ==
    /\ phase \in Ended /\ runs < MaxRuns
    /\ runs' = runs + 1
    /\ mode' \in {"absence", "verify"}
    /\ phase' = "fetching" /\ attempt' = 0 /\ listing' = <<>>
    /\ witnessed' = [p \in ProjectSet |-> {index[p]}]
    /\ owned' = FALSE /\ current' = 1 /\ pending' = "none" /\ doomed' = {}
    /\ UNCHANGED <<index, changes, diskVars>>

\* Uploads, yanks and deletions, at any moment.
IndexMoves(p) ==
    /\ changes < MaxChanges
    /\ changes' = changes + 1
    /\ \E s \in IndexStates \ {index[p]} :
         /\ index' = [index EXCEPT ![p] = s]
         /\ witnessed' = [witnessed EXCEPT ![p] = @ \cup {s}]
    /\ UNCHANGED <<fetchVars, diskVars, runs, phase, owned, current, pending, doomed>>

------------------------------------------------------------------------------
(* Fetching pages and judging them                                          *)

Fetching == phase = "fetching" /\ Len(listing) < Len(Projects)
Asked == Projects[Len(listing) + 1]
Kept == UNCHANGED <<index, changes, diskVars, runs, owned, current, pending, doomed>>

AttemptFailsOneMore ==    \* mutant: one attempt too many
    /\ UNCHANGED mode
    /\ IF mode = "verify" /\ attempt < Attempts
       THEN /\ attempt' = attempt + 1
            /\ listing' = <<>>
            /\ witnessed' = [p \in ProjectSet |-> {index[p]}]
            /\ UNCHANGED phase
       ELSE phase' = "failed" /\ UNCHANGED <<attempt, listing, witnessed>>
AttemptFailsUncounted ==    \* mutant: retries are not counted
    /\ UNCHANGED <<mode, attempt>>
    /\ IF mode = "verify"
       THEN /\ listing' = <<>>
            /\ witnessed' = [p \in ProjectSet |-> {index[p]}]
            /\ UNCHANGED phase
       ELSE phase' = "failed" /\ UNCHANGED <<listing, witnessed>>
AttemptFailsKeepingPages ==    \* mutant: a retry keeps the pages it has
    /\ UNCHANGED <<mode, listing>>
    /\ IF mode = "verify" /\ attempt + 1 < Attempts
       THEN /\ attempt' = attempt + 1
            /\ witnessed' = [p \in ProjectSet |-> {index[p]}]
            /\ UNCHANGED phase
       ELSE phase' = "failed" /\ UNCHANGED <<attempt, witnessed>>
\* A reported error ends an absence check at once; a verification starts its
\* next attempt, which asks for every page again, unless there is none left.
AttemptFails ==
    /\ UNCHANGED mode
    /\ IF mode = "verify" /\ attempt + 1 < Attempts
       THEN /\ attempt' = attempt + 1
            /\ listing' = <<>>
            /\ witnessed' = [p \in ProjectSet |-> {index[p]}]
            /\ UNCHANGED phase
       ELSE /\ phase' = "failed"
            /\ UNCHANGED <<attempt, listing, witnessed>>

FetchAnswered ==
    /\ Fetching
    /\ mode = "absence" \/ index[Asked] # "absent"
    /\ listing' = Append(listing, index[Asked])
    /\ UNCHANGED <<mode, attempt, witnessed, phase>>
    /\ Kept

FetchFailsAsAbsent ==    \* mutant: any error says that the project is absent
    /\ Fetching
    /\ IF mode = "absence"
       THEN listing' = Append(listing, "absent") /\ UNCHANGED <<mode, attempt, witnessed, phase>>
       ELSE AttemptFails
    /\ Kept
\* 404 in a verification, an unreachable index, an unreadable answer.
FetchFails == Fetching /\ AttemptFails /\ Kept

\* An exception that is no IndexReleaseError ends the process here, retries or not.
FetchEscapes ==
    /\ Fetching
    /\ phase' = "escaped"
    /\ UNCHANGED <<fetchVars, witnessed>>
    /\ Kept

Listed == phase = "fetching" /\ Len(listing) = Len(Projects)
AllAbsent == \A i \in DOMAIN listing : listing[i] = "absent"
AllExact == \A i \in DOMAIN listing : listing[i] = "exact"

RequireAbsent ==
    /\ Listed /\ mode = "absence"
    /\ phase' = IF AllAbsent THEN "absent" ELSE "failed"
    /\ UNCHANGED <<fetchVars, witnessed>>
    /\ Kept

VerifyFiles ==
    /\ Listed /\ mode = "verify"
    /\ IF AllExact
       THEN phase' = "preparing" /\ UNCHANGED <<fetchVars, witnessed>>
       ELSE AttemptFails
    /\ Kept

------------------------------------------------------------------------------
(* Downloading                                                              *)

PrepareDestinationAnyway ==    \* mutant: a destination that exists is used
    /\ phase = "preparing"
    /\ \/ phase' = "opening" /\ made' = TRUE /\ owned' = TRUE
       \/ phase' = "escaped" /\ UNCHANGED <<made, owned>>
    /\ UNCHANGED <<indexVars, fetchVars, part, final, alien, runs, current, pending, doomed>>
\* Outside the try: a destination that exists is left alone.
PrepareDestination ==
    /\ phase = "preparing"
    /\ \/ made /\ phase' = "refused" /\ UNCHANGED <<made, owned>>
       \/ ~made /\ phase' = "opening" /\ made' = TRUE /\ owned' = TRUE
       \/ phase' = "escaped" /\ UNCHANGED <<made, owned>>
    /\ UNCHANGED <<indexVars, fetchVars, part, final, alien, runs, current, pending, doomed>>

File == Files[current]

Moves(from, to) ==
    /\ phase = from
    /\ phase' = to
    /\ UNCHANGED <<indexVars, fetchVars, made, alien, runs, owned, current, pending, doomed>>

OpenDownload ==
    /\ Moves("opening", "receiving")
    /\ File \notin DOMAIN final
    /\ part' = "cut"
    /\ UNCHANGED final

Receive ==
    /\ Moves("receiving", "checking")
    /\ part' \in {"right", "wrong"}
    /\ UNCHANGED final

CheckDigestSkipped ==    \* mutant: the digest is not compared
    /\ Moves("checking", "linking")
    /\ UNCHANGED <<part, final>>
CheckDigest ==
    /\ part = "right"
    /\ Moves("checking", "linking")
    /\ UNCHANGED <<part, final>>

InPlace(bytes) ==
    [f \in DOMAIN final \cup {File} |-> IF f = File THEN bytes ELSE final[f]]

LinkUnlessPresent ==    \* mutant: a file that is already there is accepted
    /\ Moves("linking", "unlinking")
    /\ final' = IF File \in DOMAIN final THEN final ELSE InPlace(part)
    /\ UNCHANGED part
\* os.link does not replace a file that is already there.
Link ==
    /\ Moves("linking", "unlinking")
    /\ File \notin DOMAIN final
    /\ final' = InPlace(part)
    /\ UNCHANGED part

\* The temporary file goes and the next artifact's turn comes.
Unlink ==
    /\ phase = "unlinking"
    /\ part' = "none"
    /\ current' = current + 1
    /\ phase' = IF current = Len(Files) THEN "delivered" ELSE "opening"
    /\ UNCHANGED <<indexVars, fetchVars, final, made, alien, runs, owned, pending, doomed>>

\* Any of these calls may fail; the finally clause runs before anyone sees it.
\* The download of a file whose name is taken, and bytes with another digest,
\* always fail.
StepFails(kind) ==
    /\ phase \in Downloading \ {"finally"}
    /\ phase' = "finally"
    /\ pending' = kind
    /\ UNCHANGED <<indexVars, fetchVars, diskVars, runs, owned, current, doomed>>

Entries == DOMAIN final \cup (IF alien THEN {Directory} ELSE {})

\* The finally clause removes the temporary file. Only an IndexReleaseError
\* reaches the cleanup, which lists the directory (never a temporary file: the
\* finally clause has removed it, or its own failure has gone past the cleanup).
Finally ==
    /\ phase = "finally"
    /\ part' = "none"
    /\ IF pending = "reported"
       THEN phase' = "cleaning" /\ doomed' = Entries
       ELSE phase' = "escaped" /\ UNCHANGED doomed
    /\ UNCHANGED <<indexVars, fetchVars, final, made, alien, runs, owned, current, pending>>

FinallyFails ==
    /\ phase = "finally" /\ part # "none"
    /\ phase' = "escaped" /\ pending' = "raw"
    /\ UNCHANGED <<indexVars, fetchVars, diskVars, runs, owned, current, doomed>>

------------------------------------------------------------------------------
(* Cleaning up                                                              *)

CleanFile(f) ==
    /\ phase = "cleaning" /\ f \in doomed \cap FileSet
    /\ final' = [g \in DOMAIN final \ {f} |-> final[g]]
    /\ doomed' = doomed \ {f}
    /\ UNCHANGED <<indexVars, fetchVars, part, made, alien, runs, phase, owned, current, pending>>

CleanDirectory ==
    /\ Directory \in doomed
    /\ Moves("cleaning", "obstructed")
    /\ UNCHANGED <<part, final>>

RemoveDestinationForgotten ==    \* mutant: the directory is emptied and stays
    /\ phase = "cleaning" /\ doomed = {} /\ Entries = {}
    /\ phase' = "failed"
    /\ UNCHANGED <<indexVars, fetchVars, diskVars, runs, owned, current, pending, doomed>>
RemoveDestination ==
    /\ phase = "cleaning" /\ doomed = {} /\ Entries = {}
    /\ phase' = "failed" /\ made' = FALSE
    /\ UNCHANGED <<indexVars, fetchVars, part, final, alien, runs, owned, current, pending, doomed>>

\* An unlink or rmdir that fails leaves through the except clause.
CleaningFails ==
    /\ Moves("cleaning", "escaped")
    /\ UNCHANGED <<part, final>>

------------------------------------------------------------------------------
(* What others do to the process and its directory                          *)

Killed ==
    /\ phase \notin Ended
    /\ phase' = "killed"
    /\ UNCHANGED <<indexVars, fetchVars, diskVars, runs, owned, current, pending, doomed>>

\* Another program puts a directory, or a file under an artifact's name, there.
Intrude ==
    /\ made /\ ~alien /\ "foreign" \notin Range(final)
    /\ \/ alien' = TRUE /\ UNCHANGED final
       \/ \E f \in FileSet \ DOMAIN final :
            /\ final' = [g \in DOMAIN final \cup {f} |-> IF g = f THEN "foreign" ELSE final[g]]
            /\ UNCHANGED alien
    /\ UNCHANGED <<indexVars, fetchVars, part, made, runs, phase, owned, current, pending, doomed>>

VerifierStep ==
    \/ FetchAnswered \/ FetchFails \/ FetchEscapes \/ RequireAbsent \/ VerifyFiles
    \/ PrepareDestination \/ OpenDownload \/ Receive \/ CheckDigest \/ Link \/ Unlink
    \/ \E kind \in {"reported", "raw"} : StepFails(kind)
    \/ Finally \/ FinallyFails
    \/ \E f \in FileSet : CleanFile(f)
    \/ CleanDirectory \/ RemoveDestination \/ CleaningFails

AllEnded == phase \in Ended /\ UNCHANGED vars

ReleaseNext ==
    \/ VerifierStep
    \/ \E p \in ProjectSet : IndexMoves(p)
    \/ Intrude \/ Killed \/ Restart \/ AllEnded

\* Calls return: sockets have timeouts, the sleep between attempts ends. Nothing
\* is assumed of the index, of other programs or of whoever starts the tool.
ReleaseSpec == ReleaseInit /\ [][ReleaseNext]_vars /\ WF_vars(VerifierStep)

------------------------------------------------------------------------------
(* Properties                                                               *)

\* No artifact is ever in place, not even after a kill at the worst moment, whose
\* bytes were not checked against the manifest (_stream_verified_download).
OnlyVerifiedFiles == \A f \in DOMAIN final : final[f] # "wrong"

\* A process that returns from download_verified_artifacts has delivered every
\* artifact of the manifest and left no temporary file.
DeliveredComplete ==
    phase = "delivered" =>
        /\ DOMAIN final = FileSet
        /\ \A f \in FileSet : final[f] = "right"
        /\ part = "none"

\* A download that fails with the tool's own error has taken its directory away,
\* with everything in it (the except clause of download_verified_artifacts). The
\* removal itself may not come to its end: at a directory that another program put
\* there (CleanDirectory, which reports too) or an unlink that fails (CleaningFails).
ReportedFailureLeavesNothing ==
    phase = "failed" /\ owned => ~made /\ DOMAIN final = {} /\ part = "none"

\* A download delivers everything or, if it fails with the tool's own error and its
\* directory can be removed, nothing.
AllOrNothing == DeliveredComplete /\ ReportedFailureLeavesNothing

\* Files are downloaded only if every project showed exactly the approved files
\* at some moment of the attempt that succeeded: no page of an earlier attempt
\* and no page that changed before the attempt counts (wait_for_verified_release).
VerifiedWhileExact ==
    mode = "verify" /\ phase \in Downloading \cup {"preparing", "delivered"} =>
        \A p \in ProjectSet : "exact" \in witnessed[p]

\* The absence check passes only if every project was absent at some moment of
\* the run; an index that cannot be asked is not absent (require_release_absent).
AbsentWhenSaidAbsent ==
    phase = "absent" => \A p \in ProjectSet : "absent" \in witnessed[p]

\* Whatever the tool concludes about the index, release or absence, the index
\* has shown of every project during the deciding attempt.
VerdictsWitnessed == VerifiedWhileExact /\ AbsentWhenSaidAbsent

\* What is in place is never replaced: it stays or it is removed.
NothingReplaced ==
    [][\A f \in DOMAIN final \cap DOMAIN final' : final'[f] = final[f]]_vars

\* Whatever the index does, every run comes to an end.
RunEnds == []<>(phase \in Ended)

\* "On any failure every created artifact and temporary file is removed, so a
\* later verification starts from a clean path" (the docstring of
\* download_verified_artifacts), read as: of any exception, not of a kill.
CleanPathAfterFailure ==
    phase \in {"failed", "escaped"} /\ owned =>
        ~made /\ part = "none" /\ \A f \in DOMAIN final : final[f] = "foreign"

------------------------------------------------------------------------------
(* The directory as its readers see it                                      *)

PublishedFiles == {f \in DOMAIN final : final[f] # "foreign"}

DirectoryState ==
    IF ~made THEN "none"
    ELSE IF owned /\ phase \in Downloading THEN "open"
    ELSE IF owned /\ phase = "cleaning" THEN "withdrawing"
    ELSE "settled"

Promise == INSTANCE ReleasePublication
    WITH Artifacts <- FileSet, published <- PublishedFiles, state <- DirectoryState

\* Runs, restarts and kills together keep the promise of ReleasePublication.
PromiseKept == Promise!PubSpec
================================================================================
