----------------------------- MODULE ReleaseProofs -----------------------------
(***************************************************************************)
(* Proofs about releases.  Of the release verifier, for every list of      *)
(* projects and of artifacts, every number of attempts, runs and changes   *)
(* of the index; then of the publication workflow that runs it, for every  *)
(* number of names, pushes, builds, jobs run again and things done to the  *)
(* indexes by others.  Neither specification uses the variables of the     *)
(* other.                                                                  *)
(***************************************************************************)
EXTENDS ReleaseVerification, ReleaseWorkflow, TLAPS

-----------------------------------------------------------------------------
(* The release verifier.                                                   *)

\* What holds between the calls of a download: whose directory it is, how far it
\* has come, and what the artifacts before the current one are.
DownloadInv ==
    /\ phase \in Downloading \cup {"cleaning"} => owned /\ made
    /\ phase \in {"fetching", "preparing"} => ~owned /\ current = 1
    /\ ~made => DOMAIN final = {}
    /\ phase \in Downloading => current <= Len(Files)
    /\ phase = "cleaning" => part = "none"
    /\ ReportedFailureLeavesNothing
    /\ phase = "linking" => part = "right"
    /\ phase = "unlinking" => File \in DOMAIN final /\ final[File] = "right"
    /\ phase \in Downloading \ {"finally"} =>
         \A i \in 1 .. current - 1 : Files[i] \in DOMAIN final /\ final[Files[i]] = "right"

ReleaseInv == ReleaseTypeOK /\ DownloadInv /\ OnlyVerifiedFiles /\ DeliveredComplete

\* A failed attempt leaves the variables it changes in their types.
LEMMA AttemptFailsTypes ==
    ASSUME ReleaseTypeOK, AttemptFails, phase = "fetching"
    PROVE  /\ mode' \in {"absence", "verify"}
           /\ attempt' \in 0 .. Attempts - 1
           /\ listing' \in Seq(IndexStates) /\ Len(listing') <= Len(Projects)
           /\ witnessed' \in [ProjectSet -> SUBSET IndexStates]
           /\ phase' \in {"fetching", "failed"}
<1>1. Len(Projects) \in Nat /\ <<>> \in Seq(IndexStates) /\ Len(<<>>) = 0
  BY ReleaseAssumption
<1>2. \A p \in ProjectSet : {index[p]} \in SUBSET IndexStates
  BY DEF ReleaseTypeOK
<1>3. attempt \in 0 .. Attempts - 1 /\ Attempts \in Nat
  BY ReleaseAssumption DEF ReleaseTypeOK
<1>4. CASE mode = "verify" /\ attempt + 1 < Attempts
  <2>1. mode' = mode /\ attempt' = attempt + 1 /\ listing' = <<>> /\ phase' = phase
        /\ witnessed' = [p \in ProjectSet |-> {index[p]}]
    BY <1>4 DEF AttemptFails
  <2>2. attempt + 1 \in 0 .. Attempts - 1
    BY <1>3, <1>4
  <2> QED
    BY <1>1, <1>2, <2>1, <2>2 DEF ReleaseTypeOK
<1>5. CASE ~(mode = "verify" /\ attempt + 1 < Attempts)
  BY <1>5 DEF AttemptFails, ReleaseTypeOK
<1> QED
  BY <1>4, <1>5

\* Every step keeps the shape of the state.
LEMMA TypeStep ==
    ASSUME ReleaseTypeOK, DownloadInv, [ReleaseNext]_vars
    PROVE  ReleaseTypeOK'
<1> USE ReleaseAssumption DEF ReleaseTypeOK, Downloading, Ended
<1>1. CASE FetchAnswered
  <2>1. Len(listing) \in Nat /\ Len(listing) < Len(Projects) /\ Len(Projects) \in Nat
    BY <1>1 DEF FetchAnswered, Fetching
  <2>2. Asked \in ProjectSet
    BY <2>1 DEF Asked, ProjectSet, Range
  <2>3. index[Asked] \in IndexStates
    BY <2>2 DEF ReleaseTypeOK
  <2>4. listing' \in Seq(IndexStates) /\ Len(listing') <= Len(Projects)
    BY <1>1, <2>1, <2>3 DEF FetchAnswered
  <2> QED
    BY <1>1, <2>4 DEF FetchAnswered, Kept, diskVars
<1>2. CASE FetchFails
  BY <1>2, AttemptFailsTypes DEF FetchFails, Kept, Fetching, diskVars
<1>3. CASE FetchEscapes
  BY <1>3 DEF FetchEscapes, Kept, Fetching, fetchVars, diskVars
<1>4. CASE RequireAbsent
  BY <1>4 DEF RequireAbsent, Kept, Listed, fetchVars, diskVars
<1>5. CASE VerifyFiles
  <2>1. CASE AllExact
    BY <1>5, <2>1 DEF VerifyFiles, Kept, fetchVars, diskVars
  <2>2. CASE ~AllExact
    BY <1>5, <2>2, AttemptFailsTypes
    DEF VerifyFiles, Kept, Listed, diskVars
  <2> QED
    BY <2>1, <2>2
<1>6. CASE PrepareDestination
  BY <1>6 DEF PrepareDestination, indexVars, fetchVars
<1>7. CASE OpenDownload
  BY <1>7 DEF OpenDownload, Moves, indexVars, fetchVars
<1>8. CASE Receive
  BY <1>8 DEF Receive, Moves, indexVars, fetchVars
<1>9. CASE CheckDigest
  BY <1>9 DEF CheckDigest, Moves, indexVars, fetchVars
<1>10. CASE Link
  <2>1. current \in 1 .. Len(Files) /\ part = "right"
    BY <1>10 DEF DownloadInv, Link, Moves, Downloading
  <2>2. File \in FileSet
    BY <2>1 DEF File, FileSet, Range
  <2>3. DOMAIN final' = DOMAIN final \cup {File}
        /\ \A f \in DOMAIN final' : final'[f] = IF f = File THEN part ELSE final[f]
    BY <1>10 DEF Link, InPlace
  <2>4. DOMAIN final' \subseteq FileSet
        /\ \A f \in DOMAIN final' : final'[f] \in {"right", "wrong", "foreign"}
    BY <2>1, <2>2, <2>3 DEF ReleaseTypeOK
  <2> QED
    BY <1>10, <2>4 DEF Link, Moves, indexVars, fetchVars, Downloading, Ended
<1>11. CASE Unlink
  BY <1>11 DEF DownloadInv, Unlink, indexVars, fetchVars
<1>12. CASE Finally
  BY <1>12 DEF Finally, Entries, indexVars, fetchVars
<1>13. CASE FinallyFails
  BY <1>13 DEF FinallyFails, indexVars, fetchVars, diskVars
<1>14. CASE CleanDirectory
  BY <1>14 DEF CleanDirectory, Moves, indexVars, fetchVars
<1>15. CASE RemoveDestination
  BY <1>15 DEF RemoveDestination, indexVars, fetchVars
<1>16. CASE CleaningFails
  BY <1>16 DEF CleaningFails, Moves, indexVars, fetchVars
<1>17. CASE Intrude
  BY <1>17, ZenonT(60) DEF Intrude, indexVars, fetchVars
<1>18. CASE Killed
  BY <1>18 DEF Killed, indexVars, fetchVars, diskVars
<1>19. CASE Restart
  <2>1. \A p \in ProjectSet : {index[p]} \in SUBSET IndexStates
    BY DEF ReleaseTypeOK
  <2>2. <<>> \in Seq(IndexStates) /\ Len(<<>>) = 0 /\ Len(Projects) \in Nat
    OBVIOUS
  <2>3. 1 \in 1 .. Len(Files) + 1 /\ 0 \in 0 .. Attempts - 1
    OBVIOUS
  <2>4. witnessed' \in [ProjectSet -> SUBSET IndexStates]
    BY <1>19, <2>1 DEF Restart
  <2> QED
    <3>1. mode' \in {"absence", "verify"} /\ phase' = "fetching" /\ owned' = FALSE
          /\ pending' = "none" /\ doomed' = {} /\ runs' = runs + 1 /\ current' = 1
          /\ attempt' = 0 /\ listing' = <<>>
      BY <1>19 DEF Restart
    <3>2. UNCHANGED <<index, changes, part, final, made, alien>>
      BY <1>19 DEF Restart, diskVars
    <3>3. /\ mode' \in {"absence", "verify"} /\ owned' \in BOOLEAN
          /\ pending' \in {"none", "reported", "raw"} /\ doomed' \subseteq FileSet \cup {Directory}
      BY <3>1, Zenon
    <3>4. runs' \in Nat
      BY <3>1 DEF ReleaseTypeOK
    <3>5. /\ attempt' \in 0 .. Attempts - 1 /\ current' \in 1 .. Len(Files) + 1
          /\ listing' \in Seq(IndexStates) /\ Len(listing') <= Len(Projects)
      BY <2>2, <2>3, <3>1
    <3>6. /\ index' \in [ProjectSet -> IndexStates] /\ changes' \in 0 .. MaxChanges
          /\ made' \in BOOLEAN /\ alien' \in BOOLEAN
          /\ part' \in {"none", "cut", "right", "wrong"}
          /\ DOMAIN final' \subseteq FileSet
          /\ \A f \in DOMAIN final' : final'[f] \in {"right", "wrong", "foreign"}
      BY <3>2 DEF ReleaseTypeOK
    <3> QED
      BY <2>4, <3>1, <3>3, <3>5, <3>6, <3>4 DEF ReleaseTypeOK
<1>20. CASE AllEnded
  BY <1>20 DEF AllEnded, vars, indexVars, fetchVars, diskVars
<1>21. CASE \E kind \in {"reported", "raw"} : StepFails(kind)
  BY <1>21 DEF StepFails, indexVars, fetchVars, diskVars
<1>22. CASE \E f \in FileSet : CleanFile(f)
  BY <1>22 DEF CleanFile, indexVars, fetchVars
<1>23. CASE \E p \in ProjectSet : IndexMoves(p)
  BY <1>23 DEF IndexMoves, fetchVars, diskVars
<1>24. CASE UNCHANGED vars
  BY <1>24 DEF vars, indexVars, fetchVars, diskVars
<1> QED
  BY <1>1, <1>2, <1>3, <1>4, <1>5, <1>6, <1>7, <1>8, <1>9, <1>10, <1>11,
     <1>12, <1>13, <1>14, <1>15, <1>16, <1>17, <1>18, <1>19, <1>20, <1>21, <1>22, <1>23, <1>24
  DEF ReleaseNext, VerifierStep

\* Every step keeps the progress of the download.
LEMMA DownloadStep ==
    ASSUME ReleaseTypeOK, DownloadInv, [ReleaseNext]_vars
    PROVE  DownloadInv'
<1> USE ReleaseAssumption
    DEF DownloadInv, ReportedFailureLeavesNothing, ReleaseTypeOK, Downloading
<1>1. CASE FetchAnswered
  BY <1>1 DEF File, FetchAnswered, Kept, Fetching, Asked, fetchVars, diskVars, indexVars
<1>2. CASE FetchFails
  BY <1>2 DEF File, FetchFails, Kept, Fetching, AttemptFails, diskVars
<1>3. CASE FetchEscapes
  BY <1>3 DEF File, FetchEscapes, Kept, Fetching, fetchVars, diskVars
<1>4. CASE RequireAbsent
  BY <1>4 DEF RequireAbsent, Kept, Listed, fetchVars, diskVars
<1>5. CASE VerifyFiles
  BY <1>5 DEF VerifyFiles, Kept, Listed, AttemptFails, fetchVars, diskVars
<1>6. CASE PrepareDestination
  BY <1>6 DEF PrepareDestination, indexVars, fetchVars
<1>7. CASE OpenDownload
  BY <1>7 DEF File, OpenDownload, Moves, indexVars, fetchVars
<1>8. CASE Receive
  BY <1>8 DEF File, Receive, Moves, indexVars, fetchVars
<1>9. CASE CheckDigest
  BY <1>9 DEF File, CheckDigest, Moves, indexVars, fetchVars
<1>10. CASE Link
  BY <1>10 DEF File, Link, Moves, InPlace, indexVars, fetchVars
<1>11. CASE Unlink
  BY <1>11 DEF File, Unlink, indexVars, fetchVars
<1>12. CASE Finally
  BY <1>12 DEF File, Finally, Entries, indexVars, fetchVars
<1>13. CASE FinallyFails
  BY <1>13 DEF File, FinallyFails, indexVars, fetchVars, diskVars
<1>14. CASE CleanDirectory
  BY <1>14 DEF CleanDirectory, Moves, indexVars, fetchVars
<1>15. CASE RemoveDestination
  BY <1>15 DEF RemoveDestination, Entries, indexVars, fetchVars
<1>16. CASE CleaningFails
  BY <1>16 DEF CleaningFails, Moves, indexVars, fetchVars
<1>17. CASE Intrude
  <2>1. DOMAIN final \subseteq DOMAIN final' /\ \A f \in DOMAIN final : final'[f] = final[f]
    BY <1>17 DEF Intrude
  <2>2. made /\ UNCHANGED <<part, made, phase, owned, current>>
    BY <1>17 DEF Intrude
  <2>3. File' = File
    BY <2>2 DEF File
  <2>4. ReportedFailureLeavesNothing'
    BY <2>2
  <2> QED
    BY <2>1, <2>2, <2>3, <2>4
<1>18. CASE Killed
  BY <1>18 DEF Ended, Killed, indexVars, fetchVars, diskVars
<1>19. CASE Restart
  BY <1>19 DEF Ended, Restart, diskVars
<1>20. CASE AllEnded
  BY <1>20 DEF Ended, AllEnded, vars, indexVars, fetchVars, diskVars
<1>21. CASE \E kind \in {"reported", "raw"} : StepFails(kind)
  BY <1>21 DEF File, StepFails, indexVars, fetchVars, diskVars
<1>22. CASE \E f \in FileSet : CleanFile(f)
  BY <1>22 DEF CleanFile, indexVars, fetchVars
<1>23. CASE \E p \in ProjectSet : IndexMoves(p)
  BY <1>23 DEF File, IndexMoves, fetchVars, diskVars
<1>24. CASE UNCHANGED vars
  BY <1>24 DEF File, vars, indexVars, fetchVars, diskVars
<1> QED
  BY <1>1, <1>2, <1>3, <1>4, <1>5, <1>6, <1>7, <1>8, <1>9, <1>10, <1>11,
     <1>12, <1>13, <1>14, <1>15, <1>16, <1>17, <1>18, <1>19, <1>20, <1>21, <1>22, <1>23, <1>24
  DEF ReleaseNext, VerifierStep

\* Nothing wrong is linked, and the last artifact completes the directory.
LEMMA ContentStep ==
    ASSUME ReleaseInv, [ReleaseNext]_vars
    PROVE  OnlyVerifiedFiles' /\ DeliveredComplete'
<1> USE DEF ReleaseInv
<1>1. CASE Link
  <2>1. part = "right"
    BY <1>1 DEF DownloadInv, Link, Moves
  <2>2. DOMAIN final' = DOMAIN final \cup {File}
        /\ \A f \in DOMAIN final' : final'[f] = IF f = File THEN part ELSE final[f]
    BY <1>1 DEF Link, InPlace
  <2> QED
    BY <1>1, <2>1, <2>2 DEF OnlyVerifiedFiles, DeliveredComplete, Link, Moves
<1>2. CASE Unlink
  <2>1. OnlyVerifiedFiles'
    BY <1>2 DEF Unlink, OnlyVerifiedFiles
  <2>2. CASE current = Len(Files)
    <3>1. \A i \in 1 .. Len(Files) : Files[i] \in DOMAIN final /\ final[Files[i]] = "right"
      BY <1>2, <2>2, ReleaseAssumption
      DEF Unlink, DownloadInv, Downloading, File, ReleaseTypeOK
    <3>2. FileSet = {Files[i] : i \in 1 .. Len(Files)}
      BY ReleaseAssumption DEF FileSet, Range
    <3>3. \A f \in FileSet : f \in DOMAIN final /\ final[f] = "right"
      BY <3>1, <3>2
    <3>4. DOMAIN final = FileSet
      BY <3>3 DEF ReleaseTypeOK
    <3> QED
      BY <1>2, <2>1, <3>3, <3>4 DEF Unlink, DeliveredComplete
  <2>3. CASE current # Len(Files)
    BY <1>2, <2>1, <2>3 DEF Unlink, DeliveredComplete
  <2> QED
    BY <2>2, <2>3
<1>3. CASE Intrude
  BY <1>3 DEF Intrude, OnlyVerifiedFiles, DeliveredComplete
<1>4. CASE \E f \in FileSet : CleanFile(f)
  BY <1>4 DEF CleanFile, OnlyVerifiedFiles, DeliveredComplete
<1>5. CASE FetchAnswered \/ FetchFails \/ FetchEscapes \/ RequireAbsent \/ VerifyFiles
  BY <1>5 DEF FetchAnswered, FetchFails, FetchEscapes, RequireAbsent, VerifyFiles, Kept,
     Fetching, Listed, AttemptFails, diskVars, OnlyVerifiedFiles, DeliveredComplete
<1>6. CASE PrepareDestination \/ OpenDownload \/ Receive \/ CheckDigest
  BY <1>6 DEF PrepareDestination, OpenDownload, Receive, CheckDigest, Moves,
     OnlyVerifiedFiles, DeliveredComplete
<1>7. CASE (\E kind \in {"reported", "raw"} : StepFails(kind)) \/ Finally \/ FinallyFails
  BY <1>7 DEF StepFails, Finally, FinallyFails, diskVars, OnlyVerifiedFiles, DeliveredComplete
<1>8. CASE CleanDirectory \/ RemoveDestination \/ CleaningFails
  BY <1>8 DEF CleanDirectory, RemoveDestination, CleaningFails, Moves,
     OnlyVerifiedFiles, DeliveredComplete
<1>9. CASE Killed \/ Restart \/ AllEnded \/ UNCHANGED vars \/ \E p \in ProjectSet : IndexMoves(p)
  BY <1>9 DEF Killed, Restart, AllEnded, IndexMoves, vars, diskVars, Ended,
     OnlyVerifiedFiles, DeliveredComplete
<1> QED
  BY <1>1, <1>2, <1>3, <1>4, <1>5, <1>6, <1>7, <1>8, <1>9 DEF ReleaseNext, VerifierStep

\* The inductive invariant holds of every run, restarts and kills included.
THEOREM ReleaseInvariant == ReleaseSpec => []ReleaseInv
<1>1. ReleaseInit => ReleaseInv
  <2> SUFFICES ASSUME ReleaseInit PROVE ReleaseInv
    OBVIOUS
  <2>1. DOMAIN final = {}
    BY DEF ReleaseInit
  <2>2. /\ <<>> \in Seq(IndexStates) /\ Len(<<>>) = 0 /\ Len(Projects) \in Nat
        /\ 1 \in 1 .. Len(Files) + 1 /\ 0 \in 0 .. Attempts - 1 /\ 0 \in 0 .. MaxChanges
    BY ReleaseAssumption
  <2>3. witnessed \in [ProjectSet -> SUBSET IndexStates]
    BY DEF ReleaseInit
  <2>4. ReleaseTypeOK
    <3>1. /\ owned \in BOOLEAN /\ made \in BOOLEAN /\ alien \in BOOLEAN
          /\ part \in {"none", "cut", "right", "wrong"}
          /\ pending \in {"none", "reported", "raw"}
          /\ doomed \subseteq FileSet \cup {Directory}
      BY Zenon DEF ReleaseInit
    <3>2. /\ index \in [ProjectSet -> IndexStates] /\ mode \in {"absence", "verify"}
          /\ phase = "fetching" /\ runs \in Nat /\ changes \in 0 .. MaxChanges
          /\ attempt \in 0 .. Attempts - 1 /\ current \in 1 .. Len(Files) + 1
          /\ listing \in Seq(IndexStates) /\ Len(listing) <= Len(Projects)
      BY <2>2 DEF ReleaseInit
    <3> QED
      BY <2>1, <2>3, <3>1, <3>2 DEF ReleaseTypeOK
  <2>5. DownloadInv
    BY <2>1 DEF ReleaseInit, DownloadInv, ReportedFailureLeavesNothing, Downloading
  <2>6. OnlyVerifiedFiles /\ DeliveredComplete
    BY <2>1 DEF ReleaseInit, OnlyVerifiedFiles, DeliveredComplete
  <2> QED
    BY <2>4, <2>5, <2>6 DEF ReleaseInv
<1>2. ReleaseInv /\ [ReleaseNext]_vars => ReleaseInv'
  BY TypeStep, DownloadStep, ContentStep DEF ReleaseInv
<1> QED
  BY <1>1, <1>2, PTL DEF ReleaseSpec

\* The verifier's state keeps its shape.
THEOREM ReleaseTypeCorrect == ReleaseSpec => []ReleaseTypeOK
<1>1. ReleaseInv => ReleaseTypeOK
  BY DEF ReleaseInv
<1> QED
  BY <1>1, ReleaseInvariant, PTL

\* Bytes that were not checked against the manifest are never in place.
THEOREM OnlyVerifiedFilesInPlace == ReleaseSpec => []OnlyVerifiedFiles
<1>1. ReleaseInv => OnlyVerifiedFiles
  BY DEF ReleaseInv
<1> QED
  BY <1>1, ReleaseInvariant, PTL

\* A verification that returns has delivered every artifact of the manifest.
THEOREM DeliveryIsComplete == ReleaseSpec => []DeliveredComplete
<1>1. ReleaseInv => DeliveredComplete
  BY DEF ReleaseInv
<1> QED
  BY <1>1, ReleaseInvariant, PTL

\* A failure the tool reports itself leaves no directory behind.
THEOREM ReportedFailureIsClean == ReleaseSpec => []ReportedFailureLeavesNothing
<1>1. ReleaseInv => ReportedFailureLeavesNothing
  BY DEF ReleaseInv, DownloadInv
<1> QED
  BY <1>1, ReleaseInvariant, PTL

\* A download is complete or, when its failure is reported and its removal is not
\* stopped, there is nothing left of it.
THEOREM DownloadIsAllOrNothing == ReleaseSpec => []AllOrNothing
<1>1. DeliveredComplete /\ ReportedFailureLeavesNothing <=> AllOrNothing
  BY DEF AllOrNothing
<1> QED
  BY <1>1, DeliveryIsComplete, ReportedFailureIsClean, PTL

\* What is in place is never replaced: os.link refuses, and everything else only
\* removes or adds.
THEOREM InPlaceIsKept == ReleaseSpec => NothingReplaced
<1>1. [ReleaseNext]_vars =>
          [\A f \in DOMAIN final \cap DOMAIN final' : final'[f] = final[f]]_vars
  <2> SUFFICES ASSUME ReleaseNext
               PROVE  \A f \in DOMAIN final \cap DOMAIN final' : final'[f] = final[f]
    BY DEF vars
  <2>1. CASE UNCHANGED final
    BY <2>1
  <2>2. CASE Link
    BY <2>2 DEF Link, Moves, InPlace
  <2>3. CASE Intrude
    BY <2>3 DEF Intrude
  <2>4. CASE \E f \in FileSet : CleanFile(f)
    BY <2>4 DEF CleanFile
  <2>5. ReleaseNext => UNCHANGED final \/ Link \/ Intrude \/ \E f \in FileSet : CleanFile(f)
    BY DEF ReleaseNext, VerifierStep, FetchAnswered, FetchFails, FetchEscapes, RequireAbsent,
       VerifyFiles, Kept, diskVars, PrepareDestination, OpenDownload, Receive, CheckDigest,
       Moves, Unlink, StepFails, Finally, FinallyFails, CleanDirectory, RemoveDestination,
       CleaningFails, Killed, Restart, AllEnded, IndexMoves, vars
  <2> QED
    BY <2>1, <2>2, <2>3, <2>4, <2>5
<1> QED
  BY <1>1, PTL DEF ReleaseSpec, NothingReplaced

\* A directory this run does not own is none of its business: it is not there or
\* it is settled.
LEMMA NotOwned ==
    ASSUME ~owned, made \in BOOLEAN
    PROVE  DirectoryState = IF made THEN "settled" ELSE "none"
BY DEF DirectoryState

\* Every step of the verifier is a step of ReleasePublication or leaves the
\* directory alone.
LEMMA PromiseStep ==
    ASSUME ReleaseInv, ReleaseInv', [ReleaseNext]_vars
    PROVE  [Promise!PubNext]_(Promise!pubVars)
<1> USE DEF ReleaseInv, Promise!PubNext, Promise!pubVars
<1>0. made \in BOOLEAN /\ made' \in BOOLEAN
  BY DEF ReleaseTypeOK
<1>1. CASE FetchAnswered \/ FetchFails \/ FetchEscapes \/ RequireAbsent \/ VerifyFiles
  <2>1. phase = "fetching" /\ UNCHANGED <<final, made, owned>>
    BY <1>1 DEF FetchAnswered, FetchFails, FetchEscapes, RequireAbsent, VerifyFiles, Kept,
       Fetching, Listed, diskVars
  <2>2. ~owned /\ ~owned'
    BY <2>1 DEF DownloadInv
  <2> QED
    BY <1>0, <2>1, <2>2 DEF DirectoryState, PublishedFiles
<1>2. CASE PrepareDestination
  <2>1. phase = "preparing" /\ ~owned /\ UNCHANGED final
    BY <1>2 DEF PrepareDestination, DownloadInv
  <2>2. PublishedFiles' = PublishedFiles
    BY <2>1 DEF PublishedFiles
  <2>3. CASE ~made /\ phase' = "opening" /\ made' = TRUE /\ owned' = TRUE
    BY <1>0, <2>1, <2>2, <2>3 DEF DirectoryState, Downloading, Promise!Open
  <2>4. CASE UNCHANGED <<made, owned>>
    BY <1>0, <2>1, <2>2, <2>4 DEF DirectoryState
  <2> QED
    BY <1>2, <2>3, <2>4 DEF PrepareDestination
<1>3. CASE OpenDownload \/ Receive \/ CheckDigest \/ \E kind \in {"reported", "raw"} : StepFails(kind)
  BY <1>3 DEF OpenDownload, Receive, CheckDigest, Moves, StepFails, diskVars, Downloading,
     DirectoryState, PublishedFiles
<1>4. CASE Link
  <2>1. /\ part = "right" /\ File \notin DOMAIN final /\ owned /\ made
        /\ phase = "linking" /\ phase' = "unlinking" /\ UNCHANGED <<made, owned>>
    BY <1>4 DEF DownloadInv, Link, Moves, Downloading
  <2>2. DOMAIN final' = DOMAIN final \cup {File}
        /\ \A f \in DOMAIN final' : final'[f] = IF f = File THEN part ELSE final[f]
    BY <1>4 DEF Link, InPlace
  <2>3. File \in FileSet
    BY <2>2 DEF ReleaseTypeOK
  <2>4. PublishedFiles' = PublishedFiles \cup {File} /\ File \notin PublishedFiles
    BY <2>1, <2>2 DEF PublishedFiles
  <2>5. DirectoryState = "open" /\ DirectoryState' = "open"
    BY <2>1 DEF DirectoryState, Downloading
  <2> QED
    BY <2>3, <2>4, <2>5 DEF Promise!Publish
<1>5. CASE Unlink
  <2>1. owned /\ made /\ phase = "unlinking" /\ UNCHANGED <<final, made, owned>>
        /\ phase' \in {"delivered", "opening"}
    BY <1>5 DEF Unlink, DownloadInv, Downloading
  <2> QED
    BY <2>1 DEF DirectoryState, PublishedFiles, Downloading, Promise!Settle
<1>6. CASE Finally \/ FinallyFails
  <2>1. owned /\ made /\ phase = "finally" /\ UNCHANGED <<final, made, owned>>
        /\ phase' \in {"cleaning", "escaped"}
    BY <1>6 DEF Finally, FinallyFails, DownloadInv, Downloading, diskVars
  <2> QED
    BY <2>1 DEF DirectoryState, PublishedFiles, Downloading, Promise!Settle, Promise!Withdraw
<1>7. CASE \E f \in FileSet : CleanFile(f)
  <2>1. PICK f \in FileSet : CleanFile(f)
    BY <1>7
  <2>2. owned /\ made /\ phase = "cleaning" /\ UNCHANGED <<phase, made, owned>>
    BY <2>1 DEF CleanFile, DownloadInv
  <2>3. DirectoryState = "withdrawing" /\ DirectoryState' = "withdrawing"
    BY <2>2 DEF DirectoryState, Downloading
  <2>4. PublishedFiles' = PublishedFiles \ {f}
    BY <2>1 DEF CleanFile, PublishedFiles
  <2> QED
    BY <2>3, <2>4 DEF Promise!Remove
<1>8. CASE CleanDirectory \/ CleaningFails
  <2>1. owned /\ made /\ phase = "cleaning" /\ UNCHANGED <<final, made, owned>>
        /\ phase' \in {"obstructed", "escaped"}
    BY <1>8 DEF CleanDirectory, CleaningFails, Moves, DownloadInv
  <2> QED
    BY <2>1 DEF DirectoryState, PublishedFiles, Downloading, Promise!Settle
<1>9. CASE RemoveDestination
  <2>1. owned /\ made /\ phase = "cleaning" /\ ~made' /\ UNCHANGED final /\ DOMAIN final = {}
    BY <1>9 DEF RemoveDestination, Entries, DownloadInv
  <2> QED
    BY <2>1 DEF DirectoryState, PublishedFiles, Downloading, Promise!Close
<1>10. CASE Intrude
  <2>1. UNCHANGED <<made, owned, phase>>
    BY <1>10 DEF Intrude
  <2>2. PublishedFiles' = PublishedFiles
    BY <1>10 DEF Intrude, PublishedFiles
  <2> QED
    BY <2>1, <2>2 DEF DirectoryState
<1>11. CASE Killed
  <2>1. UNCHANGED <<final, made, owned>> /\ phase' = "killed"
    BY <1>11 DEF Killed, diskVars
  <2>2. CASE phase \in Downloading \cup {"cleaning"}
    BY <2>1, <2>2 DEF DownloadInv, DirectoryState, PublishedFiles, Downloading, Promise!Settle
  <2>3. CASE phase \notin Downloading \cup {"cleaning"}
    BY <2>1, <2>3 DEF DirectoryState, PublishedFiles, Downloading
  <2> QED
    BY <2>2, <2>3
<1>12. CASE Restart
  BY <1>12 DEF Restart, Ended, diskVars, DirectoryState, PublishedFiles, Downloading
<1>13. CASE AllEnded \/ UNCHANGED vars \/ \E p \in ProjectSet : IndexMoves(p)
  BY <1>13 DEF AllEnded, IndexMoves, vars, diskVars, DirectoryState, PublishedFiles
<1> QED
  BY <1>1, <1>2, <1>3, <1>4, <1>5, <1>6, <1>7, <1>8, <1>9, <1>10, <1>11, <1>12, <1>13
  DEF ReleaseNext, VerifierStep

\* The download directory keeps the promise of ReleasePublication, whatever
\* fails, is killed or is run again.
THEOREM PublicationRefined == ReleaseSpec => PromiseKept
<1>1. ReleaseInit => Promise!PubInit
  <2> SUFFICES ASSUME ReleaseInit PROVE Promise!PubInit
    OBVIOUS
  <2>1. ~made /\ DOMAIN final = {}
    BY DEF ReleaseInit
  <2> QED
    BY <2>1 DEF Promise!PubInit, PublishedFiles, DirectoryState
<1>2. ReleaseInv /\ ReleaseInv' /\ [ReleaseNext]_vars => [Promise!PubNext]_(Promise!pubVars)
  BY PromiseStep
<1> QED
  BY <1>1, <1>2, ReleaseInvariant, PTL DEF ReleaseSpec, PromiseKept, Promise!PubSpec

\* What was fetched was shown since the attempt began, and so is what the index
\* shows now.
HistoryInv ==
    /\ \A p \in ProjectSet : index[p] \in witnessed[p]
    /\ \A i \in 1 .. Len(listing) : listing[i] \in witnessed[Projects[i]]
    /\ VerifiedWhileExact
    /\ AbsentWhenSaidAbsent

\* A complete listing speaks of every project.
LEMMA ListingIsWitnessed ==
    ASSUME ReleaseTypeOK, HistoryInv, Listed,
           NEW s \in IndexStates, \A i \in DOMAIN listing : listing[i] = s
    PROVE  \A p \in ProjectSet : s \in witnessed[p]
<1>1. ProjectSet = {Projects[i] : i \in 1 .. Len(Projects)}
  BY ReleaseAssumption DEF ProjectSet, Range
<1>2. DOMAIN listing = 1 .. Len(listing) /\ Len(listing) = Len(Projects)
  BY DEF ReleaseTypeOK, Listed
<1> QED
  BY <1>1, <1>2 DEF HistoryInv

LEMMA HistoryStep ==
    ASSUME ReleaseTypeOK, ReleaseTypeOK', HistoryInv, [ReleaseNext]_vars
    PROVE  HistoryInv'
<1>0. /\ listing \in Seq(IndexStates) /\ Len(listing) \in Nat /\ Len(Projects) \in Nat
      /\ index \in [ProjectSet -> IndexStates]
      /\ witnessed \in [ProjectSet -> SUBSET IndexStates]
      /\ \A i \in 1 .. Len(Projects) : Projects[i] \in ProjectSet
      /\ Len(listing) <= Len(Projects)
  <2>1. \A i \in 1 .. Len(Projects) : Projects[i] \in ProjectSet
    BY ReleaseAssumption DEF ProjectSet, Range
  <2>2. /\ listing \in Seq(IndexStates) /\ Len(listing) <= Len(Projects)
        /\ index \in [ProjectSet -> IndexStates]
        /\ witnessed \in [ProjectSet -> SUBSET IndexStates]
    BY Zenon DEF ReleaseTypeOK
  <2>3. Len(listing) \in Nat
    BY <2>2
  <2>4. Len(Projects) \in Nat
    BY ReleaseAssumption
  <2> QED
    BY <2>1, <2>2, <2>3, <2>4, Zenon
<1>1. CASE FetchAnswered
  <2>1. /\ listing' = Append(listing, index[Asked]) /\ UNCHANGED <<index, witnessed>>
        /\ phase = "fetching" /\ phase' = "fetching" /\ Len(listing) < Len(Projects)
    BY <1>1 DEF FetchAnswered, Fetching, Kept
  <2>2. index[Asked] \in witnessed[Asked] /\ Asked \in ProjectSet /\ index[Asked] \in IndexStates
    BY <1>0, <2>1 DEF Asked, HistoryInv
  <2>3. \A i \in 1 .. Len(listing') : listing'[i] \in witnessed'[Projects[i]]
    BY <1>0, <2>1, <2>2 DEF Asked, HistoryInv
  <2> QED
    BY <2>1, <2>3 DEF HistoryInv, VerifiedWhileExact, AbsentWhenSaidAbsent, Downloading
<1>2. CASE AttemptFails /\ phase = "fetching" /\ UNCHANGED index
  <2>1. CASE listing' = <<>> /\ witnessed' = [p \in ProjectSet |-> {index[p]}] /\ phase' = phase
    BY <1>2, <2>1 DEF HistoryInv, VerifiedWhileExact, AbsentWhenSaidAbsent, Downloading
  <2>2. CASE phase' = "failed" /\ UNCHANGED <<listing, witnessed>>
    BY <1>2, <2>2 DEF HistoryInv, VerifiedWhileExact, AbsentWhenSaidAbsent, Downloading
  <2> QED
    BY <1>2, <2>1, <2>2 DEF AttemptFails
<1>3. CASE RequireAbsent
  <2>1. UNCHANGED <<index, witnessed, listing, mode>> /\ Listed
        /\ phase' = IF AllAbsent THEN "absent" ELSE "failed"
    BY <1>3 DEF RequireAbsent, Kept, fetchVars
  <2>2. AllAbsent => \A p \in ProjectSet : "absent" \in witnessed[p]
    BY <2>1, ListingIsWitnessed DEF AllAbsent, IndexStates
  <2> QED
    BY <2>1, <2>2 DEF HistoryInv, VerifiedWhileExact, AbsentWhenSaidAbsent, Downloading
<1>4. CASE VerifyFiles /\ AllExact
  <2>1. UNCHANGED <<index, witnessed, listing, mode>> /\ Listed /\ phase' = "preparing"
    BY <1>4 DEF VerifyFiles, Kept, fetchVars
  <2>2. \A p \in ProjectSet : "exact" \in witnessed[p]
    BY <1>4, <2>1, ListingIsWitnessed DEF AllExact, IndexStates
  <2> QED
    BY <2>1, <2>2 DEF HistoryInv, VerifiedWhileExact, AbsentWhenSaidAbsent, Downloading
<1>5. CASE \E p \in ProjectSet : IndexMoves(p)
  <2>1. PICK p \in ProjectSet, s \in IndexStates :
            /\ index' = [index EXCEPT ![p] = s]
            /\ witnessed' = [witnessed EXCEPT ![p] = @ \cup {s}]
            /\ UNCHANGED <<listing, mode, phase>>
    BY <1>5 DEF IndexMoves, fetchVars
  <2>2. \A q \in ProjectSet : witnessed[q] \subseteq witnessed'[q] /\ index'[q] \in witnessed'[q]
    BY <1>0, <2>1 DEF HistoryInv
  <2> QED
    BY <1>0, <2>1, <2>2 DEF HistoryInv, VerifiedWhileExact, AbsentWhenSaidAbsent
<1>6. CASE Restart
  BY <1>6 DEF Restart, HistoryInv, VerifiedWhileExact, AbsentWhenSaidAbsent, Downloading
<1>7. CASE /\ UNCHANGED <<index, witnessed, listing, mode>>
           /\ phase' \in Downloading \cup {"preparing", "delivered"} =>
                 phase \in Downloading \cup {"preparing", "delivered"}
           /\ phase' = "absent" => phase = "absent"
  BY <1>7 DEF HistoryInv, VerifiedWhileExact, AbsentWhenSaidAbsent
<1>8. CASE FetchFails
  BY <1>2, <1>8 DEF FetchFails, Fetching, Kept
<1>9. CASE VerifyFiles /\ ~AllExact
  BY <1>2, <1>9 DEF VerifyFiles, Listed, Kept
<1>10. CASE FetchEscapes \/ PrepareDestination \/ Killed \/ Intrude \/ AllEnded \/ UNCHANGED vars
  BY <1>7, <1>10 DEF FetchEscapes, PrepareDestination, Killed, Intrude, AllEnded, Kept, vars,
     indexVars, fetchVars, Downloading
<1>11. CASE OpenDownload \/ Receive \/ CheckDigest \/ Link \/ Unlink \/ CleanDirectory \/ CleaningFails
  BY <1>7, <1>11 DEF OpenDownload, Receive, CheckDigest, Link, Unlink, CleanDirectory,
     CleaningFails, Moves, indexVars, fetchVars, Downloading
<1>12. CASE \/ \E kind \in {"reported", "raw"} : StepFails(kind)
            \/ Finally \/ FinallyFails \/ RemoveDestination
            \/ \E f \in FileSet : CleanFile(f)
  BY <1>7, <1>12 DEF StepFails, Finally, FinallyFails, RemoveDestination, CleanFile,
     indexVars, fetchVars, Downloading
<1> QED
  BY <1>1, <1>3, <1>4, <1>5, <1>6, <1>8, <1>9, <1>10, <1>11, <1>12 DEF ReleaseNext, VerifierStep

\* What the tool accepts, it has seen: in the attempt that succeeded every project
\* was exact at some moment, and an absence that was reported was there.
THEOREM AcceptedWasShown == ReleaseSpec => []VerdictsWitnessed
<1>1. ReleaseInit => HistoryInv
  BY DEF ReleaseInit, HistoryInv, VerifiedWhileExact, AbsentWhenSaidAbsent, Downloading
<1>2. ReleaseTypeOK /\ ReleaseTypeOK' /\ HistoryInv /\ [ReleaseNext]_vars => HistoryInv'
  BY HistoryStep
<1>3. HistoryInv => VerdictsWitnessed
  BY DEF HistoryInv, VerdictsWitnessed
<1> QED
  BY <1>1, <1>2, <1>3, ReleaseTypeCorrect, PTL DEF ReleaseSpec

-----------------------------------------------------------------------------
(* The publication workflow.                                              *)

\* A job that has started has what it needs.
Ordered ==
    \A r \in Runs : \A n \in Needs :
        status[r][n[1]] \in {"running", "success", "failure"} => status[r][n[2]] = "success"

\* One job runs at a time; what is done is its own, and nothing when none runs.
OneJob ==
    /\ \A j, k \in Jobs : Running(j) /\ Running(k) => j = k
    /\ \A j \in Jobs : Running(j) => progress \subseteq Work(j)
    /\ (\A j \in Jobs : ~ Running(j)) => progress = {}

\* A build that succeeded has left its bundle.
Bundled == \A r \in Runs : status[r]["build"] = "success" => bundle[r] \in Builds

VerifyJob == [i \in Indexes |-> IF i = "testpypi" THEN "verify-testpypi" ELSE "verify-pypi"]

\* What a verification has passed, and every index that was verified, has the
\* files of the run's bundle.
Verified ==
    /\ \A i \in Indexes : Running(VerifyJob[i]) =>
          \A f \in Names : <<i, f>> \in progress => files[i][f] = bundle[active]
    /\ \A r \in Runs, i \in Indexes : status[r][VerifyJob[i]] = "success" =>
          \A f \in Names : files[i][f] = bundle[r]

\* A page that was visible when the run's turn came is in use for good; one that
\* was then found absent has been deleted; and so have all when the first job has
\* succeeded or anything was built.
Absence ==
    /\ \A r \in Runs : \A p \in occupied[r] : files[p[1]][p[2]] # Free
    /\ Running("preflight-indexes") => progress \intersect occupied[active] \intersect Visible = {}
    /\ \A r \in Runs : status[r]["preflight-indexes"] = "success" \/ bundle[r] # NoBundle =>
          occupied[r] \intersect Visible = {}

WorkflowIInv == WorkflowTypeOK /\ Ordered /\ OneJob /\ Bundled /\ Verified /\ Absence

-----------------------------------------------------------------------------

\* What needs a dependent is a dependent.
LEMMA DependentsClosed ==
    ASSUME NEW j \in Jobs, NEW n \in Needs, n[2] \in Dependents[j], n[1] \in Jobs
    PROVE  n[1] \in Dependents[j]
  BY DEF Dependents

\* Both ends of an edge of the graph are jobs.
LEMMA NeedsAreJobs == \A n \in Needs : n[1] \in Jobs /\ n[2] \in Jobs
  BY DEF Needs, Jobs

\* What happens to the jobs: those of a queued run are waiting or as they were,
\* the run that it replaces is cancelled, and the active run is not touched.
LEMMA QueueStep ==
    ASSUME WorkflowTypeOK, NEW r \in Runs, NEW jobs \in [Jobs -> {"waiting", "success", "failure", "skipped"}],
           r # active, Queue(r, jobs)
    PROVE  /\ waiting' = r
           /\ status'[r] = jobs
           /\ status' \in [Runs -> [Jobs -> {"waiting", "running", "success", "failure", "skipped"}]]
           /\ \A q \in Runs \ {r} : status'[q] = status[q] \/ status'[q] = Cancelled(status[q])
           /\ active # NoRun => status'[active] = status[active]
           /\ \A q \in Runs, j \in Jobs : status'[q][j] = "running" => q = active
<1>1. \A q \in Runs : Cancelled(status[q])
          \in [Jobs -> {"waiting", "running", "success", "failure", "skipped"}]
  BY DEF Cancelled, WorkflowTypeOK
<1>2. active # NoRun => active \in Runs /\ waiting # active
  BY WorkflowAssumption DEF WorkflowTypeOK, Runs, NoRun
<1>3. \A q \in Runs, j \in Jobs : Cancelled(status[q])[j] # "running"
  BY DEF Cancelled, WorkflowTypeOK
<1> QED
  BY <1>1, <1>2, <1>3 DEF Queue, WorkflowTypeOK

\* The kinds of step, in one list.
LEMMA StepCases ==
    ASSUME [WorkflowNext]_workflowVars
    PROVE  \/ StartRun \/ EndRun \/ CancelRun \/ PushTag \/ Build \/ UNCHANGED workflowVars
           \/ \E r \in Runs, j \in Jobs : Rerun(r, j)
           \/ \E j \in Jobs : StartJob(j) \/ JobFails(j) \/ JobSucceeds(j)
           \/ \E j \in Jobs, i \in Indexes, f \in Names : AskAbsent(j, i, f) \/ Upload(j, i, f) \/ Verify(j, i, f)
           \/ \E i \in Indexes, f \in Names : UploadByHand(i, f) \/ Show(i, f)
  BY DEF WorkflowNext, WorkflowStep, JobStep, Nobody

\* Nothing takes a name's file away, and nothing that is deleted comes back.
LEMMA IndexStep ==
    ASSUME WorkflowTypeOK, WorkflowNext
    PROVE  /\ \A i \in Indexes, f \in Names : files[i][f] # Free => files'[i][f] = files[i][f]
           /\ \A p \in Indexes \X Names : files[p[1]][p[2]] # Free /\ p \notin Visible => p \notin Visible'
<1>1. CASE \E j \in Jobs, i \in Indexes, f \in Names : Upload(j, i, f)
  <2>1. PICK j \in Jobs, i \in Indexes, f \in Names : Upload(j, i, f)
    BY <1>1
  <2>2. shown' = shown /\ files' = [files EXCEPT ![i][f] = bundle[active]]
        /\ files[i][f] \in {Free, bundle[active]}
    BY <2>1 DEF Upload, Progresses
  <2>3. \A h \in Indexes, g \in Names : files[h][g] # Free => files'[h][g] = files[h][g]
    BY <2>2 DEF WorkflowTypeOK
  <2> QED
    BY <2>2, <2>3 DEF Visible
<1>2. CASE \E i \in Indexes, f \in Names : UploadByHand(i, f)
  <2>1. PICK i \in Indexes, f \in Names : UploadByHand(i, f)
    BY <1>2
  <2>2. \A h \in Indexes, g \in Names : files[h][g] # Free => files'[h][g] = files[h][g]
    BY <2>1 DEF UploadByHand, WorkflowTypeOK
  <2> QED
    BY <2>1, <2>2 DEF Visible, UploadByHand
<1>3. CASE \E i \in Indexes, f \in Names : Show(i, f)
  <2>1. PICK i \in Indexes, f \in Names : Show(i, f)
    BY <1>3
  <2>2. files' = files /\ \A h \in Indexes, g \in Names : shown[h][g] = "deleted" => shown'[h][g] = "deleted"
    BY <2>1 DEF Show, WorkflowTypeOK
  <2> QED
    BY <2>2 DEF Visible
<1>4. CASE UNCHANGED <<files, shown>>
  BY <1>4 DEF Visible
<1>5. UNCHANGED <<files, shown>> \/ (\E j \in Jobs, i \in Indexes, f \in Names : Upload(j, i, f))
        \/ (\E i \in Indexes, f \in Names : UploadByHand(i, f) \/ Show(i, f))
  <2>1. CASE StartRun \/ EndRun \/ Build \/ PushTag \/ CancelRun \/ Nobody
    BY <2>1 DEF StartRun, EndRun, Build, PushTag, CancelRun, Nobody, workflowVars, siteVars
  <2>2. CASE \E r \in Runs, j \in Jobs : Rerun(r, j)
    BY <2>2 DEF Rerun, siteVars
  <2>3. CASE \E j \in Jobs : StartJob(j) \/ JobFails(j) \/ JobSucceeds(j)
    BY <2>3 DEF StartJob, JobFails, JobSucceeds, siteVars
  <2>4. CASE \E j \in Jobs, i \in Indexes, f \in Names : AskAbsent(j, i, f) \/ Verify(j, i, f)
    BY <2>4 DEF AskAbsent, Verify, Progresses
  <2> QED
    BY <2>1, <2>2, <2>3, <2>4 DEF WorkflowNext, WorkflowStep, JobStep
<1> QED
  BY <1>1, <1>2, <1>3, <1>4, <1>5
-----------------------------------------------------------------------------

\* The active run is one of the runs pushed.
LEMMA ActiveIsRun ==
    ASSUME WorkflowTypeOK
    PROVE  /\ pushed \in 0 .. MaxPushes /\ 1 .. pushed \subseteq Runs
           /\ active # NoRun => active \in 1 .. pushed
           /\ waiting # NoRun => waiting \in 1 .. pushed
           /\ NoRun \notin Runs
  BY WorkflowAssumption DEF WorkflowTypeOK, Runs, NoRun

\* A run whose jobs are run again is not active; its jobs stay or wait.
LEMMA RerunJobs ==
    ASSUME WorkflowTypeOK, NEW r \in 1 .. pushed, NEW j \in Jobs, Rerun(r, j)
    PROVE  LET jobs == [k \in Jobs |-> IF k \in Dependents[j] THEN "waiting" ELSE status[r][k]]
           IN  /\ jobs \in [Jobs -> {"waiting", "success", "failure", "skipped"}]
               /\ r \in Runs /\ r # active /\ Queue(r, jobs)
<1>1. r \in Runs /\ r # active
  BY ActiveIsRun DEF Rerun
<1>2. \A k \in Jobs : status[r][k] \in {"waiting", "success", "failure", "skipped"}
  BY <1>1 DEF WorkflowTypeOK
<1> QED
  BY <1>1, <1>2 DEF Rerun

\* The run that a push starts has all its jobs before it.
LEMMA PushJobs ==
    ASSUME WorkflowTypeOK, PushTag
    PROVE  /\ [j \in Jobs |-> "waiting"] \in [Jobs -> {"waiting", "success", "failure", "skipped"}]
           /\ pushed + 1 \in Runs /\ pushed + 1 # active
           /\ Queue(pushed + 1, [j \in Jobs |-> "waiting"])
  BY ActiveIsRun, WorkflowAssumption DEF PushTag, WorkflowTypeOK, Runs, NoRun

\* A job of the active run that runs or may start.
LEMMA JobOfActive ==
    ASSUME WorkflowTypeOK, NEW j, Running(j) \/ Startable(j)
    PROVE  active \in Runs
  BY ActiveIsRun DEF Running, Startable

\* What a job becomes, nothing else does.
LEMMA BecomesStep ==
    ASSUME WorkflowTypeOK, active \in Runs, NEW j \in Jobs,
           NEW c \in {"running", "success", "failure"}, JobBecomes(j, c)
    PROVE  /\ status'[active][j] = c
           /\ \A k \in Jobs \ {j} : status'[active][k] = status[active][k]
           /\ \A q \in Runs \ {active} : status'[q] = status[q]
           /\ status' \in [Runs -> [Jobs -> {"waiting", "running", "success", "failure", "skipped"}]]
           /\ \A q \in Runs, k \in Jobs : status'[q][k] = "running" => q = active
  BY DEF JobBecomes, WorkflowTypeOK

\* Cancelling the active run.
LEMMA CancelStep ==
    ASSUME WorkflowTypeOK, active \in Runs, status' = [status EXCEPT ![active] = Cancelled(@)]
    PROVE  /\ \A q \in Runs \ {active} : status'[q] = status[q]
           /\ status'[active] = Cancelled(status[active])
           /\ status' \in [Runs -> [Jobs -> {"waiting", "running", "success", "failure", "skipped"}]]
           /\ \A q \in Runs, k \in Jobs : status'[q][k] # "running"
  BY DEF Cancelled, WorkflowTypeOK

\* The pages of a job are pages.
LEMMA WorkIsPages == \A j \in Jobs : Work(j) \subseteq Indexes \X Names
  BY DEF Work, Jobs, Indexes

\* A job that uploads has a bundle to upload.
LEMMA UploadsBundle ==
    ASSUME WorkflowTypeOK, Ordered, Bundled,
           NEW j \in {"publish-testpypi", "publish-pypi"}, Running(j)
    PROVE  /\ active \in Runs /\ bundle[active] \in Builds
           /\ j = "publish-pypi" => status[active]["verify-testpypi"] = "success"
<1>1. active \in Runs /\ status[active][j] = "running"
  BY JobOfActive DEF Running
<1>2. \A n \in Needs : status[active][n[1]] \in {"running", "success", "failure"}
                          => status[active][n[2]] = "success"
  BY <1>1 DEF Ordered
<1>3. /\ j = "publish-pypi" => status[active]["preflight-pypi"] = "success"
      /\ status[active]["preflight-pypi"] = "success" => status[active]["verify-testpypi"] = "success"
      /\ status[active]["verify-testpypi"] = "success" => status[active]["publish-testpypi"] = "success"
      /\ status[active]["publish-testpypi"] \in {"running", "success"} => status[active]["build"] = "success"
  BY <1>1, <1>2 DEF Needs
<1> QED
  BY <1>1, <1>3 DEF Bundled

\* Every step keeps the shape of the state.
LEMMA WorkflowTypeStep ==
    ASSUME WorkflowTypeOK, Ordered, Bundled, [WorkflowNext]_workflowVars
    PROVE  WorkflowTypeOK'
<1>1. CASE PushTag
  <2>1. /\ status' \in [Runs -> [Jobs -> {"waiting", "running", "success", "failure", "skipped"}]]
        /\ \A q \in Runs, j \in Jobs : status'[q][j] = "running" => q = active
        /\ waiting' = pushed + 1
    BY <1>1, PushJobs, QueueStep
  <2>2. /\ pushed' = pushed + 1 /\ pushed' \in 0 .. MaxPushes /\ tag' \in 1 .. pushed'
        /\ sha' = [sha EXCEPT ![pushed + 1] = tag']
    BY <1>1, WorkflowAssumption DEF PushTag, WorkflowTypeOK
  <2>3. sha' \in [Runs -> 0 .. pushed'] /\ tag' \in 0 .. pushed'
    <3>1. pushed \in Int /\ 0 .. pushed \subseteq 0 .. pushed' /\ 1 .. pushed' \subseteq 0 .. pushed'
      BY <2>2, ActiveIsRun
    <3> QED
      BY <2>2, <3>1 DEF WorkflowTypeOK
  <2>4. waiting' \in 0 .. pushed' /\ active' \in 0 .. pushed' /\ (active' # NoRun => waiting' # active')
    BY <1>1, <2>1, <2>2 DEF PushTag, WorkflowTypeOK
  <2> QED
    BY <1>1, <2>1, <2>2, <2>3, <2>4 DEF PushTag, WorkflowTypeOK, siteVars
<1>2. CASE \E r \in Runs, j \in Jobs : Rerun(r, j)
  <2>1. PICK r \in 1 .. pushed, j \in Jobs : Rerun(r, j)
    BY <1>2 DEF Rerun
  <2>2. /\ status' \in [Runs -> [Jobs -> {"waiting", "running", "success", "failure", "skipped"}]]
        /\ \A q \in Runs, k \in Jobs : status'[q][k] = "running" => q = active
        /\ waiting' = r /\ r # active
    BY <2>1, RerunJobs, QueueStep
  <2>3. reruns' \in 0 .. MaxTurns
    BY <2>1, WorkflowAssumption DEF Rerun, WorkflowTypeOK
  <2> QED
    BY <2>1, <2>2, <2>3 DEF Rerun, WorkflowTypeOK, siteVars
<1>3. CASE StartRun
  <2>1. Visible \subseteq Indexes \X Names
    BY DEF Visible
  <2>2. occupied' \in [Runs -> SUBSET (Indexes \X Names)]
    BY <1>3, <2>1 DEF StartRun, WorkflowTypeOK
  <2>3. \A r \in Runs, j \in Jobs : status[r][j] # "running"
    BY <1>3, ActiveIsRun DEF StartRun, WorkflowTypeOK
  <2> QED
    BY <1>3, <2>2, <2>3 DEF StartRun, WorkflowTypeOK, siteVars, NoRun
<1>4. CASE EndRun
  <2>1. active \in Runs
    BY <1>4, ActiveIsRun DEF EndRun
  <2>2. /\ status' \in [Runs -> [Jobs -> {"waiting", "running", "success", "failure", "skipped"}]]
        /\ \A q \in Runs, k \in Jobs : status'[q][k] # "running"
    BY <1>4, <2>1, CancelStep DEF EndRun
  <2> QED
    BY <1>4, <2>2 DEF EndRun, WorkflowTypeOK, siteVars, NoRun
<1>5. CASE CancelRun
  <2>1. active \in Runs
    BY <1>5, ActiveIsRun DEF CancelRun
  <2>2. /\ status' \in [Runs -> [Jobs -> {"waiting", "running", "success", "failure", "skipped"}]]
        /\ \A q \in Runs, k \in Jobs : status'[q][k] # "running"
    BY <1>5, <2>1, CancelStep DEF CancelRun
  <2> QED
    BY <1>5, <2>2 DEF CancelRun, WorkflowTypeOK, siteVars, githubVars
<1>6. CASE \E j \in Jobs : StartJob(j) \/ JobFails(j) \/ JobSucceeds(j)
  <2>1. PICK j \in Jobs : StartJob(j) \/ JobFails(j) \/ JobSucceeds(j)
    BY <1>6
  <2>2. active \in Runs
    BY <2>1, JobOfActive DEF StartJob, JobFails, JobSucceeds
  <2>3. /\ status' \in [Runs -> [Jobs -> {"waiting", "running", "success", "failure", "skipped"}]]
        /\ \A q \in Runs, k \in Jobs : status'[q][k] = "running" => q = active
    BY <2>1, <2>2, BecomesStep DEF StartJob, JobFails, JobSucceeds
  <2>4. progress' \subseteq Indexes \X Names
    BY <2>1 DEF StartJob, JobFails, JobSucceeds, WorkflowTypeOK
  <2> QED
    BY <2>1, <2>3, <2>4 DEF StartJob, JobFails, JobSucceeds, WorkflowTypeOK, siteVars, githubVars
<1>7. CASE Build
  <2>1. active \in Runs /\ "build" \in Jobs
    BY <1>7, JobOfActive DEF Build, Jobs
  <2>2. /\ status' \in [Runs -> [Jobs -> {"waiting", "running", "success", "failure", "skipped"}]]
        /\ \A q \in Runs, k \in Jobs : status'[q][k] = "running" => q = active
    BY <1>7, <2>1, BecomesStep DEF Build
  <2>3. built' \in 0 .. MaxBuilds /\ built + 1 \in Builds
    BY <1>7, WorkflowAssumption DEF Build, Builds, WorkflowTypeOK
  <2>4. bundle' \in [Runs -> {NoBundle} \union Builds]
    BY <1>7, <2>3 DEF Build, WorkflowTypeOK
  <2> QED
    BY <1>7, <2>2, <2>3, <2>4 DEF Build, WorkflowTypeOK, siteVars, githubVars
<1>8. CASE \E j \in Jobs, i \in Indexes, f \in Names : AskAbsent(j, i, f) \/ Upload(j, i, f) \/ Verify(j, i, f)
  <2>1. PICK j \in Jobs, i \in Indexes, f \in Names : AskAbsent(j, i, f) \/ Upload(j, i, f) \/ Verify(j, i, f)
    BY <1>8
  <2>2. progress' \subseteq Indexes \X Names
    BY <2>1 DEF AskAbsent, Upload, Verify, Progresses, WorkflowTypeOK
  <2>3. files' \in [Indexes -> [Names -> {Free, Foreign} \union Builds]]
    <3>1. CASE Upload(j, i, f)
      <4>1. files' = [files EXCEPT ![i][f] = bundle[active]] /\ bundle[active] \in Builds
        BY <3>1, UploadsBundle DEF Upload
      <4> QED
        BY <4>1 DEF WorkflowTypeOK
    <3>2. CASE AskAbsent(j, i, f) \/ Verify(j, i, f)
      BY <3>2 DEF AskAbsent, Verify, WorkflowTypeOK
    <3> QED
      BY <2>1, <3>1, <3>2
  <2> QED
    BY <2>1, <2>2, <2>3 DEF AskAbsent, Upload, Verify, Progresses, WorkflowTypeOK, githubVars
<1>9. CASE \E i \in Indexes, f \in Names : UploadByHand(i, f) \/ Show(i, f)
  <2>1. PICK i \in Indexes, f \in Names : UploadByHand(i, f) \/ Show(i, f)
    BY <1>9
  <2>2. strange' \in 0 .. MaxStrange
    BY <2>1, WorkflowAssumption DEF UploadByHand, Show, WorkflowTypeOK
  <2>3. files' \in [Indexes -> [Names -> {Free, Foreign} \union Builds]]
    <3>1. CASE UploadByHand(i, f)
      BY <3>1 DEF UploadByHand, WorkflowTypeOK
    <3>2. CASE Show(i, f)
      BY <3>2 DEF Show, WorkflowTypeOK
    <3> QED
      BY <2>1, <3>1, <3>2
  <2>4. shown' \in [Indexes -> [Names -> {"listed", "yanked", "deleted"}]]
    <3>1. CASE UploadByHand(i, f)
      BY <3>1 DEF UploadByHand, WorkflowTypeOK
    <3>2. CASE Show(i, f)
      <4>1. PICK how \in {"listed", "yanked", "deleted"} : shown' = [shown EXCEPT ![i][f] = how]
        BY <3>2 DEF Show
      <4> QED
        BY <4>1 DEF WorkflowTypeOK
    <3> QED
      BY <2>1, <3>1, <3>2
  <2> QED
    BY <2>1, <2>2, <2>3, <2>4 DEF UploadByHand, Show, WorkflowTypeOK, githubVars
<1>10. CASE Nobody \/ UNCHANGED workflowVars
  BY <1>10 DEF Nobody, workflowVars, githubVars, siteVars, WorkflowTypeOK
<1> QED
  BY <1>1, <1>2, <1>3, <1>4, <1>5, <1>6, <1>7, <1>8, <1>9, <1>10
  DEF WorkflowNext, WorkflowStep, JobStep
-----------------------------------------------------------------------------

\* Jobs of a run that is not active wait or keep their conclusions, or those
\* waiting are skipped: what has started is what had.
LEMMA StartedBefore ==
    ASSUME WorkflowTypeOK, NEW q \in Runs, q # active,
           NEW new, new = status[q] \/ new = Cancelled(status[q])
    PROVE  \A j \in Jobs : /\ new[j] \in {"running", "success", "failure"} => new[j] = status[q][j]
                           /\ status[q][j] = "success" => new[j] = "success"
  BY DEF Cancelled, WorkflowTypeOK

\* Jobs are started in the order of the graph, one at a time.
LEMMA OrderStep ==
    ASSUME WorkflowTypeOK, Ordered, OneJob, [WorkflowNext]_workflowVars
    PROVE  Ordered' /\ OneJob'
<1> USE NeedsAreJobs
<1>1. CASE PushTag
  <2> DEFINE jobs == [j \in Jobs |-> "waiting"]
  <2>1. /\ status'[pushed + 1] = jobs /\ pushed + 1 # active
        /\ \A q \in Runs \ {pushed + 1} : status'[q] = status[q] \/ status'[q] = Cancelled(status[q])
        /\ active # NoRun => status'[active] = status[active]
    BY <1>1, PushJobs, QueueStep
  <2>2. Ordered'
    <3> SUFFICES ASSUME NEW q \in Runs, NEW n \in Needs,
                        status'[q][n[1]] \in {"running", "success", "failure"}
                 PROVE  status'[q][n[2]] = "success"
      BY DEF Ordered
    <3>1. q # pushed + 1
      BY <2>1
    <3>2. CASE q = active
      BY <2>1, <3>1, <3>2, ActiveIsRun DEF Ordered
    <3>3. CASE q # active
      BY <2>1, <3>1, <3>3, StartedBefore DEF Ordered
    <3> QED
      BY <3>2, <3>3
  <2>3. OneJob'
    BY <1>1, <2>1 DEF PushTag, OneJob, Running, Work
  <2> QED
    BY <2>2, <2>3
<1>2. CASE \E r \in Runs, j \in Jobs : Rerun(r, j)
  <2>1. PICK r \in 1 .. pushed, j \in Jobs : Rerun(r, j)
    BY <1>2 DEF Rerun
  <2> DEFINE jobs == [k \in Jobs |-> IF k \in Dependents[j] THEN "waiting" ELSE status[r][k]]
  <2>2. /\ r \in Runs /\ r # active /\ status'[r] = jobs
        /\ \A q \in Runs \ {r} : status'[q] = status[q] \/ status'[q] = Cancelled(status[q])
        /\ active # NoRun => status'[active] = status[active]
    BY <2>1, RerunJobs, QueueStep
  <2>3. Ordered'
    <3> SUFFICES ASSUME NEW q \in Runs, NEW n \in Needs,
                        status'[q][n[1]] \in {"running", "success", "failure"}
                 PROVE  status'[q][n[2]] = "success"
      BY DEF Ordered
    <3>1. CASE q = r
      <4>1. n[1] \in Jobs /\ n[1] \notin Dependents[j] /\ status[r][n[1]] \in {"running", "success", "failure"}
        BY <2>2, <3>1
      <4>2. n[2] \in Jobs /\ n[2] \notin Dependents[j]
        BY <4>1, DependentsClosed
      <4> QED
        BY <2>2, <3>1, <4>1, <4>2 DEF Ordered
    <3>2. CASE q # r /\ q = active
      BY <2>2, <3>2, ActiveIsRun DEF Ordered
    <3>3. CASE q # r /\ q # active
      BY <2>2, <3>3, StartedBefore DEF Ordered
    <3> QED
      BY <3>1, <3>2, <3>3
  <2>4. OneJob'
    BY <2>1, <2>2 DEF Rerun, OneJob, Running, Work
  <2> QED
    BY <2>3, <2>4
<1>3. CASE StartRun
  <2>1. \A r \in Runs, j \in Jobs : status[r][j] # "running"
    BY <1>3, ActiveIsRun DEF StartRun, WorkflowTypeOK
  <2>2. active' \in Runs
    BY <1>3, ActiveIsRun DEF StartRun
  <2>3. progress = {}
    BY <1>3 DEF StartRun, OneJob, Running
  <2> QED
    BY <1>3, <2>1, <2>2, <2>3 DEF StartRun, Ordered, OneJob, Running, Work
<1>4. CASE EndRun \/ CancelRun
  <2>1. active \in Runs /\ status' = [status EXCEPT ![active] = Cancelled(@)]
    BY <1>4, ActiveIsRun DEF EndRun, CancelRun
  <2>2. /\ \A q \in Runs \ {active} : status'[q] = status[q]
        /\ status'[active] = Cancelled(status[active])
        /\ \A q \in Runs, k \in Jobs : status'[q][k] # "running"
    BY <2>1, CancelStep
  <2>3. \A j \in Jobs : /\ status'[active][j] \in {"running", "success", "failure"}
                              => status[active][j] \in {"running", "success", "failure"}
                        /\ status[active][j] = "success" => status'[active][j] = "success"
    BY <2>1, <2>2 DEF Cancelled, WorkflowTypeOK
  <2>4. Ordered'
    BY <2>1, <2>2, <2>3 DEF Ordered
  <2>5. progress' = {}
    BY <1>4 DEF EndRun, CancelRun, OneJob
  <2>6. \A j \in Jobs : ~ Running(j)'
    BY <1>4, <2>1, <2>2, ActiveIsRun DEF EndRun, CancelRun, Running, githubVars
  <2> QED
    BY <2>4, <2>5, <2>6 DEF OneJob
<1>5. CASE \E j \in Jobs : StartJob(j)
  <2>1. PICK j \in Jobs : StartJob(j)
    BY <1>5
  <2>2. active \in Runs /\ active' = active /\ progress' = progress
    BY <2>1, JobOfActive DEF StartJob, githubVars
  <2>3. /\ status'[active][j] = "running"
        /\ \A k \in Jobs \ {j} : status'[active][k] = status[active][k]
        /\ \A q \in Runs \ {active} : status'[q] = status[q]
    BY <2>1, <2>2, BecomesStep DEF StartJob
  <2>4. status[active][j] = "waiting" /\ \A n \in Needs : n[1] = j => status[active][n[2]] = "success"
    BY <2>1 DEF StartJob, Startable, Ready
  <2>5. Ordered'
    BY <2>2, <2>3, <2>4 DEF Ordered
  <2>6. \A k \in Jobs \ {j} : status[active][k] # "running"
    BY <2>1, <2>2, ActiveIsRun DEF StartJob, Running
  <2> QED
    BY <2>2, <2>3, <2>5, <2>6, ActiveIsRun DEF OneJob, Running, Work
<1>6. CASE Build \/ \E j \in Jobs : JobFails(j) \/ JobSucceeds(j)
  <2>1. PICK j \in Jobs, c \in {"success", "failure"} :
            Running(j) /\ JobBecomes(j, c) /\ active' = active /\ progress' = {}
    <3>1. CASE Build
      <4>1. "build" \in Jobs /\ Work("build") = {}
        BY DEF Jobs, Work
      <4> QED
        BY <3>1, <4>1 DEF Build, githubVars, OneJob
    <3> QED
      BY <1>6, <3>1 DEF JobFails, JobSucceeds, githubVars
  <2>2. active \in Runs
    BY <2>1, JobOfActive
  <2>3. /\ status'[active][j] = c /\ status[active][j] = "running"
        /\ \A k \in Jobs \ {j} : status'[active][k] = status[active][k]
        /\ \A q \in Runs \ {active} : status'[q] = status[q]
    BY <2>1, <2>2, BecomesStep DEF Running
  <2>4. Ordered'
    BY <2>2, <2>3 DEF Ordered
  <2>5. \A k \in Jobs : ~ Running(k)'
    BY <2>1, <2>2, <2>3, ActiveIsRun DEF OneJob, Running
  <2> QED
    BY <2>1, <2>4, <2>5 DEF OneJob
<1>7. CASE \E j \in Jobs, i \in Indexes, f \in Names : AskAbsent(j, i, f) \/ Upload(j, i, f) \/ Verify(j, i, f)
  <2>1. PICK j \in Jobs, i \in Indexes, f \in Names : AskAbsent(j, i, f) \/ Upload(j, i, f) \/ Verify(j, i, f)
    BY <1>7
  <2>2. /\ Running(j) /\ UNCHANGED <<active, status>>
        /\ <<i, f>> \in Work(j) /\ progress' = progress \union {<<i, f>>}
    BY <2>1 DEF AskAbsent, Upload, Verify, Progresses, githubVars
  <2>3. \A k \in Jobs : Running(k)' = Running(k)
    BY <2>2 DEF Running
  <2>4. \A k \in Jobs : Running(k) => progress' \subseteq Work(k)
    BY <2>2 DEF OneJob
  <2>5. OneJob'
    BY <2>2, <2>3, <2>4 DEF OneJob, Work
  <2> QED
    BY <2>2, <2>5 DEF Ordered
<1>8. CASE \E i \in Indexes, f \in Names : UploadByHand(i, f) \/ Show(i, f)
  BY <1>8 DEF UploadByHand, Show, githubVars, Ordered, OneJob, Running, Work
<1>9. CASE Nobody \/ UNCHANGED workflowVars
  BY <1>9 DEF Nobody, workflowVars, githubVars, Ordered, OneJob, Running, Work
<1> QED
  BY <1>1, <1>2, <1>3, <1>4, <1>5, <1>6, <1>7, <1>8, <1>9
  DEF WorkflowNext, WorkflowStep, JobStep
-----------------------------------------------------------------------------

\* A job has succeeded when it had before or succeeds in this step.
LEMMA SuccessStep ==
    ASSUME WorkflowTypeOK, [WorkflowNext]_workflowVars,
           NEW r \in Runs, NEW k \in Jobs, status'[r][k] = "success"
    PROVE  \/ status[r][k] = "success"
           \/ r = active /\ (JobSucceeds(k) \/ (k = "build" /\ Build))
<1>1. CASE PushTag
  BY <1>1, PushJobs, QueueStep, StartedBefore, ActiveIsRun
<1>2. CASE \E q \in Runs, j \in Jobs : Rerun(q, j)
  <2>1. PICK q \in 1 .. pushed, j \in Jobs : Rerun(q, j)
    BY <1>2 DEF Rerun
  <2> DEFINE jobs == [l \in Jobs |-> IF l \in Dependents[j] THEN "waiting" ELSE status[q][l]]
  <2>2. /\ q \in Runs /\ q # active /\ status'[q] = jobs
        /\ \A p \in Runs \ {q} : status'[p] = status[p] \/ status'[p] = Cancelled(status[p])
        /\ active # NoRun => status'[active] = status[active]
    BY <2>1, RerunJobs, QueueStep
  <2>3. CASE r = q
    BY <2>2, <2>3
  <2>4. CASE r # q
    BY <2>2, <2>4, StartedBefore, ActiveIsRun
  <2> QED
    BY <2>3, <2>4
<1>3. CASE EndRun \/ CancelRun
  <2>1. active \in Runs /\ status' = [status EXCEPT ![active] = Cancelled(@)]
    BY <1>3, ActiveIsRun DEF EndRun, CancelRun
  <2> QED
    BY <2>1, CancelStep DEF Cancelled
<1>4. CASE \E j \in Jobs : StartJob(j) \/ JobFails(j) \/ JobSucceeds(j)
  <2>1. PICK j \in Jobs : StartJob(j) \/ JobFails(j) \/ JobSucceeds(j)
    BY <1>4
  <2>2. active \in Runs
    BY <2>1, JobOfActive DEF StartJob, JobFails, JobSucceeds
  <2>3. PICK c \in {"running", "success", "failure"} :
            JobBecomes(j, c) /\ (c = "success" => JobSucceeds(j))
    BY <2>1 DEF StartJob, JobFails, JobSucceeds
  <2>4. /\ status'[active][j] = c
        /\ \A l \in Jobs \ {j} : status'[active][l] = status[active][l]
        /\ \A q \in Runs \ {active} : status'[q] = status[q]
    BY <2>2, <2>3, BecomesStep
  <2> QED
    BY <2>3, <2>4
<1>5. CASE Build
  <2>1. active \in Runs /\ "build" \in Jobs
    BY <1>5, JobOfActive DEF Build, Jobs
  <2> QED
    BY <1>5, <2>1, BecomesStep DEF Build
<1>6. CASE UNCHANGED status
  BY <1>6
<1>7. StartRun \/ UNCHANGED workflowVars => UNCHANGED status
  BY DEF StartRun, workflowVars
<1>8. CASE \E j \in Jobs, i \in Indexes, f \in Names : AskAbsent(j, i, f) \/ Upload(j, i, f) \/ Verify(j, i, f)
  BY <1>6, <1>8 DEF AskAbsent, Upload, Verify, Progresses
<1>9. CASE \E i \in Indexes, f \in Names : UploadByHand(i, f) \/ Show(i, f)
  BY <1>6, <1>9 DEF UploadByHand, Show
<1> QED
  BY <1>1, <1>2, <1>3, <1>4, <1>5, <1>6, <1>7, <1>8, <1>9, StepCases

\* Only the build job makes a bundle.
LEMMA BundleKept ==
    ASSUME [WorkflowNext]_workflowVars, ~ Build
    PROVE  bundle' = bundle
<1>1. CASE StartRun \/ EndRun \/ CancelRun \/ PushTag \/ UNCHANGED workflowVars
  BY <1>1 DEF StartRun, EndRun, CancelRun, PushTag, workflowVars
<1>2. CASE \E r \in Runs, j \in Jobs : Rerun(r, j)
  BY <1>2 DEF Rerun
<1>3. CASE \E j \in Jobs : StartJob(j) \/ JobFails(j) \/ JobSucceeds(j)
  BY <1>3 DEF StartJob, JobFails, JobSucceeds
<1>4. CASE \E j \in Jobs, i \in Indexes, f \in Names : AskAbsent(j, i, f) \/ Upload(j, i, f) \/ Verify(j, i, f)
  BY <1>4 DEF AskAbsent, Upload, Verify, Progresses
<1>5. CASE \E i \in Indexes, f \in Names : UploadByHand(i, f) \/ Show(i, f)
  BY <1>5 DEF UploadByHand, Show
<1> QED
  BY <1>1, <1>2, <1>3, <1>4, <1>5, StepCases

\* A build that succeeds stores its bundle, and the bundle stays.
LEMMA BundledStep ==
    ASSUME WorkflowTypeOK, Bundled, [WorkflowNext]_workflowVars
    PROVE  Bundled'
<1> SUFFICES ASSUME NEW r \in Runs, status'[r]["build"] = "success"
             PROVE  bundle'[r] \in Builds
  BY DEF Bundled, Builds
<1>1. "build" \in Jobs
  BY DEF Jobs
<1>2. CASE Build
  <2>1. active \in Runs
    BY <1>1, <1>2, JobOfActive DEF Build
  <2>2. built + 1 \in Builds /\ bundle' = [bundle EXCEPT ![active] = built + 1]
    BY <1>2, WorkflowAssumption DEF Build, Builds, WorkflowTypeOK
  <2>3. r # active => status'[r] = status[r]
    BY <1>1, <1>2, <2>1, BecomesStep DEF Build
  <2> QED
    BY <2>1, <2>2, <2>3 DEF Bundled, WorkflowTypeOK
<1>3. CASE ~ Build
  <2>1. status[r]["build"] = "success"
    BY <1>1, <1>3, SuccessStep DEF JobSucceeds
  <2> QED
    BY <1>3, <2>1, BundleKept DEF Bundled
<1> QED
  BY <1>2, <1>3

\* A job runs when it did before or is started in this step.
LEMMA RunningStep ==
    ASSUME WorkflowTypeOK, [WorkflowNext]_workflowVars, NEW k \in Jobs, Running(k)'
    PROVE  \/ StartJob(k)
           \/ Running(k) /\ active' = active
<1>1. CASE PushTag
  BY <1>1, PushJobs, QueueStep, ActiveIsRun DEF PushTag, Running
<1>2. CASE \E q \in Runs, j \in Jobs : Rerun(q, j)
  BY <1>2, RerunJobs, QueueStep, ActiveIsRun DEF Rerun, Running
<1>3. CASE EndRun \/ CancelRun
  <2>1. active \in Runs /\ status' = [status EXCEPT ![active] = Cancelled(@)]
    BY <1>3, ActiveIsRun DEF EndRun, CancelRun
  <2>2. active' = active \/ active' = NoRun
    BY <1>3 DEF EndRun, CancelRun, githubVars
  <2> QED
    BY <2>1, <2>2, CancelStep DEF Running
<1>4. CASE \E j \in Jobs : StartJob(j) \/ JobFails(j) \/ JobSucceeds(j)
  <2>1. PICK j \in Jobs : StartJob(j) \/ JobFails(j) \/ JobSucceeds(j)
    BY <1>4
  <2>2. active \in Runs /\ active' = active
    BY <2>1, JobOfActive DEF StartJob, JobFails, JobSucceeds, githubVars
  <2> QED
    BY <2>1, <2>2, BecomesStep DEF StartJob, JobFails, JobSucceeds, Running
<1>5. CASE Build
  <2>1. active \in Runs /\ "build" \in Jobs /\ active' = active
    BY <1>5, JobOfActive DEF Build, Jobs, githubVars
  <2> QED
    BY <1>5, <2>1, BecomesStep DEF Build, Running
<1>6. CASE StartRun
  <2>1. active' \in Runs /\ status' = status /\ active = NoRun
    BY <1>6, ActiveIsRun DEF StartRun
  <2>2. status[active'][k] # "running"
    BY <2>1, ActiveIsRun DEF WorkflowTypeOK
  <2> QED
    BY <2>1, <2>2 DEF Running
<1>7. CASE UNCHANGED <<active, status>>
  BY <1>7 DEF Running
<1>8. UNCHANGED workflowVars => UNCHANGED <<active, status>>
  BY DEF workflowVars, githubVars
<1>9. CASE \E j \in Jobs, i \in Indexes, f \in Names : AskAbsent(j, i, f) \/ Upload(j, i, f) \/ Verify(j, i, f)
  BY <1>7, <1>9 DEF AskAbsent, Upload, Verify, Progresses, githubVars
<1>10. CASE \E i \in Indexes, f \in Names : UploadByHand(i, f) \/ Show(i, f)
  BY <1>7, <1>10 DEF UploadByHand, Show, githubVars
<1> QED
  BY <1>1, <1>2, <1>3, <1>4, <1>5, <1>6, <1>7, <1>8, <1>9, <1>10, StepCases

\* What the running job has done grows by what it does now.
LEMMA ProgressStep ==
    ASSUME [WorkflowNext]_workflowVars, NEW p \in progress'
    PROVE  \/ p \in progress
           \/ \E j \in Jobs, i \in Indexes, f \in Names :
                 p = <<i, f>> /\ (AskAbsent(j, i, f) \/ Upload(j, i, f) \/ Verify(j, i, f))
<1>1. CASE \E j \in Jobs, i \in Indexes, f \in Names : AskAbsent(j, i, f) \/ Upload(j, i, f) \/ Verify(j, i, f)
  BY <1>1 DEF AskAbsent, Upload, Verify, Progresses
<1>2. CASE progress' \in {progress, {}}
  BY <1>2
<1>3. StartRun \/ EndRun \/ CancelRun \/ PushTag \/ Build \/ UNCHANGED workflowVars => progress' \in {progress, {}}
  BY DEF StartRun, EndRun, CancelRun, PushTag, Build, workflowVars
<1>4. CASE \E r \in Runs, j \in Jobs : Rerun(r, j)
  BY <1>2, <1>4 DEF Rerun
<1>5. CASE \E j \in Jobs : StartJob(j) \/ JobFails(j) \/ JobSucceeds(j)
  BY <1>2, <1>5 DEF StartJob, JobFails, JobSucceeds
<1>6. CASE \E i \in Indexes, f \in Names : UploadByHand(i, f) \/ Show(i, f)
  BY <1>2, <1>6 DEF UploadByHand, Show
<1> QED
  BY <1>1, <1>2, <1>3, <1>4, <1>5, <1>6, StepCases

\* A run that verifies has built; after TestPyPI if it verifies PyPI.
LEMMA VerifyingIsBuilt ==
    ASSUME Ordered, NEW r \in Runs, NEW i \in Indexes,
           status[r][VerifyJob[i]] \in {"running", "success"}
    PROVE  /\ status[r]["build"] = "success"
           /\ i = "pypi" => status[r]["verify-testpypi"] = "success"
<1>1. \A n \in Needs : status[r][n[1]] \in {"running", "success", "failure"} => status[r][n[2]] = "success"
  BY DEF Ordered
<1>2. /\ status[r]["verify-pypi"] \in {"running", "success"} => status[r]["publish-pypi"] = "success"
      /\ status[r]["publish-pypi"] = "success" => status[r]["preflight-pypi"] = "success"
      /\ status[r]["preflight-pypi"] = "success" => status[r]["verify-testpypi"] = "success"
      /\ status[r]["verify-testpypi"] \in {"running", "success"} => status[r]["publish-testpypi"] = "success"
      /\ status[r]["publish-testpypi"] = "success" => status[r]["build"] = "success"
  BY <1>1 DEF Needs
<1> QED
  BY <1>2 DEF VerifyJob, Indexes

\* What is verified stays so: names are not free again, and the run builds no
\* other bundle without verifying again.
LEMMA VerifiedStep ==
    ASSUME WorkflowTypeOK, Ordered, OneJob, Bundled, Verified, [WorkflowNext]_workflowVars
    PROVE  Verified'
<1>1. /\ \A i \in Indexes : VerifyJob[i] \in Jobs \ {"build"}
      /\ \A i, h \in Indexes : VerifyJob[i] = VerifyJob[h] => i = h
      /\ \A i \in Indexes : Work(VerifyJob[i]) = {i} \X Names
      /\ "build" \in Jobs
  BY DEF VerifyJob, Indexes, Jobs, Work
<1>2. \A i \in Indexes, f \in Names : files[i][f] # Free => files'[i][f] = files[i][f]
  BY IndexStep DEF workflowVars, siteVars
<1>3. \A b \in Builds : b # Free
  BY WorkflowAssumption
<1>4. \A r \in Runs, i \in Indexes :
          status[r][VerifyJob[i]] \in {"running", "success"} => bundle[r] \in Builds
  BY VerifyingIsBuilt DEF Bundled
\* The build job does not run while a verification does or has succeeded.
<1>5. \A r \in Runs, i \in Indexes :
          status[r][VerifyJob[i]] \in {"running", "success"} => bundle'[r] = bundle[r]
  <2> SUFFICES ASSUME NEW r \in Runs, NEW i \in Indexes, Build,
                      status[r][VerifyJob[i]] \in {"running", "success"}
               PROVE  bundle'[r] = bundle[r]
    BY BundleKept
  <2>1. r # active
    BY VerifyingIsBuilt DEF Build, Running
  <2> QED
    BY <2>1 DEF Build, WorkflowTypeOK
<1>6. ASSUME NEW i \in Indexes, Running(VerifyJob[i])', NEW f \in Names, <<i, f>> \in progress'
      PROVE  files'[i][f] = bundle'[active']
  <2>1. CASE StartJob(VerifyJob[i])
    BY <1>6, <2>1 DEF StartJob, OneJob
  <2>2. CASE Running(VerifyJob[i]) /\ active' = active
    <3>1. active \in Runs /\ status[active][VerifyJob[i]] = "running"
      BY <2>2, JobOfActive DEF Running
    <3>2. bundle'[active'] = bundle[active] /\ bundle[active] \in Builds
      BY <1>4, <1>5, <2>2, <3>1
    <3>3. CASE <<i, f>> \in progress
      <4>1. files[i][f] = bundle[active]
        BY <2>2, <3>3 DEF Verified
      <4> QED
        BY <1>2, <1>3, <3>2, <4>1
    <3>4. CASE \E j \in Jobs, h \in Indexes, g \in Names :
                  <<i, f>> = <<h, g>> /\ (AskAbsent(j, h, g) \/ Upload(j, h, g) \/ Verify(j, h, g))
      <4>1. PICK j \in Jobs : AskAbsent(j, i, f) \/ Upload(j, i, f) \/ Verify(j, i, f)
        BY <3>4
      <4>2. j = VerifyJob[i]
        BY <1>1, <2>2, <4>1 DEF OneJob, AskAbsent, Upload, Verify
      <4>3. VerifyJob[i] \in {"verify-testpypi", "verify-pypi"}
        BY DEF VerifyJob
      <4>4. Verify(j, i, f)
        BY <4>1, <4>2, <4>3 DEF AskAbsent, Upload
      <4> QED
        BY <1>2, <1>3, <3>2, <4>4 DEF Verify
    <3> QED
      BY <1>6, <3>3, <3>4, ProgressStep
  <2> QED
    BY <1>1, <1>6, <2>1, <2>2, RunningStep
<1>7. ASSUME NEW r \in Runs, NEW i \in Indexes, status'[r][VerifyJob[i]] = "success", NEW f \in Names
      PROVE  files'[i][f] = bundle'[r]
  <2>1. status[r][VerifyJob[i]] \in {"running", "success"} /\ files[i][f] = bundle[r]
    <3>1. CASE status[r][VerifyJob[i]] = "success"
      BY <3>1 DEF Verified
    <3>2. CASE r = active /\ JobSucceeds(VerifyJob[i])
      <4>1. Running(VerifyJob[i]) /\ progress = {i} \X Names
        BY <1>1, <3>2 DEF JobSucceeds
      <4> QED
        BY <3>2, <4>1 DEF Verified, Running
    <3> QED
      BY <1>1, <1>7, <3>1, <3>2, SuccessStep
  <2> QED
    BY <1>2, <1>3, <1>4, <1>5, <2>1
<1> QED
  BY <1>6, <1>7 DEF Verified, VerifyJob, Indexes
\* What a run found is fixed when it starts and has built nothing.
LEMMA OccupiedStep ==
    ASSUME WorkflowTypeOK, [WorkflowNext]_workflowVars, NEW r \in Runs
    PROVE  \/ occupied'[r] = occupied[r]
           \/ /\ StartRun /\ occupied'[r] = Visible
              /\ bundle[r] = NoBundle /\ status[r]["preflight-indexes"] = "waiting"
<1>1. CASE StartRun
  BY <1>1 DEF StartRun, WorkflowTypeOK
<1>2. CASE EndRun \/ CancelRun \/ PushTag \/ Build \/ UNCHANGED workflowVars
  BY <1>2 DEF EndRun, CancelRun, PushTag, Build, workflowVars
<1>3. CASE \E q \in Runs, j \in Jobs : Rerun(q, j)
  BY <1>3 DEF Rerun
<1>4. CASE \E j \in Jobs : StartJob(j) \/ JobFails(j) \/ JobSucceeds(j)
  BY <1>4 DEF StartJob, JobFails, JobSucceeds
<1>5. CASE \E j \in Jobs, i \in Indexes, f \in Names : AskAbsent(j, i, f) \/ Upload(j, i, f) \/ Verify(j, i, f)
  BY <1>5 DEF AskAbsent, Upload, Verify, Progresses
<1>6. CASE \E i \in Indexes, f \in Names : UploadByHand(i, f) \/ Show(i, f)
  BY <1>6 DEF UploadByHand, Show
<1> QED
  BY <1>1, <1>2, <1>3, <1>4, <1>5, <1>6, StepCases

\* What was in use when a run's turn came and found absent since has been deleted
\* and stays so.
LEMMA AbsenceStep ==
    ASSUME WorkflowTypeOK, Ordered, OneJob, Absence, [WorkflowNext]_workflowVars
    PROVE  Absence'
<1>1. "preflight-indexes" \in Jobs /\ Work("preflight-indexes") = Indexes \X Names
  BY DEF Jobs, Work
<1>2. \A r \in Runs : occupied[r] \subseteq Indexes \X Names
  BY DEF WorkflowTypeOK
<1>3. /\ \A p \in Indexes \X Names : files[p[1]][p[2]] # Free => files'[p[1]][p[2]] # Free
      /\ \A p \in Indexes \X Names : files[p[1]][p[2]] # Free /\ p \notin Visible => p \notin Visible'
  <2>1. CASE UNCHANGED workflowVars
    BY <2>1 DEF workflowVars, siteVars, Visible
  <2> QED
    BY <2>1, IndexStep
\* Pages that were in use and are not shown are not shown again.
<1>4. ASSUME NEW r \in Runs, NEW p \in occupied[r], p \notin Visible
      PROVE  p \notin Visible'
  BY <1>2, <1>3, <1>4 DEF Absence
<1>5. ASSUME NEW r \in Runs, NEW p \in occupied'[r]
      PROVE  files'[p[1]][p[2]] # Free
  <2>1. CASE occupied'[r] = occupied[r]
    BY <1>2, <1>3, <1>5, <2>1 DEF Absence
  <2>2. CASE StartRun /\ occupied'[r] = Visible
    BY <1>3, <1>5, <2>2 DEF Visible
  <2> QED
    BY <2>1, <2>2, OccupiedStep
<1>6. ASSUME Running("preflight-indexes")', NEW p \in progress' \intersect occupied'[active']
      PROVE  p \notin Visible'
  <2>1. CASE StartJob("preflight-indexes")
    BY <1>6, <2>1 DEF StartJob, OneJob
  <2>2. CASE Running("preflight-indexes") /\ active' = active
    <3>1. active \in Runs /\ active # NoRun
      BY <2>2, JobOfActive DEF Running
    <3>2. p \in occupied[active]
      BY <1>6, <2>2, <3>1, OccupiedStep DEF StartRun
    <3>3. CASE p \in progress
      BY <1>4, <2>2, <3>1, <3>2, <3>3 DEF Absence
    <3>4. CASE \E j \in Jobs, i \in Indexes, f \in Names :
                  p = <<i, f>> /\ (AskAbsent(j, i, f) \/ Upload(j, i, f) \/ Verify(j, i, f))
      <4>1. PICK j \in Jobs, i \in Indexes, f \in Names :
                p = <<i, f>> /\ (AskAbsent(j, i, f) \/ Upload(j, i, f) \/ Verify(j, i, f))
        BY <3>4
      <4>2. j = "preflight-indexes"
        BY <1>1, <2>2, <4>1 DEF OneJob, AskAbsent, Upload, Verify
      <4>3. p \notin Visible
        BY <4>1, <4>2 DEF AskAbsent, Upload, Verify
      <4> QED
        BY <1>4, <3>1, <3>2, <4>3
    <3> QED
      BY <1>6, <3>3, <3>4, ProgressStep
  <2> QED
    BY <1>1, <1>6, <2>1, <2>2, RunningStep
<1>7. ASSUME NEW r \in Runs, status'[r]["preflight-indexes"] = "success" \/ bundle'[r] # NoBundle
      PROVE  occupied'[r] \intersect Visible' = {}
  <2>1. occupied'[r] = occupied[r]
    BY <1>7, OccupiedStep DEF StartRun
  <2>2. CASE status[r]["preflight-indexes"] = "success" \/ bundle[r] # NoBundle
    BY <1>4, <2>1, <2>2 DEF Absence
  <2>3. CASE r = active /\ JobSucceeds("preflight-indexes")
    BY <1>1, <1>2, <1>4, <2>1, <2>3 DEF JobSucceeds, Absence
  <2>4. CASE Build /\ r = active
    <3>1. <<"build", "preflight-indexes">> \in Needs /\ status[active]["build"] = "running"
      BY <2>4 DEF Needs, Build, Running
    <3>2. status[r]["preflight-indexes"] = "success"
      BY <2>4, <3>1 DEF Ordered
    <3> QED
      BY <2>2, <3>2
  <2>5. CASE bundle'[r] # bundle[r]
    <3>1. Build
      BY <2>5, BundleKept
    <3>2. r = active
      BY <2>5, <3>1 DEF Build, WorkflowTypeOK
    <3> QED
      BY <2>4, <3>1, <3>2
  <2> QED
    BY <1>1, <1>7, <2>2, <2>3, <2>5, SuccessStep
<1> QED
  BY <1>5, <1>6, <1>7 DEF Absence

-----------------------------------------------------------------------------

\* The invariant holds in the first state and in every state after.
LEMMA InvariantHolds == WorkflowSpec => []WorkflowIInv
<1>1. WorkflowInit => WorkflowIInv
  <2> SUFFICES ASSUME WorkflowInit PROVE WorkflowIInv
    OBVIOUS
  <2>1. WorkflowTypeOK
    BY WorkflowAssumption DEF WorkflowInit, WorkflowTypeOK, NoRun
  <2>2. \A r \in Runs, j \in Jobs : status[r][j] = "waiting"
    BY DEF WorkflowInit
  <2>3. Ordered /\ Bundled
    BY <2>2, NeedsAreJobs DEF Ordered, Bundled, Jobs
  <2>4. OneJob /\ Verified /\ Absence
    <3>1. \A i \in Indexes : VerifyJob[i] \in Jobs
      BY DEF VerifyJob, Jobs
    <3> QED
      BY <2>2, <3>1 DEF WorkflowInit, OneJob, Verified, Absence, Running, VerifyJob, Jobs
  <2> QED
    BY <2>1, <2>3, <2>4 DEF WorkflowIInv
<1>2. WorkflowIInv /\ [WorkflowNext]_workflowVars => WorkflowIInv'
  BY WorkflowTypeStep, OrderStep, BundledStep, VerifiedStep, AbsenceStep DEF WorkflowIInv
<1> QED
  BY <1>1, <1>2, PTL DEF WorkflowSpec

\* The state of the workflow keeps its shape: one run has the turn, its jobs are
\* the ones that run, and what waits is another run.
THEOREM WorkflowTypeCorrect == WorkflowSpec => []WorkflowTypeOK
<1>1. WorkflowIInv => WorkflowTypeOK
  BY DEF WorkflowIInv
<1> QED
  BY <1>1, InvariantHolds, PTL

\* A run that ends well has released its bundle on both indexes, and no run adds
\* to what it found there, whatever is run again, cancelled, or done by others.
THEOREM ReleaseIsSound == WorkflowSpec => []WorkflowSound
<1>1. WorkflowIInv => GreenIsReleased
  <2> SUFFICES ASSUME WorkflowIInv, NEW r \in Runs, status[r]["verify-pypi"] = "success",
                      NEW i \in Indexes, NEW f \in Names
               PROVE  files[i][f] = bundle[r]
    BY DEF GreenIsReleased
  <2>1. VerifyJob["pypi"] = "verify-pypi" /\ VerifyJob["testpypi"] = "verify-testpypi"
        /\ "pypi" \in Indexes /\ i \in {"pypi", "testpypi"}
    BY DEF VerifyJob, Indexes
  <2>2. status[r]["verify-testpypi"] = "success"
    BY <2>1, VerifyingIsBuilt DEF WorkflowIInv
  <2>3. status[r][VerifyJob[i]] = "success"
    BY <2>1, <2>2
  <2> QED
    BY <2>3 DEF WorkflowIInv, Verified
<1>2. WorkflowIInv => NothingOnTop
  BY DEF WorkflowIInv, Absence, NothingOnTop
<1>3. WorkflowIInv => WorkflowSound
  BY <1>1, <1>2 DEF WorkflowSound
<1> QED
  BY <1>3, InvariantHolds, PTL

\* An upload to an index stages or promotes a file, and nothing else changes
\* what the workflow has put on the indexes.
LEMMA StagedStep ==
    ASSUME WorkflowIInv, [WorkflowNext]_workflowVars
    PROVE  [Staged!StagedNext]_(Staged!stagedVars)
<1> USE DEF WorkflowIInv
<1>1. \A b \in Builds : b # Free /\ b # Foreign
  BY WorkflowAssumption
<1>2. "testpypi" \in Indexes /\ "pypi" \in Indexes /\ Indexes = {"testpypi", "pypi"}
  BY DEF Indexes
<1>3. CASE \E j \in Jobs, i \in Indexes, f \in Names : Upload(j, i, f)
  <2>1. PICK j \in Jobs, i \in Indexes, f \in Names : Upload(j, i, f)
    BY <1>3
  <2>2. /\ Running(j) /\ j \in {"publish-testpypi", "publish-pypi"} /\ <<i, f>> \in Work(j)
        /\ files[i][f] \in {Free, bundle[active]}
        /\ files' = [files EXCEPT ![i][f] = bundle[active]]
    BY <2>1 DEF Upload, Progresses
  <2>3. /\ active \in Runs /\ bundle[active] \in Builds
        /\ j = "publish-pypi" => status[active]["verify-testpypi"] = "success"
    BY <2>2, UploadsBundle
  <2>4. i = IF j = "publish-testpypi" THEN "testpypi" ELSE "pypi"
    BY <2>2 DEF Work
  <2>5. CASE files[i][f] = bundle[active]
    <3>1. files' = files
      BY <2>2, <2>5 DEF WorkflowTypeOK
    <3> QED
      BY <3>1 DEF FilesOn, Staged!stagedVars
  <2>6. CASE files[i][f] = Free /\ j = "publish-testpypi"
    <3>1. FilesOn("testpypi")[f] = Free
      BY <1>1, <2>4, <2>6 DEF FilesOn
    <3>2. FilesOn("testpypi")' = [FilesOn("testpypi") EXCEPT ![f] = bundle[active]]
      BY <1>2, <2>2, <2>3, <2>4, <2>6 DEF FilesOn, WorkflowTypeOK
    <3>3. FilesOn("pypi")' = FilesOn("pypi")
      BY <1>2, <2>2, <2>4, <2>6 DEF FilesOn, WorkflowTypeOK
    <3>4. Staged!Stage(f, bundle[active])
      BY <3>1, <3>2, <3>3 DEF Staged!Stage
    <3> QED
      BY <2>3, <3>4 DEF Staged!StagedNext
  <2>7. CASE files[i][f] = Free /\ j = "publish-pypi"
    <3>1. FilesOn("pypi")[f] = Free
      BY <1>1, <2>4, <2>7 DEF FilesOn
    <3>2. FilesOn("pypi")' = [FilesOn("pypi") EXCEPT ![f] = bundle[active]]
      BY <1>2, <2>2, <2>3, <2>4, <2>7 DEF FilesOn, WorkflowTypeOK
    <3>3. FilesOn("testpypi")' = FilesOn("testpypi")
      BY <1>2, <2>2, <2>4, <2>7 DEF FilesOn, WorkflowTypeOK
    <3>4. \A g \in Names : files["testpypi"][g] = bundle[active]
      BY <1>2, <2>3, <2>7 DEF Verified, VerifyJob
    <3>5. \A g \in Names : FilesOn("testpypi")[g] = bundle[active]
      BY <2>3, <3>4 DEF FilesOn
    <3>6. Staged!Promote(f, bundle[active])
      BY <3>1, <3>2, <3>3, <3>5 DEF Staged!Promote
    <3> QED
      BY <2>3, <3>6 DEF Staged!StagedNext
  <2> QED
    BY <2>2, <2>5, <2>6, <2>7
<1>4. CASE \E i \in Indexes, f \in Names : UploadByHand(i, f)
  <2>1. PICK i \in Indexes, f \in Names : UploadByHand(i, f)
    BY <1>4
  <2>2. files[i][f] = Free /\ files' = [files EXCEPT ![i][f] = Foreign]
    BY <2>1 DEF UploadByHand
  <2>3. \A h \in Indexes : FilesOn(h)' = FilesOn(h)
    BY <1>1, <2>2, WorkflowAssumption DEF FilesOn, WorkflowTypeOK
  <2> QED
    BY <1>2, <2>3 DEF Staged!stagedVars
<1>5. CASE files' = files
  BY <1>5 DEF FilesOn, Staged!stagedVars
<1>6. StartRun \/ EndRun \/ CancelRun \/ PushTag \/ Build \/ UNCHANGED workflowVars => files' = files
  BY DEF StartRun, EndRun, CancelRun, PushTag, Build, workflowVars, siteVars
<1>7. CASE \E r \in Runs, j \in Jobs : Rerun(r, j)
  BY <1>5, <1>7 DEF Rerun, siteVars
<1>8. CASE \E j \in Jobs : StartJob(j) \/ JobFails(j) \/ JobSucceeds(j)
  BY <1>5, <1>8 DEF StartJob, JobFails, JobSucceeds, siteVars
<1>9. CASE \E j \in Jobs, i \in Indexes, f \in Names : AskAbsent(j, i, f) \/ Verify(j, i, f)
  BY <1>5, <1>9 DEF AskAbsent, Verify
<1>10. CASE \E i \in Indexes, f \in Names : Show(i, f)
  BY <1>5, <1>10 DEF Show
<1> QED
  BY <1>3, <1>4, <1>5, <1>6, <1>7, <1>8, <1>9, <1>10, StepCases

\* The workflow implements staged release: production receives files of one build
\* only, when the staging index has all of that build.
THEOREM ReleaseIsStaged == WorkflowSpec => StagedFirst
<1>1. WorkflowInit => Staged!StagedInit
  BY WorkflowAssumption DEF WorkflowInit, Staged!StagedInit, FilesOn, Indexes
<1>2. WorkflowIInv /\ [WorkflowNext]_workflowVars => [Staged!StagedNext]_(Staged!stagedVars)
  BY StagedStep
<1> QED
  BY <1>1, <1>2, InvariantHolds, PTL DEF WorkflowSpec, StagedFirst, Staged!StagedSpec
=============================================================================
