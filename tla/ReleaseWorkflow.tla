----------------------------- MODULE ReleaseWorkflow -----------------------------
(***************************************************************************)
(* .github/workflows/publish.yml: a pushed version tag starts a run of     *)
(* seven jobs, each needing the one before it: both indexes are asked      *)
(* whether the release is absent, it is built once, the bundle is uploaded *)
(* to TestPyPI and verified there, PyPI is asked again, and the same       *)
(* bundle is uploaded to PyPI and verified.                                *)
(*                                                                         *)
(* The file says what the jobs do.  What GitHub and the indexes do with    *)
(* them is the environment: runs of one tag take turns, a waiting run is   *)
(* cancelled by a newer one, jobs fail or are cancelled at any moment and  *)
(* may be run again, with those that need them; an index takes one file    *)
(* per name, forever, and shows what is neither yanked nor deleted.        *)
(*                                                                         *)
(* A name stands for a project of the release with its wheel and its       *)
(* source distribution.  Pages are asked in order, files uploaded in any.  *)
(***************************************************************************)
EXTENDS Integers, FiniteSets

CONSTANTS
    Count,        \* the number of approved names
    MaxPushes,      \* bound: how often the tag is pushed
    MaxBuilds,    \* bound: how often the build job builds
    MaxTurns,     \* bound: how often the tag is pushed or jobs are run again
    MaxStrange,   \* bound: what others do to the indexes
    Free,         \* a name no file was uploaded under
    Foreign       \* the file of somebody else

Names == 1 .. Count
Indexes == {"testpypi", "pypi"}
Jobs == {"preflight-indexes", "build", "publish-testpypi", "verify-testpypi",
         "preflight-pypi", "publish-pypi", "verify-pypi"}
Runs == 1 .. MaxPushes
Builds == 1 .. MaxBuilds
NoRun == 0
NoBundle == 0

ASSUME WorkflowAssumption ==
    /\ Count \in Nat /\ MaxPushes \in Nat /\ MaxBuilds \in Nat /\ MaxTurns \in Nat /\ MaxStrange \in Nat
    /\ Free \notin Builds /\ Foreign \notin Builds /\ Free # Foreign

VARIABLES
    tag,        \* the commit that the tag names; commits are numbered by the push
                \* that first brought them
    pushed,     \* runs so far
    sha,        \* GITHUB_SHA of each run
    waiting,    \* the run that waits for its turn, at most one
    active,     \* the run whose turn it is
    status,     \* of each job of each run
    progress,   \* the pages the running job has asked for, or the files it has uploaded;
                \* none when no job runs
    bundle,     \* the build in the run's artifact, immutable while it exists
    built,      \* builds so far
    reruns,     \* how often jobs were run again
    files,      \* the file an index has under a name
    shown,      \* "listed", "yanked" or "deleted"
    strange,    \* what others did to the indexes so far
    occupied    \* history: the names visible before the run asked and built

githubVars == <<tag, pushed, sha, waiting, active, reruns>>
siteVars   == <<files, shown, strange>>
workflowVars == <<githubVars, siteVars, status, progress, bundle, built, occupied>>

WorkflowTypeOK ==
    /\ tag \in 0 .. pushed
    /\ pushed \in 0 .. MaxPushes /\ waiting \in 0 .. pushed /\ active \in 0 .. pushed
    /\ sha \in [Runs -> 0 .. pushed]
    /\ status \in [Runs -> [Jobs -> {"waiting", "running", "success", "failure", "skipped"}]]
    /\ progress \subseteq Indexes \X Names
    /\ bundle \in [Runs -> {NoBundle} \union Builds] /\ built \in 0 .. MaxBuilds
    /\ reruns \in 0 .. MaxTurns /\ strange \in 0 .. MaxStrange
    /\ files \in [Indexes -> [Names -> {Free, Foreign} \union Builds]]
    /\ shown \in [Indexes -> [Names -> {"listed", "yanked", "deleted"}]]
    /\ occupied \in [Runs -> SUBSET (Indexes \X Names)]
    /\ active # NoRun => waiting # active
    /\ \A r \in Runs, j \in Jobs : status[r][j] = "running" => r = active

----------------------------------------------------------------------------------
(* The graph of jobs.                                                             *)

NeedsUnverified ==    \* mutant: production needs the build only
    {<<"build", "preflight-indexes">>, <<"publish-testpypi", "build">>,
     <<"verify-testpypi", "publish-testpypi">>, <<"preflight-pypi", "build">>,
     <<"publish-pypi", "preflight-pypi">>, <<"verify-pypi", "publish-pypi">>}
\* A job and the job it needs.
Needs ==
    {<<"build", "preflight-indexes">>, <<"publish-testpypi", "build">>,
     <<"verify-testpypi", "publish-testpypi">>, <<"preflight-pypi", "verify-testpypi">>,
     <<"publish-pypi", "preflight-pypi">>, <<"verify-pypi", "publish-pypi">>}

\* A job with everything that needs it, directly or not.
Dependents ==
    [j \in Jobs |-> {k \in Jobs : \A S \in SUBSET Jobs :
        j \in S /\ (\A n \in Needs : n[2] \in S => n[1] \in S) => k \in S}]

Ready(r, j) == \A n \in Needs : n[1] = j => status[r][n[2]] = "success"

Over(r, j) == status[r][j] \in {"success", "failure", "skipped"}

Running(j) == active # NoRun /\ status[active][j] = "running"

Startable(j) == active # NoRun /\ status[active][j] = "waiting" /\ Ready(active, j)

\* The pages that a job asks for, or uploads to.
Work(j) ==
    IF j = "preflight-indexes" THEN Indexes \X Names
    ELSE IF j \in {"publish-testpypi", "verify-testpypi"} THEN {"testpypi"} \X Names
    ELSE IF j \in {"preflight-pypi", "publish-pypi", "verify-pypi"} THEN {"pypi"} \X Names
    ELSE {}

\* TestPyPI is asked before PyPI, and the projects of an index in their order.
Precedes(p, q) ==
    \/ p[1] = q[1] /\ p[2] < q[2]
    \/ p[1] = "testpypi" /\ q[1] = "pypi"
Turn(j, i, f) == \A p \in Work(j) : Precedes(p, <<i, f>>) => p \in progress

Visible == {page \in Indexes \X Names :
               files[page[1]][page[2]] # Free /\ shown[page[1]][page[2]] # "deleted"}

----------------------------------------------------------------------------------

WorkflowInit ==
    /\ tag = 0
    /\ pushed = 0 /\ waiting = NoRun /\ active = NoRun /\ reruns = 0
    /\ sha = [r \in Runs |-> 0]
    /\ status = [r \in Runs |-> [j \in Jobs |-> "waiting"]]
    /\ progress = {} /\ built = 0 /\ bundle = [r \in Runs |-> NoBundle]
    /\ files = [i \in Indexes |-> [f \in Names |-> Free]]
    /\ shown = [i \in Indexes |-> [f \in Names |-> "listed"]]
    /\ strange = 0 /\ occupied = [r \in Runs |-> {}]

(* Runs take turns.                                                               *)

Cancelled(jobs) ==
    [j \in Jobs |-> IF jobs[j] = "running" THEN "failure"
                    ELSE IF jobs[j] = "waiting" THEN "skipped" ELSE jobs[j]]

\* A run waits for its turn; the one that waited before it is cancelled.
Queue(r, jobs) ==
    /\ waiting' = r
    /\ status' = [q \in Runs |-> IF q = r THEN jobs
                                 ELSE IF q = waiting THEN Cancelled(status[q]) ELSE status[q]]

\* The tag is pushed, or moved and pushed again.
PushTag ==
    /\ pushed < MaxPushes /\ pushed + reruns < MaxTurns
    /\ pushed' = pushed + 1
    /\ tag' \in 1 .. pushed'
    /\ sha' = [sha EXCEPT ![pushed + 1] = tag']
    /\ Queue(pushed + 1, [j \in Jobs |-> "waiting"])
    /\ UNCHANGED <<active, reruns, siteVars, progress, bundle, built, occupied>>

RerunAnyTime(r, j) ==    \* mutant: jobs of a run that has not ended are run again
    /\ pushed + reruns < MaxTurns
    /\ r \in 1 .. pushed
    /\ Over(r, j) /\ Ready(r, j)
    /\ reruns' = reruns + 1
    /\ Queue(r, [k \in Jobs |-> IF k \in Dependents[j] THEN "waiting" ELSE status[r][k]])
    /\ UNCHANGED <<tag, pushed, sha, active, siteVars, progress, bundle, built, occupied>>
RerunAlone(r, j) ==    \* mutant: the jobs that need it keep their results
    /\ pushed + reruns < MaxTurns
    /\ r \in 1 .. pushed /\ r \notin {active, waiting}
    /\ Over(r, j) /\ Ready(r, j)
    /\ reruns' = reruns + 1
    /\ Queue(r, [status[r] EXCEPT ![j] = "waiting"])
    /\ UNCHANGED <<tag, pushed, sha, active, siteVars, progress, bundle, built, occupied>>
\* Someone runs a job again, with all that need it: the failed one, any that
\* succeeded, or the first and so all.
Rerun(r, j) ==
    /\ pushed + reruns < MaxTurns
    /\ r \in 1 .. pushed /\ r \notin {active, waiting}
    /\ Over(r, j) /\ Ready(r, j)
    /\ reruns' = reruns + 1
    /\ Queue(r, [k \in Jobs |-> IF k \in Dependents[j] THEN "waiting" ELSE status[r][k]])
    /\ UNCHANGED <<tag, pushed, sha, active, siteVars, progress, bundle, built, occupied>>

StartRun ==
    /\ active = NoRun /\ waiting # NoRun
    /\ active' = waiting /\ waiting' = NoRun
    /\ occupied' = IF bundle[waiting] = NoBundle /\ status[waiting]["preflight-indexes"] = "waiting"
                   THEN [occupied EXCEPT ![waiting] = Visible] ELSE occupied
    /\ UNCHANGED <<tag, pushed, sha, reruns, siteVars, status, progress, bundle, built>>

\* A job that needs one which did not succeed is skipped.
EndRun ==
    /\ active # NoRun
    /\ \A j \in Jobs : ~ Running(j) /\ ~ Startable(j)
    /\ active' = NoRun
    /\ status' = [status EXCEPT ![active] = Cancelled(@)]
    /\ UNCHANGED <<tag, pushed, sha, reruns, waiting, siteVars, progress, bundle, built, occupied>>

CancelRun ==
    /\ active # NoRun
    /\ \E j \in Jobs : ~ Over(active, j)
    /\ status' = [status EXCEPT ![active] = Cancelled(@)]
    /\ progress' = {}
    /\ UNCHANGED <<githubVars, siteVars, bundle, built, occupied>>

----------------------------------------------------------------------------------
(* Jobs.                                                                          *)

JobBecomes(j, conclusion) == status' = [status EXCEPT ![active][j] = conclusion]

\* publish-pypi starts when its environment's reviewer approves.
StartJob(j) ==
    /\ Startable(j)
    /\ \A k \in Jobs : ~ Running(k)
    /\ JobBecomes(j, "running")
    /\ UNCHANGED <<githubVars, siteVars, progress, bundle, built, occupied>>

JobFailsRetried(j) ==    \* mutant: a failed job starts over by itself
    /\ Running(j)
    /\ JobBecomes(j, "waiting")
    /\ progress' = {}
    /\ UNCHANGED <<githubVars, siteVars, bundle, built, occupied>>
\* A present page where none may be, a missing or other file, a refused upload,
\* a damaged bundle, a failing smoke test, a reviewer's refusal, a lost runner.
JobFails(j) ==
    /\ Running(j)
    /\ JobBecomes(j, "failure")
    /\ progress' = {}
    /\ UNCHANGED <<githubVars, siteVars, bundle, built, occupied>>

\* All pages asked, or all files uploaded.
JobSucceeds(j) ==
    /\ Running(j) /\ j # "build"
    /\ progress = Work(j)
    /\ JobBecomes(j, "success")
    /\ progress' = {}
    /\ UNCHANGED <<githubVars, siteVars, bundle, built, occupied>>

Progresses(j, i, f) ==
    /\ <<i, f>> \in Work(j) \ progress
    /\ progress' = progress \union {<<i, f>>}
    /\ UNCHANGED <<githubVars, shown, strange, status, bundle, built, occupied>>

AskAbsentOnTest(j, i, f) ==    \* mutant: PyPI is not asked before the build
    /\ Running(j) /\ j \in {"preflight-indexes", "preflight-pypi"} /\ Turn(j, i, f)
    /\ (j = "preflight-indexes" /\ i = "pypi") \/ <<i, f>> \notin Visible
    /\ Progresses(j, i, f)
    /\ UNCHANGED files
\* verify_index_release.py --require-absent, a project.
AskAbsent(j, i, f) ==
    /\ Running(j) /\ j \in {"preflight-indexes", "preflight-pypi"} /\ Turn(j, i, f)
    /\ <<i, f>> \notin Visible
    /\ Progresses(j, i, f)
    /\ UNCHANGED files

\* The tag still names the run's commit. The bundle is stored once; if one of an
\* earlier attempt is there, it is replaced or the job fails. A job may fail
\* with its bundle stored.
Build ==
    /\ Running("build")
    /\ sha[active] = tag
    /\ built < MaxBuilds
    /\ built' = built + 1
    /\ bundle' = [bundle EXCEPT ![active] = built + 1]
    /\ \E conclusion \in {"success", "failure"} : JobBecomes("build", conclusion)
    /\ UNCHANGED <<githubVars, siteVars, progress, occupied>>

\* No skip-existing: a name in use fails the job, unless with the same bytes,
\* which an index may take for done.
Upload(j, i, f) ==
    /\ Running(j) /\ j \in {"publish-testpypi", "publish-pypi"}
    /\ files[i][f] \in {Free, bundle[active]}
    /\ Progresses(j, i, f)
    /\ files' = [files EXCEPT ![i][f] = bundle[active]]

\* verify_index_release.py --manifest, a project: found exact at some moment of
\* the job, in one of the attempts that ReleaseVerification models.
Verify(j, i, f) ==
    /\ Running(j) /\ j \in {"verify-testpypi", "verify-pypi"} /\ Turn(j, i, f)
    /\ files[i][f] = bundle[active] /\ shown[i][f] = "listed"
    /\ Progresses(j, i, f)
    /\ UNCHANGED files

----------------------------------------------------------------------------------
(* What others do to the indexes.                                                 *)

\* The owner of a project uploads by hand, under a name not used yet.
UploadByHand(i, f) ==
    /\ strange < MaxStrange /\ strange' = strange + 1
    /\ files[i][f] = Free
    /\ files' = [files EXCEPT ![i][f] = Foreign]
    /\ UNCHANGED <<githubVars, shown, status, progress, bundle, built, occupied>>

\* A file is yanked, brought back, or deleted; its name is not free again.
Show(i, f) ==
    /\ strange < MaxStrange /\ strange' = strange + 1
    /\ files[i][f] # Free /\ shown[i][f] # "deleted"
    /\ \E how \in {"listed", "yanked", "deleted"} \ {shown[i][f]} :
          shown' = [shown EXCEPT ![i][f] = how]
    /\ UNCHANGED <<githubVars, files, status, progress, bundle, built, occupied>>

----------------------------------------------------------------------------------

JobStep(j) ==
    \/ StartJob(j) \/ JobFails(j) \/ JobSucceeds(j)
    \/ \E i \in Indexes, f \in Names : AskAbsent(j, i, f) \/ Upload(j, i, f) \/ Verify(j, i, f)

WorkflowStep == StartRun \/ EndRun \/ Build \/ \E j \in Jobs : JobStep(j)

Nobody == active = NoRun /\ waiting = NoRun /\ UNCHANGED workflowVars

WorkflowNext ==
    \/ WorkflowStep \/ PushTag \/ CancelRun
    \/ \E r \in Runs, j \in Jobs : Rerun(r, j)
    \/ \E i \in Indexes, f \in Names : UploadByHand(i, f) \/ Show(i, f)
    \/ Nobody

\* GitHub starts what can start and ends what has no time left: steps, approvals
\* and whole jobs have deadlines. Nothing is assumed of people.
WorkflowSpec == WorkflowInit /\ [][WorkflowNext]_workflowVars /\ WF_workflowVars(WorkflowStep)

----------------------------------------------------------------------------------
(* Properties.                                                                    *)

\* A run that ends well has released its bundle: both indexes have received all
\* of it and nothing else under its names, whatever was run again on the way.
GreenIsReleased ==
    \A r \in Runs : status[r]["verify-pypi"] = "success" =>
        \A i \in Indexes, f \in Names : files[i][f] = bundle[r]

\* The clean-publication workflow never completes what it finds begun: if an
\* index showed anything of the release when the run's turn came to ask, then no
\* file of the run is on any index before that is deleted.
NothingOnTop ==
    \A r \in Runs : \A i \in Indexes, f \in Names :
        bundle[r] # NoBundle /\ files[i][f] = bundle[r] =>
            occupied[r] \intersect Visible = {}

\* Both hold, for every run.
WorkflowSound == GreenIsReleased /\ NothingOnTop

\* The workflow's files under each name, as the promise sees them.
FilesOn(i) == [f \in Names |-> IF files[i][f] \in Builds THEN files[i][f] ELSE Free]

Staged == INSTANCE StagedRelease
    WITH None <- Free, staging <- FilesOn("testpypi"), production <- FilesOn("pypi")

\* Production receives files of one build only, when TestPyPI has received all of
\* that build, across runs, builds, failures and jobs run again.
StagedFirst == Staged!StagedSpec

\* A run whose turn it is ends, so that the next one gets its turn.
RunsEnd == \A r \in Runs : active = r ~> active # r
==================================================================================
