----------------------------- MODULE NightlyCrawl -----------------------------
(***************************************************************************)
(* The workflow "Crawl and publish" (.github/workflows/crawl.yml): a job   *)
(* that fetches typos.db from the release "data-snapshot", runs the stages *)
(* of the pipeline on it, builds the dashboard, puts typos.db back and     *)
(* publishes the dashboard.  Nothing but the release asset survives a job. *)
(*                                                                         *)
(* A database is seen here as the stage each repository has reached in it. *)
(* What the commands do inside a stage is the business of FetchRun and     *)
(* FindingStore; here a stage takes some repositories one level up.        *)
(***************************************************************************)
EXTENDS Integers, FiniteSets

CONSTANTS
    Repo,        \* repositories there are to crawl
    NoAsset,     \* there is no typos.db in the release
    Flaky,       \* what may go wrong, of Mishap
    MaxFaults    \* bound: how many of them happen, each once at most

\* The levels of a repository, each reached by the command of that name
Discovered == 1
Fetched    == 2
Checked    == 3
Verified   == 4
Level      == 0 .. Verified

\* A download, a command or an upload that fails, the time limit
Mishap     == {"restore", "command", "save", "timeout"}

ASSUME CrawlAssumption ==
    /\ NoAsset \notin [Repo -> Level]
    /\ Flaky \subseteq Mishap
    /\ MaxFaults \in Nat

VARIABLES
    step,      \* the step of the job about to run; "none" between jobs
    db,        \* typos.db on the runner
    asset,     \* typos.db in the release, or NoAsset
    built,     \* the dashboard in site/
    site,      \* the dashboard published
    saved,     \* history: typos.db as last saved, whatever became of the asset
    faults     \* the mishaps so far

vars == <<step, db, asset, built, site, saved, faults>>

Database == [Repo -> Level]
Fresh    == [r \in Repo |-> 0]

\* Database e has everything database d has.
Keeps(d, e) == \A r \in Repo : d[r] <= e[r]

\* (mutated: a missing asset is not provided for)
MutContent(a) == a

\* What a release asset holds
Content(a) == IF a = NoAsset THEN Fresh ELSE a

Following ==
    [restore  |-> "discover", discover |-> "fetch",  fetch |-> "check",
     check    |-> "verify",   verify   |-> "report", report |-> "save",
     save     |-> "deploy",   upload   |-> "deploy", deploy |-> "none"]

Fault(what) ==
    /\ what \in Flaky
    /\ what \notin faults
    /\ Cardinality(faults) < MaxFaults
    /\ faults' = faults \cup {what}

\* The job ends: the runner and its files are gone.
EndJob == step' = "none" /\ db' = Fresh /\ built' = Fresh

Init ==
    /\ step = "none"
    /\ db = Fresh /\ asset = NoAsset /\ saved = Fresh
    /\ built = Fresh /\ site = Fresh
    /\ faults = {}

-----------------------------------------------------------------------------
(* The steps of the job                                                    *)

\* The schedule, or someone, starts a job; the concurrency group admits one.
Start ==
    /\ step = "none"
    /\ step' = "restore"
    /\ UNCHANGED <<db, asset, built, site, saved, faults>>

\* (mutated: every job starts afresh)
MutRestore ==
    /\ step = "restore"
    /\ step' = Following[step]
    /\ db' = Fresh
    /\ UNCHANGED <<asset, built, site, saved, faults>>

\* The asset is downloaded; when there is none the job starts with an empty
\* database.  The migrations that follow change no row.
Restore ==
    /\ step = "restore"
    /\ step' = Following[step]
    /\ db' = Content(asset)
    /\ UNCHANGED <<asset, built, site, saved, faults>>

\* A download that fails for any other reason looks the same to the step.
RestoreFails ==
    /\ step = "restore"
    /\ Fault("restore")
    /\ step' = Following[step]
    /\ db' = Fresh
    /\ UNCHANGED <<asset, built, site, saved>>

\* A stage takes the repositories of P from the level below to its own.
Advance(P, level) ==
    /\ P \subseteq {r \in Repo : db[r] = level - 1}
    /\ db' = [r \in Repo |-> IF r \in P THEN level ELSE db[r]]

\* discover and fetch commit what they get: an organisation with an error, a
\* limit or the rate limit leaves the rest for another night.  check takes all
\* there is.  verify stops without an error when the LLM fails.
Stage ==
    /\ step \in {"discover", "fetch", "check", "verify"}
    /\ \E P \in SUBSET Repo :
          CASE step = "discover" -> Advance(P, Discovered)
            [] step = "fetch"    -> Advance(P, Fetched)
            [] step = "check"    -> P = {r \in Repo : db[r] = Fetched} /\ Advance(P, Checked)
            [] step = "verify"   -> Advance(P, Verified)
    /\ step' = Following[step]
    /\ UNCHANGED <<asset, built, site, saved, faults>>

\* (mutated: a job goes on after any failure)
MutStageFails ==
    /\ step \in {"discover", "fetch", "check", "verify"}
    /\ Fault("command")
    /\ step' = Following[step]
    /\ UNCHANGED <<db, asset, built, site, saved>>

\* A command exits with an error after part of its work; only verify may do so
\* without ending the job.
StageFails ==
    /\ step \in {"discover", "fetch", "check", "verify"}
    /\ Fault("command")
    /\ IF step = "verify"
       THEN /\ \E P \in SUBSET Repo : Advance(P, Verified)
            /\ step' = Following[step]
            /\ UNCHANGED built
       ELSE EndJob
    /\ UNCHANGED <<asset, site, saved>>

\* (mutated: the dashboard shows the database as it was restored)
MutReport ==
    /\ step = "report"
    /\ built' = Content(asset)
    /\ step' = Following[step]
    /\ UNCHANGED <<db, asset, site, saved, faults>>

Report ==
    /\ step = "report"
    /\ built' = db
    /\ step' = Following[step]
    /\ UNCHANGED <<db, asset, site, saved, faults>>

\* (mutated: an existing asset is not replaced)
MutSave ==
    /\ step = "save"
    /\ asset' = IF asset = NoAsset THEN db ELSE asset
    /\ saved' = asset'
    /\ step' = "deploy"
    /\ UNCHANGED <<db, built, site, faults>>

\* gh release create, if there is no release, or gh release upload --clobber, which
\* first deletes the asset of that name, if there is one ...
Save ==
    /\ step = "save"
    /\ IF asset = NoAsset
       THEN asset' = db /\ saved' = db /\ step' = Following[step]
       ELSE asset' = NoAsset /\ step' = "upload" /\ UNCHANGED saved
    /\ UNCHANGED <<db, built, site, faults>>

\* ... and then uploads the new one.
Upload ==
    /\ step = "upload"
    /\ asset' = db
    /\ saved' = db
    /\ step' = Following[step]
    /\ UNCHANGED <<db, built, site, faults>>

\* Saving may fail in either half; the job goes on.
SaveFails ==
    /\ step \in {"save", "upload"}
    /\ Fault("save")
    /\ step' = Following[step]
    /\ UNCHANGED <<db, asset, built, site, saved>>

Deploy ==
    /\ step = "deploy"
    /\ site' = built
    /\ EndJob
    /\ UNCHANGED <<asset, saved, faults>>

\* The job is cancelled at its time limit, in whatever step; cut off in the upload
\* it counts as a save that failed.
Timeout ==
    /\ step # "none"
    /\ Fault(IF step = "upload" THEN "save" ELSE "timeout")
    /\ EndJob
    /\ UNCHANGED <<asset, site, saved>>

Job == Start \/ Restore \/ Stage \/ Report \/ Save \/ Upload \/ Deploy

Next == Job \/ RestoreFails \/ StageFails \/ SaveFails \/ Timeout

Spec == Init /\ [][Next]_vars

\* Jobs start every night and go on.  A repository that stays on its level in
\* job after job is taken up at some time: no organisation, no README and no
\* finding fails for ever.
Reaches(r, level) == Stage /\ db[r] = level - 1 /\ db'[r] = level

Fairness ==
    /\ WF_vars(Job)
    /\ \A r \in Repo : /\ SF_vars(Reaches(r, Discovered))
                       /\ SF_vars(Reaches(r, Fetched))
                       /\ SF_vars(Reaches(r, Verified))

FairSpec == Spec /\ Fairness
-----------------------------------------------------------------------------
(* Properties                                                              *)

\* Every variable keeps its type.
TypeOK ==
    /\ step \in {"none", "restore", "discover", "fetch", "check", "verify",
                 "report", "save", "upload", "deploy"}
    /\ db \in Database /\ built \in Database /\ site \in Database
    /\ saved \in Database
    /\ asset \in Database \cup {NoAsset}
    /\ faults \subseteq Flaky

\* What is saved, and what is published, is the work of a job that got as far as
\* its report: no README stands there fetched and not checked.
NothingHalfDone ==
    \A r \in Repo : site[r] # Fetched /\ Content(asset)[r] # Fetched

\* When the job publishes, the database in the release and the dashboard agree,
\* as long as saving works.
SavedIsPublished ==
    step = "deploy" /\ "save" \notin faults => asset = built /\ built = db

\* As long as downloads and uploads work, each job starts with all that was ever
\* saved, whatever commands fail and jobs time out in between.
ProgressKept ==
    [][step = "restore" /\ step' = "discover" /\ {"restore", "save"} \cap faults' = {}
          => Keeps(saved, db')]_vars

\* As long as they work, no job saves a database that is behind the one saved
\* before.
SavedNeverGoesBack ==
    [][{"restore", "save"} \cap faults = {} => Keeps(saved, saved')]_vars

\* In the end every repository is verified and published, also after the saved
\* database was lost.
EverythingPublished == \A r \in Repo : <>[](site[r] = Verified)

-----------------------------------------------------------------------------
(* A statement of the source that the code does not keep                   *)

\* README.md:99: the workflow restores the database and re-saves it, "so progress
\* (discovery, fetches, verify verdicts) persists between runs".
ProgressPersists ==
    [][step = "restore" /\ step' = "discover" => Keeps(saved, db')]_vars
=============================================================================
