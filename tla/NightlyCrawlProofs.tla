-------------------------- MODULE NightlyCrawlProofs --------------------------
(***************************************************************************)
(* The safety properties of the nightly workflow, for any set of           *)
(* repositories and any mishaps.  The argument follows the database: as    *)
(* long as downloads and uploads work, the asset is what was last saved,   *)
(* the job starts with it, and stages only add to it.                      *)
(***************************************************************************)
EXTENDS NightlyCrawl, TLAPS

\* From verify on, the database has no README that is fetched and not checked;
\* nor has what was built, saved or published from it.
NothingUnchecked ==
    /\ step \in {"verify", "report", "save", "upload", "deploy"} =>
          \A r \in Repo : db[r] # Fetched
    /\ \A r \in Repo : built[r] # Fetched /\ saved[r] # Fetched
    /\ NothingHalfDone

\* The dashboard is built from the database that is then saved.
BuiltIsDb == step \in {"save", "upload", "deploy"} => built = db

\* As long as saving works, the asset is what was last saved, except while it is
\* being replaced.
AssetIsSaved == "save" \notin faults /\ step # "upload" => Content(asset) = saved

\* As long as downloads work too, the job has all that was saved.
DbKeepsSaved ==
    /\ {"restore", "save"} \cap faults = {}
    /\ step \in {"discover", "fetch", "check", "verify", "report", "save", "upload"}
    => Keeps(saved, db)

CrawlInv ==
    /\ TypeOK
    /\ NothingUnchecked
    /\ BuiltIsDb
    /\ SavedIsPublished
    /\ AssetIsSaved
    /\ DbKeepsSaved

-----------------------------------------------------------------------------
(* Lemmas                                                                  *)

LEMMA FollowingSteps ==
    /\ Following["restore"] = "discover" /\ Following["discover"] = "fetch"
    /\ Following["fetch"] = "check"      /\ Following["check"] = "verify"
    /\ Following["verify"] = "report"    /\ Following["report"] = "save"
    /\ Following["save"] = "deploy"      /\ Following["upload"] = "deploy"
    /\ Following["deploy"] = "none"
BY DEF Following

\* A stage gives a database that has all the old one had.
LEMMA AdvanceKeeps ==
    ASSUME db \in Database, NEW P, NEW level \in 1 .. Verified, Advance(P, level)
    PROVE  /\ db' \in Database
           /\ Keeps(db, db')
           /\ level = Verified /\ (\A r \in Repo : db[r] # Fetched)
                => \A r \in Repo : db'[r] # Fetched
           /\ level = Checked /\ P = {r \in Repo : db[r] = Fetched}
                => \A r \in Repo : db'[r] # Fetched
<1>1. P \subseteq {r \in Repo : db[r] = level - 1}
      /\ db' = [r \in Repo |-> IF r \in P THEN level ELSE db[r]]
  BY DEF Advance
<1>2. \A r \in Repo : db[r] \in 0 .. 4
  BY DEF Database, Level, Verified
<1>3. db' \in Database
  BY <1>1, <1>2 DEF Database, Level, Verified
<1>4. Keeps(db, db')
  BY <1>1, <1>2 DEF Keeps, Verified
<1> QED BY <1>1, <1>2, <1>3, <1>4 DEF Fetched, Checked, Verified

\* What one database keeps of another, a third keeps that keeps the one.
LEMMA KeepsTransitive ==
    ASSUME NEW d \in Database, NEW e \in Database, NEW f \in Database,
           Keeps(d, e), Keeps(e, f)
    PROVE  Keeps(d, f)
<1>1. \A r \in Repo : d[r] \in 0 .. 4 /\ e[r] \in 0 .. 4 /\ f[r] \in 0 .. 4
  BY DEF Database, Level, Verified
<1> QED BY <1>1 DEF Keeps

LEMMA FreshDatabase ==
    /\ Fresh \in Database
    /\ \A r \in Repo : Fresh[r] = 0
    /\ \A d \in Database : Keeps(Fresh, d) /\ Keeps(d, d)
<1>1. Fresh \in Database /\ \A r \in Repo : Fresh[r] = 0
  BY DEF Fresh, Database, Level, Verified
<1>2. \A d \in Database : \A r \in Repo : d[r] \in 0 .. 4
  BY DEF Database, Level, Verified
<1> QED BY <1>1, <1>2 DEF Keeps

LEMMA ContentDatabase ==
    ASSUME NEW a \in Database \cup {NoAsset}
    PROVE  Content(a) \in Database
BY FreshDatabase DEF Content

LEMMA InitCrawl == Init => CrawlInv
<1> SUFFICES ASSUME Init PROVE CrawlInv
  OBVIOUS
<1>1. TypeOK
  BY FreshDatabase, CrawlAssumption DEF Init, TypeOK
<1>2. NothingUnchecked
  BY FreshDatabase DEF Init, NothingUnchecked, NothingHalfDone, Content, Fetched
<1>3. BuiltIsDb /\ SavedIsPublished /\ AssetIsSaved /\ DbKeepsSaved
  BY FreshDatabase DEF Init, BuiltIsDb, SavedIsPublished, AssetIsSaved, DbKeepsSaved, Content
<1> QED BY <1>1, <1>2, <1>3 DEF CrawlInv

-----------------------------------------------------------------------------
(* Steps                                                                   *)

\* The end of a job touches neither the asset nor what was saved.
LEMMA EndJobInv ==
    ASSUME CrawlInv, EndJob, UNCHANGED <<asset, saved>>,
           faults' \subseteq Flaky, faults \subseteq faults',
           site' \in Database, \A r \in Repo : site'[r] # Fetched,
           step = "upload" => "save" \in faults'
    PROVE  CrawlInv'
<1> USE DEF CrawlInv
<1>1. TypeOK'
  BY FreshDatabase DEF TypeOK, EndJob
<1>2. NothingUnchecked'
  BY FreshDatabase DEF NothingUnchecked, NothingHalfDone, EndJob, Content, Fetched
<1>3. BuiltIsDb' /\ SavedIsPublished' /\ DbKeepsSaved'
  BY DEF BuiltIsDb, SavedIsPublished, DbKeepsSaved, EndJob
<1>4. AssetIsSaved'
  BY DEF AssetIsSaved, EndJob, Content
<1> QED BY <1>1, <1>2, <1>3, <1>4

\* A mishap is added to those so far.
LEMMA FaultGrows ==
    ASSUME TypeOK, NEW what, Fault(what)
    PROVE  faults' \subseteq Flaky /\ faults \subseteq faults' /\ what \in faults'
BY DEF Fault, TypeOK

\* A stage that does some of its work, or all of it, and lets the job go on.
LEMMA StageInv ==
    ASSUME CrawlInv, NEW P, NEW level \in 1 .. Verified, Advance(P, level),
           step \in {"discover", "fetch", "check", "verify"},
           step = "check" => level = Checked /\ P = {r \in Repo : db[r] = Fetched},
           step = "verify" => level = Verified,
           step' = Following[step],
           faults' \subseteq Flaky, faults \subseteq faults',
           UNCHANGED <<asset, built, site, saved>>
    PROVE  CrawlInv'
<1> USE DEF CrawlInv
<1>1. step' \in {"fetch", "check", "verify", "report"}
      /\ (step' \in {"verify", "report"} => step \in {"check", "verify"})
  BY FollowingSteps
<1>2. /\ db' \in Database /\ Keeps(db, db')
      /\ step \in {"check", "verify"} => \A r \in Repo : db'[r] # Fetched
  BY AdvanceKeeps DEF TypeOK, NothingUnchecked
<1>3. TypeOK'
  BY <1>1, <1>2 DEF TypeOK
<1>4. NothingUnchecked'
  BY <1>1, <1>2 DEF NothingUnchecked, NothingHalfDone, Content
<1>5. BuiltIsDb' /\ SavedIsPublished' /\ AssetIsSaved'
  BY <1>1 DEF BuiltIsDb, SavedIsPublished, AssetIsSaved, Content
<1>6. DbKeepsSaved'
  <2> SUFFICES ASSUME {"restore", "save"} \cap faults' = {} PROVE Keeps(saved', db')
    BY DEF DbKeepsSaved
  <2>1. Keeps(saved, db)
    BY DEF DbKeepsSaved
  <2> QED BY <2>1, <1>2, KeepsTransitive DEF TypeOK
<1> QED BY <1>3, <1>4, <1>5, <1>6

LEMMA StepCrawl == CrawlInv /\ [Next]_vars => CrawlInv'
<1> SUFFICES ASSUME CrawlInv, [Next]_vars PROVE CrawlInv'
  OBVIOUS
<1> USE DEF CrawlInv
<1>1. CASE Start
  <2>1. TypeOK'
    BY <1>1 DEF Start, TypeOK
  <2>2. NothingUnchecked'
    BY <1>1 DEF Start, NothingUnchecked, NothingHalfDone, Content
  <2>3. BuiltIsDb' /\ SavedIsPublished' /\ AssetIsSaved' /\ DbKeepsSaved'
    BY <1>1 DEF Start, BuiltIsDb, SavedIsPublished, AssetIsSaved, DbKeepsSaved, Content
  <2> QED BY <2>1, <2>2, <2>3
<1>2. CASE Restore
  <2>1. step' = "discover" /\ db' \in Database
    BY <1>2, FollowingSteps, ContentDatabase DEF Restore, TypeOK
  <2>2. TypeOK'
    BY <1>2, <2>1, FreshDatabase DEF Restore, TypeOK
  <2>3. NothingUnchecked'
    BY <1>2, <2>1 DEF Restore, NothingUnchecked, NothingHalfDone, Content
  <2>4. BuiltIsDb' /\ SavedIsPublished' /\ AssetIsSaved'
    BY <1>2, <2>1 DEF Restore, BuiltIsDb, SavedIsPublished, AssetIsSaved, Content
  <2>5. DbKeepsSaved'
    BY <1>2, FreshDatabase DEF Restore, DbKeepsSaved, AssetIsSaved, TypeOK
  <2> QED BY <2>2, <2>3, <2>4, <2>5
<1>3. CASE RestoreFails
  <2>1. step' = "discover"
    BY <1>3, FollowingSteps DEF RestoreFails
  <2>2. faults' \subseteq Flaky /\ faults \subseteq faults' /\ "restore" \in faults'
    BY <1>3, FaultGrows DEF RestoreFails
  <2>3. TypeOK'
    BY <1>3, <2>1, <2>2, FreshDatabase DEF RestoreFails, TypeOK
  <2>4. NothingUnchecked'
    BY <1>3, <2>1 DEF RestoreFails, NothingUnchecked, NothingHalfDone, Content
  <2>5. BuiltIsDb' /\ SavedIsPublished' /\ AssetIsSaved' /\ DbKeepsSaved'
    BY <1>3, <2>1, <2>2
    DEF RestoreFails, BuiltIsDb, SavedIsPublished, AssetIsSaved, DbKeepsSaved, Content
  <2> QED BY <2>3, <2>4, <2>5
<1>4. CASE Stage
  <2>1. PICK P \in SUBSET Repo :
          CASE step = "discover" -> Advance(P, Discovered)
            [] step = "fetch"    -> Advance(P, Fetched)
            [] step = "check"    -> P = {r \in Repo : db[r] = Fetched} /\ Advance(P, Checked)
            [] step = "verify"   -> Advance(P, Verified)
    BY <1>4 DEF Stage
  <2>2. /\ step \in {"discover", "fetch", "check", "verify"} /\ step' = Following[step]
        /\ faults' \subseteq Flaky /\ faults \subseteq faults'
        /\ UNCHANGED <<asset, built, site, saved>>
    BY <1>4 DEF Stage, TypeOK
  <2>3. CASE step = "discover"
    BY <2>1, <2>2, <2>3, StageInv DEF Discovered, Verified
  <2>4. CASE step = "fetch"
    BY <2>1, <2>2, <2>4, StageInv DEF Fetched, Verified
  <2>5. CASE step = "check"
    BY <2>1, <2>2, <2>5, StageInv DEF Checked, Verified
  <2>6. CASE step = "verify"
    BY <2>1, <2>2, <2>6, StageInv DEF Verified
  <2> QED BY <2>2, <2>3, <2>4, <2>5, <2>6
<1>5. CASE StageFails
  <2>1. faults' \subseteq Flaky /\ faults \subseteq faults'
    BY <1>5, FaultGrows DEF StageFails
  <2>2. CASE step = "verify"
    <3>1. PICK P \in SUBSET Repo : Advance(P, Verified)
      BY <1>5, <2>2 DEF StageFails
    <3> QED BY <1>5, <2>1, <2>2, <3>1, StageInv DEF StageFails, Verified
  <2>3. CASE step # "verify"
    BY <1>5, <2>1, <2>3, EndJobInv DEF StageFails, TypeOK, NothingUnchecked, NothingHalfDone
  <2> QED BY <2>2, <2>3
<1>6. CASE Report
  <2>1. step' = "save"
    BY <1>6, FollowingSteps DEF Report
  <2>2. TypeOK'
    BY <1>6, <2>1 DEF Report, TypeOK
  <2>3. NothingUnchecked'
    BY <1>6, <2>1 DEF Report, NothingUnchecked, NothingHalfDone, Content
  <2>4. BuiltIsDb' /\ SavedIsPublished' /\ AssetIsSaved' /\ DbKeepsSaved'
    BY <1>6, <2>1
    DEF Report, BuiltIsDb, SavedIsPublished, AssetIsSaved, DbKeepsSaved, Content, Keeps
  <2> QED BY <2>2, <2>3, <2>4
<1>7. CASE Save
  <2>1. /\ asset = NoAsset => asset' = db /\ saved' = db /\ step' = "deploy"
        /\ asset # NoAsset => asset' = NoAsset /\ saved' = saved /\ step' = "upload"
        /\ step = "save"
        /\ UNCHANGED <<db, built, site, faults>>
    BY <1>7, FollowingSteps DEF Save
  <2>2. TypeOK'
    BY <2>1 DEF TypeOK
  <2>3. NothingUnchecked'
    BY <2>1, FreshDatabase DEF NothingUnchecked, NothingHalfDone, Content, Fetched
  <2>4. BuiltIsDb' /\ SavedIsPublished' /\ DbKeepsSaved'
    BY <2>1 DEF BuiltIsDb, SavedIsPublished, DbKeepsSaved, Keeps
  <2>5. AssetIsSaved'
    BY <2>1, CrawlAssumption DEF AssetIsSaved, Content, TypeOK, Database
  <2> QED BY <2>2, <2>3, <2>4, <2>5
<1>8. CASE Upload
  <2>1. step' = "deploy"
    BY <1>8, FollowingSteps DEF Upload
  <2>2. TypeOK'
    BY <1>8, <2>1 DEF Upload, TypeOK
  <2>3. NothingUnchecked'
    BY <1>8, <2>1, FreshDatabase DEF Upload, NothingUnchecked, NothingHalfDone, Content, Fetched
  <2>4. BuiltIsDb' /\ SavedIsPublished' /\ DbKeepsSaved'
    BY <1>8, <2>1 DEF Upload, BuiltIsDb, SavedIsPublished, DbKeepsSaved
  <2>5. AssetIsSaved'
    BY <1>8, CrawlAssumption DEF Upload, AssetIsSaved, Content, TypeOK, Database
  <2> QED BY <2>2, <2>3, <2>4, <2>5
<1>9. CASE SaveFails
  <2>1. step' = "deploy" /\ step \in {"save", "upload"}
    BY <1>9, FollowingSteps DEF SaveFails
  <2>2. faults' \subseteq Flaky /\ "save" \in faults'
    BY <1>9, FaultGrows DEF SaveFails
  <2>3. TypeOK'
    BY <1>9, <2>1, <2>2 DEF SaveFails, TypeOK
  <2>4. NothingUnchecked'
    BY <1>9, <2>1 DEF SaveFails, NothingUnchecked, NothingHalfDone, Content
  <2>5. BuiltIsDb' /\ SavedIsPublished' /\ AssetIsSaved' /\ DbKeepsSaved'
    BY <1>9, <2>1, <2>2 DEF SaveFails, BuiltIsDb, SavedIsPublished, AssetIsSaved, DbKeepsSaved
  <2> QED BY <2>3, <2>4, <2>5
<1>10. CASE Deploy
  BY <1>10, EndJobInv DEF Deploy, TypeOK, NothingUnchecked
<1>11. CASE Timeout
  <2>1. /\ faults' \subseteq Flaky /\ faults \subseteq faults'
        /\ step = "upload" => "save" \in faults'
    BY <1>11, FaultGrows DEF Timeout
  <2> QED BY <1>11, <2>1, EndJobInv DEF Timeout, TypeOK, NothingUnchecked, NothingHalfDone
<1>12. CASE UNCHANGED vars
  BY <1>12 DEF vars, TypeOK, NothingUnchecked, NothingHalfDone, BuiltIsDb, SavedIsPublished,
         AssetIsSaved, DbKeepsSaved, Content, Keeps
<1> QED BY <1>1, <1>2, <1>3, <1>4, <1>5, <1>6, <1>7, <1>8, <1>9, <1>10, <1>11, <1>12
        DEF Next, Job

LEMMA CrawlInvAlways == Spec => []CrawlInv
BY InitCrawl, StepCrawl, PTL DEF Spec

-----------------------------------------------------------------------------
(* Theorems                                                                *)

\* Every variable keeps its type.
THEOREM TypeCorrect == Spec => []TypeOK
BY CrawlInvAlways, PTL DEF CrawlInv

\* Neither the release nor the site ever holds a README that has been fetched and
\* not checked, whatever fails.
THEOREM NothingHalfDoneAlways == Spec => []NothingHalfDone
<1>1. CrawlInv => NothingHalfDone
  BY DEF CrawlInv, NothingUnchecked
<1> QED BY <1>1, CrawlInvAlways, PTL

\* A job that publishes has saved what it publishes, as long as saving works.
THEOREM SavedIsPublishedAlways == Spec => []SavedIsPublished
BY CrawlInvAlways, PTL DEF CrawlInv

\* A job starts with all that was ever saved, as long as downloads and uploads
\* work.
THEOREM ProgressKeptAlways == Spec => ProgressKept
<1>1. CrawlInv /\ [Next]_vars =>
        [step = "restore" /\ step' = "discover" /\ {"restore", "save"} \cap faults' = {}
            => Keeps(saved, db')]_vars
  <2> SUFFICES ASSUME CrawlInv, Next, step = "restore", step' = "discover",
                      {"restore", "save"} \cap faults' = {}
               PROVE  Keeps(saved, db')
    BY DEF CrawlInv
  <2>1. Restore
    <3>1. ~RestoreFails
      BY FaultGrows DEF RestoreFails, CrawlInv
    <3> QED BY <3>1 DEF Next, Job, Start, Stage, StageFails, Report, Save, Upload, SaveFails,
                    Deploy, Timeout, EndJob
  <2>2. Content(asset) = saved /\ db' = Content(asset)
    BY <2>1 DEF Restore, CrawlInv, AssetIsSaved
  <2> QED BY <2>2, FreshDatabase DEF CrawlInv, TypeOK
<1> QED BY <1>1, CrawlInvAlways, PTL DEF Spec, ProgressKept

\* What is saved never goes back, as long as downloads and uploads work.
THEOREM SavedNeverGoesBackAlways == Spec => SavedNeverGoesBack
<1>1. CrawlInv /\ [Next]_vars =>
        [{"restore", "save"} \cap faults = {} => Keeps(saved, saved')]_vars
  <2> SUFFICES ASSUME CrawlInv, Next, {"restore", "save"} \cap faults = {}
               PROVE  Keeps(saved, saved')
    BY DEF CrawlInv
  <2>1. CASE saved' = saved
    BY <2>1, FreshDatabase DEF CrawlInv, TypeOK
  <2>2. CASE saved' # saved
    <3>1. saved' = db /\ step \in {"save", "upload"}
      BY <2>2 DEF Next, Job, Start, Restore, RestoreFails, Stage, StageFails, Report, Save,
              Upload, SaveFails, Deploy, Timeout
    <3> QED BY <3>1 DEF CrawlInv, DbKeepsSaved
  <2> QED BY <2>1, <2>2
<1> QED BY <1>1, CrawlInvAlways, PTL DEF Spec, SavedNeverGoesBack
=============================================================================
