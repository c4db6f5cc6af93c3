# Typo Crawler: a specification

TLA+ modules about the crawler in this repository: what its commands do to
`typos.db`, how their threads, retries and failures interleave, what the
nightly job keeps and loses, TLC configurations that check the modules on small
instances, and TLAPS proofs of the properties that matter most for instances of
any size.

Paths below are relative to the repository (`src/typocrawler/` is the package).

## 1. The system

`typocrawler` is a command line program of six stages over one SQLite file. The
stages never call each other; each reads its work list from a table and commits
what it does, so that the tables are the only interface between them.

| Component | Code | State it keeps | Operations | What makes it correct |
|---|---|---|---|---|
| discover | `cli.py` 86-151, `github/discover.py`, `db/repo_store.py`, `config.py` | rows of `repos`; the client's `points_used` | page through each organisation, filter by scope, upsert | no page skipped, ids stable, scope respected, points exact |
| fetch | `cli.py` 154-253, `github/fetch.py`, `db/snapshot_store.py` | `repos.readme_*`, rows of `readme_snapshots` | request READMEs in threads, save snapshot and marks | a mark means GitHub has settled the repository; a stop is clean; every README comes in the end |
| check | `cli.py` 256-352, `check/heuristics.py`, `db/finding_store.py` | `readme_snapshots.checked_at`, rows of `findings` | run both spell checkers and the rules over a batch, upsert | findings and marks in step |
| prose, spell checkers, cross-reference | `text/extract.py`, `check/spell.py` | none but the files and the output of a batch | reduce markdown to lines of prose, run codespell and typos, merge their hits | a finding points to the block its word stands in; one row a word, whatever the order of the output |
| filter | `cli.py` 355-369, `check/heuristics.py` | `findings.status`, `filter_reason` | run the rules again under the edited allowlist | decisions of the LLM stand |
| verify | `cli.py` 436-518, `verify/` | `findings.status`, `llm_verdict` | ask an LLM for a batch, commit verdicts; `--reset` | each finding asked once, gets its own verdict; status and verdict agree |
| report, findings | `cli.py` 372-433, 521-533, `report/build.py` | `findings.json`, `meta.json` | read twice, count, write two files | what it counts covers what it lists |
| dashboard page | `report/assets/app.js` | filters, chips, how many rows are shown | search, press a chip, toggle, show more | every row that passes the filters can be reached |
| nightly workflow | `.github/workflows/crawl.yml` | the asset `typos.db` of a release, the published site | restore, run the stages, save, publish | progress is kept; what is saved is published |
| schema | `db/models.py`, `db/engine.py`, `migrations/` | the tables, their columns, the stamp in `alembic_version` | create, add columns, go back | every old database reaches the head revision; no row is lost on the way |

What is hard to test in it:

* **Interleavings.** `fetch` and `discover` use a thread pool; the main thread
  cancels futures, commits and leaves the pool while workers are in a request.
  The SQLite driver opens a transaction at the first write, so that a SELECT
  and the UPDATE that relies on it are two steps even inside one
  `engine.begin()`; that matters as soon as two commands overlap
  (`db/engine.py:1` promises a single writer, and nothing enforces it).
* **Failures half-way.** Every command may be killed between two batches; any
  step of the nightly job may fail, with different consequences; replacing the
  release asset is a deletion and an upload.
* **Order.** Results arrive in any order, typos prints its hits in any order,
  verdicts are matched to findings by position, allowlist edits, `filter`,
  `verify` and `verify --reset` come in any sequence.
* **Counting at boundaries.** Lines are counted twice (in the file the checkers read and
  in the README), columns once from 0 and once not at all, and the page cuts its
  list in steps.
* **Old databases.** Tables come from `create_all` or from revisions, columns
  from either, and DDL commits by itself, before the stamp.
* **Things that should happen in the end.** Queues cut at `--limit`, with
  members that fail every time at their head.

`PROJECT.json` lists each of these hazards at its line, with the properties
meant for it.

## 2. Modules

```
FindingLifecycle                         what a reader of the dashboard may see of a finding
   ^ refinement (Shown)
FindingStore   <- FindingStoreProofs     check, filter, verify on the findings tables
   ^ refinement (Store)
VerifyRun      <- VerifyRunProofs        verify: throttle, retries, replies
FetchRun       <- FetchRunProofs         fetch: threads, results, rate limit
DiscoverRun    <- DiscoverRunProofs      discover: threads, pages, upserts
NightlyCrawl   <- NightlyCrawlProofs     the workflow around the commands
Migrations     <- MigrationsProofs       the schema under Alembic and create_all
CheckBatch     <- CheckBatchProofs       check on words: prose, checkers, merging, rows
   ^ extends
Dashboard      <- DashboardProofs        report, its two files, and the page
MC*.tla, MC*.cfg                         instances for TLC
```

Each module is about one actor's state and abstracts the others to what they do
to it: `FindingStore` has one action for a README that `fetch` saves, `FetchRun`
one for a repository that `discover` adds, and `NightlyCrawl` takes repositories
one level up per stage. `VerifyRun` looks into the single step `VerifyBatch` of
`FindingStore` and is shown to implement it; `CheckBatch` looks into `CheckBatch`
of `FindingStore`, down to the words, with the decisions about a finding reduced to
one rule. `Dashboard` composes check, verify, report and the page.

Definitions whose comment begins with "(mutated: ...)" are not part of the
specifications. Each is a variant of the definition after it, with a bug of the
kind that could be in the code; every checked property is shown to fail under
one of them (`PROJECT.json`, "mutants").

### FindingStore

Rows of the tables are functions: `status`, `reason` (`filter_reason`) and
`verdict` (`llm_verdict`) over `Finding`, the set of keys (repository, token,
line, blob) the spell checkers may report; `snaps` and `checked` are the
snapshots and those marked. A process (`Proc`) executes one command at a time:
`cmd` says which, `work` holds the rows it has read and not yet written,
`loaded` the allowlist it has read.

| Action | Code |
|---|---|
| `SaveSnapshot` | a README committed by `_persist_readme` |
| `EditAllowlist` | someone edits `config/allowlist.txt` |
| `CheckRead`, `CheckBatch` | `check`: allowlist and `snapshots_to_check`; then per batch `_check_batch`, `upsert_findings`, `mark_checked` in one transaction |
| `FilterRead`, `FilterWrite` | `reclassify`: the SELECT; then all its UPDATEs, by id |
| `VerifyReset` | `reset_verdicts`, a transaction of its own |
| `VerifyRead`, `VerifyBatch` | `findings_to_verify`; then per batch the LLM and `apply_verdicts` |
| `Interrupt` | the command ends early, for whatever reason |

`Classify` keeps the order of `classify`: allowlist, the rules about the token,
the rule about the context. What the rules say of a finding is a constant, once
for the whole line (`ContextRule`, used by `check`) and once for the 300
characters stored of it (`SnippetRule`, used by `filter`).

`FindingLifecycle` is the abstract specification: a finding comes up once, is
judged once unless it is reset, a confirmed one is not touched by the rules. Its
`Reset` is exact: each finding that has been judged goes back to unverified, whatever
the rules have said of it since, and no other one does. The refinement mapping has what
`report/build.py` makes of a row (`Shown`), and the rows with a verdict (`Judged`).

### FetchRun

The main thread (`pc`) hands out a work list (`todo`), each repository of which
has a `future` and, when finished, an `answer`. `as_completed` yields finished
futures in any order (`Collect`); `_persist_readme` is one transaction
(`PersistReadme`); the rate limit ends the loop and starts another one over
`f.cancel()`, one future a step (`CancelNext`), while workers go on taking
pending ones; leaving the pool waits for all that is left (`Join`). GitHub is
external: a quota, and for each repository what it answers, which may be
"not modified" as soon as an ETag is sent. A request may be lost with an error
`_work` catches (`"error"`) or one it does not (`"uncaught"`, a
`TransportError` after the client's retries); the main thread may die of an error of its own
(`MainFails`: Ctrl-C, a locked database). Ctrl-C may also come while it waits for the
pool (`JoinFails`): the client is then closed over the threads, whose requests are
broken off (`BreakOff`) or not sent any more (`RefuseFetch`), and the process ends when
nothing is pending (`Exit`), for Python waits for the threads of a pool. Runs follow one
another; each starts with the quota restored. Between them the marks may be emptied by a downgrade
of the schema and an upgrade (`ForgetMarks`), while snapshots and ETags stay.

### DiscoverRun

A thread per organisation pages through it (`Answer`: the repositories after the
cursor, at most `PageSize`; the cursor is the set of names it has passed), or is told, at
a cost, that there is no such organisation (`AnswerNone`), adds
up the points under the lock in two steps (`Acquire`, `AddPoints`) and goes on
while there are more pages. The main thread commits the repositories in scope
organisation by organisation (`CommitOrg`), leaves out one with an error
(`SkipOrg`), and dies of what `_fetch` does not catch (`CrashRun`, `MainFails`).
Meanwhile repositories change at GitHub (`Change`). `Resolved` is the merge of an
organisation's entry with the defaults; `ids` is the column `repos.id`, 0 for a
repository without a row, and a new row gets an id above all others (`Insert`).

### VerifyRun

One run of `verify` after the other: `Send` waits for the throttle, `FailAgain`
and `Retry` are tenacity's loop with its pauses (`Backoff`: 2, 4, 8, 16, 32
seconds, six attempts), `Answer` lets the model say anything a model says — too
little, too much, out of order, elements that are no objects, no array — and
`Commit` reads it as `parse_response` does, by position. `Chunk` is the batch, the
first `Batch` of what is left, and `Place` the position of a finding in it. Time
passes in steps of `TimeStep` seconds, at any moment and as long as it likes:
sleeping threads may oversleep. An answer to Ollama's client comes within its timeout
of ten minutes or the request has failed; one to Gemini or Groq, whose clients are given
none, may never come. `Store` is the refinement mapping to `FindingStore`: one process,
a status that follows from the verdict, `verify` under way unless idle, and
what is left to ask about as its work.

### NightlyCrawl

A database is the level each repository has reached (discovered, fetched,
checked, verified). The job goes through its steps; `Restore` takes the asset or
an empty database, a stage takes repositories up, `Save` replaces the asset
(`gh release upload --clobber` deletes the old one first, hence `Save` and
`Upload`), `Deploy` publishes. A failing command ends the job, unless it is
verify or the saving (`continue-on-error`); a failing download looks like a
missing asset; the time limit may hit in any step, between the two halves of
saving included.

### Migrations

A database is its tables (`tables`), the columns added by revisions 2, 3 and 4
(`columns`, each named by its revision), the revision in `alembic_version`
(`stamp`), the tables that have rows (`rows`) and those a downgrade has begun to make
anew (`temps`). It may begin as none at all, or
as what any earlier version of `models.py` has created, stamped as far as an
upgrade got. Commands begin with `create_all` (`CreateTable`, table by table) and
then work or fail on a missing column (`Work`, `NoSuchColumn`); `alembic upgrade
head` looks for each column and adds it or does not (`FindColumn`, `AddColumn`) and
stamps its revision in a step of its own (`Stamp`), for SQLite's driver opens no transaction
for DDL. A downgrade remakes the table without the column: the new one,
`_alembic_tmp_...`, is created at once (`CreateTemp`), filled and put in the place of the
old one in the transaction of the stamp (`DropColumn`); or it drops everything
(`DropTable`). Any process may be killed between two of these.
`ForeignKeys` is the pragma on Alembic's connection, which would have the drop of
a table delete the rows that refer to it.

### CheckBatch

Text is a sequence of pieces of words and of spaces. A README is a constant: its
blocks with their source lines and the children the markdown parser finds in
them. `InlineProse` and `ExtractLines` make lines of them as `text/extract.py`
does: a block is on a line of its own, for the parser is that of CommonMark, which has
no tables; `Kept` says which characters survive the reduction of spaces. The words each checker knows are constants; `Report` is what it prints
about a file, with columns from 0 for typos and none for codespell. `PrintFile` and `PrintHit` give
the order: codespell file after file, typos with several files at a time.
`Crossref` merges hits by line and lower case; `CommitBatch` finds the block of each
and upserts the rows with the marks. A batch is any set of saved READMEs, so that a
README may be checked again, in another company. What a row says is judged by another
reduction of the markdown, that of a reader's eye (`Seen`): text, a space for the end of a
line, and a gap where `_inline_prose` drops inline code, an image or HTML without
leaving a space. `Stands` asks for a whole word between spaces, which is the token once its
gaps are left out.

### Dashboard

`ReadRows`, `CountScanned` and `WriteFiles` are the two queries of `build_site`
and its two files, with fetch, check and `Verify` going on in between. `marked` are the
READMEs with `readme_checked_at`, which the second query counts: a saved README has the
mark (`Check`), a downgrade below revision 2 empties all marks (`ForgetMarks`), and fetch
sets them again one by one (`Refetch`). `whole` records for the property whether any mark
was missing at the count. `page` is
`state` of `app.js` with the list it has loaded: `Search`, `ClickChip`,
`TogglePending` and `ToggleBoth` go back to the first rows, `ShowMore` is the
button.

## 3. What is checked

### Runs that pass

| Run | Instance | States | What it shows |
|---|---|---|---|
| `store_single` | one process, three READMEs, four findings with different rules and scores, batches of one, limits 0 and 1, three allowlist edits or resets, one finding the provider never answers for | 15,667 | no verdict is replaced, however runs are broken off and begun again; confirmed exactly when judged a typo; rejections explained; `FindingLifecycle` is implemented; the queues of check and verify are worked off |
| `store_overlap` | two processes, two READMEs, three findings, batches of two, one edit or reset | 15,988 | what survives overlapping commands: rows follow checks, and every decision has a ground in its row |
| `fetch_runs` | four repositories (one refused, two with a README, one without), two workers, quota of two, two faults | 57,379 | marks tell the truth, also after a downgrade has emptied them and GitHub answers 304; clean stop; a complete run loses nothing; every run ends, also under Ctrl-C while the pool is left; every README comes in the end |
| `discover_runs` | three organisations (one of two pages that overrides the defaults with 0 and true, one of one page that overrides them with false, one that is not there or always refused), two workers, one change at GitHub, one fault | 167,997 | exact points, no page missed, what an entry asks for is entered and nothing else, stable ids, the table catches up |
| `verify_runs` | five findings in batches of two, two requests a minute, Gemini | 188,002 | the queue is judged from its head, verdicts reach their own findings, the rate is kept, retries as documented, the run ends or hangs in one request; the steps of verify in `FindingStore` are implemented |
| `crawl_nights` | two repositories, any two of four kinds of mishap | 88,110 | no half-done work is published, saved and published agree, progress is kept while downloads and uploads work, everything is published in the end |
| `schema_versions` | every earlier database, three processes killed | 18,109 | a stamp has its columns, no row is lost, and once nobody goes back the upgrade gets to the head |
| `words_to_page` | two READMEs: a block that is an image only, a word in two cases, one across the end of emphasis, one across HTML, one split by the end of a line, one at column 0, one a rule rejects; marks emptied by a downgrade | 439,092 | a finding's word is one a reader sees where the finding points to, but for gaps; rows sum up the hits whatever their order; no report names more repositories than READMEs scanned, unless marks were missing; the page shows every row |

### Runs that find a disagreement

| Run | Statement of the repository | What the code does |
|---|---|---|
| `store_llm_rejection` | `db/finding_store.py:16`: verdicts the heuristic pass must not overwrite | `_LOCKED` has no `false_positive`: `filter` sets a finding the LLM has rejected back to `new`, its verdict still in the row; it is shown as unverified, and verify never asks again |
| `store_truncation` | `cli.py:309`: findings that fail the heuristics land as `false_positive` | `check` judges the whole line and stores 300 characters; `filter` judges those, and lets pass what check has rejected as a fragment |
| `verify_ollama` | `verify/llm.py:23`: retry rate-limit / 5xx errors from any provider | the status of an `httpx.HTTPStatusError` is not where `_is_transient` looks; Ollama's 503 ends the run at once |
| `crawl_restore` | `README.md:99`: progress persists between runs | a download that fails for any reason starts the job afresh, and the job replaces the asset by its new database |

Seen while modelling, and not made into a run:

* `reset_verdicts` goes by `llm_verdict` alone (`finding_store.py:152-156`): it sends every
  finding with a verdict back to `new`, one that the rules have rejected since
  included, with `filter_reason` still set. Its docstring (148-150) speaks of
  "confirmed/false-positive-by-LLM rows", and leaves heuristic rejections alone only as far
  as they have no verdict; line 129 calls what verify then reads "survivors of the
  heuristics". `FindingLifecycle.Reset` states what the code does.
* Inline code, images and HTML are dropped without leaving a space
  (`text/extract.py:24-25`). A word across one of them is reported joined: "te<br>h" as
  "teh", which no reader finds in the README. `RowsStandInReadme` allows for such gaps.
* A downgrade killed after its first statement leaves a table `_alembic_tmp_...`, on which every
  later downgrade of the same table fails.
* Neither Gemini's nor Groq's client is given a timeout (`verify/llm.py:78-146`), as Ollama's
  is: unless the library has one of its own, a request that hangs keeps the run, and the nightly
  job until its time limit.
  `RunEnds` excepts it.
* After a downgrade below revision 2 and an upgrade the marks of fetch are gone and the
  findings are not: until fetch has asked again, `meta.json` may name more repositories with
  typos than READMEs scanned (`report/build.py:88`).
* Ctrl-C while `fetch` leaves its pool closes the client, but not the pool: each README still
  pending is taken by a thread and refused by the closed client before the process
  ends.
* A batch on which the provider always fails stops each `verify` at the same
  place (`cli.py:488`); what is behind it is never asked. `EveryFindingSettled`
  claims only what is ahead of it.
* Repositories GitHub refuses every time (451) keep their place at the head of the list
  of `fetch`; as many of them as `--limit` keep all others out, in spite of
  `cli.py:192` ("re-running continues where the last run stopped").
  `EveryReadmeFetched` is checked with a limit of 0.
* `README.md:44` has a CI timeout resume where it stopped; the database is saved by
  the last steps of the job only, and one that reaches its time limit before
  them saves nothing.
* `cli.py:193` promises conditional requests. An ETag is stored together with the
  mark that takes the repository off the list, so that none is ever sent, but
  after a downgrade below revision 2 and an upgrade, which empty the marks.
* A downgrade from revision 1 that is killed half-way leaves stamp 1 and some tables
  missing. `alembic upgrade head` then fails on the first missing table; any command,
  which begins with `create_all`, mends it.
* The two checkers' hits on a word are merged without regard to case, and the first one
  lends its spelling to the rules: in "TEH teh" both are rejected as an acronym.
* A column of 0, where a line begins, counts as unknown (`spell.py:124`), so that a
  finding may have the column of a later occurrence of its word. Nothing reads
  the column.
* After an uncaught exception in `fetch` the pool is left without cancelling:
  all remaining requests are made, and their answers thrown away.
* Retries do not ask the throttle (`verify/llm.py:59`): with one failed request a
  batch, `--rpm` is exceeded. `RateKept` speaks of a stretch without retries.
* `README.md:97` has `typos.db` on a branch `data`; the workflow keeps it in a
  release.

### Bounds

Every bound is a constant in a guard: `MaxInterventions`, `MaxFaults`,
`MaxChanges`, `MaxKills`, `Bounded`; `Attempts` is the code's own. They are large enough for
what the properties are about: three interventions allow edit, filter, reset and
edit again; two faults let a failure happen during the recovery from another;
two workers and three or more tasks leave tasks pending while others run; a page
of one repository makes an organisation of two have two pages; batches of two
out of five leave a last batch that is not full; Rpm 2 with three requests a run
has one request more than fits a minute; three kills can cut off an upgrade, a
command and a downgrade. The mutants show that the instances are not too small
for the property each belongs to.

`TimeStep = 10` in `verify_runs` coarsens time: a pause of 2 seconds takes 10. Pauses
only promise to last at least so long, and the gap of 30 seconds is a multiple
of the step; rates are those of which a minute is a multiple. In `words_to_page` the page lists one row at first
and two more at each click, instead of 5 and 10, for its lists are that short.
These simplifications keep that run small: what the checkers print
stays in their process, so that the steps of other processes, which commute with it, wait until
all is read; an open page works on its own copy of the list, so that nothing else goes on until it is
closed; it is opened when no command is running; marks are emptied only between commands and before
the first report with rows; and after such a report, or while marks are missing, no batch
begins, though one under way may end. `Bounded` turns the last two on, and the proofs do not
rest on it. A report killed between its
two files is left out: the next one writes both anew. Symmetry is not used
where liveness is checked.

### Fairness

* `FindingStore`: strong fairness of starting check and verify and of their
  batches — the job runs every night and is not interrupted every time; weak
  fairness of finishing a filter, and of giving up on a refused batch. Nothing is
  assumed of resets, edits, or of anyone running filter.
* `FetchRun`, `DiscoverRun`: weak fairness of each thread and of the main
  thread, which the operating system gives, of a request being answered or failing (the
  client has a timeout of 30 seconds, `github/client.py:54`, and five attempts), and of
  starting the command again.
  `FetchRun` adds strong fairness of collecting a result: a README GitHub delivers
  in run after run is not every time behind the rate limit.
* `VerifyRun`: time passes, and the run goes on; a request is answered or fails only with
  Ollama, whose client has a timeout (`verify/llm.py:190`). With Gemini, which the run
  `verify_runs` has, it may hang for ever.
* `NightlyCrawl`: weak fairness of the job; strong fairness of each repository
  being taken up by a stage, that is, no repository fails for ever.
* `Migrations`: weak fairness of a running process, strong fairness of starting
  the upgrade (every job does, `crawl.yml:49`) and commands. Downgrades are not
  fair, and are assumed to end.
* `Dashboard`: the reader goes on clicking "show more" as long as it is there.

`CHECK_DEADLOCK FALSE` is set for `VerifyRun`, whose queue may be empty for good.

## 4. What is proved

`tlapm` checks the eight proof modules to the last leaf. The theorems hold for every
value of the constants that meets the named assumptions (`ParametersAssumption`,
`RulesAssumption`, `FetchAssumption`, `CrawlAssumption`, `VerifyAssumption`,
`DiscoverAssumption`, `MigrationsAssumption`, `CheckAssumption`,
`DashboardAssumption`): any number of processes,
findings, organisations, repositories and threads, any limits, batch and page sizes, any
markdown and any checkers' knowledge. The assumptions say what type a constant has; of the rules, that cutting a line
changes what the context rule sees and not what the rules about the token say;
of `--rpm`, that it divides a minute; of the blocks of a README, that their lines increase; and that a run's findings, organisations and
repositories are finitely many.

**FindingStoreProofs.** For any number of overlapping commands: `TypeCorrect`,
`RowsFollowChecksAlways`, `DecisionHasEvidenceAlways`, each inductive over
types. With one command at a time (`SingleWriter`, which nothing in the code enforces):
`ConfirmedIffTypoAlways`, `RejectionExplainedAlways`, `VerdictsStandAlways`,
`FilterSettlesAlways` and `LifecycleImplemented`. None of these is inductive by
itself: that a verdict is not overwritten depends on what verify still holds
being without a verdict, which depends on nothing else having written since.
`OneCommandInv` is the conjunction that is: types, rows follow checks, what a
process holds is what its query would return now, or a part of it
(`WorkIsQueue`), and the two
properties about decisions. The refinement theorem maps each step to one of
`FindingLifecycle` or to a stutter; verify judges only what has no verdict, and a reset sends
back just those with one.

**FetchRunProofs.** `RunInv` follows an answer through the run: a repository has
a future exactly when it is on the list (`FuturesKept`), a result in a future is
what GitHub has, paid for (`AnswersTrue`), what has been collected is marked or
had an error (`CollectedKept`), and what is still pending during the loop over
`f.cancel()` is still to be visited (`CancelKept`). The last is what makes
`StopIsClean` inductive. From it follow `TypeCorrect`, `MarksTellTheTruthAlways`,
`StopIsCleanAlways` and `CompleteRunLosesNothingAlways`.

**DiscoverRunProofs.** Each claim has an invariant of its own. Ids are dense
(`IdsDense`), so that the next one is new and larger than all before it:
`IdsStandAlways`. Only one thread is between reading the points and writing them
(`Locked`), so that every answer is counted or about to be (`Tallied`):
`PointsExactAlways`. For `CompleteRunMissesNothingAlways`, a repository that
stays as it is goes from the cursor to the listing (`Passed`), from there to the
table (`Entered`), and no organisation is left out at the end of the loop
(`Collected`). `RowsInScopeAlways` compares the merge of settings with what an entry asks for setting by
setting (`KeptAsAsked`): what a commit enters is asked for, and what is asked for and listed is
entered (`CommitScope`).

**VerifyRunProofs.** What a run has still to ask about is all that has no verdict
(`WorkKept`), so that a batch from its head leaves nothing behind it:
`JudgedInOrderAlways`. A reply is in the order of its batch or the batch is known
to be mixed up (`ReplyKept`), and reading it by position gives each finding its own
(`SaidOfOwn`): `OwnVerdictAlways`. Requests lie a gap apart (`Spaced`), and a
minute has no room for more than `--rpm` of these (`GapFits`, `SpacedFew`, an
injection into the gaps): `RateKeptAlways`. `TransientRetriedAlways` holds for every
provider but Ollama, as the run `verify_ollama` shows. `StoreImplemented` is the refinement of `FindingStore`:
each step is its `VerifyRead`, its `VerifyBatch`, its `Interrupt` or a stutter;
`ChunkSize` shows that a batch is as large as that module asks. The types of
`VerifyRun` are proved (`TypeCorrect`) and have no run of their own.

**MigrationsProofs.** A stamp follows its column by one step (`StampFollows`), and
a drop of all tables stays at revision 1 (`DropsAtOne`), so that no stamp survives a
column: `StampsAreTrue`. `MigrationsKeepRows` needs nothing else but that the
pragma is off on Alembic's connection.

**NightlyCrawlProofs.** `CrawlInv` follows the database through the job. From
verify on it has no README fetched and not checked, and so has nothing that was
built, saved or published (`NothingUnchecked`); the dashboard is built from the
database that is then saved (`BuiltIsDb`); as long as saving works, the asset is
what was last saved, except between the two halves of replacing it
(`AssetIsSaved`); as long as downloads work too, the runner's database has all
that was saved (`DbKeepsSaved`), for a stage only takes repositories up
(`AdvanceKeeps`). From it follow `TypeCorrect`, `NothingHalfDoneAlways`,
`SavedIsPublishedAlways`, `ProgressKeptAlways` and `SavedNeverGoesBackAlways`.

**CheckBatchProofs.** First the operators. `Sorted` lists a finite set of numbers in
their order (`SortedLists`); `FlattenSeq`, which the library defines by recursion, has at
every place a place of one of its parts and the other way round (`FlattenPlaces`), by
induction over the natural numbers (`Induct`: a set of numbers with 0 and the successors of
its members is all of them, from the well-foundedness of <). With these, two theorems about
prose. `WordStands`: what a checker takes for a word of a block is a whole word of what a reader
sees of it, the gaps left out; the places of prose lie among those of what is seen, in the same
order (`SeenOrder`). `WordsAreKept`: every word of the text is a
word of its prose, neither lost nor cut nor joined to its neighbour. Then the batch.
`CheckInv` is inductive: types (`CheckType`); what is unread of a file is the rest of its
report, and what has been read, together with it, all of it (`Printing`); the hits
read of one file are in the order of its report, codespell's before those of typos, and
so the first hit of a word does not depend on how files were interleaved (`HitsInOrder`, `FirstIs`);
a row is what the reports of its README say of its word (`RowsFromReports`); each word
reported has one (`ReportsHaveRows`); and no two rows have the same id (`OneRowPerId`).
The last three need one another: an upsert finds the row it replaces by its id, which has the
spelling of the first hit, so that a README checked again overwrites its rows
only because that spelling comes out the same. `CheckInv` is proved for every step of check (`CheckInvStep`).

**DashboardProofs.** Verify and report leave `CheckInv` alone: `CheckInvariant`. From it
follow `FindingsStandInReadme` and `FindingsSumUpHits`, the two properties about rows,
and `RowsAreKept`: no step loses a row or a verdict. `SiteInv` (`SiteInvariant`) has the READMEs of report's list
in the database, which none ever leaves, and so among those counted if none lacked its mark then; it gives
`ScannedCoversReport`. `DecisionsAreGrounded` is inductive over `CheckInv`. `ListedRows` takes what is known of rows to the end: whatever findings.json or an open page
lists stands in its README at its line.

**Only model-checked.** Liveness under fairness, everywhere: it and ENABLED are
out of the prover's reach. Everything else a passing run checks is also proved.
`FilterSettles`, `SavedNeverGoesBack`, `KeepsRows`, `DecisionsGrounded` and
`ListedIsGenuine` are the other way round: proved, and not among the properties of a run.
`DecisionsGrounded` speaks of check and verify alone, without filter and `--reset`, which
`FindingStore` has.

## 5. What is not modelled

* The rules of `classify` but for the allowlist: regular expressions and word lists
  over a token and its context, of which the models take the answers as constants.
* `extract_prose`, which fills a column nothing reads, the markdown parser, what
  the spell checkers know, their corrections, and the search for their executables.
* Loading and validation of `config/orgs.yml`; what is modelled of `config.py` is the merge of
  the defaults.
* Alembic's offline mode (`migrations/env.py` 26-36), which prints SQL.
* The drawing of the page, its links, its animated background, and a search for anything but the
  name of a repository.
* `crawl_runs`, which is written and never read; logging and output; the commands
  `findings`, `orgs` and `version`, which only print.
* The retry schedule inside the GitHub client: a request of `FetchRun` or a query
  of `DiscoverRun` is one call with its retries.

## 6. Plan

Done, in this order: `FindingStore` with `FindingLifecycle` and `FetchRun`, the
tables that all others read and the stage with threads, checked and proved;
`NightlyCrawl`, `DiscoverRun` and `VerifyRun`, checked and proved, the last also
as a refinement of the verify command of `FindingStore`; `Migrations`, checked and
proved; `CheckBatch` and `Dashboard`, checked and proved, from the markdown of a README to
the list on the page.

What could follow:

1. The rules of `classify` as pure operators over lengths and classes of
   characters, with their boundaries (short words, shares of tiny words).
2. The GitHub client's schedule of retries against its rate limit, and the
   composition of `FetchRun` with it.
3. `CheckBatch` as a refinement of the check command of `FindingStore`, with the
   decisions about a finding taken from the words.
