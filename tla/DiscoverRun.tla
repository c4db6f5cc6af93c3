------------------------------ MODULE DiscoverRun ------------------------------
(***************************************************************************)
(* `typocrawler discover`: the run that enters the repositories of the     *)
(* configured organisations into the table repos.  One thread of a pool    *)
(* pages through one organisation; all share a client that adds up the API *)
(* points under a lock.  The main thread commits each organisation when    *)
(* its thread is done.  Meanwhile repositories appear, disappear and       *)
(* change at GitHub.                                                       *)
(*                                                                         *)
(* One query of the model is one call of GitHubClient.query with the       *)
(* retries it makes; it costs one point if it is answered.                 *)
(***************************************************************************)
EXTENDS Integers, FiniteSets

CONSTANTS
    Org,         \* organisations, in the order of config/orgs.yml
    Repo,        \* repositories there may be, in the order of their names
    OrgOf,       \* the organisation a repository belongs to
    Rules,       \* the entry of an organisation, Unset where it says nothing
    Defaults,    \* the section `defaults`
    Unset,       \* no value
    Versions,    \* what discovery may get to know of a repository
    absent,      \* there is no such repository, or no such row
    AtGitHub,    \* the repositories at GitHub in the beginning
    PageSize,    \* repositories of a page, 100 at GitHub
    Workers,     \* --workers
    Broken,      \* organisations that there are not, or that are refused every time
    MaxChanges,  \* bound: changes at GitHub
    MaxFaults    \* bound: failed queries, exceptions and kills

Metadata == [stars : Nat, archived : BOOLEAN, fork : BOOLEAN]
Setting  == [min_stars : Nat, include_forks : BOOLEAN, include_archived : BOOLEAN]

ASSUME DiscoverAssumption ==
    /\ Org \subseteq Nat /\ IsFiniteSet(Org)
    /\ Repo \subseteq Nat /\ IsFiniteSet(Repo)
    /\ OrgOf \in [Repo -> Org]
    /\ Unset \notin BOOLEAN \cup Nat
    /\ Defaults \in Setting
    /\ \A o \in Org : \A k \in DOMAIN Defaults :
          Rules[o][k] = Unset \/ [Defaults EXCEPT ![k] = Rules[o][k]] \in Setting
    /\ Versions \subseteq Metadata
    /\ absent \notin Versions
    /\ AtGitHub \in [Repo -> Versions \cup {absent}]
    /\ PageSize \in Nat \ {0}
    /\ Workers \in Nat \ {0}
    /\ Broken \subseteq Org
    /\ MaxChanges \in Nat
    /\ MaxFaults \in Nat

VARIABLES
    github,     \* the repositories at GitHub
    table,      \* rows of repos: what was last written of a repository
    ids,        \* repos.id of a repository, 0 if it has no row
    pc,         \* where the main thread is
    task,       \* what the future of an organisation is doing
    cursor,     \* the names up to endCursor: what its pages are past
    more,       \* organisations whose last page was not the last one
    listing,    \* the records their threads have got
    points,     \* points_used of the client
    read,       \* the value of points_used a thread is adding to
    seen,       \* futures as_completed has yielded
    answered,   \* history: queries answered in this run
    steady,     \* history: repositories that have not changed in this run
    changes,    \* changes at GitHub so far
    faults      \* faults so far

db      == <<table, ids>>
threads == <<task, cursor, more, listing, points, read, answered>>
vars    == <<github, db, pc, threads, seen, steady, changes, faults>>

Fault == faults < MaxFaults /\ faults' = faults + 1

-----------------------------------------------------------------------------
(* Configuration and scope                                                 *)

\* (mutated: a value that is false or zero counts as none)
MutResolved(o) == [k \in DOMAIN Defaults |->
    IF \/ Rules[o][k] = Unset
       \/ IF k = "min_stars" THEN Rules[o][k] = 0 ELSE Rules[o][k] = FALSE
    THEN Defaults[k] ELSE Rules[o][k]]

\* Config.resolved: what an organisation says itself, or the default
Resolved(o) == [k \in DOMAIN Defaults |->
    IF Rules[o][k] = Unset THEN Defaults[k] ELSE Rules[o][k]]

ShouldKeep(m, o) ==
    /\ m.archived => Resolved(o).include_archived
    /\ m.fork => Resolved(o).include_forks
    /\ m.stars >= Resolved(o).min_stars

-----------------------------------------------------------------------------
(* Pages and rows                                                          *)

\* (mutated: pages are counted, not continued after the last name)
MutRest(o) ==
    LET There == {r \in Repo : OrgOf[r] = o /\ github[r] # absent}
        Got   == {r \in Repo : OrgOf[r] = o /\ listing[r] # absent}
    IN {r \in There : Cardinality({q \in There : q < r}) >= Cardinality(Got)}

\* What is still to be listed of an organisation, and the first page of it
Rest(o) == {r \in Repo : OrgOf[r] = o /\ github[r] # absent /\ r \notin cursor[o]}
Page(o) == {r \in Rest(o) : Cardinality({q \in Rest(o) : q < r}) < PageSize}

\* What is in scope of what was listed
Kept(o) == {r \in Repo : OrgOf[r] = o /\ listing[r] # absent /\ ShouldKeep(listing[r], o)}

Rows == {r \in Repo : ids[r] # 0}

\* Rows R are inserted one by one, in the order of the listing; the next id is one
\* more than the largest there is, and no row has ever been deleted.
Insert(R) ==
    ids' = [r \in Repo |-> IF r \in R THEN Cardinality(Rows) + Cardinality({q \in R : q <= r})
                                     ELSE ids[r]]

\* (mutated: INSERT OR REPLACE)
MutUpsertRepos(R) ==
    /\ table' = [r \in Repo |-> IF r \in R THEN listing[r] ELSE table[r]]
    /\ Insert(R)

\* (mutated: a known row is left as it is)
MutUpsertNew(R) ==
    /\ table' = [r \in Repo |-> IF r \in R \ Rows THEN listing[r] ELSE table[r]]
    /\ Insert(R \ Rows)

\* A new repository gets a row; a known one keeps its own, refreshed.
UpsertRepos(R) ==
    /\ table' = [r \in Repo |-> IF r \in R THEN listing[r] ELSE table[r]]
    /\ Insert(R \ Rows)

Init ==
    /\ github = AtGitHub
    /\ table = [r \in Repo |-> absent] /\ ids = [r \in Repo |-> 0]
    /\ pc = "idle" /\ seen = {} /\ steady = {}
    /\ task = [o \in Org |-> "none"]
    /\ cursor = [o \in Org |-> {}] /\ more = {}
    /\ listing = [r \in Repo |-> absent]
    /\ points = 0 /\ answered = 0 /\ read = [o \in Org |-> 0]
    /\ changes = 0 /\ faults = 0

-----------------------------------------------------------------------------
(* Around the run                                                          *)

\* A repository is created, deleted, archived, starred ...
Change(r) ==
    /\ changes < MaxChanges
    /\ changes' = changes + 1
    /\ \E m \in Versions \cup {absent} : m # github[r] /\ github' = [github EXCEPT ![r] = m]
    /\ steady' = steady \ {r}
    /\ UNCHANGED <<db, pc, threads, seen, faults>>

\* A run starts with a client of its own, and submits every organisation.
StartRun ==
    /\ pc = "idle"
    /\ pc' = "collect"
    /\ task' = [o \in Org |-> "queued"]
    /\ steady' = Repo
    /\ UNCHANGED <<github, db, cursor, more, listing, points, read, answered, seen, changes, faults>>

\* The run ends; nothing of it is left in memory.
EndRun ==
    /\ pc' = "idle" /\ seen' = {} /\ steady' = {}
    /\ task' = [o \in Org |-> "none"]
    /\ cursor' = [o \in Org |-> {}] /\ more' = {}
    /\ listing' = [r \in Repo |-> absent]
    /\ points' = 0 /\ answered' = 0 /\ read' = [o \in Org |-> 0]

Kill ==
    /\ pc # "idle"
    /\ Fault
    /\ EndRun
    /\ UNCHANGED <<github, db, changes>>

-----------------------------------------------------------------------------
(* The thread of an organisation                                           *)

InTask(states) == {o \in Org : task[o] \in states}

StartOrg(o) ==
    /\ task[o] = "queued"
    /\ \A q \in InTask({"queued"}) : o <= q
    /\ Cardinality(InTask({"query", "count", "add"})) < Workers
    /\ task' = [task EXCEPT ![o] = "query"]
    /\ UNCHANGED <<github, db, pc, cursor, more, listing, points, read, answered, seen, steady,
                   changes, faults>>

\* GitHub answers with the next page, at a cost.
Answer(o) ==
    /\ task[o] = "query"
    /\ o \notin Broken
    /\ task' = [task EXCEPT ![o] = "count"]
    /\ listing' = [r \in Repo |-> IF r \in Page(o) THEN github[r] ELSE listing[r]]
    /\ cursor' = [cursor EXCEPT ![o] = @ \cup {r \in Repo : \E q \in Page(o) : r <= q}]
    /\ more' = IF Page(o) = Rest(o) THEN more \ {o} ELSE more \cup {o}
    /\ answered' = answered + 1
    /\ UNCHANGED <<github, db, pc, points, read, seen, steady, changes, faults>>

\* GitHub answers that there is no such organisation, at a cost.
AnswerNone(o) ==
    /\ task[o] = "query"
    /\ o \in Broken
    /\ task' = [task EXCEPT ![o] = "count"]
    /\ answered' = answered + 1
    /\ UNCHANGED <<github, db, pc, cursor, more, listing, points, read, seen, steady, changes,
                   faults>>

\* (mutated: without the lock)
MutAcquire(o) ==
    /\ task[o] = "count"
    /\ task' = [task EXCEPT ![o] = "add"]
    /\ read' = [read EXCEPT ![o] = points]
    /\ UNCHANGED <<github, db, pc, cursor, more, listing, points, answered, seen, steady,
                   changes, faults>>

\* `with self._points_lock`: the thread reads points_used ...
Acquire(o) ==
    /\ task[o] = "count"
    /\ InTask({"add"}) = {}
    /\ task' = [task EXCEPT ![o] = "add"]
    /\ read' = [read EXCEPT ![o] = points]
    /\ UNCHANGED <<github, db, pc, cursor, more, listing, points, answered, seen, steady,
                   changes, faults>>

\* ... adds to it, and goes on with the next page, if there is one; without an
\* organisation in the answer it has failed.
AddPoints(o) ==
    /\ task[o] = "add"
    /\ points' = read[o] + 1
    /\ task' = [task EXCEPT ![o] = IF o \in Broken THEN "failed"
                                     ELSE IF o \in more THEN "query" ELSE "listed"]
    /\ UNCHANGED <<github, db, pc, cursor, more, listing, read, answered, seen, steady,
                   changes, faults>>

\* The query fails before it is counted: errors in the answer, retries used up.
FailQuery(o) ==
    /\ task[o] = "query"
    /\ IF o \in Broken THEN UNCHANGED faults ELSE Fault
    /\ task' = [task EXCEPT ![o] = "failed"]
    /\ UNCHANGED <<github, db, pc, cursor, more, listing, points, read, answered, seen, steady,
                   changes>>

\* An answer _fetch does not expect: an exception it does not catch.
Surprise(o) ==
    /\ task[o] = "query"
    /\ Fault
    /\ task' = [task EXCEPT ![o] = "uncaught"]
    /\ UNCHANGED <<github, db, pc, cursor, more, listing, points, read, answered, seen, steady,
                   changes>>

-----------------------------------------------------------------------------
(* The main thread                                                         *)

\* as_completed yields a future that is done, in no particular order.
Collect(o, outcome) ==
    /\ pc = "collect"
    /\ o \notin seen
    /\ task[o] = outcome
    /\ seen' = seen \cup {o}

\* The repositories in scope are committed, the organisation with them.
CommitOrg(o) ==
    /\ Collect(o, "listed")
    /\ UpsertRepos(Kept(o))
    /\ UNCHANGED <<github, pc, threads, steady, changes, faults>>

\* An organisation with an error is left out of this run.
SkipOrg(o) ==
    /\ Collect(o, "failed")
    /\ UNCHANGED <<github, db, pc, threads, steady, changes, faults>>

\* The exception comes out of future.result(), and ends the run.
CrashRun(o) ==
    /\ Collect(o, "uncaught")
    /\ pc' = "unwind"
    /\ UNCHANGED <<github, db, threads, steady, changes, faults>>

\* Ctrl-C, or a database that is locked when it is to be written
MainFails ==
    /\ pc = "collect"
    /\ Fault
    /\ pc' = "unwind"
    /\ UNCHANGED <<github, db, threads, seen, steady, changes>>

EndLoop ==
    /\ pc = "collect"
    /\ seen = Org
    /\ pc' = "join"
    /\ UNCHANGED <<github, db, threads, seen, steady, changes, faults>>

\* Leaving the pool waits for all its threads, queued ones included.
Join ==
    /\ pc \in {"join", "unwind"}
    /\ InTask({"queued", "query", "count", "add"}) = {}
    /\ IF pc = "unwind" THEN EndRun
                        ELSE pc' = "record" /\ UNCHANGED <<threads, seen, steady>>
    /\ UNCHANGED <<github, db, changes, faults>>

\* The run is entered in crawl_runs, with the points it has used.
Record ==
    /\ pc = "record"
    /\ EndRun
    /\ UNCHANGED <<github, db, changes, faults>>

Thread(o) ==
    \/ StartOrg(o) \/ Answer(o) \/ AnswerNone(o) \/ Acquire(o) \/ AddPoints(o)
    \/ FailQuery(o) \/ Surprise(o)

Main ==
    \/ \E o \in Org : CommitOrg(o) \/ SkipOrg(o) \/ CrashRun(o)
    \/ EndLoop \/ Join \/ Record

Next ==
    \/ \E r \in Repo : Change(r)
    \/ StartRun
    \/ \E o \in Org : Thread(o)
    \/ Main
    \/ MainFails
    \/ Kill

Spec == Init /\ [][Next]_vars

\* Threads and the main loop run, and the command is started again night after
\* night.  Nothing is asked of queries that fail but that they end.
Fairness ==
    /\ WF_vars(StartRun)
    /\ WF_vars(Main)
    /\ \A o \in Org : WF_vars(Thread(o))

FairSpec == Spec /\ Fairness
-----------------------------------------------------------------------------
(* Properties                                                              *)

\* Every variable keeps its type, and ids are as many as the rows of repos.
TypeOK ==
    /\ github \in [Repo -> Versions \cup {absent}]
    /\ table \in [Repo -> Versions \cup {absent}]
    /\ ids \in [Repo -> 0 .. Cardinality(Repo)]
    /\ Rows = {r \in Repo : table[r] # absent}
    /\ pc \in {"idle", "collect", "join", "unwind", "record"}
    /\ task \in [Org -> {"none", "queued", "query", "count", "add", "listed", "failed",
                         "uncaught"}]
    /\ cursor \in [Org -> SUBSET Repo]
    /\ more \subseteq Org /\ seen \subseteq Org
    /\ listing \in [Repo -> Versions \cup {absent}]
    /\ points \in Nat /\ read \in [Org -> Nat] /\ answered \in Nat
    /\ steady \subseteq Repo
    /\ changes \in 0 .. MaxChanges /\ faults \in 0 .. MaxFaults

\* The points entered in crawl_runs are those of all queries answered in the
\* run, whatever order the threads have added them in.
PointsExact == pc = "record" => points = answered

\* A run that comes to its end has every repository that was in scope all the
\* time, as it is at GitHub, if its organisation did not fail: no page is
\* skipped, and no organisation suffers from the failure of another.
CompleteRunMissesNothing ==
    pc = "record" =>
        \A r \in steady :
            (/\ github[r] # absent /\ ShouldKeep(github[r], OrgOf[r])
             /\ task[OrgOf[r]] # "failed") => table[r] = github[r]

\* What an entry of config/orgs.yml asks for, setting by setting: its own value, be
\* it 0 or false, overrides the default, which counts where the entry is silent.
Flag(own, default) == own = TRUE \/ (own = Unset /\ default)
Admits(o, m) ==
    /\ m.archived => Flag(Rules[o].include_archived, Defaults.include_archived)
    /\ m.fork => Flag(Rules[o].include_forks, Defaults.include_forks)
    /\ \/ Rules[o].min_stars # Unset /\ m.stars >= Rules[o].min_stars
       \/ Rules[o].min_stars = Unset /\ m.stars >= Defaults.min_stars

\* No setting of an organisation is lost to the defaults, nor one of the defaults
\* to a setting that is not there: what is not asked for is never entered, and
\* what is asked for and was listed is, once the organisation is collected.
RowsInScope ==
    \A r \in Repo :
        LET o == OrgOf[r] IN
        /\ table[r] # absent => Admits(o, table[r])
        /\ (/\ o \in seen /\ task[o] = "listed"
            /\ listing[r] # absent /\ Admits(o, listing[r])) => table[r] = listing[r]

\* Rows are appended only: a repository never loses its id, which snapshots and
\* findings refer to and by which `fetch` orders its work, and a new one gets a
\* larger id than all before it.
IdsStand ==
    [][\A r \in Repo : ids[r] # 0 =>
          /\ ids'[r] = ids[r]
          /\ \A q \in Repo : ids[q] = 0 /\ ids'[q] # 0 => ids'[q] > ids[r]]_vars

\* Once a repository stays as it is and in scope, its row is there and says so,
\* unless the queries of its organisation fail for ever.
TableCatchesUp ==
    \A r \in Repo : \A m \in Versions :
        OrgOf[r] \notin Broken /\ ShouldKeep(m, OrgOf[r]) =>
            (<>[](github[r] = m) => <>[](table[r] = m))
=============================================================================
