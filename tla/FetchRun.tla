------------------------------- MODULE FetchRun -------------------------------
(***************************************************************************)
(* `typocrawler fetch`: the run that turns discovered repositories into    *)
(* README snapshots.  The main thread hands every repository of its work   *)
(* list to a thread pool, collects the results as they complete, commits   *)
(* each one by itself, and stops the pool when GitHub's rate limit is hit. *)
(* Runs follow one another; each starts from what the database holds.      *)
(*                                                                         *)
(* One request of the model is one call of fetch_readme with the retries   *)
(* the client makes inside it.                                             *)
(***************************************************************************)
EXTENDS Integers, FiniteSets

CONSTANTS
    Repo,       \* ids of the table repos, in the order of discovery
    Kind,       \* what GitHub has for the README of a repository
    Workers,    \* --workers
    Limit,      \* --limit; 0 is "all remaining"
    Quota,      \* requests GitHub grants before it answers "rate limited"
    MaxFaults   \* bound: kills, lost connections and passing server errors

\* "broken": GitHub refuses this repository every time (451, for one)
Kinds == {"readme", "absent", "skipped", "broken"}

ASSUME FetchAssumption ==
    /\ Repo \subseteq Nat
    /\ Kind \in [Repo -> Kinds]
    /\ Workers \in Nat \ {0}
    /\ Limit \in Nat
    /\ Quota \in Nat \ {0}
    /\ MaxFaults \in Nat

VARIABLES
    known,      \* rows of repos
    marked,     \* those with readme_checked_at set
    saved,      \* those with a row in readme_snapshots
    etags,      \* those with readme_etag set
    pc,         \* where the main thread is; "closed": at the end of the process, which
                \* waits for the threads, with the client closed under them
    todo,       \* the work list of this run
    future,     \* the state of the future of each repository
    answer,     \* the result or exception of a finished future
    seen,       \* futures as_completed has yielded
    toCancel,   \* futures the loop over f.cancel() has still to visit
    fate,       \* how the collecting loop has ended
    quota,      \* requests left at GitHub
    faults      \* faults so far

db   == <<known, marked, saved, etags>>
run  == <<todo, future, answer, seen, toCancel, fate>>
vars == <<db, pc, run, quota, faults>>

Result == {"fetched", "absent", "skipped", "not_modified"}
Answer == Result \cup {"error", "rate_limited", "uncaught"}

-----------------------------------------------------------------------------
(* Helpers                                                                 *)

\* repos_needing_readme
NeedReadme == known \ marked

\* The first n of S, all of them for n = 0
Oldest(S, n) == {r \in S : n = 0 \/ Cardinality({q \in S : q < r}) < n}

InState(s) == {r \in todo : future[r] = s}

\* (mutated: an ETag is sent of a README that was not saved)
MutReplies(r) ==
    CASE quota = 0            -> {"rate_limited"}
      [] Kind[r] = "broken"   -> {"error"}
      [] Kind[r] = "readme"   -> {"fetched", "not_modified"}
      [] OTHER                -> {Kind[r]}

\* What GitHub may answer when nothing goes wrong on the way.  A README of which
\* an ETag is sent has been changed since, or not.
Replies(r) ==
    CASE quota = 0            -> {"rate_limited"}
      [] Kind[r] = "broken"   -> {"error"}
      [] Kind[r] = "readme"   -> {"fetched"} \cup IF r \in etags THEN {"not_modified"} ELSE {}
      [] OTHER                -> {Kind[r]}

\* What a request costs of the quota: nothing if it was lost on the way, for a
\* 304, and beyond the limit.
Costs(a) == a \notin {"not_modified", "rate_limited", "uncaught"}

Fault == faults < MaxFaults /\ faults' = faults + 1

\* Nothing of a run is left in memory.
Forget ==
    /\ pc' = "idle"
    /\ todo' = {} /\ seen' = {} /\ toCancel' = {} /\ fate' = "open"
    /\ future' = [r \in Repo |-> "none"]
    /\ answer' = [r \in Repo |-> "none"]

Init ==
    /\ known = {} /\ marked = {} /\ saved = {} /\ etags = {}
    /\ pc = "idle"
    /\ todo = {} /\ seen = {} /\ toCancel = {} /\ fate = "open"
    /\ future = [r \in Repo |-> "none"]
    /\ answer = [r \in Repo |-> "none"]
    /\ quota = Quota /\ faults = 0

-----------------------------------------------------------------------------
(* Around the run                                                          *)

\* `discover` adds the next repository.
Discover(r) ==
    /\ r \notin known
    /\ \A q \in Repo : q < r => q \in known
    /\ known' = known \cup {r}
    /\ UNCHANGED <<marked, saved, etags, pc, run, quota, faults>>

\* The database is taken back before revision 2 and up again: readme_checked_at is
\* empty, with snapshots and ETags still there.
ForgetMarks ==
    /\ pc = "idle" /\ marked # {}
    /\ Fault
    /\ marked' = {}
    /\ UNCHANGED <<known, saved, etags, pc, run, quota>>

\* A run starts when the quota of the hour is there again.  It reads its work
\* list, and submits all of it to the pool.
StartRun ==
    /\ pc = "idle"
    /\ NeedReadme # {}
    /\ pc' = "collect"
    /\ todo' = Oldest(NeedReadme, Limit)
    /\ future' = [r \in Repo |-> IF r \in todo' THEN "pending" ELSE "none"]
    /\ quota' = Quota
    /\ UNCHANGED <<db, answer, seen, toCancel, fate, faults>>

\* The process is killed: the job's timeout, a power cut.
Kill ==
    /\ pc # "idle"
    /\ Fault
    /\ Forget
    /\ UNCHANGED <<db, quota>>

-----------------------------------------------------------------------------
(* Worker threads                                                          *)

\* A free worker takes the first pending future ...
Take(r) ==
    /\ future[r] = "pending"
    /\ \A q \in InState("pending") : r <= q
    /\ Cardinality(InState("running")) < Workers

\* ... and sends its request.
StartFetch(r) ==
    /\ pc # "closed"
    /\ Take(r)
    /\ future' = [future EXCEPT ![r] = "running"]
    /\ UNCHANGED <<db, pc, todo, answer, seen, toCancel, fate, quota, faults>>

Finish(r, a) ==
    /\ future[r] = "running"
    /\ future' = [future EXCEPT ![r] = "finished"]
    /\ answer' = [answer EXCEPT ![r] = a]
    /\ quota'   = IF Costs(a) /\ quota > 0 THEN quota - 1 ELSE quota
    /\ UNCHANGED <<db, pc, todo, seen, toCancel, fate>>

\* GitHub answers.
Respond(r) == (\E a \in Replies(r) : Finish(r, a)) /\ UNCHANGED faults

\* The retries are used up: _work returns a status error, but lets an error of
\* the connection through.
LoseRequest(r) == \E a \in {"error", "uncaught"} : Finish(r, a) /\ Fault

\* A closed client refuses the request with an error _work does not catch.
RefuseFetch(r) ==
    /\ pc = "closed"
    /\ Take(r)
    /\ future' = [future EXCEPT ![r] = "finished"]
    /\ answer' = [answer EXCEPT ![r] = "uncaught"]
    /\ UNCHANGED <<db, pc, todo, seen, toCancel, fate, quota, faults>>

\* The connection is closed under a request, which may have had its answer before.
BreakOff(r) == pc = "closed" /\ Finish(r, "uncaught") /\ UNCHANGED faults

-----------------------------------------------------------------------------
(* The main thread                                                         *)

\* as_completed yields a finished future, in no particular order.
Collect(r) ==
    /\ pc = "collect"
    /\ r \in InState("finished") \ seen
    /\ seen' = seen \cup {r}

\* (mutated: only a README counts as checked)
MutPersistReadme(r) ==
    /\ marked' = IF answer[r] = "fetched" THEN marked \cup {r} ELSE marked
    /\ saved' = IF answer[r] = "fetched" THEN saved \cup {r} ELSE saved
    /\ IF answer[r] = "fetched" THEN etags' \in {etags \ {r}, etags \cup {r}}
                                ELSE etags' = etags
    /\ UNCHANGED known

\* _persist_readme, in one transaction: a snapshot and the marks for a README,
\* the mark alone for any other result.  The response may have no ETag.
PersistReadme(r) ==
    /\ marked' = marked \cup {r}
    /\ saved' = IF answer[r] = "fetched" THEN saved \cup {r} ELSE saved
    /\ IF answer[r] = "fetched" THEN etags' \in {etags \ {r}, etags \cup {r}}
                                ELSE etags' = etags
    /\ UNCHANGED known

CollectResult(r) ==
    /\ Collect(r)
    /\ answer[r] \in Result
    /\ PersistReadme(r)
    /\ UNCHANGED <<pc, todo, future, answer, toCancel, fate, quota, faults>>

\* An error _work has caught: the repository is left as it is, for a later run.
CollectError(r) ==
    /\ Collect(r)
    /\ answer[r] = "error"
    /\ UNCHANGED <<db, pc, todo, future, answer, toCancel, fate, quota, faults>>

\* (mutated: the loop over f.cancel() goes over every repository)
MutCollectLimitAll(r) ==
    /\ Collect(r)
    /\ answer[r] = "rate_limited"
    /\ pc' = "cancel"
    /\ fate' = "stopped"
    /\ toCancel' = known
    /\ UNCHANGED <<db, todo, future, answer, quota, faults>>

\* (mutated: the rate limit is an error like the others)
MutCollectLimitError(r) ==
    /\ Collect(r)
    /\ answer[r] = "rate_limited"
    /\ UNCHANGED <<db, pc, todo, future, answer, toCancel, fate, quota, faults>>

\* The rate limit: stop collecting, and cancel what can be cancelled.
CollectLimit(r) ==
    /\ Collect(r)
    /\ answer[r] = "rate_limited"
    /\ pc' = "cancel"
    /\ fate' = "stopped"
    /\ toCancel' = todo
    /\ UNCHANGED <<db, todo, future, answer, quota, faults>>

\* An exception nobody catches: the pool is left without cancelling anything.
CollectCrash(r) ==
    /\ Collect(r)
    /\ answer[r] = "uncaught"
    /\ pc' = "join"
    /\ fate' = "failed"
    /\ UNCHANGED <<db, todo, future, answer, toCancel, quota, faults>>

\* Ctrl-C, or a database that is locked when a result is to be committed: an
\* exception of the main thread, with the same end.
MainFails ==
    /\ pc \in {"collect", "cancel"}
    /\ Fault
    /\ pc' = "join"
    /\ fate' = "failed"
    /\ UNCHANGED <<db, todo, future, answer, seen, toCancel, quota>>

\* (mutated: the loop ends at the first future that cannot be cancelled)
MutCancelNext ==
    /\ pc = "cancel"
    /\ \E r \in Oldest(toCancel, 1) :
           /\ future' = IF future[r] = "pending" THEN [future EXCEPT ![r] = "cancelled"]
                                                 ELSE future
           /\ toCancel' = IF future[r] = "pending" THEN toCancel \ {r} ELSE {}
    /\ pc' = IF toCancel' = {} THEN "join" ELSE "cancel"
    /\ UNCHANGED <<db, todo, answer, seen, fate, quota, faults>>

\* (mutated: a future that cannot be cancelled is tried again)
MutCancelAgain ==
    /\ pc = "cancel"
    /\ \E r \in Oldest(toCancel, 1) :
           /\ future' = IF future[r] = "pending" THEN [future EXCEPT ![r] = "cancelled"]
                                                 ELSE future
           /\ toCancel' = IF future[r] = "pending" THEN toCancel \ {r} ELSE toCancel
    /\ pc' = IF toCancel' = {} THEN "join" ELSE "cancel"
    /\ UNCHANGED <<db, todo, answer, seen, fate, quota, faults>>

\* for f in futures: f.cancel(), which only a pending future obeys.
CancelNext ==
    /\ pc = "cancel"
    /\ \E r \in Oldest(toCancel, 1) :
           /\ future' = IF future[r] = "pending" THEN [future EXCEPT ![r] = "cancelled"]
                                                 ELSE future
           /\ toCancel' = toCancel \ {r}
    /\ pc' = IF toCancel' = {} THEN "join" ELSE "cancel"
    /\ UNCHANGED <<db, todo, answer, seen, fate, quota, faults>>

\* The loop has seen every future.
EndLoop ==
    /\ pc = "collect"
    /\ seen = todo
    /\ pc' = "join"
    /\ fate' = "complete"
    /\ UNCHANGED <<db, todo, future, answer, seen, toCancel, quota, faults>>

\* Leaving the pool waits for all its threads; then the client is closed.  A run
\* that has failed ends here.
Join ==
    /\ pc = "join"
    /\ InState("pending") \cup InState("running") = {}
    /\ IF fate = "failed" THEN Forget ELSE pc' = "record" /\ UNCHANGED run
    /\ UNCHANGED <<db, quota, faults>>

\* Ctrl-C while it waits: the client is closed over threads still at work, which go
\* on until nothing is pending.
JoinFails ==
    /\ pc = "join"
    /\ Fault
    /\ pc' = "closed"
    /\ fate' = "failed"
    /\ UNCHANGED <<db, todo, future, answer, seen, toCancel, quota>>

\* Python waits for the threads of a pool before the process ends.
Exit ==
    /\ pc = "closed"
    /\ InState("pending") \cup InState("running") = {}
    /\ Forget
    /\ UNCHANGED <<db, quota, faults>>

\* The run is entered in crawl_runs, which no command reads.
Record ==
    /\ pc = "record"
    /\ Forget
    /\ UNCHANGED <<db, quota, faults>>

Worker(r) ==
    StartFetch(r) \/ Respond(r) \/ LoseRequest(r) \/ RefuseFetch(r) \/ BreakOff(r)

Main ==
    \/ \E r \in Repo : \/ CollectResult(r) \/ CollectError(r)
                       \/ CollectLimit(r)  \/ CollectCrash(r)
    \/ CancelNext \/ EndLoop \/ Join \/ Exit \/ Record

Next ==
    \/ \E r \in Repo : Discover(r) \/ Worker(r)
    \/ StartRun \/ ForgetMarks
    \/ Main
    \/ MainFails \/ JoinFails
    \/ Kill

Spec == Init /\ [][Next]_vars

\* Threads and the main loop run, and a request is answered or fails (client.py:54, a
\* timeout of 30 seconds; five attempts); the command is started again night after
\* night; and a README that GitHub delivers in run after run is not always
\* behind the rate limit when the results are collected.
Fairness ==
    /\ WF_vars(StartRun)
    /\ WF_vars(Main)
    /\ \A r \in Repo : /\ WF_vars(StartFetch(r)) /\ WF_vars(RefuseFetch(r))
                       /\ WF_vars(Respond(r))
    /\ \A r \in Repo : SF_vars(CollectResult(r))

FairSpec == Spec /\ Fairness
-----------------------------------------------------------------------------
(* Properties                                                              *)

\* Every variable keeps its type.
TypeOK ==
    /\ known \subseteq Repo /\ marked \subseteq Repo
    /\ saved \subseteq Repo /\ etags \subseteq Repo
    /\ pc \in {"idle", "collect", "cancel", "join", "closed", "record"}
    /\ todo \subseteq Repo /\ seen \subseteq todo /\ toCancel \subseteq todo
    /\ future \in [Repo -> {"none", "pending", "running", "finished", "cancelled"}]
    /\ answer \in [Repo -> Answer \cup {"none"}]
    /\ fate \in {"open", "complete", "stopped", "failed"}
    /\ quota \in 0 .. Quota
    /\ faults \in 0 .. MaxFaults

\* A repository is taken off the work list only when GitHub has settled it: one
\* that GitHub refuses is never marked, and one with a README not without its
\* snapshot, also when the answer was that the README has not been modified since
\* an earlier life of the database.
MarksTellTheTruth ==
    /\ etags \subseteq saved
    /\ marked \subseteq known
    /\ \A r \in saved : Kind[r] = "readme"
    /\ \A r \in marked : Kind[r] # "broken" /\ (Kind[r] = "readme" => r \in saved)

\* Once the loop over f.cancel() is through, no new request starts.
StopIsClean ==
    pc \in {"join", "record"} /\ fate = "stopped" => InState("pending") = {}

\* A run loses an answer only if it stopped or failed: one that completes has
\* marked every repository of its list, but for those with an error.
CompleteRunLosesNothing ==
    fate = "complete" => \A r \in todo : r \in marked \/ answer[r] = "error"

\* Every run comes to an end, whichever thread fails and wherever Ctrl-C finds the main
\* thread: futures that were cancelled, or that nobody has collected, keep nobody
\* waiting, and neither do those still pending when the client is closed.
RunsEnd == pc # "idle" ~> pc = "idle"

\* Every repository is settled in the end, unless GitHub refuses it (cli.py:192:
\* "re-running continues where the last run stopped").  It takes a --limit of 0,
\* or one above the number of refused repositories.
EveryReadmeFetched ==
    \A r \in Repo : r \in known /\ Kind[r] # "broken" ~> r \in marked
=============================================================================
