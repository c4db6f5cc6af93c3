---------------------------- MODULE FindingStore ----------------------------
(***************************************************************************)
(* The tables readme_snapshots and findings of typos.db, the file          *)
(* config/allowlist.txt, and the three commands that work on them:         *)
(* `typocrawler check`, `typocrawler filter` and `typocrawler verify`      *)
(* [--reset].  Proc is the set of command processes that may run at the    *)
(* same time on one database: one for the nightly job (whose concurrency   *)
(* group admits one run), several when commands are also started by hand.  *)
(*                                                                         *)
(* A command reads its work list once, then commits batch after batch.  A  *)
(* read and a later write of the same command are separate steps even      *)
(* inside one `engine.begin()`: the SQLite driver opens the transaction at *)
(* the first INSERT or UPDATE, so a SELECT in front of it holds no lock.   *)
(***************************************************************************)
EXTENDS Integers, FiniteSets

CONSTANTS
    Proc,             \* command processes
    Snapshot,         \* ids of readme_snapshots, in the order fetch saves them
    Finding,          \* keys (repo, token, line, blob) the two spell checkers report
    SnapOf,           \* the snapshot a finding is reported for
    Score,            \* heuristic_score: 2 if both checkers agree, else 1
    Token,            \* lower-cased tokens, the entries of the allowlist
    TokenOf,          \* the token of a finding
    ContextRule,      \* the rule that rejects a finding, given its whole line
    SnippetRule,      \* the same, given the 300 characters kept of the line
    Limits,           \* values of --limit in use; 0 is "all remaining"
    Batch,            \* --batch
    Unanswerable,     \* findings on which the provider fails every time
    MaxInterventions  \* bound: allowlist edits and resets of one behaviour

\* "token" stands for the rules that look at token and suggestion only,
\* "fragment" for the one that looks at the text around them.
Rule == {"none", "token", "fragment"}

ASSUME ParametersAssumption ==
    /\ Snapshot \subseteq Nat
    /\ SnapOf \in [Finding -> Snapshot]
    /\ Score \in [Finding -> 1 .. 2]
    /\ TokenOf \in [Finding -> Token]
    /\ Limits \subseteq Nat
    /\ Batch \in Nat \ {0}
    /\ Unanswerable \subseteq Finding
    /\ MaxInterventions \in Nat

\* Cutting the line changes what the context rule sees, never the token.
ASSUME RulesAssumption ==
    /\ ContextRule \in [Finding -> Rule]
    /\ SnippetRule \in [Finding -> Rule]
    /\ \A f \in Finding : ContextRule[f] = "token" <=> SnippetRule[f] = "token"

VARIABLES
    snaps,          \* rows of readme_snapshots
    checked,        \* those with checked_at set
    status,         \* findings.status; "absent" when there is no row
    reason,         \* findings.filter_reason, "none" for NULL
    verdict,        \* findings.llm_verdict, "none" for NULL
    allow,          \* the words of config/allowlist.txt
    cmd,            \* what each process is doing
    work,           \* the rows it has read and still has to write
    loaded,         \* the allowlist it has loaded
    interventions   \* allowlist edits and resets so far

store   == <<snaps, checked, status, reason, verdict>>
process == <<cmd, work, loaded>>
vars    == <<store, process, allow, interventions>>

Verdict == {"typo", "not_typo", "unsure"}
Reason  == Rule \cup {"allowlist"}
Status  == {"new", "confirmed", "false_positive"}

-----------------------------------------------------------------------------
(* Rows and queries                                                        *)

Row(f) == status[f] # "absent"

\* The heuristic rules in their order: the allowlist is asked first.
Classify(f, rule, words) == IF TokenOf[f] \in words THEN "allowlist" ELSE rule[f]

StatusFor(r) == IF r = "none" THEN "new" ELSE "false_positive"

\* _LOCKED; nothing writes "fixed"
Locked == {"confirmed"}

Unlocked == {f \in Finding : Row(f) /\ status[f] \notin Locked}

\* (mutated: findings with a verdict are selected again)
MutPending(f) == status[f] = "new"

\* The queue of `verify`
Pending(f) == status[f] = "new" /\ verdict[f] = "none"

\* The queue of `check`
Unchecked == snaps \ checked

\* What ORDER BY key LIMIT n may return, n = 0 being no limit.  Rows with the
\* same key come in an order that depends on the spell checkers: any is allowed.
Heads(S, n, key) ==
    {T \in SUBSET S :
        /\ Cardinality(T) = IF n = 0 \/ n > Cardinality(S) THEN Cardinality(S) ELSE n
        /\ \A t \in T, u \in S \ T : key[t] <= key[u]}

OldestFirst == [s \in Snapshot |-> s]
BestFirst   == [f \in Finding |-> -Score[f]]

\* (mutated: the verdict itself is stored as the status)
MutVerdictStatusRaw(v, old) == CASE v = "typo"     -> "confirmed"
                                 [] v = "not_typo" -> "false_positive"
                                 [] v = "unsure"   -> v

\* (mutated: "unsure" rejects)
MutVerdictStatusStrict(v, old) == IF v = "typo" THEN "confirmed" ELSE "false_positive"

VerdictStatus(v, old) == CASE v = "typo"     -> "confirmed"
                           [] v = "not_typo" -> "false_positive"
                           [] v = "unsure"   -> old

-----------------------------------------------------------------------------
(* What a transaction does to the tables                                   *)

\* (mutated: findings the rules reject are not recorded)
MutUpsertFindings(F, words) ==
    LET Kept == {f \in F : Classify(f, ContextRule, words) = "none"} IN
    /\ status' = [f \in Finding |-> IF f \in Kept THEN "new" ELSE status[f]]
    /\ reason' = reason

UpsertFindings(F, words) ==
    /\ status' = [f \in Finding |->
                    IF f \in F THEN StatusFor(Classify(f, ContextRule, words)) ELSE status[f]]
    /\ reason' = [f \in Finding |->
                    IF f \in F THEN Classify(f, ContextRule, words) ELSE reason[f]]

\* (mutated: no snapshot is marked)
MutMarkCheckedNone(C) == checked' = checked

MarkChecked(C) == checked' = checked \cup C

Reclassify(F, words) ==
    /\ status' = [f \in Finding |->
                    IF f \in F THEN StatusFor(Classify(f, SnippetRule, words)) ELSE status[f]]
    /\ reason' = [f \in Finding |->
                    IF f \in F THEN Classify(f, SnippetRule, words) ELSE reason[f]]

\* (mutated: the verdicts go, the statuses stay)
MutResetVerdictsOnly ==
    /\ status' = status
    /\ verdict' = [f \in Finding |-> "none"]

\* (mutated: the rejections of the rules go back to "new" as well)
MutResetAll ==
    /\ status'  = [f \in Finding |-> IF Row(f) THEN "new" ELSE status[f]]
    /\ verdict' = [f \in Finding |-> "none"]

\* (mutated: only confirmed findings go back to "new")
MutResetConfirmed ==
    /\ status'  = [f \in Finding |-> IF status[f] = "confirmed" THEN "new" ELSE status[f]]
    /\ verdict' = [f \in Finding |-> "none"]

ResetVerdicts ==
    /\ status'  = [f \in Finding |-> IF verdict[f] # "none" THEN "new" ELSE status[f]]
    /\ verdict' = [f \in Finding |-> "none"]

\* (mutated: "unsure" is not recorded)
MutApplyVerdicts(C, reply) ==
    /\ status'  = [f \in Finding |->
                     IF f \in C THEN VerdictStatus(reply[f], status[f]) ELSE status[f]]
    /\ verdict' = [f \in Finding |->
                     IF f \in C /\ reply[f] # "unsure" THEN reply[f] ELSE verdict[f]]

ApplyVerdicts(C, reply) ==
    /\ status'  = [f \in Finding |->
                     IF f \in C THEN VerdictStatus(reply[f], status[f]) ELSE status[f]]
    /\ verdict' = [f \in Finding |-> IF f \in C THEN reply[f] ELSE verdict[f]]

-----------------------------------------------------------------------------
(* Processes                                                               *)

\* Command c starts on the rows W; with nothing to do it ends at once.
Begin(p, c, W, words) ==
    /\ cmd'    = [cmd    EXCEPT ![p] = IF W = {} THEN "idle" ELSE c]
    /\ work'   = [work   EXCEPT ![p] = W]
    /\ loaded' = [loaded EXCEPT ![p] = IF W = {} THEN {} ELSE words]

\* A batch is committed; the command ends with its last one.
Advance(p, done) == Begin(p, cmd[p], work[p] \ done, loaded[p])

Intervene == interventions < MaxInterventions /\ interventions' = interventions + 1

Init ==
    /\ snaps = {} /\ checked = {} /\ allow = {} /\ interventions = 0
    /\ status  = [f \in Finding |-> "absent"]
    /\ reason  = [f \in Finding |-> "none"]
    /\ verdict = [f \in Finding |-> "none"]
    /\ cmd     = [p \in Proc |-> "idle"]
    /\ work    = [p \in Proc |-> {}]
    /\ loaded  = [p \in Proc |-> {}]

\* `fetch` commits the next README.
SaveSnapshot(s) ==
    /\ s \notin snaps
    /\ \A t \in Snapshot : t < s => t \in snaps
    /\ snaps' = snaps \cup {s}
    /\ UNCHANGED <<checked, status, reason, verdict, process, allow, interventions>>

\* Someone edits config/allowlist.txt.
EditAllowlist(words) ==
    /\ words # allow
    /\ Intervene
    /\ allow' = words
    /\ UNCHANGED <<store, process>>

\* check: load the allowlist and select the unchecked snapshots.
CheckRead(p) ==
    /\ cmd[p] = "idle"
    /\ \E n \in Limits : \E W \in Heads(Unchecked, n, OldestFirst) :
           Begin(p, "check", W, allow)
    /\ UNCHANGED <<store, allow, interventions>>

\* check: run the checkers over a batch; write its findings and mark its
\* snapshots in one transaction.
CheckBatch(p) ==
    /\ cmd[p] = "check"
    /\ \E C \in Heads(work[p], Batch, OldestFirst) :
           /\ UpsertFindings({f \in Finding : SnapOf[f] \in C}, loaded[p])
           /\ MarkChecked(C)
           /\ Advance(p, C)
    /\ UNCHANGED <<snaps, verdict, allow, interventions>>

\* filter: load the allowlist and select the rows that are not locked.
FilterRead(p) ==
    /\ cmd[p] = "idle"
    /\ Begin(p, "filter", Unlocked, allow)
    /\ UNCHANGED <<store, allow, interventions>>

\* filter: rewrite every row selected, by id, in one transaction.
FilterWrite(p) ==
    /\ cmd[p] = "filter"
    /\ Reclassify(work[p], loaded[p])
    /\ Advance(p, work[p])
    /\ UNCHANGED <<snaps, checked, verdict, allow, interventions>>

\* verify --reset: the verdicts are cleared in a transaction of its own,
\* before the command knows whether it has a provider to ask.
VerifyReset(p) ==
    /\ cmd[p] = "idle"
    /\ Intervene
    /\ ResetVerdicts
    /\ cmd' = [cmd EXCEPT ![p] = "reset"]
    /\ UNCHANGED <<snaps, checked, reason, work, loaded, allow>>

\* verify: select the findings without a verdict.
VerifyRead(p) ==
    /\ cmd[p] \in {"idle", "reset"}
    /\ \E n \in Limits : \E W \in Heads({f \in Finding : Pending(f)}, n, BestFirst) :
           Begin(p, "verify", W, {})
    /\ UNCHANGED <<store, allow, interventions>>

\* verify: the provider answers for a batch, one verdict per finding (answers
\* it leaves out count as "unsure"), and the batch is committed.
VerifyBatch(p) ==
    /\ cmd[p] = "verify"
    /\ \E C \in Heads(work[p], Batch, BestFirst) :
           /\ C \cap Unanswerable = {}
           /\ \E reply \in [C -> Verdict] : ApplyVerdicts(C, reply)
           /\ Advance(p, C)
    /\ UNCHANGED <<snaps, checked, reason, allow, interventions>>

\* The command ends early: Ctrl-C or a killed job, a missing spell checker, no
\* provider, a failed LLM call, "database is locked".  What it has committed
\* stays, what it holds in memory is lost.
Interrupt(p) ==
    /\ cmd[p] # "idle"
    /\ Begin(p, "idle", {}, {})
    /\ UNCHANGED <<store, allow, interventions>>

Step(p) ==
    \/ CheckRead(p)   \/ CheckBatch(p)
    \/ FilterRead(p)  \/ FilterWrite(p)
    \/ VerifyReset(p) \/ VerifyRead(p)  \/ VerifyBatch(p)
    \/ Interrupt(p)

Next ==
    \/ \E s \in Snapshot : SaveSnapshot(s)
    \/ \E words \in SUBSET Token : EditAllowlist(words)
    \/ \E p \in Proc : Step(p)

Spec == Init /\ [][Next]_vars

\* The provider is asked for a batch on which it always fails.
Refused(p) ==
    /\ cmd[p] = "verify"
    /\ \A C \in Heads(work[p], Batch, BestFirst) : C \cap Unanswerable # {}

\* check and verify are started again and again (the nightly job) and do not fail
\* every time, but for the batches on which the provider always does; then verify
\* ends.  filter, once started, finishes or dies.  Nobody has to run filter, to
\* edit the allowlist or to reset.
Fairness ==
    \A p \in Proc :
        /\ SF_vars(CheckRead(p))  /\ SF_vars(CheckBatch(p))
        /\ SF_vars(VerifyRead(p)) /\ SF_vars(VerifyBatch(p))
        /\ WF_vars(FilterWrite(p))
        /\ WF_vars(Refused(p) /\ Interrupt(p))

FairSpec == Spec /\ Fairness
-----------------------------------------------------------------------------
(* Properties that hold with any number of processes                       *)

StoreType ==
    /\ snaps \subseteq Snapshot
    /\ checked \subseteq Snapshot
    /\ status  \in [Finding -> Status \cup {"absent"}]
    /\ reason  \in [Finding -> Reason]
    /\ verdict \in [Finding -> Verdict \cup {"none"}]

ProcessType ==
    /\ cmd    \in [Proc -> {"idle", "check", "filter", "reset", "verify"}]
    /\ work   \in [Proc -> SUBSET (Snapshot \cup Finding)]
    /\ loaded \in [Proc -> SUBSET Token]
    /\ \A p \in Proc : /\ cmd[p] = "check" => work[p] \subseteq Snapshot
                       /\ cmd[p] \in {"filter", "verify"} => work[p] \subseteq Finding
                       /\ cmd[p] \in {"idle", "reset"} => work[p] = {}

\* Every variable keeps its type; a check holds snapshots, filter and verify
\* hold findings, and a process between two commands holds nothing.
TypeOK ==
    /\ StoreType
    /\ ProcessType
    /\ allow \subseteq Token
    /\ interventions \in 0 .. MaxInterventions

\* A snapshot counts as checked exactly when its findings are in the table: a
\* crash never leaves a README marked without its findings, nor the reverse,
\* and no command works on a row that is not there.
RowsFollowChecks ==
    /\ checked \subseteq snaps
    /\ \A f \in Finding :
          /\ Row(f) <=> SnapOf[f] \in checked
          /\ ~Row(f) => reason[f] = "none" /\ verdict[f] = "none"
    /\ \A p \in Proc :
          /\ cmd[p] = "check" => work[p] \subseteq snaps
          /\ cmd[p] \in {"filter", "verify"} => \A f \in work[p] : Row(f)

\* No decision without a ground recorded next to it: a confirmed finding has an
\* LLM verdict, a rejected one a filter reason or an LLM verdict, whatever
\* commands overlap.
DecisionHasEvidence ==
    \A f \in Finding :
        /\ status[f] = "confirmed" => verdict[f] # "none"
        /\ status[f] = "false_positive" => reason[f] # "none" \/ verdict[f] # "none"

-----------------------------------------------------------------------------
(* Properties of one command at a time                                     *)

SingleWriter == \A p, q \in Proc : p = q

\* A finding is shown as confirmed exactly when the LLM called it a typo:
\* neither a re-check nor a filter nor a reset separates the two columns.
ConfirmedIffTypo == \A f \in Finding : status[f] = "confirmed" <=> verdict[f] = "typo"

\* A finding is out because a rule or the LLM said so, never because of an
\* "unsure" that is still in the row.
RejectionExplained ==
    \A f \in Finding :
        status[f] = "false_positive" => reason[f] # "none" \/ verdict[f] = "not_typo"

\* The LLM is not asked twice: once a finding has a verdict, nothing replaces it
\* by another one, whatever checks, filters, edits and broken-off runs of verify
\* come in between; only --reset takes it away.
VerdictsStand ==
    [][\A f \in Finding :
          verdict[f] # "none" => verdict'[f] \in {verdict[f], "none"}]_vars

\* When filter commits, what it leaves visible and unconfirmed passes the rules
\* under the allowlist it loaded, so that a second run would change nothing.
FilterSettles ==
    [][\A p \in Proc : FilterWrite(p) =>
          \A f \in Finding : (Row(f) /\ status[f] \notin Locked) =>
              /\ status'[f] = StatusFor(Classify(f, SnippetRule, loaded[p]))
              /\ reason'[f] = Classify(f, SnippetRule, loaded[p])]_vars

\* Every README saved is checked in the end, whatever limits the runs have and
\* however often they are interrupted.
EverySnapshotChecked == \A s \in Snapshot : s \in snaps ~> s \in checked

\* A finding whose score is above that of every finding the provider fails on is
\* settled in the end, when batches hold one finding (a failing finding takes the
\* rest of its batch with it, and the ones behind it are never reached).
EveryFindingSettled ==
    \A f \in Finding :
        (\A g \in Unanswerable : Score[g] < Score[f]) => (Pending(f) ~> ~Pending(f))

-----------------------------------------------------------------------------
(* What the dashboard shows of a finding, and the life it promises it      *)

Shown == [f \in Finding |->
    CASE status[f] = "absent"         -> "absent"
      [] status[f] = "false_positive" -> "rejected"
      [] status[f] = "confirmed"      -> "confirmed"
      [] OTHER -> IF verdict[f] = "unsure" THEN "unsure" ELSE "unverified"]

Judged == {f \in Finding : verdict[f] # "none"}

Lifecycle == INSTANCE FindingLifecycle WITH shown <- Shown, judged <- Judged

\* One command at a time, the tables implement the life of a finding.
ImplementsLifecycle == Lifecycle!Spec

-----------------------------------------------------------------------------
(* Statements of the source that the code does not keep                    *)

\* finding_store.py:16: LLM verdicts are what the heuristic pass must not
\* overwrite.
RejectionByLLMStands == \A f \in Finding : verdict[f] = "not_typo" => status[f] # "new"

\* cli.py:309: findings that fail the heuristics are false positives.
FailingFindingsRejected ==
    \A f \in Finding :
        status[f] = "new" => Classify(f, ContextRule, allow) = "none"

=============================================================================
