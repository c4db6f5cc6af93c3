------------------------------- MODULE Dashboard -------------------------------
(***************************************************************************)
(* `typocrawler report` and the page it builds, on top of CheckBatch: the  *)
(* report reads the findings there are, counts, and writes two files one   *)
(* after the other, while check and verify go on; the page lists what is   *)
(* in the first file, filtered, a few rows at a time.                      *)
(***************************************************************************)
EXTENDS CheckBatch

CONSTANTS
    Org,        \* organisations
    OrgOf,      \* that of the repository of each snapshot
    none,       \* no filter
    START, STEP, \* rows the page lists at first, and more at each click
    Bounded     \* bound: whether the restrictions of Check and ForgetMarks apply

ASSUME DashboardAssumption ==
    /\ OrgOf \in [Readme -> Org]
    /\ none \notin Org \cup Readme
    /\ START \in Nat \ {0} /\ STEP \in Nat \ {0}
    /\ Bounded \in BOOLEAN

VARIABLES
    marked,     \* READMEs with the mark of fetch (readme_checked_at)
    pc,         \* what report does next
    rows,       \* its list
    scanned,    \* its count of READMEs
    whole,      \* history: when it counted, each README of the database had its mark
    list,       \* findings.json
    meta,       \* meta.json
    page        \* the state of app.js

site == <<pc, rows, scanned, whole, list, meta>>
vars == <<check, marked, site, page>>

-----------------------------------------------------------------------------
(* The commands before and beside it, as far as they change what is listed *)

\* A new README is saved with its mark.  Bounded: after a report with rows, or while
\* marks are missing, no batch begins, though one may end.
Check ==
    /\ CheckNext
    /\ Bounded /\ batch = {} /\ (list # {} \/ saved # marked) => batch' = {}
    /\ marked' = marked \cup (saved' \ saved)
    /\ UNCHANGED site

\* A README without one is fetched again, and GitHub says it is the same.
Refetch(r) ==
    /\ r \in saved \ marked
    /\ marked' = marked \cup {r}
    /\ UNCHANGED <<check, site>>

\* Between two commands the database is taken back before revision 2 and up again,
\* which leaves the READMEs and their findings, but empties the marks.  Bounded: before
\* the first report with rows.
ForgetMarks ==
    /\ pc = "idle" /\ tool = "none"
    /\ Bounded => list = {}
    /\ marked # {}
    /\ marked' = {}
    /\ UNCHANGED <<check, site>>

\* A finding in the queue of verify gets its verdict.
Verify(f, v) ==
    /\ f.status = "new" /\ f.verdict = "none"
    /\ findings' = (findings \ {f}) \cup
           {[f EXCEPT !.verdict = v,
                      !.status  = CASE v = "typo"     -> "confirmed"
                                    [] v = "not_typo" -> "false_positive"
                                    [] v = "unsure"   -> "new"]}
    /\ UNCHANGED <<saved, checked, memory, marked, site>>

-----------------------------------------------------------------------------
(* The report                                                              *)

\* One element of the list
Entry(f) ==
    [readme |-> f.readme, line |-> f.line, token |-> f.token, source |-> f.source,
     verdict |-> CASE f.status = "confirmed" -> "confirmed"
                   [] f.status # "confirmed" /\ f.verdict = "unsure" -> "unsure"
                   [] OTHER -> "unverified"]

FindingsRows == {Entry(f) : f \in {g \in findings : g.status \in {"confirmed", "new"}}}

With(S, v) == {e \in S : e.verdict = v}

InOrg(S, o) == {e \in S : OrgOf[e.readme] = o}

\* The totals of a list, with the count of READMEs; the time of the report and its
\* most frequent typos are left out.
Meta(S, n) ==
    LET confirmed == With(S, "confirmed") IN
    [confirmed  |-> Cardinality(confirmed),
     unsure     |-> Cardinality(With(S, "unsure")),
     unverified |-> Cardinality(With(S, "unverified")),
     repos      |-> Cardinality({e.readme : e \in confirmed}),
     by_org     |-> [o \in Org |-> Cardinality(InOrg(confirmed, o))],
     scanned    |-> n]

ReadRows ==
    /\ pc = "idle"
    /\ rows' = FindingsRows
    /\ pc' = "count"
    /\ UNCHANGED <<check, marked, scanned, whole, list, meta>>

\* repos with readme_checked_at set: a query of its own, which sees what has been
\* committed since the first
CountScanned ==
    /\ pc = "count"
    /\ scanned' = Cardinality(marked)
    /\ whole' = (saved \subseteq marked)
    /\ pc' = "write"
    /\ UNCHANGED <<check, marked, rows, list, meta>>

\* (mutated: the totals are queries of their own)
MutWriteFiles ==
    /\ pc = "write"
    /\ list' = rows
    /\ meta' = Meta(FindingsRows, scanned)
    /\ pc' = "idle" /\ rows' = {} /\ scanned' = 0
    /\ UNCHANGED <<check, marked, whole>>

\* The two files are written, one after the other.
WriteFiles ==
    /\ pc = "write"
    /\ list' = rows
    /\ meta' = Meta(rows, scanned)
    /\ pc' = "idle" /\ rows' = {} /\ scanned' = 0
    /\ UNCHANGED <<check, marked, whole>>

\* What checkers print stays in their process: other steps, which would commute with
\* it, wait until all is read.
SiteNext ==
    \/ Check
    \/ /\ Unread = {}
       /\ \/ \E f \in findings, v \in {"typo", "not_typo", "unsure"} : Verify(f, v)
          \/ \E r \in Readme : Refetch(r)
          \/ ForgetMarks
          \/ ReadRows \/ CountScanned \/ WriteFiles

-----------------------------------------------------------------------------
(* The page                                                                *)

Closed == [open |-> FALSE, all |-> {}, org |-> none, q |-> none, pending |-> FALSE,
           bothOnly |-> FALSE, limit |-> START]

\* A search is for a name of a repository here.
Visible ==
    {e \in page.all : /\ page.pending \/ e.verdict = "confirmed"
                      /\ page.bothOnly => e.source = "both"
                      /\ page.org \in {none, OrgOf[e.readme]}
                      /\ page.q \in {none, e.readme}}

\* The page is loaded, from a whole build, when no command is running.
Open ==
    /\ ~page.open
    /\ pc = "idle" /\ tool = "none" /\ list # {}
    /\ page' = [Closed EXCEPT !.open = TRUE, !.all = list]

Close == page.open /\ page' = Closed

\* A change of any filter takes the list back to its first rows.
Search(r) ==
    page.open /\ page' = [page EXCEPT !.q = r, !.limit = START]

\* The chips are the organisations of the list; the pressed one is released.
ClickChip(o) ==
    /\ page.open /\ InOrg(page.all, o) # {}
    /\ page' = [page EXCEPT !.org = IF page.org = o THEN none ELSE o, !.limit = START]

TogglePending == page.open /\ page' = [page EXCEPT !.pending = ~@, !.limit = START]

ToggleBoth == page.open /\ page' = [page EXCEPT !.bothOnly = ~@, !.limit = START]

\* (mutated: the button is there for a whole step only)
MutShowMore ==
    /\ page.open /\ Cardinality(Visible) - page.limit >= STEP
    /\ page' = [page EXCEPT !.limit = @ + STEP]

\* The button is there as long as rows remain.
ShowMore ==
    /\ page.open /\ Cardinality(Visible) > page.limit
    /\ page' = [page EXCEPT !.limit = @ + STEP]

Refilter ==
    \/ \E r \in Readme \cup {none} : Search(r)
    \/ \E o \in Org : ClickChip(o)
    \/ TogglePending \/ ToggleBoth

PageNext == Open \/ Close \/ Refilter \/ ShowMore

-----------------------------------------------------------------------------

Init ==
    /\ CheckInit /\ marked = {}
    /\ pc = "idle" /\ rows = {} /\ scanned = 0 /\ whole = TRUE
    /\ list = {} /\ meta = Meta({}, 0)
    /\ page = Closed

\* An open page works on its own copy of the list: what goes on meanwhile is left
\* until it is closed.
Next ==
    \/ ~page.open /\ SiteNext /\ UNCHANGED page
    \/ PageNext /\ UNCHANGED <<check, marked, site>>

Spec == Init /\ [][Next]_vars

\* The reader goes on clicking as long as there is a button.
FairSpec == Spec /\ WF_vars(ShowMore /\ UNCHANGED <<check, marked, site>>)
-----------------------------------------------------------------------------
(* Properties                                                              *)

\* A report never names more repositories with typos than READMEs scanned, whatever
\* was fetched, checked and confirmed between its two queries, unless some README had
\* no mark when it counted.
ScannedCoversList == pc = "idle" /\ whole => meta.repos <= meta.scanned

\* Whoever stops changing the filters and clicks on gets to see every row that
\* passes them.
EveryRowReached ==
    \/ []<>(page.open => Cardinality(Visible) <= page.limit)
    \/ []<><<Refilter>>_vars
=============================================================================
