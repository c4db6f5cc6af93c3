--------------------------- MODULE DiscoverRunProofs ---------------------------
(***************************************************************************)
(* Theorems about DiscoverRun, for every number of organisations, threads, *)
(* repositories, changes and faults.                                       *)
(*                                                                         *)
(* Each claim has an invariant of its own: ids are dense (IdsDense), so    *)
(* that the next one is new; only one thread is between reading and adding *)
(* (Locked), so that every answer is counted or about to be (Tallied);     *)
(* what a cursor has passed is listed as it is at GitHub (Passed), and     *)
(* what is collected is in the table (Entered).                            *)
(***************************************************************************)
EXTENDS DiscoverRun, FiniteSetTheorems, TLAPS

\* No id is larger than the number of rows.
IdsDense == \A r \in Rows : ids[r] <= Cardinality(Rows)

TableInv == TypeOK /\ IdsDense

\* Between runs there is nothing in memory.
Idle ==
    pc = "idle" => /\ \A o \in Org : task[o] = "none" /\ cursor[o] = {}
                   /\ seen = {} /\ points = 0 /\ answered = 0

\* Every answer is counted, but for those of threads that are about to do so.
Counting == {o \in Org : task[o] \in {"count", "add"}}
Tallied == answered = points + Cardinality(Counting)

\* The lock keeps a second thread from reading before the first has added.
Locked ==
    \A o \in Org : task[o] = "add" =>
        read[o] = points /\ \A q \in Org : task[q] = "add" => q = o

\* A run is entered when all threads are done.
Joined == pc = "record" => InTask({"queued", "query", "count", "add"}) = {}

PointsInv == Idle /\ Tallied /\ Locked /\ Joined

\* The last page of an organisation that there is has been answered.
Complete(o) ==
    task[o] = "listed" \/ (task[o] \in {"count", "add"} /\ o \notin more \cup Broken)

\* A repository that stays as it is, is listed so as soon as its name is passed,
\* and passed by the last page.
Passed ==
    \A r \in steady : github[r] # absent =>
        /\ r \in cursor[OrgOf[r]] => listing[r] = github[r]
        /\ Complete(OrgOf[r]) => r \in cursor[OrgOf[r]]

\* It is in the table when its organisation has been collected.
Entered ==
    \A r \in steady :
        /\ github[r] # absent /\ ShouldKeep(github[r], OrgOf[r])
        /\ OrgOf[r] \in seen /\ task[OrgOf[r]] = "listed"
        => table[r] = github[r]

\* What is collected is done, and the loop ends with everything collected.
Collected ==
    /\ \A o \in seen : task[o] \in {"listed", "failed", "uncaught"}
    /\ pc \in {"collect", "join", "record"} => \A o \in seen : task[o] # "uncaught"
    /\ pc \in {"join", "record"} => seen = Org

ListInv == Passed /\ Entered /\ Collected
-----------------------------------------------------------------------------
(* Types and ids                                                           *)

\* Organisations and repositories are finitely many, and so is any part of them.
LEMMA Finite ==
    /\ \A S \in SUBSET Repo : /\ IsFiniteSet(S) /\ Cardinality(S) \in Nat
                              /\ Cardinality(S) <= Cardinality(Repo)
    /\ \A S \in SUBSET Org : IsFiniteSet(S) /\ Cardinality(S) \in Nat
BY DiscoverAssumption, FS_Subset, FS_CardinalityType

\* New rows get the ids after those of the rows there are, which keep theirs.
LEMMA InsertIds ==
    ASSUME TableInv, NEW R \in SUBSET Repo, R \cap Rows = {}, Insert(R)
    PROVE  /\ ids' \in [Repo -> 0 .. Cardinality(Repo)]
           /\ Rows' = Rows \cup R
           /\ IdsDense'
           /\ \A r \in Repo \ R : ids'[r] = ids[r]
           /\ \A r \in R : ids'[r] > Cardinality(Rows)
<1> DEFINE upTo(r) == {q \in R : q <= r}
<1>1. /\ Rows \subseteq Repo /\ Rows \cup R \subseteq Repo
      /\ \A r \in R : upTo(r) \subseteq Repo /\ upTo(r) \subseteq R /\ upTo(r) # {}
  BY DiscoverAssumption DEF Rows
<1>2. Cardinality(Rows \cup R) = Cardinality(Rows) + Cardinality(R)
  <2>1. Cardinality(Rows \cup R) = Cardinality(Rows) + Cardinality(R) - Cardinality(Rows \cap R)
    BY <1>1, Finite, FS_Union
  <2>2. Cardinality(Rows \cap R) = 0
    BY FS_EmptySet
  <2> QED BY <1>1, <2>1, <2>2, Finite
<1>3. \A r \in R : Cardinality(upTo(r)) \in 1 .. Cardinality(R)
  <2> SUFFICES ASSUME NEW r \in R PROVE Cardinality(upTo(r)) \in 1 .. Cardinality(R)
    OBVIOUS
  <2>1. IsFiniteSet(upTo(r)) /\ Cardinality(upTo(r)) \in Nat /\ Cardinality(R) \in Nat
    BY <1>1, Finite
  <2>2. Cardinality(upTo(r)) # 0
    BY <1>1, <2>1, FS_EmptySet
  <2>3. Cardinality(upTo(r)) <= Cardinality(R)
    BY <1>1, Finite, FS_Subset
  <2> QED BY <2>1, <2>2, <2>3
<1> HIDE DEF upTo
<1>4. /\ \A r \in R : ids'[r] = Cardinality(Rows) + Cardinality(upTo(r))
      /\ \A r \in Repo \ R : ids'[r] = ids[r]
      /\ ids' = [r \in Repo |-> ids'[r]]
  BY DEF Insert, upTo
<1>5. /\ Cardinality(Rows) \in Nat /\ Cardinality(R) \in Nat /\ Cardinality(Repo) \in Nat
      /\ Cardinality(Rows) + Cardinality(R) <= Cardinality(Repo)
  BY <1>1, <1>2, Finite
<1>6. \A r \in R : /\ ids'[r] \in 1 .. Cardinality(Repo) /\ ids'[r] > Cardinality(Rows)
                   /\ ids'[r] <= Cardinality(Rows \cup R)
  BY <1>2, <1>3, <1>4, <1>5
<1>7. \A r \in Repo : ids'[r] \in 0 .. Cardinality(Repo)
  <2>1. \A r \in Repo : ids[r] \in 0 .. Cardinality(Repo)
    BY DEF TableInv, TypeOK
  <2>2. 1 .. Cardinality(Repo) \subseteq 0 .. Cardinality(Repo)
    BY <1>5
  <2> QED BY <1>4, <1>6, <2>1, <2>2
<1>8. Rows' = Rows \cup R
  <2>1. \A r \in R : ids'[r] # 0
    BY <1>5, <1>6
  <2> QED BY <1>4, <2>1 DEF Rows
<1>9. \A r \in Rows : ids[r] \in Nat /\ ids[r] <= Cardinality(Rows \cup R)
  BY <1>1, <1>2, <1>5 DEF TableInv, IdsDense, TypeOK, Rows
<1>10. IdsDense'
  BY <1>4, <1>6, <1>8, <1>9 DEF IdsDense, Rows
<1> QED BY <1>4, <1>6, <1>7, <1>8, <1>10

\* An end of the run leaves the database alone.
LEMMA EndType ==
    ASSUME TableInv, EndRun, UNCHANGED <<github, db, changes>>, faults' \in 0 .. MaxFaults
    PROVE  TableInv'
BY DEF TableInv, TypeOK, IdsDense, Rows, EndRun, db

LEMMA CommitType == ASSUME TableInv, NEW o \in Org, CommitOrg(o) PROVE TableInv'
<1>1. Kept(o) \subseteq Repo /\ \A r \in Kept(o) : listing[r] \in Versions /\ listing[r] # absent
  BY DiscoverAssumption DEF Kept, TableInv, TypeOK
<1>2. /\ ids' \in [Repo -> 0 .. Cardinality(Repo)]
      /\ Rows' = Rows \cup Kept(o)
      /\ IdsDense'
  BY <1>1, InsertIds DEF CommitOrg, UpsertRepos
<1>3. /\ table' \in [Repo -> Versions \cup {absent}]
      /\ Rows' = {r \in Repo : table'[r] # absent}
  BY <1>1, <1>2 DEF CommitOrg, UpsertRepos, TableInv, TypeOK
<1> QED BY <1>2, <1>3 DEF CommitOrg, Collect, TableInv, TypeOK, threads

LEMMA InitTable == Init => TableInv
<1> SUFFICES ASSUME Init PROVE TableInv
  OBVIOUS
<1>1. Rows = {} /\ Cardinality(Repo) \in Nat
  BY Finite DEF Init, Rows
<1> QED BY <1>1, DiscoverAssumption DEF Init, TableInv, TypeOK, IdsDense

LEMMA StepTable == TableInv /\ [Next]_vars => TableInv'
<1> SUFFICES ASSUME TableInv, [Next]_vars PROVE TableInv'
  OBVIOUS
<1>0. UNCHANGED ids => IdsDense' /\ Rows' = Rows
  BY DEF TableInv, IdsDense, Rows
<1> USE DiscoverAssumption
<1>1. ASSUME NEW r \in Repo, Change(r) PROVE TableInv'
  BY <1>0, <1>1 DEF Change, TableInv, TypeOK, db, threads
<1>2. CASE StartRun
  BY <1>0, <1>2 DEF StartRun, TableInv, TypeOK, db
<1>3. ASSUME NEW o \in Org, StartOrg(o) PROVE TableInv'
  BY <1>0, <1>3 DEF StartOrg, TableInv, TypeOK, db
<1>4. ASSUME NEW o \in Org, Answer(o) PROVE TableInv'
  <2>1. /\ listing' \in [Repo -> Versions \cup {absent}]
        /\ cursor' \in [Org -> SUBSET Repo]
    BY <1>4 DEF Answer, TableInv, TypeOK
  <2>2. more' \subseteq Org /\ answered' \in Nat /\ UNCHANGED <<ids, table, github>>
    BY <1>4 DEF Answer, TableInv, TypeOK, db
  <2> QED BY <1>0, <1>4, <2>1, <2>2 DEF Answer, TableInv, TypeOK
<1>4a. ASSUME NEW o \in Org, AnswerNone(o) PROVE TableInv'
  BY <1>0, <1>4a DEF AnswerNone, TableInv, TypeOK, db
<1>5. ASSUME NEW o \in Org, Acquire(o) PROVE TableInv'
  BY <1>0, <1>5 DEF Acquire, TableInv, TypeOK, db
<1>6. ASSUME NEW o \in Org, AddPoints(o) PROVE TableInv'
  BY <1>0, <1>6 DEF AddPoints, TableInv, TypeOK, db
<1>7. ASSUME NEW o \in Org, FailQuery(o) PROVE TableInv'
  BY <1>0, <1>7 DEF FailQuery, Fault, TableInv, TypeOK, db
<1>8. ASSUME NEW o \in Org, Surprise(o) PROVE TableInv'
  BY <1>0, <1>8 DEF Surprise, Fault, TableInv, TypeOK, db
<1>9. ASSUME NEW o \in Org, CommitOrg(o) PROVE TableInv'
  BY <1>9, CommitType
<1>10. ASSUME NEW o \in Org, SkipOrg(o) \/ CrashRun(o) PROVE TableInv'
  BY <1>0, <1>10 DEF SkipOrg, CrashRun, Collect, TableInv, TypeOK, db, threads
<1>11. CASE MainFails \/ EndLoop
  BY <1>0, <1>11 DEF MainFails, EndLoop, Fault, TableInv, TypeOK, db, threads
<1>12. CASE Join
  <2>1. CASE pc = "unwind"
    BY <1>12, <2>1, EndType DEF Join, TableInv, TypeOK
  <2>2. CASE pc # "unwind"
    BY <1>0, <1>12, <2>2 DEF Join, TableInv, TypeOK, db, threads
  <2> QED BY <2>1, <2>2
<1>13. CASE Record
  BY <1>13, EndType DEF Record, TableInv, TypeOK
<1>14. CASE Kill
  BY <1>14, EndType DEF Kill, Fault, TableInv, TypeOK
<1>15. CASE UNCHANGED vars
  BY <1>0, <1>15 DEF TableInv, TypeOK, vars, db, threads
<1> QED BY <1>1, <1>2, <1>3, <1>4, <1>4a, <1>5, <1>6, <1>7, <1>8, <1>9, <1>10, <1>11, <1>12, <1>13,
           <1>14, <1>15 DEF Next, Thread, Main

LEMMA TableAlways == Spec => []TableInv
BY InitTable, StepTable, PTL DEF Spec
-----------------------------------------------------------------------------
(* Points                                                                  *)

\* A run that ends leaves nothing in memory.
LEMMA EndIdle == ASSUME EndRun PROVE PointsInv' /\ ListInv'
<1>1. Counting' = {} /\ Cardinality({}) = 0
  BY FS_EmptySet DEF EndRun, Counting
<1> QED BY <1>1 DEF EndRun, PointsInv, ListInv, Idle, Tallied, Locked, Joined, Passed, Entered,
                    Collected

\* An answered thread is one more that is to add its point, ...
LEMMA OneMore ==
    ASSUME TypeOK, NEW o \in Org, task[o] \notin {"count", "add"},
           task' = [task EXCEPT ![o] = "count"]
    PROVE  Cardinality(Counting') = Cardinality(Counting) + 1
<1>1. Counting' = Counting \cup {o} /\ o \notin Counting
  BY DEF Counting, TypeOK
<1>2. IsFiniteSet(Counting)
  BY Finite DEF Counting
<1> QED BY <1>1, <1>2, FS_AddElement

\* ... and one that has added it is one fewer.
LEMMA OneFewer ==
    ASSUME TypeOK, NEW o \in Org, task[o] = "add", NEW t \in {"query", "listed", "failed"},
           task' = [task EXCEPT ![o] = t]
    PROVE  Cardinality(Counting') = Cardinality(Counting) - 1
<1>1. Counting' = Counting \ {o} /\ o \in Counting
  BY DEF Counting, TypeOK
<1>2. IsFiniteSet(Counting)
  BY Finite DEF Counting
<1> QED BY <1>1, <1>2, FS_RemoveElement

LEMMA StepPoints == TypeOK /\ PointsInv /\ [Next]_vars => PointsInv'
<1> SUFFICES ASSUME TypeOK, PointsInv, [Next]_vars PROVE PointsInv'
  OBVIOUS
<1> USE DEF PointsInv
<1>0. Cardinality(Counting) \in Nat /\ points \in Nat
  BY Finite DEF Counting, TypeOK
<1>1. CASE StartRun
  <2>1. Counting' = Counting
    BY <1>1 DEF StartRun, Idle, Counting
  <2>2. Idle' /\ Joined' /\ Locked'
    BY <1>1 DEF StartRun, Idle, Joined, Locked
  <2> QED BY <1>1, <2>1, <2>2 DEF StartRun, Tallied
<1>2. ASSUME NEW o \in Org, StartOrg(o) \/ FailQuery(o) \/ Surprise(o) PROVE PointsInv'
  <2>1. /\ task[o] \in {"queued", "query"} /\ task'[o] \in {"query", "failed", "uncaught"}
        /\ \A q \in Org : q # o => task'[q] = task[q]
        /\ UNCHANGED <<pc, points, read, answered>>
    BY <1>2 DEF StartOrg, FailQuery, Surprise, TypeOK
  <2>2. Counting' = Counting
    BY <2>1 DEF Counting
  <2>3. Idle' /\ Joined' /\ Locked'
    BY <2>1 DEF Idle, Joined, Locked, InTask
  <2> QED BY <2>1, <2>2, <2>3 DEF Tallied
<1>3. ASSUME NEW o \in Org, Answer(o) \/ AnswerNone(o) PROVE PointsInv'
  <2>1. /\ task[o] = "query" /\ task' = [task EXCEPT ![o] = "count"]
        /\ answered' = answered + 1 /\ UNCHANGED <<pc, points, read>>
    BY <1>3 DEF Answer, AnswerNone
  <2>0. Cardinality(Counting') = Cardinality(Counting) + 1
    BY <2>1, OneMore
  <2>2. Tallied'
    BY <1>0, <2>0, <2>1 DEF Tallied
  <2>3. Idle' /\ Joined' /\ Locked'
    BY <2>1 DEF Idle, Joined, Locked, InTask, TypeOK
  <2> QED BY <2>2, <2>3
<1>4. ASSUME NEW o \in Org, Acquire(o) PROVE PointsInv'
  <2>1. /\ task[o] = "count" /\ task' = [task EXCEPT ![o] = "add"] /\ InTask({"add"}) = {}
        /\ read' = [read EXCEPT ![o] = points] /\ UNCHANGED <<pc, points, answered>>
    BY <1>4 DEF Acquire
  <2>2. Counting' = Counting
    BY <2>1 DEF Counting, TypeOK
  <2>3. Idle' /\ Joined' /\ Locked'
    BY <2>1 DEF Idle, Joined, Locked, InTask, TypeOK
  <2> QED BY <2>1, <2>2, <2>3 DEF Tallied
<1>5. ASSUME NEW o \in Org, AddPoints(o) PROVE PointsInv'
  <2>1. PICK t \in {"query", "listed", "failed"} : task' = [task EXCEPT ![o] = t]
    BY <1>5 DEF AddPoints
  <2>2. /\ task[o] = "add" /\ points' = read[o] + 1 /\ read[o] = points
        /\ \A q \in Org : task[q] = "add" => q = o
        /\ UNCHANGED <<pc, read, answered>>
    BY <1>5 DEF AddPoints, Locked
  <2>0. Cardinality(Counting') = Cardinality(Counting) - 1
    BY <2>1, <2>2, OneFewer
  <2>3. Tallied'
    BY <1>0, <2>0, <2>2 DEF Tallied
  <2>4. Idle' /\ Joined' /\ Locked'
    BY <2>1, <2>2 DEF Idle, Joined, Locked, InTask, TypeOK
  <2> QED BY <2>3, <2>4
<1>6. CASE /\ UNCHANGED threads
           /\ \/ (\E r \in Repo : Change(r)) \/ MainFails \/ EndLoop
              \/ \E o \in Org : CommitOrg(o) \/ SkipOrg(o) \/ CrashRun(o)
  <2>1. pc # "idle" \/ UNCHANGED <<pc, seen>>
    BY <1>6 DEF Change, MainFails, EndLoop, CommitOrg, SkipOrg, CrashRun, Collect
  <2>2. pc' # "record" \/ UNCHANGED pc
    BY <1>6 DEF Change, MainFails, EndLoop, CommitOrg, SkipOrg, CrashRun, Collect
  <2>3. pc' # "idle" \/ pc = "idle"
    BY <1>6 DEF Change, MainFails, EndLoop, CommitOrg, SkipOrg, CrashRun, Collect
  <2> QED BY <1>6, <2>1, <2>2, <2>3 DEF threads, Idle, Tallied, Counting, Locked, Joined, InTask
<1>7. CASE Join /\ pc = "join"
  <2>1. UNCHANGED threads /\ pc' = "record" /\ InTask({"queued", "query", "count", "add"}) = {}
    BY <1>7 DEF Join
  <2> QED BY <2>1 DEF threads, Idle, Tallied, Counting, Locked, Joined, InTask
<1>8. CASE (Join /\ pc # "join") \/ Record \/ Kill
  BY <1>8, EndIdle DEF Join, Record, Kill
<1>9. CASE UNCHANGED vars
  BY <1>9 DEF vars, threads, Idle, Tallied, Counting, Locked, Joined, InTask
<1>10. ASSUME NEW o \in Org, CommitOrg(o) \/ SkipOrg(o) \/ CrashRun(o) PROVE PointsInv'
  BY <1>6, <1>10 DEF CommitOrg, SkipOrg, CrashRun
<1>11. CASE (\E r \in Repo : Change(r)) \/ MainFails \/ EndLoop
  BY <1>6, <1>11 DEF Change, MainFails, EndLoop
<1> QED BY <1>1, <1>2, <1>3, <1>4, <1>5, <1>7, <1>8, <1>9, <1>10, <1>11 DEF Next, Thread, Main
-----------------------------------------------------------------------------
(* What is listed                                                          *)

\* A page is a piece from the head of what is left of a listing.
LEMMA PageIsHead ==
    ASSUME NEW o \in Org, NEW r \in Rest(o), NEW q \in Page(o), r <= q PROVE r \in Page(o)
<1> DEFINE before(x) == {y \in Rest(o) : y < x}
<1>1. Rest(o) \subseteq Repo /\ \A x \in Rest(o) : x \in Nat
  BY DiscoverAssumption DEF Rest
<1>2. before(r) \subseteq before(q) /\ before(q) \subseteq Repo /\ before(r) \subseteq Repo
  <2>1. \A y \in Rest(o) : y < r => y < q
    BY <1>1 DEF Page
  <2> QED BY <1>1, <2>1
<1>3. /\ Cardinality(before(r)) <= Cardinality(before(q))
      /\ Cardinality(before(r)) \in Nat /\ Cardinality(before(q)) \in Nat
  BY <1>2, Finite, FS_Subset
<1>4. Cardinality(before(q)) < PageSize /\ PageSize \in Nat
  BY DiscoverAssumption DEF Page
<1> QED BY <1>3, <1>4 DEF Page

\* A page lists its repositories as they are; the last one passes all there are.
LEMMA AnswerPassed == ASSUME TypeOK, Passed, NEW o \in Org, Answer(o) PROVE Passed'
<1>1. /\ task' = [task EXCEPT ![o] = "count"]
      /\ listing' = [r \in Repo |-> IF r \in Page(o) THEN github[r] ELSE listing[r]]
      /\ cursor' = [cursor EXCEPT ![o] = @ \cup {r \in Repo : \E q \in Page(o) : r <= q}]
      /\ o \notin more' => Page(o) = Rest(o)
      /\ \A q \in Org : q # o => (q \in more' <=> q \in more)
      /\ UNCHANGED <<github, steady>>
  BY DEF Answer, TypeOK
<1> SUFFICES ASSUME NEW r \in steady, github[r] # absent
             PROVE  /\ r \in cursor'[OrgOf[r]] => listing'[r] = github[r]
                    /\ Complete(OrgOf[r])' => r \in cursor'[OrgOf[r]]
  BY <1>1 DEF Passed
<1>2. r \in Repo /\ OrgOf[r] \in Org /\ r <= r
  BY DiscoverAssumption DEF TypeOK
<1>3. CASE OrgOf[r] # o
  <2>1. r \notin Page(o) /\ cursor'[OrgOf[r]] = cursor[OrgOf[r]] /\ task'[OrgOf[r]] = task[OrgOf[r]]
    BY <1>1, <1>2, <1>3 DEF Page, Rest, TypeOK
  <2>2. listing'[r] = listing[r] /\ (Complete(OrgOf[r])' => Complete(OrgOf[r]))
    BY <1>1, <1>2, <1>3, <2>1 DEF Complete
  <2> QED BY <2>1, <2>2 DEF Passed
<1>4. CASE OrgOf[r] = o
  <2>1. cursor'[o] = cursor[o] \cup {x \in Repo : \E q \in Page(o) : x <= q}
    BY <1>1 DEF TypeOK
  <2>2. CASE r \in cursor[o]
    <3>1. r \notin Page(o)
      BY <2>2 DEF Page, Rest
    <3> QED BY <1>1, <1>2, <1>4, <2>1, <2>2, <3>1 DEF Passed
  <2>3. CASE r \notin cursor[o]
    <3>1. r \in Rest(o)
      BY <1>2, <1>4, <2>3 DEF Rest
    <3>2. r \in cursor'[o] => r \in Page(o)
      BY <2>1, <2>3, <3>1, PageIsHead
    <3>3. o \notin more' => r \in cursor'[o]
      BY <1>1, <1>2, <2>1, <3>1
    <3>4. Complete(o)' => o \notin more'
      BY <1>1 DEF Complete, TypeOK
    <3> QED BY <1>1, <1>2, <1>4, <3>2, <3>3, <3>4
  <2> QED BY <2>2, <2>3
<1> QED BY <1>3, <1>4

\* What was listed as it is, is entered so.
LEMMA CommitEntered ==
    ASSUME TypeOK, Passed, Entered, NEW o \in Org, CommitOrg(o) PROVE Entered'
<1>1. /\ seen' = seen \cup {o} /\ task[o] = "listed"
      /\ table' = [r \in Repo |-> IF r \in Kept(o) THEN listing[r] ELSE table[r]]
      /\ UNCHANGED <<github, steady, task>>
  BY DEF CommitOrg, Collect, UpsertRepos, threads
<1> SUFFICES ASSUME NEW r \in steady, github[r] # absent, ShouldKeep(github[r], OrgOf[r]),
                    OrgOf[r] \in seen', task[OrgOf[r]] = "listed"
             PROVE  table'[r] = github[r]
  BY <1>1 DEF Entered, ShouldKeep, Resolved
<1>2. r \in Repo
  BY DEF TypeOK
<1>3. CASE OrgOf[r] = o
  <2>1. listing[r] = github[r]
    BY <1>1, <1>3 DEF Passed, Complete
  <2> QED BY <1>1, <1>2, <1>3, <2>1 DEF Kept
<1>4. CASE OrgOf[r] # o
  BY <1>1, <1>2, <1>4 DEF Kept, Entered
<1> QED BY <1>3, <1>4

LEMMA StepList == TypeOK /\ PointsInv /\ ListInv /\ [Next]_vars => ListInv'
<1> SUFFICES ASSUME TypeOK, Idle, Joined, ListInv, [Next]_vars PROVE ListInv'
  BY DEF PointsInv
<1> USE DEF ListInv
<1>1. ASSUME NEW r \in Repo, Change(r) PROVE ListInv'
  <2>1. /\ steady' = steady \ {r} /\ \A q \in Repo : q # r => github'[q] = github[q]
        /\ UNCHANGED <<table, pc, task, cursor, more, listing, seen>>
    BY <1>1 DEF Change, db, threads, TypeOK
  <2>2. Passed' /\ Collected'
    BY <2>1 DEF Passed, Complete, Collected, TypeOK
  <2>3. Entered'
    BY <2>1 DEF Entered, ShouldKeep, Resolved, TypeOK
  <2> QED BY <2>2, <2>3
<1>2. CASE StartRun
  <2>1. /\ \A o \in Org : task'[o] = "queued" /\ cursor'[o] = {}
        /\ seen' = {} /\ pc' = "collect" /\ steady' = Repo
    BY <1>2 DEF StartRun, Idle
  <2> QED BY <2>1, DiscoverAssumption DEF Passed, Complete, Entered, Collected
<1>3. ASSUME NEW o \in Org, \/ StartOrg(o) \/ AnswerNone(o) \/ Acquire(o) \/ AddPoints(o)
                             \/ FailQuery(o) \/ Surprise(o)
      PROVE  ListInv'
  <2>1. /\ task[o] \in {"queued", "query", "count", "add"}
        /\ task' = [task EXCEPT ![o] = task'[o]]
        /\ UNCHANGED <<github, table, pc, cursor, more, listing, seen, steady>>
    BY <1>3 DEF StartOrg, AnswerNone, Acquire, AddPoints, FailQuery, Surprise, db, TypeOK
  <2>2. Complete(o)' => Complete(o)
    BY <1>3 DEF StartOrg, AnswerNone, Acquire, AddPoints, FailQuery, Surprise, Complete, TypeOK
  <2>3. Passed'
    <3>1. \A q \in Org : Complete(q)' => Complete(q)
      BY <2>1, <2>2 DEF Complete, TypeOK
    <3> QED BY <2>1, <3>1, DiscoverAssumption DEF Passed, TypeOK
  <2>4. o \notin seen
    BY <2>1 DEF Collected
  <2>5. Entered'
    BY <2>1, <2>4, DiscoverAssumption DEF Entered, ShouldKeep, Resolved, TypeOK
  <2>6. Collected'
    BY <2>1, <2>4 DEF Collected, TypeOK
  <2> QED BY <2>3, <2>5, <2>6
<1>4. ASSUME NEW o \in Org, Answer(o) PROVE ListInv'
  <2>1. Passed'
    BY <1>4, AnswerPassed
  <2>2. /\ task[o] = "query" /\ task' = [task EXCEPT ![o] = "count"]
        /\ UNCHANGED <<github, table, pc, seen, steady>>
    BY <1>4 DEF Answer, db
  <2>3. o \notin seen
    BY <2>2 DEF Collected
  <2>4. Entered' /\ Collected'
    BY <2>2, <2>3, DiscoverAssumption DEF Entered, ShouldKeep, Resolved, Collected, TypeOK
  <2> QED BY <2>1, <2>4
<1>5. ASSUME NEW o \in Org, CommitOrg(o) PROVE ListInv'
  <2>1. Entered'
    BY <1>5, CommitEntered
  <2>2. /\ pc = "collect" /\ task[o] = "listed" /\ seen' = seen \cup {o}
        /\ UNCHANGED <<github, pc, task, cursor, more, listing, steady>>
    BY <1>5 DEF CommitOrg, Collect, threads
  <2>3. Passed' /\ Collected'
    BY <2>2 DEF Passed, Complete, Collected
  <2> QED BY <2>1, <2>3
<1>6. ASSUME NEW o \in Org, SkipOrg(o) \/ CrashRun(o) PROVE ListInv'
  <2>1. /\ pc = "collect" /\ seen' = seen \cup {o}
        /\ (task[o] = "failed" /\ pc' = pc) \/ (task[o] = "uncaught" /\ pc' = "unwind")
        /\ UNCHANGED <<github, table, task, cursor, more, listing, steady>>
    BY <1>6 DEF SkipOrg, CrashRun, Collect, threads, db
  <2> QED BY <2>1 DEF Passed, Complete, Entered, ShouldKeep, Resolved, Collected
<1>7. CASE MainFails \/ EndLoop \/ (Join /\ pc = "join")
  <2>1. /\ UNCHANGED <<github, table, task, cursor, more, listing, steady, seen>>
        /\ \/ pc' = "unwind"
           \/ pc = "collect" /\ pc' = "join" /\ seen = Org
           \/ pc = "join" /\ pc' = "record"
    BY <1>7 DEF MainFails, EndLoop, Join, threads, db
  <2> QED BY <2>1 DEF Passed, Complete, Entered, ShouldKeep, Resolved, Collected
<1>8. CASE (Join /\ pc # "join") \/ Record \/ Kill
  BY <1>8, EndIdle DEF Join, Record, Kill
<1>9. CASE UNCHANGED vars
  BY <1>9 DEF vars, threads, db, Passed, Complete, Entered, ShouldKeep, Resolved, Collected
<1> QED BY <1>1, <1>2, <1>3, <1>4, <1>5, <1>6, <1>7, <1>8, <1>9 DEF Next, Thread, Main

LEMMA RunAlways == Spec => [](PointsInv /\ ListInv)
<1>1. Init => PointsInv /\ ListInv
  <2> SUFFICES ASSUME Init PROVE PointsInv /\ ListInv
    OBVIOUS
  <2>1. Counting = {} /\ Cardinality({}) = 0
    BY FS_EmptySet DEF Init, Counting
  <2> QED BY <2>1 DEF Init, PointsInv, ListInv, Idle, Tallied, Locked, Joined, Passed, Entered,
                      Collected
<1>2. TableInv /\ PointsInv /\ ListInv /\ [Next]_vars => (PointsInv /\ ListInv)'
  BY StepPoints, StepList DEF TableInv
<1> QED BY <1>1, <1>2, TableAlways, PTL DEF Spec
-----------------------------------------------------------------------------
(* Rows in scope                                                           *)

\* What should_keep keeps is what the entry of the organisation asks for.
LEMMA KeptAsAsked ==
    ASSUME NEW o \in Org, NEW m \in Versions
    PROVE  ShouldKeep(m, o) <=> Admits(o, m)
<1>1. DOMAIN Defaults = {"min_stars", "include_forks", "include_archived"}
  BY DiscoverAssumption DEF Setting
<1>2. /\ Resolved(o).min_stars =
            IF Rules[o].min_stars = Unset THEN Defaults.min_stars ELSE Rules[o].min_stars
      /\ Resolved(o).include_forks =
            IF Rules[o].include_forks = Unset THEN Defaults.include_forks
                                             ELSE Rules[o].include_forks
      /\ Resolved(o).include_archived =
            IF Rules[o].include_archived = Unset THEN Defaults.include_archived
                                                ELSE Rules[o].include_archived
  BY <1>1 DEF Resolved
<1>3. /\ Defaults.include_forks \in BOOLEAN /\ Defaults.include_archived \in BOOLEAN
      /\ Unset \notin BOOLEAN
  BY DiscoverAssumption DEF Setting
<1>4. /\ Rules[o].include_forks \in BOOLEAN \cup {Unset}
      /\ Rules[o].include_archived \in BOOLEAN \cup {Unset}
  <2>1. \A k \in DOMAIN Defaults :
           Rules[o][k] = Unset \/ [Defaults EXCEPT ![k] = Rules[o][k]] \in Setting
    BY DiscoverAssumption
  <2> QED BY <1>1, <2>1, DiscoverAssumption DEF Setting
<1>5. (m.archived => Resolved(o).include_archived)
         <=> (m.archived => Flag(Rules[o].include_archived, Defaults.include_archived))
  BY <1>2, <1>3, <1>4 DEF Flag
<1>6. (m.fork => Resolved(o).include_forks)
         <=> (m.fork => Flag(Rules[o].include_forks, Defaults.include_forks))
  BY <1>2, <1>3, <1>4 DEF Flag
<1>7. (m.stars >= Resolved(o).min_stars)
         <=> \/ Rules[o].min_stars # Unset /\ m.stars >= Rules[o].min_stars
             \/ Rules[o].min_stars = Unset /\ m.stars >= Defaults.min_stars
  BY <1>2
<1> QED BY <1>5, <1>6, <1>7 DEF ShouldKeep, Admits

LEMMA CommitScope ==
    ASSUME TypeOK, RowsInScope, NEW o \in Org, CommitOrg(o) PROVE RowsInScope'
<1>1. /\ task[o] = "listed" /\ seen' = seen \cup {o} /\ UNCHANGED <<task, listing>>
      /\ \A r \in Repo : table'[r] = IF r \in Kept(o) THEN listing[r] ELSE table[r]
  BY DEF CommitOrg, Collect, UpsertRepos, threads
<1> SUFFICES ASSUME NEW r \in Repo
             PROVE  /\ table'[r] # absent => Admits(OrgOf[r], table'[r])
                    /\ (/\ OrgOf[r] \in seen' /\ task[OrgOf[r]] = "listed"
                        /\ listing[r] # absent /\ Admits(OrgOf[r], listing[r]))
                       => table'[r] = listing[r]
  BY <1>1 DEF RowsInScope, Admits
<1>2. OrgOf[r] \in Org /\ (listing[r] # absent => listing[r] \in Versions)
  BY DiscoverAssumption DEF TypeOK
<1>3. CASE OrgOf[r] = o
  <2>1. r \in Kept(o) <=> listing[r] # absent /\ Admits(o, listing[r])
    BY <1>2, <1>3, KeptAsAsked DEF Kept
  <2> QED BY <1>1, <1>3, <2>1 DEF RowsInScope
<1>4. CASE OrgOf[r] # o
  BY <1>1, <1>4 DEF Kept, RowsInScope
<1> QED BY <1>3, <1>4

LEMMA StepScope ==
    TypeOK /\ PointsInv /\ ListInv /\ RowsInScope /\ [Next]_vars => RowsInScope'
<1> SUFFICES ASSUME TypeOK, Idle, Collected, RowsInScope, [Next]_vars PROVE RowsInScope'
  BY DEF PointsInv, ListInv
<1>1. CASE UNCHANGED <<table, listing, task, seen>>
  BY <1>1 DEF RowsInScope, Admits
<1>2. ASSUME UNCHANGED table, seen' = {} PROVE RowsInScope'
  BY <1>2 DEF RowsInScope, Admits
<1>3. ASSUME NEW o \in Org,
             \/ StartOrg(o) \/ Answer(o) \/ AnswerNone(o) \/ Acquire(o) \/ AddPoints(o)
             \/ FailQuery(o) \/ Surprise(o)
      PROVE  RowsInScope'
  <2>1. /\ task[o] \in {"queued", "query", "count", "add"}
        /\ \A q \in Org : q # o => task'[q] = task[q]
        /\ UNCHANGED <<table, seen>>
    BY <1>3 DEF StartOrg, Answer, AnswerNone, Acquire, AddPoints, FailQuery, Surprise, db, TypeOK
  <2>2. o \notin seen
    BY <2>1 DEF Collected
  <2>3. \A r \in Repo : OrgOf[r] # o => listing'[r] = listing[r]
    BY <1>3 DEF StartOrg, Answer, AnswerNone, Acquire, AddPoints, FailQuery, Surprise, Page, Rest
  <2> QED BY <2>1, <2>2, <2>3, DiscoverAssumption DEF RowsInScope, Admits
<1>4. ASSUME NEW o \in Org, CommitOrg(o) PROVE RowsInScope'
  BY <1>4, CommitScope
<1>5. ASSUME NEW o \in Org, SkipOrg(o) \/ CrashRun(o) PROVE RowsInScope'
  <2>1. /\ task[o] # "listed" /\ seen' = seen \cup {o} /\ UNCHANGED <<table, listing, task>>
    BY <1>5 DEF SkipOrg, CrashRun, Collect, db, threads
  <2> QED BY <2>1 DEF RowsInScope, Admits
<1>6. CASE StartRun
  BY <1>2, <1>6 DEF StartRun, Idle, db
<1>7. CASE (Join /\ pc = "unwind") \/ Record \/ Kill
  BY <1>2, <1>7 DEF Join, Record, Kill, EndRun, db
<1>8. CASE (Join /\ pc # "unwind") \/ (\E r \in Repo : Change(r)) \/ MainFails \/ EndLoop
  BY <1>1, <1>8 DEF Join, Change, MainFails, EndLoop, db, threads
<1>9. CASE UNCHANGED vars
  BY <1>1, <1>9 DEF vars, db, threads
<1> QED BY <1>3, <1>4, <1>5, <1>6, <1>7, <1>8, <1>9 DEF Next, Thread, Main
-----------------------------------------------------------------------------
(* Theorems                                                                *)

\* Every variable keeps its type, and every row of repos has an id.
THEOREM TypeCorrect == Spec => []TypeOK
BY TableAlways, PTL DEF TableInv

\* The ids of repos stand, and new ones are larger (repo_store.py: upsert_repos
\* updates a row in the case of a conflict).
THEOREM IdsStandAlways == Spec => IdsStand
<1> DEFINE IdKept(r) == /\ ids'[r] = ids[r]
                        /\ \A q \in Repo : ids[q] = 0 /\ ids'[q] # 0 => ids'[q] > ids[r]
           Stand == \A r \in Repo : ids[r] # 0 => IdKept(r)
<1>1. TableInv /\ [Next]_vars => Stand
  <2> SUFFICES ASSUME TableInv, Next, ids' # ids, NEW r \in Rows PROVE IdKept(r)
    BY DEF Rows, vars, db
  <2>1. PICK o \in Org : CommitOrg(o)
    BY DEF Next, Thread, Main, db, threads, Change, StartRun, StartOrg, Answer, Acquire,
           AnswerNone, AddPoints, FailQuery, Surprise, SkipOrg, CrashRun, MainFails, EndLoop, Join, Record, Kill
  <2> DEFINE new == Kept(o) \ Rows
  <2>2. /\ \A q \in Repo \ new : ids'[q] = ids[q]
        /\ \A q \in new : ids'[q] > Cardinality(Rows) /\ ids'[q] \in Nat
    <3>1. new \in SUBSET Repo /\ new \cap Rows = {} /\ Insert(new)
      BY <2>1 DEF CommitOrg, UpsertRepos, Kept
    <3> HIDE DEF new
    <3> QED BY <3>1, InsertIds
  <2>3. ids[r] <= Cardinality(Rows) /\ ids[r] \in Nat /\ Cardinality(Rows) \in Nat
    BY Finite DEF TableInv, IdsDense, TypeOK, Rows
  <2>4. \A q \in Repo \ Rows : ids[q] = 0
    BY DEF Rows
  <2> QED BY <2>2, <2>3, <2>4 DEF Rows
<1> QED BY <1>1, TableAlways, PTL DEF Spec, IdsStand

\* No setting of an entry is lost to the defaults, 0, false and true alike: the
\* rows of an organisation are those it asks for, and all it asks for of what was
\* listed are rows (config.py: resolved; discover.py: should_keep).
THEOREM RowsInScopeAlways == Spec => []RowsInScope
<1>1. Init => RowsInScope
  BY DEF Init, RowsInScope
<1>2. TableInv => TypeOK
  BY DEF TableInv
<1> QED BY <1>1, <1>2, StepScope, TableAlways, RunAlways, PTL DEF Spec

\* The points of a run are those of its answers (client.py: _points_lock).
THEOREM PointsExactAlways == Spec => []PointsExact
<1>1. TypeOK /\ PointsInv => PointsExact
  <2> SUFFICES ASSUME PointsInv, TypeOK, pc = "record" PROVE points = answered
    BY DEF PointsExact
  <2>1. Counting = {}
    BY DEF PointsInv, Joined, InTask, Counting
  <2>2. Cardinality({}) = 0
    BY FS_EmptySet
  <2> QED BY <2>1, <2>2 DEF PointsInv, Tallied, TypeOK
<1> QED BY <1>1, TableAlways, RunAlways, PTL DEF TableInv

\* A complete run misses no repository of an organisation that did not fail, as long
\* as it stays as it is (discover.py: iter_org_repos; cli.py: discover).
THEOREM CompleteRunMissesNothingAlways == Spec => []CompleteRunMissesNothing
<1>1. TypeOK /\ ListInv => CompleteRunMissesNothing
  BY DiscoverAssumption DEF TypeOK, ListInv, Entered, Collected, CompleteRunMissesNothing
<1> QED BY <1>1, TableAlways, RunAlways, PTL DEF TableInv
=============================================================================
