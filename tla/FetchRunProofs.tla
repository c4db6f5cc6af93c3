---------------------------- MODULE FetchRunProofs ----------------------------
(***************************************************************************)
(* Theorems about FetchRun, for every set of repositories, any number of   *)
(* worker threads and all values of the other constants.                   *)
(*                                                                         *)
(* The marks in the database say something about GitHub, but a run writes  *)
(* them from what lies in its futures.  RunInv follows each answer on its  *)
(* way: from the request (FuturesKept) over the finished future            *)
(* (AnswersTrue) and the loop that collects it (CollectedKept) to the      *)
(* tables.                                                                 *)
(***************************************************************************)
EXTENDS FetchRun, TLAPS

\* Futures exist for the work list, which holds known repositories; a future has
\* an answer when it is finished.
FuturesKept ==
    /\ todo \subseteq known
    /\ \A r \in Repo : /\ future[r] = "none" <=> r \notin todo
                       /\ answer[r] # "none" <=> future[r] = "finished"
    /\ pc = "idle" => todo = {} /\ fate = "open"

\* A result is what GitHub has of a repository, or what it has sent before.
TrueOf(r, a) ==
    /\ Kind[r] # "broken"
    /\ a = "fetched" => Kind[r] = "readme"
    /\ Kind[r] = "readme" => a = "fetched" \/ r \in saved

\* A result in a future is true.
AnswersTrue ==
    \A r \in todo : answer[r] \in Result => TrueOf(r, answer[r])

\* The repositories of the work list that are marked are the ones collected, and
\* all that was collected is marked or had an error, as long as nothing has gone
\* wrong.
CollectedKept ==
    /\ \A r \in todo : r \in marked => r \in seen
    /\ \A r \in seen : future[r] = "finished"
    /\ pc = "collect" => fate = "open"
    /\ pc = "collect" \/ fate = "complete" =>
          \A r \in seen : r \in marked \/ answer[r] = "error"
    /\ fate = "complete" => seen = todo

\* The loop over f.cancel() has still to visit what is pending.
CancelKept ==
    /\ pc = "cancel" => fate = "stopped" /\ InState("pending") \subseteq toCancel
    /\ fate = "stopped" => pc \in {"cancel", "join", "record"}

RunInv ==
    /\ TypeOK
    /\ FuturesKept
    /\ AnswersTrue
    /\ CollectedKept
    /\ CancelKept
    /\ MarksTellTheTruth
    /\ StopIsClean
-----------------------------------------------------------------------------
(* Lemmas about the operators                                              *)

\* What a work list is cut to is part of it.
LEMMA OldestSubset == ASSUME NEW S, NEW n PROVE Oldest(S, n) \subseteq S
BY DEF Oldest

\* What GitHub answers is true, if an ETag is kept of saved READMEs only.
LEMMA ReplyTrue ==
    ASSUME NEW r \in Repo, Kind[r] \in Kinds, etags \subseteq saved, NEW a \in Replies(r)
    PROVE  a \in Answer /\ (a \in Result => TrueOf(r, a))
BY DEF Replies, Answer, Result, Kinds, TrueOf

-----------------------------------------------------------------------------
(* The inductive invariant                                                 *)

LEMMA InitInv == Init => RunInv
BY FetchAssumption DEF Init, RunInv, TypeOK, FuturesKept, AnswersTrue, TrueOf, CollectedKept, CancelKept,
    MarksTellTheTruth, StopIsClean, InState, Answer, Result

\* A finished request, whatever its answer, leaves the invariant alone, if the
\* answer is true.
LEMMA FinishInv ==
    ASSUME RunInv, NEW r \in Repo, NEW a \in Answer, Finish(r, a),
           faults' \in 0 .. MaxFaults,
           a \in Result => TrueOf(r, a)
    PROVE  RunInv'
<1> USE DEF RunInv, db
<1>0. a # "none"
  BY DEF Answer, Result
<1>1. TypeOK'
  BY FetchAssumption DEF TypeOK, Finish
<1>2. FuturesKept'
  BY <1>0 DEF FuturesKept, Finish, TypeOK
<1>3. AnswersTrue'
  <2> SUFFICES ASSUME NEW q \in todo', answer'[q] \in Result
               PROVE  TrueOf(q, answer[q])'
    BY DEF AnswersTrue
  <2>1. CASE q = r
    BY <2>1 DEF Finish, TypeOK, TrueOf
  <2>2. CASE q # r
    BY <2>2 DEF Finish, TypeOK, AnswersTrue, TrueOf
  <2> QED BY <2>1, <2>2
<1>4. CollectedKept'
  BY <1>0 DEF CollectedKept, FuturesKept, Finish, TypeOK
<1>5. CancelKept'
  BY DEF CancelKept, InState, Finish, TypeOK
<1>6. MarksTellTheTruth'
  BY DEF MarksTellTheTruth, Finish, TypeOK
<1>7. StopIsClean'
  BY DEF StopIsClean, InState, Finish, TypeOK
<1> QED BY <1>1, <1>2, <1>3, <1>4, <1>5, <1>6, <1>7

\* With nothing of a run left in memory, only what the tables say matters.
LEMMA ForgetInv ==
    ASSUME RunInv, Forget, UNCHANGED <<db, quota>>, faults' \in 0 .. MaxFaults
    PROVE  RunInv'
<1>1. TypeOK'
  BY DEF RunInv, TypeOK, Forget, db
<1>2. /\ FuturesKept' /\ AnswersTrue' /\ CollectedKept' /\ CancelKept'
      /\ StopIsClean'
  BY DEF Forget, FuturesKept, AnswersTrue, TrueOf, CollectedKept, CancelKept, StopIsClean, InState, Result
<1>3. MarksTellTheTruth'
  BY DEF RunInv, MarksTellTheTruth, db
<1> QED BY <1>1, <1>2, <1>3 DEF RunInv

\* Collecting a result marks what GitHub has.
LEMMA CollectInv == ASSUME RunInv, NEW r \in Repo, CollectResult(r) PROVE RunInv'
<1> USE DEF RunInv, CollectResult, Collect, PersistReadme, InState
<1>0. /\ answer[r] \in Result /\ r \in todo /\ future[r] = "finished" /\ pc = "collect"
      /\ TrueOf(r, answer[r]) /\ r \in known
  BY DEF AnswersTrue, FuturesKept
<1>1. TypeOK'
  BY <1>0 DEF TypeOK
<1>2. FuturesKept' /\ AnswersTrue'
  BY DEF FuturesKept, AnswersTrue, TypeOK, TrueOf
<1>3. CollectedKept'
  BY <1>0 DEF CollectedKept, TypeOK
<1>4. CancelKept' /\ StopIsClean'
  BY <1>0 DEF CancelKept, StopIsClean
<1>5. MarksTellTheTruth'
  <2>1. CASE answer[r] = "fetched"
    BY <1>0, <2>1 DEF MarksTellTheTruth, TypeOK, TrueOf
  <2>2. CASE answer[r] # "fetched"
    BY <1>0, <2>2 DEF MarksTellTheTruth, TypeOK, TrueOf
  <2> QED BY <2>1, <2>2
<1> QED BY <1>1, <1>2, <1>3, <1>4, <1>5

LEMMA StepInv == RunInv /\ [Next]_vars => RunInv'
<1> SUFFICES ASSUME RunInv, [Next]_vars PROVE RunInv'
  OBVIOUS
<1> USE DEF RunInv, db, run
<1>1. ASSUME NEW r \in Repo, Discover(r) PROVE RunInv'
  BY <1>1 DEF Discover, TypeOK, FuturesKept, AnswersTrue, TrueOf, CollectedKept, CancelKept,
         MarksTellTheTruth, StopIsClean, InState
<1>17. ASSUME ForgetMarks PROVE RunInv'
  BY <1>17, FetchAssumption DEF ForgetMarks, Fault, TypeOK, FuturesKept, AnswersTrue, TrueOf,
         CollectedKept, CancelKept, MarksTellTheTruth, StopIsClean, InState
<1>2. ASSUME StartRun PROVE RunInv'
  <2>1. todo' \subseteq NeedReadme
    BY <1>2, OldestSubset DEF StartRun
  <2>0. Quota \in 0 .. Quota
    BY FetchAssumption
  <2>2. TypeOK'
    <3>1. todo' \subseteq Repo /\ seen = {} /\ toCancel = {}
      BY <1>2, <2>1 DEF StartRun, NeedReadme, TypeOK, FuturesKept
    <3> QED BY <1>2, <2>0, <3>1 DEF StartRun, TypeOK
  <2>3. FuturesKept' /\ AnswersTrue'
    BY <1>2, <2>1 DEF StartRun, NeedReadme, TypeOK, FuturesKept, AnswersTrue, Result
  <2>4. CollectedKept' /\ CancelKept' /\ StopIsClean'
    BY <1>2, <2>1 DEF StartRun, NeedReadme, TypeOK, FuturesKept, CollectedKept, CancelKept,
                      StopIsClean
  <2>5. MarksTellTheTruth'
    BY <1>2 DEF StartRun, MarksTellTheTruth
  <2> QED BY <2>2, <2>3, <2>4, <2>5
<1>3. ASSUME Kill PROVE RunInv'
  BY <1>3, ForgetInv, FetchAssumption DEF Kill, Fault, TypeOK
<1>4. ASSUME NEW r \in Repo, StartFetch(r) PROVE RunInv'
  BY <1>4 DEF StartFetch, Take, TypeOK, FuturesKept, AnswersTrue, TrueOf, CollectedKept, CancelKept,
         MarksTellTheTruth, StopIsClean, InState
<1>5. ASSUME NEW r \in Repo, Respond(r) PROVE RunInv'
  <2>1. PICK a \in Replies(r) : Finish(r, a)
    BY <1>5 DEF Respond
  <2>2. Kind[r] \in Kinds /\ etags \subseteq saved
    BY FetchAssumption DEF MarksTellTheTruth
  <2>3. a \in Answer /\ (a \in Result => TrueOf(r, a))
    BY <2>2, ReplyTrue
  <2> QED BY <1>5, <2>1, <2>3, FinishInv DEF Respond, TypeOK
<1>6. ASSUME NEW r \in Repo, LoseRequest(r) PROVE RunInv'
  <2>1. PICK a \in {"error", "uncaught"} : Finish(r, a) /\ Fault
    BY <1>6 DEF LoseRequest
  <2>2. a \in Answer /\ a \notin Result
    BY DEF Answer, Result
  <2> QED BY <2>1, <2>2, FinishInv, FetchAssumption DEF Fault, TypeOK
<1>18. ASSUME NEW r \in Repo, RefuseFetch(r) PROVE RunInv'
  <2>1. "uncaught" \in Answer /\ "uncaught" \notin Result
    BY DEF Answer, Result
  <2>2. r \in todo
    BY <1>18 DEF RefuseFetch, Take, FuturesKept
  <2> QED BY <1>18, <2>1, <2>2 DEF RefuseFetch, Take, TypeOK, FuturesKept, AnswersTrue, TrueOf,
         CollectedKept, CancelKept, MarksTellTheTruth, StopIsClean, InState
<1>19. ASSUME NEW r \in Repo, BreakOff(r) PROVE RunInv'
  <2>1. "uncaught" \in Answer /\ "uncaught" \notin Result
    BY DEF Answer, Result
  <2> QED BY <1>19, <2>1, FinishInv DEF BreakOff, TypeOK
<1>7. ASSUME NEW r \in Repo, CollectResult(r) PROVE RunInv'
  BY <1>7, CollectInv
<1>8. ASSUME NEW r \in Repo, CollectError(r) PROVE RunInv'
  BY <1>8 DEF CollectError, Collect, TypeOK, FuturesKept, AnswersTrue, TrueOf, CollectedKept, CancelKept,
         MarksTellTheTruth, StopIsClean, InState
<1>9. ASSUME NEW r \in Repo, CollectLimit(r) PROVE RunInv'
  BY <1>9 DEF CollectLimit, Collect, Result, TypeOK, FuturesKept, AnswersTrue, TrueOf, CollectedKept, CancelKept,
         MarksTellTheTruth, StopIsClean, InState
<1>10. ASSUME NEW r \in Repo, CollectCrash(r) PROVE RunInv'
  BY <1>10 DEF CollectCrash, Collect, Result, TypeOK, FuturesKept, AnswersTrue, TrueOf, CollectedKept, CancelKept,
         MarksTellTheTruth, StopIsClean, InState
<1>11. ASSUME CancelNext PROVE RunInv'
  <2>1. PICK r \in Oldest(toCancel, 1) :
           /\ future' = IF future[r] = "pending" THEN [future EXCEPT ![r] = "cancelled"]
                                                 ELSE future
           /\ toCancel' = toCancel \ {r}
    BY <1>11 DEF CancelNext
  <2>2. r \in toCancel
    BY OldestSubset
  <2>3. TypeOK'
    BY <1>11, <2>1, <2>2 DEF CancelNext, TypeOK
  <2>4. FuturesKept' /\ AnswersTrue' /\ MarksTellTheTruth'
    BY <1>11, <2>1, <2>2 DEF CancelNext, TypeOK, FuturesKept, AnswersTrue, TrueOf, MarksTellTheTruth
  <2>5. CollectedKept'
    BY <1>11, <2>1, <2>2 DEF CancelNext, TypeOK, CancelKept, CollectedKept
  <2>6. InState("pending")' \subseteq toCancel' /\ fate' = "stopped"
    BY <1>11, <2>1, <2>2 DEF CancelNext, TypeOK, CancelKept, InState
  <2>7. CancelKept' /\ StopIsClean'
    BY <1>11, <2>6 DEF CancelNext, CancelKept, StopIsClean
  <2> QED BY <2>3, <2>4, <2>5, <2>7
<1>12. ASSUME MainFails PROVE RunInv'
  BY <1>12, FetchAssumption DEF MainFails, Fault, TypeOK, FuturesKept, AnswersTrue, TrueOf, CollectedKept, CancelKept,
         MarksTellTheTruth, StopIsClean, InState
<1>13. ASSUME EndLoop PROVE RunInv'
  BY <1>13 DEF EndLoop, TypeOK, FuturesKept, AnswersTrue, TrueOf, CollectedKept, CancelKept,
         MarksTellTheTruth, StopIsClean, InState
<1>14. ASSUME Join PROVE RunInv'
  <2>1. CASE fate = "failed"
    BY <1>14, <2>1, ForgetInv DEF Join, TypeOK
  <2>2. CASE fate # "failed"
    BY <1>14, <2>2 DEF Join, TypeOK, FuturesKept, AnswersTrue, TrueOf, CollectedKept, CancelKept,
         MarksTellTheTruth, StopIsClean, InState
  <2> QED BY <2>1, <2>2
<1>15. ASSUME Record PROVE RunInv'
  BY <1>15, ForgetInv DEF Record, TypeOK
<1>20. ASSUME JoinFails PROVE RunInv'
  BY <1>20, FetchAssumption DEF JoinFails, Fault, TypeOK, FuturesKept, AnswersTrue, TrueOf,
         CollectedKept, CancelKept, MarksTellTheTruth, StopIsClean, InState
<1>21. ASSUME Exit PROVE RunInv'
  BY <1>21, ForgetInv DEF Exit, TypeOK
<1>16. CASE UNCHANGED vars
  BY <1>16 DEF vars, TypeOK, FuturesKept, AnswersTrue, TrueOf, CollectedKept, CancelKept,
         MarksTellTheTruth, StopIsClean, InState
<1> QED BY <1>1, <1>2, <1>3, <1>4, <1>5, <1>6, <1>7, <1>8, <1>9, <1>10, <1>11, <1>12, <1>13,
           <1>14, <1>15, <1>16, <1>17, <1>18, <1>19, <1>20, <1>21
        DEF Next, Worker, Main

LEMMA RunInvAlways == Spec => []RunInv
BY InitInv, StepInv, PTL DEF Spec

-----------------------------------------------------------------------------
(* Theorems                                                                *)

\* Every variable keeps its type.
THEOREM TypeCorrect == Spec => []TypeOK
BY RunInvAlways, PTL DEF RunInv

\* A repository is marked only when GitHub has settled it, and with its README
\* if there is one, however runs end.
THEOREM MarksTellTheTruthAlways == Spec => []MarksTellTheTruth
BY RunInvAlways, PTL DEF RunInv

\* After a stop at the rate limit no request starts, once the pending futures are
\* cancelled.
THEOREM StopIsCleanAlways == Spec => []StopIsClean
BY RunInvAlways, PTL DEF RunInv

\* A run that completes has marked all of its work list but what had an error.
THEOREM CompleteRunLosesNothingAlways == Spec => []CompleteRunLosesNothing
<1>1. RunInv => CompleteRunLosesNothing
  BY DEF RunInv, CollectedKept, CompleteRunLosesNothing
<1> QED BY <1>1, RunInvAlways, PTL
=============================================================================
