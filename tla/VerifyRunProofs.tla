---------------------------- MODULE VerifyRunProofs ----------------------------
(***************************************************************************)
(* Theorems about VerifyRun, for every queue, batch size, number of        *)
(* attempts, and rate of which a minute is a multiple.                     *)
(*                                                                         *)
(* The work of a run is all that has no verdict (WorkKept), so that a      *)
(* batch from its head leaves nothing behind; a reply is in the order of   *)
(* its batch, or the batch is known to be mixed up (ReplyKept).  For the   *)
(* rate, requests lie a gap apart (Spaced), and a minute has no room for   *)
(* more than --rpm of these.                                               *)
(***************************************************************************)
EXTENDS VerifyRun, FiniteSetTheorems, TLAPS

\* What a run has still to ask about is what has no verdict.
WorkKept == pc # "idle" => todo = Pending

\* A reply that may be read is about the batch, object by object.
ReplyKept ==
    pc = "answered" /\ reply # noArray => InOrder(reply) \/ Chunk \subseteq mixed

\* Failures are repeated only if they may pass, and only so often.
FailureKept ==
    /\ pc = "answered" => failure = "none"
    /\ pc = "sent" => attempt >= 1
    /\ pc = "backoff" => failure # "refused" /\ attempt \in 1 .. Attempts - 1

\* Requests lie a gap apart, and the throttle looks back no further than to the
\* last of them.
Spaced ==
    /\ \A a, b \in recent : a < b => a + Gap <= b
    /\ pc = "idle" => recent = {}
    /\ pc \in {"throttle", "answered"} => \A a \in recent : a >= since

QueueInv == TypeOK /\ JudgedInOrder /\ WorkKept /\ ReplyKept /\ OwnVerdict

\* Ollama's errors are not known for what they are.
Repeated == Provider # "ollama" => TransientRetried

RunInv == QueueInv /\ FailureKept /\ Spaced
-----------------------------------------------------------------------------
(* Lemmas about the operators                                              *)

\* A minute holds so many gaps, if there is a throttle.
LEMMA GapFits ==
    /\ Gap \in 0 .. Minute
    /\ Rpm # 0 /\ Provider # "ollama" => Gap \in 1 .. Minute /\ Gap * Rpm = Minute
BY VerifyAssumption DEF Gap, Minute

\* A pause is a number of seconds up to a minute.
LEMMA BackoffType == ASSUME NEW n \in Nat \ {0} PROVE Backoff(n) \in 0 .. Minute
BY DEF Backoff, Minute

\* The place of a finding is one of the queue, before that of every later one.
LEMMA PlaceInOrder ==
    ASSUME IsFiniteSet(todo), todo \subseteq Nat, NEW f \in todo
    PROVE  /\ Place(f) \in Nat \ {0}
           /\ \A g \in todo : f < g => Place(f) <= Place(g)
<1> DEFINE upTo(h) == {g \in todo : g <= h}
<1>1. \A h \in todo : IsFiniteSet(upTo(h)) /\ Cardinality(upTo(h)) \in Nat
  BY FS_Subset, FS_CardinalityType
<1>2. upTo(f) # {}
  OBVIOUS
<1>3. Place(f) # 0
  BY <1>1, <1>2, FS_EmptySet DEF Place
<1>4. ASSUME NEW g \in todo, f < g PROVE Place(f) <= Place(g)
  <2>1. f \in Nat /\ g \in Nat /\ \A h \in todo : h \in Nat
    OBVIOUS
  <2>2. \A h \in todo : h <= f => h <= g
    BY <1>4, <2>1
  <2>3. upTo(f) \subseteq upTo(g)
    BY <2>2
  <2> QED BY <1>1, <2>3, FS_Subset DEF Place
<1> QED BY <1>1, <1>3, <1>4 DEF Place

\* The findings are a finite set of numbers.
LEMMA TodoFinite == ASSUME todo \subseteq Finding PROVE IsFiniteSet(todo) /\ todo \subseteq Nat
BY VerifyAssumption, FS_Subset

\* What the model says of a finding is a verdict.
LEMMA VerdictType == \A o : VerdictOf(o) \in Verdict
BY DEF VerdictOf, Verdict

\* Points of a minute that lie a gap apart are no more than the gaps it has.
LEMMA SpacedFew ==
    ASSUME NEW S \in SUBSET (0 .. Minute - 1), NEW g \in 1 .. Minute, NEW n \in Nat,
           g * n = Minute, \A a, b \in S : a < b => a + g <= b
    PROVE  IsFiniteSet(S) /\ Cardinality(S) <= n
<1> DEFINE f == [a \in S |-> a \div g]
<1>1. \A a \in S : a \div g \in 0 .. n - 1
  BY DEF Minute
<1>2. \A a, b \in S : a \div g = b \div g => a = b
  BY DEF Minute
<1>3. f \in Injection(S, 0 .. n - 1)
  BY <1>1, <1>2 DEF Injection, IsInjective
<1>4. IsFiniteSet(0 .. n - 1) /\ Cardinality(0 .. n - 1) = n
  BY FS_Interval
<1> QED BY <1>3, <1>4, FS_Injection
-----------------------------------------------------------------------------
(* Steps that several actions have in common                               *)

\* A run that ends, whatever made it, leaves the invariant to its failure.
LEMMA EndInv ==
    ASSUME RunInv, EndRun, UNCHANGED <<verdict, attempt, mixed>>,
           failure' \in Error \cup {"none"}
    PROVE  RunInv'
<1>1. Gap \in 0 .. Minute
  BY GapFits
<1>2. TypeOK'
  BY <1>1 DEF RunInv, QueueInv, TypeOK, EndRun, Minute
<1>3. JudgedInOrder' /\ WorkKept' /\ ReplyKept' /\ OwnVerdict' /\ FailureKept' /\ Spaced'
  BY DEF RunInv, QueueInv, JudgedInOrder, WorkKept, ReplyKept, OwnVerdict, FailureKept, Spaced,
         EndRun
<1> QED BY <1>2, <1>3 DEF RunInv, QueueInv

\* A batch is a piece from the head of the queue, and the places in it are its own.
LEMMA ChunkIsHead ==
    ASSUME todo \subseteq Finding
    PROVE  /\ Chunk \subseteq todo
           /\ \A f \in Chunk : Place(f) \in 1 .. Cardinality(Chunk)
           /\ \A f \in todo, g \in Chunk : f < g => f \in Chunk
<1>1. IsFiniteSet(todo) /\ todo \subseteq Nat /\ Batch \in Nat
  BY TodoFinite, VerifyAssumption
<1>2. Chunk \subseteq todo
  BY DEF Chunk
<1>3. ASSUME NEW f \in todo, NEW g \in Chunk, f < g PROVE f \in Chunk
  <2>1. Place(f) \in Nat /\ Place(g) \in Nat /\ Place(f) <= Place(g) /\ Place(g) <= Batch
    BY <1>1, <1>2, <1>3, PlaceInOrder DEF Chunk
  <2> QED BY <1>1, <2>1 DEF Chunk
<1>4. ASSUME NEW f \in Chunk PROVE Place(f) \in 1 .. Cardinality(Chunk)
  <2>1. Place(f) \in Nat \ {0}
    BY <1>1, <1>2, PlaceInOrder
  <2>2. {g \in todo : g <= f} \subseteq Chunk
    <3> SUFFICES ASSUME NEW g \in todo, g <= f PROVE g \in Chunk
      OBVIOUS
    <3>1. f \in Nat /\ g \in Nat
      BY <1>1, <1>2
    <3>2. g = f \/ g < f
      BY <3>1
    <3> QED BY <1>3, <3>2
  <2>3. IsFiniteSet(Chunk)
    BY <1>1, <1>2, FS_Subset
  <2>4. Cardinality(Chunk) \in Nat /\ Place(f) <= Cardinality(Chunk)
    BY <2>2, <2>3, FS_Subset, FS_CardinalityType DEF Place
  <2> QED BY <2>1, <2>4
<1> QED BY <1>2, <1>3, <1>4

\* The verdicts a batch gets are verdicts, and its own unless it is mixed up.
LEMMA SaidOfOwn ==
    ASSUME RunInv, pc = "answered", Parses(reply), NEW f \in Chunk
    PROVE  LET said == ParseResponse(reply, Cardinality(Chunk))[Place(f)]
           IN  said \in Verdict /\ (f \notin mixed => said \in {"unsure", VerdictOf(Opinion[f])})
<1> DEFINE said == ParseResponse(reply, Cardinality(Chunk))[Place(f)]
<1>1. todo \subseteq Finding /\ Place(f) \in 1 .. Cardinality(Chunk)
  BY ChunkIsHead DEF RunInv, QueueInv, TypeOK
<1>2. said = IF Place(f) \in DOMAIN reply THEN VerdictOf(Opinion[reply[Place(f)]]) ELSE "unsure"
  BY <1>1 DEF ParseResponse, Said
<1>3. said \in Verdict
  BY <1>2, VerdictType DEF Verdict
<1>4. ASSUME f \notin mixed PROVE said \in {"unsure", VerdictOf(Opinion[f])}
  <2>1. InOrder(reply)
    BY <1>4 DEF RunInv, QueueInv, ReplyKept, Parses
  <2>2. Place(f) \in DOMAIN reply => reply[Place(f)] = f
    BY <2>1 DEF InOrder
  <2> QED BY <1>2, <2>2
<1> QED BY <1>3, <1>4

\* The verdicts of a batch leave no finding behind.
LEMMA CommitInv == ASSUME RunInv, Commit PROVE RunInv'
<1> DEFINE said(f) == ParseResponse(reply, Cardinality(Chunk))[Place(f)]
<1>1. /\ pc = "answered" /\ todo = Pending /\ Parses(reply)
      /\ verdict' = [f \in Finding |-> IF f \in Chunk THEN said(f) ELSE verdict[f]]
      /\ mixed' = mixed /\ attempt' = attempt /\ failure' = failure
  BY DEF Commit, RunInv, QueueInv, WorkKept
<1>2. /\ todo \subseteq Finding /\ Chunk \subseteq todo
      /\ \A f \in todo, g \in Chunk : f < g => f \in Chunk
  BY ChunkIsHead DEF RunInv, QueueInv, TypeOK
<1>3. \A f \in Chunk : said(f) \in Verdict /\ (f \notin mixed => said(f) \in {"unsure", VerdictOf(Opinion[f])})
  BY <1>1, SaidOfOwn
<1> HIDE DEF said
<1>4. verdict' \in [Finding -> Verdict \cup {"none"}]
  BY <1>1, <1>3 DEF RunInv, QueueInv, TypeOK
<1>5. Pending' = Rest
  <2>1. \A f \in Chunk : said(f) # "none"
    BY <1>3 DEF Verdict
  <2> QED BY <1>1, <1>2, <2>1 DEF Pending, Rest
<1>6. \A f, g \in Finding : f < g /\ verdict'[f] = "none" => verdict'[g] = "none"
  <2> SUFFICES ASSUME NEW f \in Finding, NEW g \in Finding, f < g, verdict'[f] = "none"
               PROVE  verdict'[g] = "none"
    OBVIOUS
  <2>1. f \in todo /\ f \notin Chunk
    BY <1>1, <1>2, <1>5 DEF Pending, Rest
  <2>2. g \notin Chunk
    BY <1>2, <2>1
  <2>3. verdict[f] = "none" /\ verdict[g] = "none"
    BY <1>1, <2>1 DEF Pending, RunInv, QueueInv, JudgedInOrder
  <2> QED BY <1>1, <2>2, <2>3
<1>7. OwnVerdict'
  BY <1>1, <1>3 DEF OwnVerdict, RunInv, QueueInv
<1>8. CASE Rest = {}
  <2>1. EndRun
    BY <1>8 DEF Commit
  <2>2. TypeOK'
    BY <1>1, <1>4, <2>1, GapFits DEF RunInv, QueueInv, TypeOK, EndRun, Minute
  <2>3. JudgedInOrder' /\ WorkKept' /\ ReplyKept' /\ FailureKept' /\ Spaced'
    BY <1>6, <2>1 DEF EndRun, JudgedInOrder, WorkKept, ReplyKept, FailureKept, Spaced
  <2> QED BY <1>7, <2>2, <2>3 DEF RunInv, QueueInv
<1>9. CASE Rest # {}
  <2>1. /\ pc' = "throttle" /\ todo' = Rest /\ reply' = noArray
        /\ UNCHANGED <<timer, since, recent>>
    BY <1>9 DEF Commit
  <2>2. TypeOK'
    BY <1>1, <1>2, <1>4, <2>1 DEF RunInv, QueueInv, TypeOK, Rest
  <2>3. JudgedInOrder'
    BY <1>5, <1>6, <2>1 DEF JudgedInOrder, Pending
  <2>4. WorkKept' /\ ReplyKept' /\ FailureKept'
    BY <1>5, <2>1 DEF WorkKept, ReplyKept, FailureKept
  <2>5. Spaced'
    BY <1>1, <2>1 DEF RunInv, Spaced, Gap
  <2> QED BY <1>7, <2>2, <2>3, <2>4, <2>5 DEF RunInv, QueueInv
<1> QED BY <1>8, <1>9
-----------------------------------------------------------------------------
(* The invariant                                                           *)

LEMMA InitInv == Init => RunInv
<1> SUFFICES ASSUME Init PROVE RunInv
  OBVIOUS
<1>1. TypeOK
  BY GapFits, VerifyAssumption DEF Init, TypeOK, Minute
<1>2. JudgedInOrder /\ WorkKept /\ ReplyKept /\ OwnVerdict
  BY DEF Init, JudgedInOrder, WorkKept, ReplyKept, OwnVerdict
<1>3. FailureKept /\ Spaced
  BY DEF Init, FailureKept, Spaced
<1> QED BY <1>1, <1>2, <1>3 DEF RunInv, QueueInv

\* A reply names findings of the batch.
LEMMA ReplyType ==
    ASSUME RunInv, Answer
    PROVE  reply' = noArray \/ Range(reply') \subseteq Finding \cup {scrap}
<1>1. Chunk \subseteq Finding
  BY DEF Chunk, RunInv, QueueInv, TypeOK
<1> SUFFICES ASSUME reply' # noArray PROVE Range(reply') \subseteq Finding \cup {scrap}
  OBVIOUS
<1>2. PICK n \in 0 .. Cardinality(Chunk) + 1 : reply' \in [1 .. n -> Chunk \cup {scrap}]
  BY DEF Answer, Replies
<1> QED BY <1>1, <1>2 DEF Range

LEMMA AnswerInv == ASSUME RunInv, Answer PROVE RunInv'
<1>1. Gap \in 0 .. Minute /\ Chunk \subseteq Finding
  BY GapFits DEF Chunk, RunInv, QueueInv, TypeOK
<1>2. TypeOK'
  BY <1>1, ReplyType DEF Answer, RunInv, QueueInv, TypeOK
<1>3. JudgedInOrder' /\ WorkKept'
  BY DEF Answer, RunInv, QueueInv, JudgedInOrder, WorkKept, Pending
<1>4. ReplyKept'
  BY DEF Answer, ReplyKept, InOrder, Chunk, Place
<1>5. OwnVerdict' /\ FailureKept' 
  BY DEF Answer, RunInv, QueueInv, OwnVerdict, FailureKept
<1>6. Spaced'
  BY DEF Answer, RunInv, QueueInv, TypeOK, Spaced, Gap
<1> QED BY <1>2, <1>3, <1>4, <1>5, <1>6 DEF RunInv, QueueInv

\* Steps that leave the verdicts, the work and the reply alone
LEMMA AsideInv ==
    ASSUME RunInv, pc # "idle", pc' \notin {"idle", "answered"},
           UNCHANGED <<verdict, todo, reply, mixed>>
    PROVE  JudgedInOrder' /\ WorkKept' /\ ReplyKept' /\ OwnVerdict'
BY DEF RunInv, QueueInv, JudgedInOrder, WorkKept, Pending, ReplyKept, OwnVerdict

LEMMA TickInv == ASSUME RunInv, Tick PROVE RunInv'
<1>1. Gap \in 0 .. Minute /\ TimeStep \in 1 .. Minute
  BY GapFits, VerifyAssumption
<1>2. /\ TypeOK
      /\ since' \in 0 .. Gap /\ timer' \in 0 .. Minute /\ recent' \subseteq 0 .. Minute - 1
  BY <1>1 DEF Tick, RunInv, QueueInv, TypeOK, Minute
<1>3. TypeOK'
  BY <1>2 DEF Tick, TypeOK
<1>4. \A b \in recent' : \E a \in recent : b = a + TimeStep
  BY DEF Tick
<1>5. \A a, b \in recent' : a < b => a + Gap <= b
  <2> SUFFICES ASSUME NEW a \in recent', NEW b \in recent', a < b PROVE a + Gap <= b
    OBVIOUS
  <2>1. PICK x \in recent, y \in recent : a = x + TimeStep /\ b = y + TimeStep
    BY <1>4
  <2>2. x \in Int /\ y \in Int
    BY <1>2 DEF TypeOK, Minute
  <2> QED BY <1>1, <2>1, <2>2 DEF RunInv, Spaced
<1>6. ASSUME pc' = "throttle" PROVE \A b \in recent' : b >= since'
  <2> SUFFICES ASSUME NEW b \in recent' PROVE b >= since'
    OBVIOUS
  <2>1. PICK a \in recent : b = a + TimeStep
    BY <1>4
  <2>2. a >= since
    BY <1>6 DEF Tick, RunInv, Spaced
  <2>3. a \in Int /\ since \in Int
    BY <1>1, <1>2 DEF TypeOK, Minute
  <2> QED BY <1>1, <2>1, <2>2, <2>3 DEF Tick
<1>7. Spaced'
  BY <1>5, <1>6 DEF Tick, Spaced, Gap
<1>8. FailureKept'
  BY DEF Tick, RunInv, FailureKept
<1> QED BY <1>3, <1>7, <1>8, AsideInv DEF Tick, RunInv, QueueInv

LEMMA StepInv == RunInv /\ [Next]_vars => RunInv'
<1> SUFFICES ASSUME RunInv, [Next]_vars PROVE RunInv'
  OBVIOUS
<1> USE DEF RunInv, QueueInv
<1>1. CASE StartRun
  <2>1. TypeOK'
    BY <1>1, VerifyAssumption DEF StartRun, TypeOK, Gap, Pending
  <2>2. JudgedInOrder' /\ WorkKept' /\ ReplyKept' /\ OwnVerdict'
    BY <1>1 DEF StartRun, JudgedInOrder, WorkKept, ReplyKept, OwnVerdict, Pending
  <2>3. FailureKept' /\ Spaced'
    BY <1>1 DEF StartRun, FailureKept, Spaced
  <2> QED BY <2>1, <2>2, <2>3
<1>2. CASE Send
  <2>1. TypeOK'
    BY <1>2, VerifyAssumption DEF Send, TypeOK, Gap, Minute
  <2>2. FailureKept'
    BY <1>2 DEF Send, FailureKept
  <2>3. Spaced'
    <3>1. Gap \in 0 .. Minute /\ since = Gap /\ \A a \in recent : a >= Gap /\ a \in Int
      BY <1>2, GapFits DEF Send, TypeOK, Spaced, Minute
    <3>2. \A a, b \in recent \cup {0} : a < b => a + Gap <= b
      BY <3>1 DEF Spaced
    <3> QED BY <1>2, <3>2 DEF Send, Spaced, Gap
  <2> QED BY <1>2, <2>1, <2>2, <2>3, AsideInv DEF Send
<1>3. CASE Retry
  <2>1. TypeOK'
    BY <1>3, VerifyAssumption DEF Retry, TypeOK, FailureKept, Gap, Minute
  <2>2. FailureKept' /\ Spaced'
    BY <1>3, VerifyAssumption DEF Retry, FailureKept, Spaced
  <2> QED BY <1>3, <2>1, <2>2, AsideInv DEF Retry
<1>4. CASE Answer
  BY <1>4, AnswerInv
<1>5. ASSUME NEW e \in Error, FailAgain(e) PROVE RunInv'
  <2>1. attempt \in 1 .. Attempts - 1 /\ Backoff(attempt) \in 0 .. Minute
    BY <1>5, BackoffType, VerifyAssumption DEF FailAgain, FailureKept, TypeOK
  <2>2. TypeOK'
    BY <1>5, <2>1 DEF FailAgain, TypeOK, Gap
  <2>3. FailureKept' /\ Spaced'
    BY <1>5, <2>1 DEF FailAgain, FailureKept, IsTransient, Spaced, Gap
  <2> QED BY <1>5, <2>2, <2>3, AsideInv DEF FailAgain
<1>6. ASSUME NEW e \in Error, FailForGood(e) PROVE RunInv'
  BY <1>6, EndInv DEF FailForGood
<1>7. CASE Commit
  BY <1>7, CommitInv
<1>8. CASE Reject
  BY <1>8, EndInv DEF Reject, TypeOK
<1>9. CASE Kill
  BY <1>9, EndInv DEF Kill
<1>10. CASE Tick
  BY <1>10, TickInv
<1>11. CASE UNCHANGED vars
  BY <1>11 DEF vars, TypeOK, JudgedInOrder, WorkKept, Pending, ReplyKept, InOrder, Chunk, Place,
     OwnVerdict, FailureKept, Spaced, Gap
<1> QED BY <1>1, <1>2, <1>3, <1>4, <1>5, <1>6, <1>7, <1>8, <1>9, <1>10, <1>11 DEF Next

LEMMA RunInvAlways == Spec => []RunInv
BY InitInv, StepInv, PTL DEF Spec

\* The same for the failures that pass
LEMMA RepeatedStep == RunInv /\ Repeated /\ [Next]_vars => Repeated'
<1> SUFFICES ASSUME RunInv, Repeated, [Next]_vars, Provider # "ollama" PROVE TransientRetried'
  BY DEF Repeated
<1>1. TransientRetried /\ FailureKept
  BY DEF Repeated, RunInv
<1>2. CASE StartRun \/ Send \/ Retry \/ Answer \/ Tick
  BY <1>1, <1>2 DEF StartRun, Send, Retry, Answer, Tick, TransientRetried
<1>3. ASSUME NEW e \in Error, FailAgain(e) PROVE TransientRetried'
  BY <1>3 DEF FailAgain, IsTransient, TransientRetried
<1>4. ASSUME NEW e \in Error, FailForGood(e) PROVE TransientRetried'
  BY <1>4 DEF FailForGood, EndRun, IsTransient, TransientRetried
<1>5. CASE Commit \/ Reject
  <2>1. pc' # "backoff" /\ failure' = "none"
    BY <1>1, <1>5 DEF Commit, Reject, EndRun, FailureKept
  <2> QED BY <2>1 DEF TransientRetried
<1>6. CASE Kill
  BY <1>6 DEF Kill, EndRun, TransientRetried
<1>7. CASE UNCHANGED vars
  BY <1>1, <1>7 DEF vars, TransientRetried
<1> QED BY <1>2, <1>3, <1>4, <1>5, <1>6, <1>7 DEF Next
-----------------------------------------------------------------------------
(* Theorems                                                                *)

\* Every variable keeps its type, for every queue, provider and rate.
THEOREM TypeCorrect == Spec => []TypeOK
BY RunInvAlways, PTL DEF RunInv, QueueInv

\* The queue is worked off from its head (cli.py: verify commits batch after batch
\* in the order of the query), whatever fails and whenever it is killed.
THEOREM JudgedInOrderAlways == Spec => []JudgedInOrder
BY RunInvAlways, PTL DEF RunInv, QueueInv

\* A finding gets its own verdict or "unsure", unless its batch was mixed up
\* (llm.py: parse_response pads and cuts the reply).
THEOREM OwnVerdictAlways == Spec => []OwnVerdict
BY RunInvAlways, PTL DEF RunInv, QueueInv

\* The throttle (llm.py: _min_gap and _last) keeps --rpm, however long answers
\* take, as long as nothing is repeated.
THEOREM RateKeptAlways == Spec => []RateKept
<1>1. RunInv => RateKept
  <2> SUFFICES ASSUME RunInv, Rpm # 0, Provider # "ollama" PROVE Cardinality(recent) <= Rpm
    BY DEF RateKept
  <2>1. recent \in SUBSET (0 .. Minute - 1) /\ \A a, b \in recent : a < b => a + Gap <= b
    BY DEF RunInv, QueueInv, TypeOK, Spaced
  <2>2. Gap \in 1 .. Minute /\ Gap * Rpm = Minute /\ Rpm \in Nat
    BY GapFits, VerifyAssumption
  <2> QED BY <2>1, <2>2, SpacedFew
<1> QED BY <1>1, RunInvAlways, PTL

\* A failure that may pass is given up after the last attempt only, and no other is
\* repeated (llm.py: retry, stop_after_attempt), unless the provider is Ollama, whose
\* errors _is_transient does not know.
THEOREM TransientRetriedAlways ==
    ASSUME Provider # "ollama" PROVE Spec => []TransientRetried
<1>1. Init => Repeated
  BY DEF Init, Repeated, TransientRetried
<1>2. Repeated => TransientRetried
  BY DEF Repeated
<1> QED BY <1>1, <1>2, RunInvAlways, RepeatedStep, PTL DEF Spec
-----------------------------------------------------------------------------
(* The steps of FindingStore                                               *)

\* The instance has a symbol of its own for what FiniteSets defines.
LEMMA SameCardinality == ASSUME NEW S PROVE Store!Cardinality(S) = Cardinality(S)
BY DEF Store!Cardinality, Cardinality

\* A batch is as large as asked for, or all there is.
LEMMA ChunkSize ==
    ASSUME todo \subseteq Finding
    PROVE  Cardinality(Chunk) = IF Batch > Cardinality(todo) THEN Cardinality(todo) ELSE Batch
<1> DEFINE N == Cardinality(todo)
           place == [f \in todo |-> Place(f)]
           upTo(f) == {g \in todo : g <= f}
           size == IF Batch > N THEN N ELSE Batch
<1>1. /\ IsFiniteSet(todo) /\ todo \subseteq Nat /\ N \in Nat /\ Batch \in Nat \ {0}
      /\ \A f \in todo : IsFiniteSet(upTo(f)) /\ Cardinality(upTo(f)) \in Nat
  BY TodoFinite, VerifyAssumption, FS_Subset, FS_CardinalityType
<1>2. \A f \in todo : Place(f) \in 1 .. N
  <2> SUFFICES ASSUME NEW f \in todo PROVE Place(f) \in 1 .. N
    OBVIOUS
  <2>1. Place(f) \in Nat \ {0}
    BY <1>1, PlaceInOrder
  <2>2. Cardinality(upTo(f)) <= N
    BY <1>1, FS_Subset
  <2> QED BY <1>1, <2>1, <2>2 DEF Place
<1>3. ASSUME NEW f \in todo, NEW g \in todo, f < g PROVE Place(f) # Place(g)
  <2>1. f \in Nat /\ g \in Nat /\ \A h \in todo : h \in Nat
    BY <1>1
  <2>2. upTo(f) \subseteq upTo(g) /\ g \in upTo(g) /\ g \notin upTo(f)
    <3>1. \A h \in todo : h <= f => h <= g
      BY <1>3, <2>1
    <3>2. g <= g /\ ~(g <= f)
      BY <1>3, <2>1
    <3> QED BY <3>1, <3>2
  <2>3. Cardinality(upTo(f)) # Cardinality(upTo(g))
    BY <1>1, <2>2, FS_Subset
  <2> QED BY <2>3 DEF Place
<1>4. place \in Injection(todo, 1 .. N)
  <2>1. \A f, g \in todo : f # g => f < g \/ g < f
    BY <1>1
  <2> QED BY <1>2, <1>3, <2>1 DEF Injection, IsInjective
<1>5. place \in Surjection(todo, 1 .. N)
  BY <1>1, <1>4, FS_Injection, FS_Interval
<1>6. size \in Nat /\ 1 .. size \subseteq 1 .. N /\ \A k \in 1 .. N : k <= Batch <=> k \in 1 .. size
  BY <1>1
<1>7. [f \in Chunk |-> Place(f)] \in Bijection(Chunk, 1 .. size)
  <2>1. \A f \in Chunk : Place(f) \in 1 .. size
    BY <1>2, <1>6 DEF Chunk
  <2>2. \A f, g \in Chunk : Place(f) = Place(g) => f = g
    BY <1>4 DEF Chunk, Injection, IsInjective
  <2>3. \A k \in 1 .. size : \E f \in Chunk : Place(f) = k
    BY <1>5, <1>6 DEF Chunk, Surjection
  <2> QED BY <2>1, <2>2, <2>3 DEF Bijection, Injection, Surjection, IsInjective
<1>8. IsFiniteSet(Chunk)
  BY <1>1, FS_Subset DEF Chunk
<1>9. IsFiniteSet(1 .. size) /\ Cardinality(1 .. size) = size
  BY <1>6, FS_Interval
<1>10. ExistsBijection(Chunk, 1 .. size)
  BY <1>7 DEF ExistsBijection
<1> HIDE DEF size
<1>11. Cardinality(Chunk) = Cardinality(1 .. size)
  BY <1>8, <1>9, <1>10, FS_Bijection
<1> QED BY <1>9, <1>11 DEF size

LEMMA ReadStep == ASSUME RunInv, StartRun PROVE Store!VerifyRead(1)
<1>1. Pending = {f \in Finding : Store!Pending(f)}
  BY DEF Pending, Store!Pending, StatusWith
<1>2. Pending \in Store!Heads(Pending, 0, Store!BestFirst)
  BY DEF Store!Heads
<1>3. Store!Begin(1, "verify", Pending, {})
  BY DEF StartRun, Store!Begin
<1>4. UNCHANGED verdict
  BY DEF StartRun
<1> QED BY <1>1, <1>2, <1>3, <1>4 DEF StartRun, Store!VerifyRead, Store!store

LEMMA EndStep ==
    ASSUME pc # "idle", EndRun, UNCHANGED verdict PROVE Store!Interrupt(1)
BY DEF EndRun, Store!Interrupt, Store!Begin, Store!store

LEMMA BatchStep == ASSUME RunInv, Commit PROVE Store!VerifyBatch(1)
<1> DEFINE said(f) == ParseResponse(reply, Cardinality(Chunk))[Place(f)]
           judged == [f \in Chunk |-> said(f)]
<1>1. /\ pc = "answered" /\ Parses(reply) /\ todo = Pending /\ todo \subseteq Finding
      /\ verdict' = [f \in Finding |-> IF f \in Chunk THEN said(f) ELSE verdict[f]]
      /\ pc' = IF Rest = {} THEN "idle" ELSE "throttle"
      /\ todo' = Rest
  BY DEF Commit, EndRun, RunInv, QueueInv, WorkKept, TypeOK
<1>2. Chunk \subseteq todo
  BY DEF Chunk
<1>3. \A f \in Chunk : said(f) \in Verdict
  BY <1>1, SaidOfOwn
<1> HIDE DEF said
<1>4. Chunk \in Store!Heads(todo, Batch, Store!BestFirst)
  <2>1. Batch # 0
    BY VerifyAssumption
  <2>2. \A f \in Finding : Store!BestFirst[f] = -1
    BY DEF Store!BestFirst
  <2>3. Cardinality(Chunk) = IF Batch = 0 \/ Batch > Cardinality(todo)
                             THEN Cardinality(todo) ELSE Batch
    BY <1>1, <2>1, ChunkSize
  <2>4. \A t \in Chunk, u \in todo \ Chunk : Store!BestFirst[t] <= Store!BestFirst[u]
    BY <1>1, <1>2, <2>2
  <2> DEFINE key == Store!BestFirst
  <2> HIDE DEF key
  <2>5. Chunk \in Store!Heads(todo, Batch, key)
    <3>1. /\ Store!Cardinality(Chunk) = Cardinality(Chunk)
          /\ Store!Cardinality(todo) = Cardinality(todo)
      BY SameCardinality
    <3> QED BY <1>2, <2>3, <2>4, <3>1 DEF Store!Heads, key
  <2> QED BY <2>5 DEF key
<1>5. judged \in [Chunk -> Store!Verdict]
  BY <1>3 DEF Verdict, Store!Verdict
<1>6. Store!ApplyVerdicts(Chunk, judged)
  <2>1. \A f \in Chunk : StatusWith(said(f)) = Store!VerdictStatus(judged[f], StatusWith(verdict[f]))
    <3>1. \A f \in Chunk : verdict[f] = "none"
      BY <1>1, <1>2 DEF Pending
    <3> QED BY <1>3, <3>1 DEF StatusWith, Store!VerdictStatus, Verdict
  <2>2. \A f \in Finding : verdict'[f] = IF f \in Chunk THEN said(f) ELSE verdict[f]
    BY <1>1
  <2> QED BY <1>1, <2>1, <2>2 DEF Store!ApplyVerdicts
<1>7. Store!Advance(1, Chunk)
  BY <1>1 DEF Store!Advance, Store!Begin, Rest
<1> QED BY <1>1, <1>4, <1>5, <1>6, <1>7 DEF Store!VerifyBatch

LEMMA StoreStutters ==
    ASSUME UNCHANGED <<verdict, todo>>, pc = "idle" <=> pc' = "idle" PROVE UNCHANGED Store!vars
BY DEF Store!vars, Store!store, Store!process
-----------------------------------------------------------------------------
(* Implementation                                                          *)

\* Whatever happens in a run of verify, the tables take no other steps than those
\* of the command in FindingStore, which the theorems about the tables rest on.
THEOREM StoreImplemented == Spec => ImplementsStore
<1>1. RunInv /\ [Next]_vars => StoreStep \/ UNCHANGED Store!vars
  <2> SUFFICES ASSUME RunInv, [Next]_vars PROVE StoreStep \/ UNCHANGED Store!vars
    OBVIOUS
  <2>1. CASE StartRun
    BY <2>1, ReadStep DEF StoreStep
  <2>2. CASE Commit
    BY <2>2, BatchStep DEF StoreStep
  <2>3. CASE Reject \/ Kill \/ \E e \in Error : FailForGood(e)
    BY <2>3, EndStep DEF Reject, Kill, FailForGood, StoreStep
  <2>4. CASE Send \/ Retry \/ Answer \/ Tick \/ \E e \in Error : FailAgain(e)
    BY <2>4, StoreStutters DEF Send, Retry, Answer, Tick, FailAgain
  <2>5. CASE UNCHANGED vars
    BY <2>5, StoreStutters DEF vars
  <2> QED BY <2>1, <2>2, <2>3, <2>4, <2>5 DEF Next
<1> QED BY <1>1, RunInvAlways, PTL DEF Spec, ImplementsStore
=============================================================================
