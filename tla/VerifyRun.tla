------------------------------ MODULE VerifyRun ------------------------------
(***************************************************************************)
(* `typocrawler verify` and the LLM behind it: batch after batch of the    *)
(* queue is asked about, no faster than the throttle allows; a request     *)
(* that fails for a moment is repeated after a pause that doubles; the     *)
(* reply is read by position; its verdicts are committed.  Any failure     *)
(* ends the run, and the next one takes what has no verdict yet.           *)
(*                                                                         *)
(* Time is counted in seconds and passes in steps of TimeStep.             *)
(***************************************************************************)
EXTENDS Integers, FiniteSets, Functions

CONSTANTS
    Finding,     \* the findings the heuristics have let pass, numbered in the
                 \* order of the queue
    Opinion,     \* what the model thinks: TRUE for misspelled, FALSE, or null
    null,        \* the model cannot tell
    scrap,       \* an element of the reply that is no object
    noArray,     \* a reply in which there is no JSON array
    Provider,    \* groq, gemini or ollama
    Rpm,         \* --rpm, or the provider's default; 0 is no throttle
    Batch,       \* --batch
    Attempts,    \* stop_after_attempt
    TimeStep     \* seconds of a step of time

Minute == 60

ASSUME VerifyAssumption ==
    /\ Finding \subseteq Nat /\ IsFiniteSet(Finding)
    /\ Opinion \in [Finding -> {TRUE, FALSE, null}]
    /\ null \notin BOOLEAN
    /\ scrap \notin Finding
    /\ Provider \in {"groq", "gemini", "ollama"}
    /\ Rpm \in Nat /\ (Rpm # 0 => Minute % Rpm = 0)  \* time is counted in whole seconds
    /\ Batch \in Nat \ {0}
    /\ Attempts \in Nat \ {0}
    /\ TimeStep \in 1 .. Minute

VARIABLES
    verdict,     \* findings.llm_verdict, "none" for NULL
    pc,          \* what the run is doing
    todo,        \* the findings it has still to ask about
    attempt,     \* the number of the request for this batch
    failure,     \* what became of the last request, "none" if it was answered
    timer,       \* seconds until the next attempt
    since,       \* seconds since _last, as far as the throttle looks
    reply,       \* what the model has said, of each object which finding it is about
    recent,      \* history: ages of the requests of the last minute, since the
                 \* run began or a request was repeated
    mixed        \* history: findings of batches the reply to which was mixed up

vars == <<verdict, pc, todo, attempt, failure, timer, since, reply, recent, mixed>>

Error   == {"timeout", "rate_limit", "server", "refused"}
Verdict == {"typo", "not_typo", "unsure"}

-----------------------------------------------------------------------------
(* The back-end                                                            *)

\* _min_gap: what the throttle keeps between an answer and the next request.
\* Ollama has none.
Gap == IF Rpm = 0 \/ Provider = "ollama" THEN 0 ELSE Minute \div Rpm

\* wait_exponential: 2 seconds, doubled from attempt to attempt up to a minute
Backoff(n) == IF n <= 5 THEN <<2, 4, 8, 16, 32>>[n] ELSE Minute

\* (mutated: errors of the connection are not recognised)
MutIsTransient(e) == e \in {"rate_limit", "server"}

\* _is_transient.  Ollama is asked through httpx, whose error for a status has
\* the code in its response, and not where this looks for it.
IsTransient(e) == e = "timeout" \/ (e \in {"rate_limit", "server"} /\ Provider # "ollama")

VerdictOf(misspelled) ==
    CASE misspelled = TRUE  -> "typo"
      [] misspelled = FALSE -> "not_typo"
      [] OTHER              -> "unsure"

\* The place of a finding in the queue, counted from 1
Place(f) == Cardinality({g \in todo : g <= f})

\* The batch asked about
Chunk == {f \in todo : Place(f) <= Batch}
Rest  == todo \ Chunk

\* The model may leave words out, say a thing twice or too much, or anything
\* but an array of objects.
Replies ==
    {noArray} \cup UNION {[1 .. n -> Chunk \cup {scrap}] : n \in 0 .. Cardinality(Chunk) + 1}

\* Object by object it goes through the batch, however far.
InOrder(s) == \A f \in Chunk : Place(f) \in DOMAIN s => s[Place(f)] = f

\* parse_response takes the reply, if every element is an object.
Parses(s) == s # noArray /\ scrap \notin Range(s)

Said(s, i) == VerdictOf(Opinion[s[i]])

\* (mutated: a short reply is taken for the end of the batch)
MutParseResponse(s, n) == [i \in 1 .. n |->
    LET short == n - Cardinality(DOMAIN s)
    IN  IF i - short \in DOMAIN s THEN Said(s, i - short) ELSE "unsure"]

\* One verdict for each of n findings: the missing ones are "unsure", what is
\* too much is cut.
ParseResponse(s, n) == [i \in 1 .. n |-> IF i \in DOMAIN s THEN Said(s, i) ELSE "unsure"]

-----------------------------------------------------------------------------
(* The run                                                                 *)

Pending == {f \in Finding : verdict[f] = "none"}

EndRun ==
    /\ pc' = "idle"
    /\ todo' = {} /\ timer' = 0 /\ since' = 0 /\ reply' = noArray
    /\ recent' = {}

Init ==
    /\ verdict = [f \in Finding |-> "none"]
    /\ pc = "idle" /\ todo = {} /\ attempt = 0 /\ failure = "none"
    /\ timer = 0 /\ since = 0 /\ reply = noArray
    /\ recent = {} /\ mixed = {}

\* The queue is read (all of it: --limit is the business of FindingStore), and a
\* back-end chosen.  It takes its last answer to have been when the monotonic clock
\* was 0, which may not be long ago.
StartRun ==
    /\ pc = "idle"
    /\ Pending # {}
    /\ pc' = "throttle"
    /\ todo' = Pending
    /\ attempt' = 0 /\ failure' = "none"
    /\ since' \in {s \in 0 .. Gap : s % TimeStep = 0}
    /\ UNCHANGED <<verdict, timer, reply, recent, mixed>>

\* A batch is sent for the first time.
Send ==
    /\ pc = "throttle"
    /\ since >= Gap
    /\ pc' = "sent"
    /\ attempt' = 1
    /\ recent' = recent \cup {0}
    /\ UNCHANGED <<verdict, todo, failure, timer, since, reply, mixed>>

\* (mutated: attempts are not counted)
MutRetry ==
    /\ pc = "backoff"
    /\ timer = 0
    /\ pc' = "sent"
    /\ recent' = {0}
    /\ UNCHANGED <<verdict, todo, attempt, failure, timer, since, reply, mixed>>

\* It is sent again, whatever the throttle would say.
Retry ==
    /\ pc = "backoff"
    /\ timer = 0
    /\ pc' = "sent"
    /\ attempt' = attempt + 1
    /\ recent' = {0}
    /\ UNCHANGED <<verdict, todo, failure, timer, since, reply, mixed>>

\* (mutated: the time of the answer is not kept)
MutAnswer ==
    /\ pc = "sent"
    /\ pc' = "answered"
    /\ reply' \in Replies
    /\ mixed' = IF reply' # noArray /\ ~InOrder(reply') THEN mixed \cup Chunk ELSE mixed
    /\ failure' = "none"
    /\ UNCHANGED <<verdict, todo, attempt, timer, since, recent>>

\* The model replies.
Answer ==
    /\ pc = "sent"
    /\ pc' = "answered"
    /\ reply' \in Replies
    /\ mixed' = IF reply' # noArray /\ ~InOrder(reply') THEN mixed \cup Chunk ELSE mixed
    /\ failure' = "none"
    /\ since' = 0
    /\ UNCHANGED <<verdict, todo, attempt, timer, recent>>

\* A request that fails for a moment is to be repeated, up to a number of times.
FailAgain(e) ==
    /\ pc = "sent"
    /\ IsTransient(e) /\ attempt < Attempts
    /\ pc' = "backoff"
    /\ failure' = e
    /\ timer' = Backoff(attempt)
    /\ UNCHANGED <<verdict, todo, attempt, since, reply, recent, mixed>>

\* Any other failure ends the run.
FailForGood(e) ==
    /\ pc = "sent"
    /\ ~IsTransient(e) \/ attempt = Attempts
    /\ failure' = e
    /\ EndRun
    /\ UNCHANGED <<verdict, attempt, mixed>>

\* (mutated: verdicts and findings are zipped, what the reply leaves out gets none)
MutCommit ==
    /\ pc = "answered"
    /\ Parses(reply)
    /\ verdict' = [f \in Finding |-> IF f \in Chunk /\ Place(f) \in DOMAIN reply
                                    THEN Said(reply, Place(f)) ELSE verdict[f]]
    /\ IF Rest = {}
       THEN EndRun
       ELSE /\ pc' = "throttle" /\ todo' = Rest /\ reply' = noArray
            /\ UNCHANGED <<timer, since, recent>>
    /\ UNCHANGED <<attempt, failure, mixed>>

\* The verdicts of the batch are committed, and the next one is taken up.
Commit ==
    /\ pc = "answered"
    /\ Parses(reply)
    /\ LET results == ParseResponse(reply, Cardinality(Chunk)) IN
       verdict' = [f \in Finding |-> IF f \in Chunk THEN results[Place(f)] ELSE verdict[f]]
    /\ IF Rest = {}
       THEN EndRun
       ELSE /\ pc' = "throttle" /\ todo' = Rest /\ reply' = noArray
            /\ UNCHANGED <<timer, since, recent>>
    /\ UNCHANGED <<attempt, failure, mixed>>

\* (mutated: the batch is skipped, the run goes on)
MutReject ==
    /\ pc = "answered"
    /\ ~Parses(reply)
    /\ IF Rest = {}
       THEN EndRun
       ELSE /\ pc' = "throttle" /\ todo' = Rest /\ reply' = noArray
            /\ UNCHANGED <<timer, since, recent>>
    /\ UNCHANGED <<verdict, attempt, failure, mixed>>

\* A reply that cannot be parsed ends the run.
Reject ==
    /\ pc = "answered"
    /\ ~Parses(reply)
    /\ EndRun
    /\ UNCHANGED <<verdict, attempt, failure, mixed>>

\* Ctrl-C, the end of the job, "database is locked" at the commit
Kill ==
    /\ pc # "idle"
    /\ EndRun
    /\ failure' = "none"
    /\ UNCHANGED <<verdict, attempt, mixed>>

\* Time passes.
Tick ==
    /\ pc \in {"throttle", "sent", "backoff"}
    /\ since' = IF since + TimeStep > Gap THEN Gap ELSE since + TimeStep
    /\ timer' = IF timer < TimeStep THEN 0 ELSE timer - TimeStep
    /\ recent' = {a + TimeStep : a \in recent} \cap (0 .. Minute - 1)
    /\ UNCHANGED <<verdict, pc, todo, attempt, failure, reply, mixed>>

Next ==
    \/ StartRun \/ Send \/ Retry
    \/ Answer \/ \E e \in Error : FailAgain(e) \/ FailForGood(e)
    \/ Commit \/ Reject
    \/ Kill \/ Tick

Spec == Init /\ [][Next]_vars

\* Time passes, and the command goes on.  It need not be started again.  Only the
\* client for Ollama is given a timeout, after which a request has failed; nothing
\* in the code keeps one to Groq or Gemini from hanging for ever.
Fairness ==
    /\ WF_vars(Tick)
    /\ WF_vars(Send) /\ WF_vars(Retry)
    /\ Provider = "ollama" => WF_vars(Answer \/ \E e \in Error : FailAgain(e) \/ FailForGood(e))
    /\ WF_vars(Commit) /\ WF_vars(Reject)

FairSpec == Spec /\ Fairness
-----------------------------------------------------------------------------
(* Properties                                                              *)

\* Every variable keeps its type.
TypeOK ==
    /\ verdict \in [Finding -> Verdict \cup {"none"}]
    /\ pc \in {"idle", "throttle", "sent", "backoff", "answered"}
    /\ todo \subseteq Finding
    /\ attempt \in 0 .. Attempts
    /\ failure \in Error \cup {"none"}
    /\ timer \in 0 .. Minute
    /\ since \in 0 .. Gap
    /\ reply = noArray \/ Range(reply) \subseteq Finding \cup {scrap}
    /\ recent \subseteq 0 .. Minute - 1
    /\ mixed \subseteq Finding

\* The queue is worked off from its head: whatever fails and however often the
\* command is started again, no finding is left behind one that has a verdict,
\* and what a run has still to ask about has none.
JudgedInOrder ==
    /\ \A f, g \in Finding : f < g /\ verdict[f] = "none" => verdict[g] = "none"
    /\ \A f \in todo : verdict[f] = "none"

\* A finding gets the model's opinion of it or "unsure", never the opinion of
\* another, unless the model has mixed up the very batch it was in: a reply too
\* short or too long does no harm, and no reply does any to another batch.
OwnVerdict ==
    \A f \in Finding \ mixed : verdict[f] \in {"none", "unsure", VerdictOf(Opinion[f])}

\* As long as no request has to be repeated, no minute has more of them than
\* --rpm, however long the answers take.
RateKept == Rpm # 0 /\ Provider # "ollama" => Cardinality(recent) <= Rpm

\* llm.py:22: "Retry rate-limit / 5xx / timeout errors from any provider; fail fast
\* on everything else": a run gives up on these only after the last attempt, and
\* makes no second one after any other.
TransientRetried ==
    /\ pc = "idle" /\ failure \in {"timeout", "rate_limit", "server"} => attempt = Attempts
    /\ pc = "backoff" => failure # "refused"

\* A run comes to its end, whatever is answered and however often a request fails,
\* unless a client without a timeout waits for ever for the answer to one request.
RunEnds ==
    \/ pc # "idle" ~> pc = "idle"
    \/ Provider # "ollama" /\ <>[](pc = "sent")

-----------------------------------------------------------------------------
(* The command as FindingStore has it                                      *)

\* apply_verdicts writes both columns.
StatusWith(v) == CASE v = "typo"     -> "confirmed"
                   [] v = "not_typo" -> "false_positive"
                   [] OTHER          -> "new"

\* One process, and nothing but findings the rules have let pass; all have one
\* score, for their order is the business of JudgedInOrder.
Store == INSTANCE FindingStore WITH
    Proc <- {1}, Snapshot <- {0}, Token <- {0}, Limits <- {0}, Unanswerable <- {},
    SnapOf <- [f \in Finding |-> 0], TokenOf <- [f \in Finding |-> 0],
    Score <- [f \in Finding |-> 1],
    ContextRule <- [f \in Finding |-> "none"], SnippetRule <- [f \in Finding |-> "none"],
    MaxInterventions <- 0, interventions <- 0, allow <- {}, loaded <- [p \in {1} |-> {}],
    snaps <- {0}, checked <- {0}, reason <- [f \in Finding |-> "none"],
    status <- [f \in Finding |-> StatusWith(verdict[f])],
    cmd <- [p \in {1} |-> IF pc = "idle" THEN "idle" ELSE "verify"],
    work <- [p \in {1} |-> todo]

StoreStep == Store!VerifyRead(1) \/ Store!VerifyBatch(1) \/ Store!Interrupt(1)

\* Throttle, retries and replies in all their variety come down to what FindingStore
\* takes for the steps of verify: whole batches of the size asked for, cut from what
\* was read and judged to the last finding, or an end that changes no row.
ImplementsStore == [][StoreStep]_(Store!vars)
=============================================================================
