------------------------- MODULE FindingStoreProofs -------------------------
(***************************************************************************)
(* Theorems about FindingStore, for every set of processes, snapshots and  *)
(* findings and all values of the other constants.                         *)
(***************************************************************************)
EXTENDS FindingStore, TLAPS

-----------------------------------------------------------------------------
(* Lemmas about the operators                                              *)

\* A query returns rows of the set it selects from.
LEMMA HeadsSubset ==
    ASSUME NEW S, NEW n, NEW key, NEW T \in Heads(S, n, key)
    PROVE  T \subseteq S
BY DEF Heads

\* The rules give a reason, and a status that agrees with it.
LEMMA ClassifyType ==
    ASSUME NEW f \in Finding, NEW rule \in [Finding -> Rule], NEW words
    PROVE  /\ Classify(f, rule, words) \in Reason
           /\ StatusFor(Classify(f, rule, words)) \in {"new", "false_positive"}
           /\ StatusFor(Classify(f, rule, words)) = "false_positive"
                => Classify(f, rule, words) # "none"
BY DEF Classify, Reason, StatusFor

\* A verdict confirms, rejects, or leaves the status alone.
LEMMA VerdictStatusType ==
    ASSUME NEW v \in Verdict, NEW s \in Status \cup {"absent"}
    PROVE  /\ VerdictStatus(v, s) \in Status \cup {"absent"}
           /\ s # "absent" => VerdictStatus(v, s) # "absent"
           /\ v = "typo" => VerdictStatus(v, s) = "confirmed"
           /\ v = "not_typo" => VerdictStatus(v, s) = "false_positive"
           /\ v = "unsure" => VerdictStatus(v, s) = s
BY DEF VerdictStatus, Verdict, Status

\* Whatever command starts or goes on, on rows of its kind, processes keep
\* their type.
LEMMA BeginType ==
    ASSUME ProcessType, NEW p \in Proc,
           NEW c \in {"idle", "check", "filter", "verify"},
           NEW W \in SUBSET (Snapshot \cup Finding),
           NEW words \in SUBSET Token,
           c = "idle" => W = {},
           c = "check" => W \subseteq Snapshot,
           c \in {"filter", "verify"} => W \subseteq Finding,
           Begin(p, c, W, words)
    PROVE  ProcessType'
<1>1. cmd' \in [Proc -> {"idle", "check", "filter", "reset", "verify"}]
  BY DEF ProcessType, Begin
<1>2. work' \in [Proc -> SUBSET (Snapshot \cup Finding)]
  BY DEF ProcessType, Begin
<1>3. loaded' \in [Proc -> SUBSET Token]
  BY DEF ProcessType, Begin
<1>4. ASSUME NEW q \in Proc
      PROVE  /\ cmd'[q] = "check" => work'[q] \subseteq Snapshot
             /\ cmd'[q] \in {"filter", "verify"} => work'[q] \subseteq Finding
             /\ cmd'[q] \in {"idle", "reset"} => work'[q] = {}
  <2>1. CASE q = p
    BY <2>1 DEF ProcessType, Begin
  <2>2. CASE q # p
    BY <2>2 DEF ProcessType, Begin
  <2> QED BY <2>1, <2>2
<1> QED BY <1>1, <1>2, <1>3, <1>4 DEF ProcessType

\* The same for the batch of a command under way.
LEMMA AdvanceType ==
    ASSUME ProcessType, NEW p \in Proc, NEW done,
           cmd[p] \in {"check", "filter", "verify"},
           Advance(p, done)
    PROVE  ProcessType'
<1> DEFINE W == work[p] \ done
<1>1. /\ W \in SUBSET (Snapshot \cup Finding)
      /\ loaded[p] \in SUBSET Token
      /\ cmd[p] = "check" => W \subseteq Snapshot
      /\ cmd[p] \in {"filter", "verify"} => W \subseteq Finding
  BY DEF ProcessType
<1>2. Begin(p, cmd[p], W, loaded[p])
  BY DEF Advance
<1> HIDE DEF W
<1> QED BY <1>1, <1>2, BeginType

-----------------------------------------------------------------------------
(* Types                                                                   *)

LEMMA InitType == Init => TypeOK
BY ParametersAssumption DEF Init, TypeOK, StoreType, ProcessType, Reason, Rule

LEMMA StepType == TypeOK /\ [Next]_vars => TypeOK'
<1> SUFFICES ASSUME TypeOK, [Next]_vars PROVE TypeOK'
  OBVIOUS
<1> USE ParametersAssumption, RulesAssumption
<1>1. ASSUME NEW s \in Snapshot, SaveSnapshot(s) PROVE TypeOK'
  BY <1>1 DEF TypeOK, StoreType, ProcessType, SaveSnapshot, process
<1>2. ASSUME NEW words \in SUBSET Token, EditAllowlist(words) PROVE TypeOK'
  BY <1>2 DEF TypeOK, StoreType, ProcessType, EditAllowlist, Intervene, store, process
<1>3. ASSUME NEW p \in Proc, CheckRead(p) PROVE TypeOK'
  <2>0. PICK n \in Limits : \E W \in Heads(Unchecked, n, OldestFirst) :
              Begin(p, "check", W, allow)
    BY <1>3 DEF CheckRead
  <2>1. PICK W \in Heads(Unchecked, n, OldestFirst) : Begin(p, "check", W, allow)
    BY <2>0
  <2>2. W \subseteq Snapshot
    BY HeadsSubset DEF Unchecked, TypeOK, StoreType
  <2>3. ProcessType'
    BY <2>1, <2>2, BeginType DEF TypeOK
  <2> QED BY <1>3, <2>3 DEF CheckRead, TypeOK, StoreType, store
<1>4. ASSUME NEW p \in Proc, CheckBatch(p) PROVE TypeOK'
  <2>1. PICK C \in Heads(work[p], Batch, OldestFirst) :
              /\ UpsertFindings({f \in Finding : SnapOf[f] \in C}, loaded[p])
              /\ MarkChecked(C)
              /\ Advance(p, C)
    BY <1>4 DEF CheckBatch
  <2>2. ProcessType'
    BY <1>4, <2>1, AdvanceType DEF CheckBatch, TypeOK
  <2>3. C \subseteq Snapshot
    BY <1>4, HeadsSubset DEF CheckBatch, TypeOK, ProcessType
  <2>4. /\ status' \in [Finding -> Status \cup {"absent"}]
        /\ reason' \in [Finding -> Reason]
    BY <2>1, ClassifyType DEF UpsertFindings, TypeOK, StoreType, Status
  <2> QED BY <1>4, <2>1, <2>2, <2>3, <2>4 DEF CheckBatch, MarkChecked, TypeOK, StoreType
<1>5. ASSUME NEW p \in Proc, FilterRead(p) PROVE TypeOK'
  <2>1. ProcessType'
    BY <1>5, BeginType DEF FilterRead, Unlocked, TypeOK
  <2> QED BY <1>5, <2>1 DEF FilterRead, TypeOK, StoreType, store
<1>6. ASSUME NEW p \in Proc, FilterWrite(p) PROVE TypeOK'
  <2>1. ProcessType'
    BY <1>6, AdvanceType DEF FilterWrite, TypeOK
  <2>2. /\ status' \in [Finding -> Status \cup {"absent"}]
        /\ reason' \in [Finding -> Reason]
    BY <1>6, ClassifyType DEF FilterWrite, Reclassify, TypeOK, StoreType, Status
  <2> QED BY <1>6, <2>1, <2>2 DEF FilterWrite, TypeOK, StoreType
<1>7. ASSUME NEW p \in Proc, VerifyReset(p) PROVE TypeOK'
  <2>1. ProcessType'
    BY <1>7 DEF VerifyReset, TypeOK, ProcessType
  <2>2. StoreType'
    BY <1>7 DEF VerifyReset, ResetVerdicts, TypeOK, StoreType, Status
  <2> QED BY <1>7, <2>1, <2>2 DEF VerifyReset, Intervene, TypeOK
<1>8. ASSUME NEW p \in Proc, VerifyRead(p) PROVE TypeOK'
  <2>0. PICK n \in Limits : \E W \in Heads({f \in Finding : Pending(f)}, n, BestFirst) :
              Begin(p, "verify", W, {})
    BY <1>8 DEF VerifyRead
  <2>1. PICK W \in Heads({f \in Finding : Pending(f)}, n, BestFirst) :
              Begin(p, "verify", W, {})
    BY <2>0
  <2>2. W \subseteq Finding
    BY HeadsSubset
  <2>3. ProcessType'
    BY <2>1, <2>2, BeginType DEF TypeOK
  <2> QED BY <1>8, <2>3 DEF VerifyRead, TypeOK, StoreType, store
<1>9. ASSUME NEW p \in Proc, VerifyBatch(p) PROVE TypeOK'
  <2>1. PICK C \in Heads(work[p], Batch, BestFirst) :
              /\ \E reply \in [C -> Verdict] : ApplyVerdicts(C, reply)
              /\ Advance(p, C)
    BY <1>9 DEF VerifyBatch
  <2>2. PICK reply \in [C -> Verdict] : ApplyVerdicts(C, reply)
    BY <2>1
  <2>3. ProcessType'
    BY <1>9, <2>1, AdvanceType DEF VerifyBatch, TypeOK
  <2>4. status' \in [Finding -> Status \cup {"absent"}]
    BY <2>2, VerdictStatusType DEF ApplyVerdicts, TypeOK, StoreType
  <2>5. verdict' \in [Finding -> Verdict \cup {"none"}]
    BY <2>2 DEF ApplyVerdicts, TypeOK, StoreType
  <2> QED BY <1>9, <2>3, <2>4, <2>5 DEF VerifyBatch, TypeOK, StoreType
<1>10. ASSUME NEW p \in Proc, Interrupt(p) PROVE TypeOK'
  <2>1. ProcessType'
    BY <1>10, BeginType DEF Interrupt, TypeOK
  <2> QED BY <1>10, <2>1 DEF Interrupt, TypeOK, StoreType, store
<1>11. CASE UNCHANGED vars
  BY <1>11 DEF vars, store, process, TypeOK, StoreType, ProcessType
<1> QED BY <1>1, <1>2, <1>3, <1>4, <1>5, <1>6, <1>7, <1>8, <1>9, <1>10, <1>11
        DEF Next, Step

\* Types are kept by every command, overlapping or not.
THEOREM TypeCorrect == Spec => []TypeOK
BY InitType, StepType, PTL DEF Spec

-----------------------------------------------------------------------------
(* Properties of overlapping commands                                      *)

LEMMA StepRows == TypeOK /\ RowsFollowChecks /\ [Next]_vars => RowsFollowChecks'
<1> SUFFICES ASSUME TypeOK, RowsFollowChecks, [Next]_vars PROVE RowsFollowChecks'
  OBVIOUS
<1> USE ParametersAssumption, RulesAssumption
<1> USE DEF TypeOK, StoreType, ProcessType
<1>1. ASSUME NEW s \in Snapshot, SaveSnapshot(s) PROVE RowsFollowChecks'
  BY <1>1 DEF RowsFollowChecks, Row, SaveSnapshot, process
<1>2. ASSUME NEW words \in SUBSET Token, EditAllowlist(words) PROVE RowsFollowChecks'
  BY <1>2 DEF RowsFollowChecks, Row, EditAllowlist, store, process
<1>3. ASSUME NEW p \in Proc, CheckRead(p) PROVE RowsFollowChecks'
  <2>0. PICK n \in Limits : \E W \in Heads(Unchecked, n, OldestFirst) :
              Begin(p, "check", W, allow)
    BY <1>3 DEF CheckRead
  <2>1. PICK W \in Heads(Unchecked, n, OldestFirst) : Begin(p, "check", W, allow)
    BY <2>0
  <2>2. W \subseteq snaps
    BY HeadsSubset DEF Unchecked
  <2>3. UNCHANGED <<snaps, checked, status, reason, verdict>>
    BY <1>3 DEF CheckRead, store
  <2>4. \A q \in Proc : /\ q = p => work'[q] = W /\ cmd'[q] \in {"idle", "check"}
                        /\ q # p => work'[q] = work[q] /\ cmd'[q] = cmd[q]
    BY <2>1 DEF Begin
  <2>5. ASSUME NEW q \in Proc
        PROVE  /\ cmd'[q] = "check" => work'[q] \subseteq snaps'
               /\ cmd'[q] \in {"filter", "verify"} => \A f \in work'[q] : Row(f)'
    <3>1. CASE q = p
      BY <2>2, <2>3, <2>4, <3>1
    <3>2. CASE q # p
      <4>1. snaps' = snaps /\ work'[q] = work[q] /\ cmd'[q] = cmd[q]
        BY <2>3, <2>4, <3>2
      <4>2. \A f : Row(f)' <=> Row(f)
        BY <2>3 DEF Row
      <4>3. /\ cmd[q] = "check" => work[q] \subseteq snaps
            /\ cmd[q] \in {"filter", "verify"} => \A f \in work[q] : Row(f)
        BY DEF RowsFollowChecks
      <4> QED BY <4>1, <4>2, <4>3
    <3> QED BY <3>1, <3>2
  <2> QED BY <2>3, <2>5 DEF RowsFollowChecks, Row
<1>4. ASSUME NEW p \in Proc, CheckBatch(p) PROVE RowsFollowChecks'
  <2>1. PICK C \in Heads(work[p], Batch, OldestFirst) :
              /\ UpsertFindings({f \in Finding : SnapOf[f] \in C}, loaded[p])
              /\ MarkChecked(C)
              /\ Advance(p, C)
    BY <1>4 DEF CheckBatch
  <2>2. C \subseteq snaps
    BY <1>4, HeadsSubset DEF CheckBatch, RowsFollowChecks
  <2>3. /\ checked' \subseteq snaps'
        /\ \A q \in Proc : cmd'[q] = "check" => work'[q] \subseteq snaps'
    BY <1>4, <2>1, <2>2 DEF CheckBatch, MarkChecked, Advance, Begin, RowsFollowChecks
  <2>4. ASSUME NEW f \in Finding
        PROVE  /\ Row(f)' <=> SnapOf[f] \in checked'
               /\ Row(f) => Row(f)'
               /\ ~Row(f)' => reason'[f] = "none" /\ verdict'[f] = "none"
    BY <1>4, <2>1, ClassifyType
       DEF CheckBatch, UpsertFindings, MarkChecked, Row, RowsFollowChecks
  <2>5. ASSUME NEW q \in Proc, cmd'[q] \in {"filter", "verify"}
        PROVE  \A f \in work'[q] : Row(f)'
    BY <1>4, <2>1, <2>4, <2>5 DEF CheckBatch, Advance, Begin, RowsFollowChecks
  <2> QED BY <2>3, <2>4, <2>5 DEF RowsFollowChecks
<1>5. ASSUME NEW p \in Proc, FilterRead(p) PROVE RowsFollowChecks'
  BY <1>5 DEF FilterRead, Begin, Unlocked, RowsFollowChecks, Row, store
<1>6. ASSUME NEW p \in Proc, FilterWrite(p) PROVE RowsFollowChecks'
  <2>1. ASSUME NEW f \in Finding
        PROVE  /\ Row(f)' <=> Row(f)
               /\ ~Row(f)' => reason'[f] = "none" /\ verdict'[f] = "none"
    BY <1>6, ClassifyType DEF FilterWrite, Reclassify, Row, RowsFollowChecks
  <2> QED BY <1>6, <2>1 DEF FilterWrite, Advance, Begin, RowsFollowChecks
<1>7. ASSUME NEW p \in Proc, VerifyReset(p) PROVE RowsFollowChecks'
  <2>1. ASSUME NEW f \in Finding
        PROVE  /\ Row(f)' <=> Row(f)
               /\ ~Row(f)' => reason'[f] = "none" /\ verdict'[f] = "none"
    BY <1>7 DEF VerifyReset, ResetVerdicts, Row, RowsFollowChecks
  <2> QED BY <1>7, <2>1 DEF VerifyReset, RowsFollowChecks
<1>8. ASSUME NEW p \in Proc, VerifyRead(p) PROVE RowsFollowChecks'
  <2>0. PICK n \in Limits : \E W \in Heads({f \in Finding : Pending(f)}, n, BestFirst) :
              Begin(p, "verify", W, {})
    BY <1>8 DEF VerifyRead
  <2>1. PICK W \in Heads({f \in Finding : Pending(f)}, n, BestFirst) :
              Begin(p, "verify", W, {})
    BY <2>0
  <2>2. \A f \in W : Row(f)
    BY HeadsSubset DEF Pending, Row
  <2> QED BY <1>8, <2>1, <2>2 DEF VerifyRead, Begin, RowsFollowChecks, Row, store
<1>9. ASSUME NEW p \in Proc, VerifyBatch(p) PROVE RowsFollowChecks'
  <2>1. PICK C \in Heads(work[p], Batch, BestFirst) :
              /\ \E reply \in [C -> Verdict] : ApplyVerdicts(C, reply)
              /\ Advance(p, C)
    BY <1>9 DEF VerifyBatch
  <2>2. PICK reply \in [C -> Verdict] : ApplyVerdicts(C, reply)
    BY <2>1
  <2>3. \A f \in C : f \in Finding /\ Row(f)
    BY <1>9, HeadsSubset DEF VerifyBatch, RowsFollowChecks
  <2>4. ASSUME NEW f \in Finding
        PROVE  /\ Row(f)' <=> Row(f)
               /\ ~Row(f)' => reason'[f] = "none" /\ verdict'[f] = "none"
    BY <1>9, <2>2, <2>3, VerdictStatusType
       DEF VerifyBatch, ApplyVerdicts, Row, RowsFollowChecks
  <2> QED BY <1>9, <2>1, <2>4 DEF VerifyBatch, Advance, Begin, RowsFollowChecks
<1>10. ASSUME NEW p \in Proc, Interrupt(p) PROVE RowsFollowChecks'
  BY <1>10 DEF Interrupt, Begin, RowsFollowChecks, Row, store
<1>11. CASE UNCHANGED vars
  BY <1>11 DEF vars, store, process, RowsFollowChecks, Row
<1> QED BY <1>1, <1>2, <1>3, <1>4, <1>5, <1>6, <1>7, <1>8, <1>9, <1>10, <1>11
        DEF Next, Step

\* The findings of a README and its checked_at mark appear together, and no
\* command writes to a row that is not there, however commands overlap.
THEOREM RowsFollowChecksAlways == Spec => []RowsFollowChecks
<1>1. Init => RowsFollowChecks
  BY ParametersAssumption DEF Init, RowsFollowChecks, Row
<1> QED BY <1>1, StepRows, TypeCorrect, PTL DEF Spec

LEMMA StepEvidence == TypeOK /\ DecisionHasEvidence /\ [Next]_vars => DecisionHasEvidence'
<1> SUFFICES ASSUME TypeOK, DecisionHasEvidence, [Next]_vars PROVE DecisionHasEvidence'
  OBVIOUS
<1> USE ParametersAssumption, RulesAssumption
<1> USE DEF TypeOK, StoreType, ProcessType
<1>1. ASSUME NEW p \in Proc, CheckBatch(p) PROVE DecisionHasEvidence'
  BY <1>1, ClassifyType DEF CheckBatch, UpsertFindings, DecisionHasEvidence
<1>2. ASSUME NEW p \in Proc, FilterWrite(p) PROVE DecisionHasEvidence'
  BY <1>2, ClassifyType DEF FilterWrite, Reclassify, DecisionHasEvidence
<1>3. ASSUME NEW p \in Proc, VerifyReset(p) PROVE DecisionHasEvidence'
  BY <1>3 DEF VerifyReset, ResetVerdicts, DecisionHasEvidence
<1>4. ASSUME NEW p \in Proc, VerifyBatch(p) PROVE DecisionHasEvidence'
  <2>1. PICK C \in Heads(work[p], Batch, BestFirst) :
              \E reply \in [C -> Verdict] : ApplyVerdicts(C, reply)
    BY <1>4 DEF VerifyBatch
  <2>2. PICK reply \in [C -> Verdict] : ApplyVerdicts(C, reply)
    BY <2>1
  <2>3. \A f \in C : verdict'[f] # "none" \/ f \notin Finding
    BY <2>2 DEF ApplyVerdicts, Verdict
  <2>4. \A f \in Finding \ C : /\ status'[f] = status[f]
                               /\ verdict'[f] = verdict[f]
    BY <2>2 DEF ApplyVerdicts
  <2> QED BY <1>4, <2>3, <2>4 DEF VerifyBatch, DecisionHasEvidence
<1>5. CASE UNCHANGED <<status, reason, verdict>>
  BY <1>5 DEF DecisionHasEvidence
<1> QED BY <1>1, <1>2, <1>3, <1>4, <1>5
        DEF Next, Step, SaveSnapshot, EditAllowlist, CheckRead, FilterRead, VerifyRead,
            Interrupt, store, vars

\* A confirmation or a rejection never stands in the table without its ground,
\* however commands overlap.
THEOREM DecisionHasEvidenceAlways == Spec => []DecisionHasEvidence
<1>1. Init => DecisionHasEvidence
  BY DEF Init, DecisionHasEvidence
<1> QED BY <1>1, StepEvidence, TypeCorrect, PTL DEF Spec

-----------------------------------------------------------------------------
(* One command at a time                                                   *)

\* The rows a command holds are what its query would return now, or a part of it.
WorkIsQueue ==
    \A p \in Proc :
        /\ cmd[p] = "check"  => work[p] \subseteq Unchecked
        /\ cmd[p] = "verify" => \A f \in work[p] : Pending(f)
        /\ cmd[p] = "filter" => work[p] = Unlocked

\* What makes the properties of a single writer inductive.
OneCommandInv ==
    /\ TypeOK
    /\ RowsFollowChecks
    /\ WorkIsQueue
    /\ ConfirmedIffTypo
    /\ RejectionExplained

LEMMA StepOneCommand ==
    ASSUME SingleWriter
    PROVE  OneCommandInv /\ [Next]_vars => OneCommandInv'
<1> SUFFICES ASSUME OneCommandInv, [Next]_vars
             PROVE  WorkIsQueue' /\ ConfirmedIffTypo' /\ RejectionExplained'
  BY StepType, StepRows DEF OneCommandInv
<1> USE ParametersAssumption, RulesAssumption
<1> USE DEF OneCommandInv, TypeOK, StoreType, ProcessType
<1> DEFINE Goal == WorkIsQueue' /\ ConfirmedIffTypo' /\ RejectionExplained'
<1>1. ASSUME NEW s \in Snapshot, SaveSnapshot(s) PROVE Goal
  BY <1>1 DEF SaveSnapshot, process, WorkIsQueue, ConfirmedIffTypo, RejectionExplained,
              Unchecked, Pending, Unlocked, Row
<1>2. ASSUME NEW words \in SUBSET Token, EditAllowlist(words) PROVE Goal
  BY <1>2 DEF EditAllowlist, store, process, WorkIsQueue, ConfirmedIffTypo,
              RejectionExplained, Unchecked, Pending, Unlocked, Row
<1>3. ASSUME NEW p \in Proc, CheckRead(p) PROVE Goal
  <2>0. PICK n \in Limits : \E W \in Heads(Unchecked, n, OldestFirst) :
              Begin(p, "check", W, allow)
    BY <1>3 DEF CheckRead
  <2>1. PICK W \in Heads(Unchecked, n, OldestFirst) : Begin(p, "check", W, allow)
    BY <2>0
  <2>2. W \subseteq Unchecked
    BY HeadsSubset
  <2>3. UNCHANGED <<snaps, checked, status, reason, verdict>>
    BY <1>3 DEF CheckRead, store
  <2>4. \A q \in Proc : work'[q] = W /\ cmd'[q] \in {"idle", "check"}
    BY <2>1 DEF Begin, SingleWriter
  <2> QED BY <2>2, <2>3, <2>4
          DEF WorkIsQueue, ConfirmedIffTypo, RejectionExplained, Unchecked
<1>4. ASSUME NEW p \in Proc, CheckBatch(p) PROVE Goal
  <2>1. PICK C \in Heads(work[p], Batch, OldestFirst) :
              /\ UpsertFindings({f \in Finding : SnapOf[f] \in C}, loaded[p])
              /\ MarkChecked(C)
              /\ Advance(p, C)
    BY <1>4 DEF CheckBatch
  <2>2. C \subseteq Unchecked
    BY <1>4, HeadsSubset DEF CheckBatch, WorkIsQueue
  <2>3. \A q \in Proc : work'[q] = work[q] \ C /\ cmd'[q] \in {"idle", "check"}
    BY <1>4, <2>1 DEF CheckBatch, Advance, Begin, SingleWriter
  <2>4. WorkIsQueue'
    BY <1>4, <2>1, <2>3 DEF CheckBatch, MarkChecked, WorkIsQueue, Unchecked, SingleWriter
  <2>5. \A f \in Finding : SnapOf[f] \in C => verdict[f] = "none"
    BY <2>2 DEF RowsFollowChecks, Unchecked
  <2>6. ASSUME NEW f \in Finding
        PROVE  /\ status'[f] = "confirmed" <=> verdict'[f] = "typo"
               /\ status'[f] = "false_positive"
                    => reason'[f] # "none" \/ verdict'[f] = "not_typo"
    <3>1. CASE SnapOf[f] \in C
      BY <1>4, <2>1, <2>5, <3>1, ClassifyType DEF CheckBatch, UpsertFindings
    <3>2. CASE SnapOf[f] \notin C
      BY <1>4, <2>1, <3>2 DEF CheckBatch, UpsertFindings, ConfirmedIffTypo, RejectionExplained
    <3> QED BY <3>1, <3>2
  <2> QED BY <2>4, <2>6 DEF ConfirmedIffTypo, RejectionExplained
<1>5. ASSUME NEW p \in Proc, FilterRead(p) PROVE Goal
  <2>1. UNCHANGED <<snaps, checked, status, reason, verdict>>
    BY <1>5 DEF FilterRead, store
  <2>2. \A q \in Proc : work'[q] = Unlocked /\ cmd'[q] \in {"idle", "filter"}
    BY <1>5 DEF FilterRead, Begin, SingleWriter
  <2> QED BY <2>1, <2>2 DEF WorkIsQueue, ConfirmedIffTypo, RejectionExplained, Unlocked, Row
<1>6. ASSUME NEW p \in Proc, FilterWrite(p) PROVE Goal
  <2>1. \A q \in Proc : work'[q] = {} /\ cmd'[q] = "idle"
    BY <1>6 DEF FilterWrite, Advance, Begin, SingleWriter
  <2>2. \A f \in work[p] : f \in Finding /\ verdict[f] # "typo"
    BY <1>6 DEF FilterWrite, WorkIsQueue, Unlocked, Locked, ConfirmedIffTypo
  <2>3. ASSUME NEW f \in Finding
        PROVE  /\ status'[f] = "confirmed" <=> verdict'[f] = "typo"
               /\ status'[f] = "false_positive"
                    => reason'[f] # "none" \/ verdict'[f] = "not_typo"
    <3>1. CASE f \in work[p]
      BY <1>6, <2>2, <3>1, ClassifyType DEF FilterWrite, Reclassify
    <3>2. CASE f \notin work[p]
      BY <1>6, <3>2 DEF FilterWrite, Reclassify, ConfirmedIffTypo, RejectionExplained
    <3> QED BY <3>1, <3>2
  <2> QED BY <2>1, <2>3 DEF WorkIsQueue, ConfirmedIffTypo, RejectionExplained
<1>7. ASSUME NEW p \in Proc, VerifyReset(p) PROVE Goal
  <2>1. \A q \in Proc : cmd'[q] = "reset"
    BY <1>7 DEF VerifyReset, SingleWriter
  <2>2. ConfirmedIffTypo' /\ RejectionExplained'
    BY <1>7 DEF VerifyReset, ResetVerdicts, ConfirmedIffTypo, RejectionExplained
  <2> QED BY <2>1, <2>2 DEF WorkIsQueue
<1>8. ASSUME NEW p \in Proc, VerifyRead(p) PROVE Goal
  <2>0. PICK n \in Limits : \E W \in Heads({f \in Finding : Pending(f)}, n, BestFirst) :
              Begin(p, "verify", W, {})
    BY <1>8 DEF VerifyRead
  <2>1. PICK W \in Heads({f \in Finding : Pending(f)}, n, BestFirst) :
              Begin(p, "verify", W, {})
    BY <2>0
  <2>2. \A f \in W : Pending(f)
    BY HeadsSubset
  <2>3. UNCHANGED <<snaps, checked, status, reason, verdict>>
    BY <1>8 DEF VerifyRead, store
  <2>4. \A q \in Proc : work'[q] = W /\ cmd'[q] \in {"idle", "verify"}
    BY <2>1 DEF Begin, SingleWriter
  <2> QED BY <2>2, <2>3, <2>4 DEF WorkIsQueue, ConfirmedIffTypo, RejectionExplained, Pending
<1>9. ASSUME NEW p \in Proc, VerifyBatch(p) PROVE Goal
  <2>1. PICK C \in Heads(work[p], Batch, BestFirst) :
              /\ \E reply \in [C -> Verdict] : ApplyVerdicts(C, reply)
              /\ Advance(p, C)
    BY <1>9 DEF VerifyBatch
  <2>2. PICK reply \in [C -> Verdict] : ApplyVerdicts(C, reply)
    BY <2>1
  <2>3. \A f \in C : f \in Finding /\ Pending(f)
    BY <1>9, HeadsSubset DEF VerifyBatch, WorkIsQueue
  <2>4. \A q \in Proc : work'[q] = work[q] \ C /\ cmd'[q] \in {"idle", "verify"}
    BY <1>9, <2>1 DEF VerifyBatch, Advance, Begin, SingleWriter
  <2>5. \A f \in Finding \ C : status'[f] = status[f] /\ verdict'[f] = verdict[f]
    BY <2>2 DEF ApplyVerdicts
  <2>6. WorkIsQueue'
    <3>1. \A f \in work[p] \ C : f \in Finding /\ status'[f] = "new" /\ verdict'[f] = "none"
      BY <1>9, <2>5 DEF VerifyBatch, WorkIsQueue, Pending
    <3>2. ASSUME NEW q \in Proc PROVE work'[q] = work[p] \ C
      BY <2>4 DEF SingleWriter
    <3> QED BY <2>4, <3>1, <3>2 DEF WorkIsQueue, Pending
  <2>7. \A f \in C : /\ verdict'[f] = reply[f]
                     /\ status'[f] = VerdictStatus(reply[f], "new")
    BY <2>2, <2>3 DEF ApplyVerdicts, Pending
  <2>8. \A f \in C : /\ reply[f] = "typo" => status'[f] = "confirmed"
                     /\ reply[f] = "not_typo" => status'[f] = "false_positive"
                     /\ reply[f] \notin {"typo", "not_typo"} => status'[f] = "new"
    BY <2>7, VerdictStatusType DEF Verdict, Status
  <2>9. ConfirmedIffTypo' /\ RejectionExplained'
    BY <1>9, <2>5, <2>7, <2>8 DEF VerifyBatch, ConfirmedIffTypo, RejectionExplained
  <2> QED BY <2>6, <2>9
<1>10. ASSUME NEW p \in Proc, Interrupt(p) PROVE Goal
  <2>1. \A q \in Proc : cmd'[q] = "idle"
    BY <1>10 DEF Interrupt, Begin, SingleWriter
  <2> QED BY <1>10, <2>1 DEF Interrupt, store, WorkIsQueue, ConfirmedIffTypo, RejectionExplained
<1>11. CASE UNCHANGED vars
  BY <1>11 DEF vars, store, process, WorkIsQueue, ConfirmedIffTypo, RejectionExplained,
               Unchecked, Pending, Unlocked, Row
<1> QED BY <1>1, <1>2, <1>3, <1>4, <1>5, <1>6, <1>7, <1>8, <1>9, <1>10, <1>11
        DEF Next, Step

LEMMA OneCommand == ASSUME SingleWriter PROVE Spec => []OneCommandInv
<1>1. Init => OneCommandInv
  BY InitType, ParametersAssumption
     DEF Init, OneCommandInv, RowsFollowChecks, WorkIsQueue, ConfirmedIffTypo,
         RejectionExplained, Row
<1> QED BY <1>1, StepOneCommand, PTL DEF Spec

\* One command at a time, confirmed and "typo" are the same thing.
THEOREM ConfirmedIffTypoAlways == ASSUME SingleWriter PROVE Spec => []ConfirmedIffTypo
BY OneCommand, PTL DEF OneCommandInv

\* One command at a time, every rejection has a rule or the LLM behind it.
THEOREM RejectionExplainedAlways == ASSUME SingleWriter PROVE Spec => []RejectionExplained
BY OneCommand, PTL DEF OneCommandInv

\* The LLM's answers stand: VerifyBatch writes to findings without a verdict, and
\* no other command but a reset touches the column.
THEOREM VerdictsStandAlways == ASSUME SingleWriter PROVE Spec => VerdictsStand
<1> DEFINE Stands == \A f \in Finding :
                        verdict[f] # "none" => verdict'[f] \in {verdict[f], "none"}
<1>1. OneCommandInv /\ [Next]_vars => Stands
  <2> SUFFICES ASSUME OneCommandInv, [Next]_vars PROVE Stands
    OBVIOUS
  <2>1. ASSUME NEW p \in Proc, VerifyBatch(p) PROVE Stands
    <3>1. PICK C \in Heads(work[p], Batch, BestFirst) :
                \E reply \in [C -> Verdict] : ApplyVerdicts(C, reply)
      BY <2>1 DEF VerifyBatch
    <3>2. \A f \in C : verdict[f] = "none"
      BY <2>1, HeadsSubset DEF VerifyBatch, OneCommandInv, WorkIsQueue, Pending
    <3>3. \A f \in Finding \ C : verdict'[f] = verdict[f]
      BY <3>1 DEF ApplyVerdicts
    <3> QED BY <3>2, <3>3
  <2>2. ASSUME NEW p \in Proc, VerifyReset(p) PROVE Stands
    BY <2>2 DEF VerifyReset, ResetVerdicts
  <2>3. CASE UNCHANGED verdict
    BY <2>3
  <2> QED BY <2>1, <2>2, <2>3
          DEF Next, Step, SaveSnapshot, EditAllowlist, CheckRead, CheckBatch, FilterRead,
              FilterWrite, VerifyRead, Interrupt, store, vars
<1> QED BY <1>1, OneCommand, PTL DEF Spec, VerdictsStand

\* filter leaves no visible finding that its allowlist or its rules reject, and
\* keeps none out that they let pass.
THEOREM FilterSettlesAlways == ASSUME SingleWriter PROVE Spec => FilterSettles
<1> DEFINE Settled(p) ==
      \A f \in Finding : (Row(f) /\ status[f] \notin Locked) =>
          /\ status'[f] = StatusFor(Classify(f, SnippetRule, loaded[p]))
          /\ reason'[f] = Classify(f, SnippetRule, loaded[p])
<1>1. ASSUME OneCommandInv, NEW p \in Proc, FilterWrite(p) PROVE Settled(p)
  BY <1>1 DEF OneCommandInv, WorkIsQueue, FilterWrite, Reclassify, Unlocked
<1>2. OneCommandInv /\ [Next]_vars => \A p \in Proc : FilterWrite(p) => Settled(p)
  BY <1>1
<1> QED BY <1>2, OneCommand, PTL DEF Spec, FilterSettles

-----------------------------------------------------------------------------
(* The life of a finding                                                   *)

\* To show that a step changes the findings of F as the dashboard sees them, it
\* is enough to look at each finding.
LEMMA ChangeIntro ==
    ASSUME NEW F \in SUBSET Finding, NEW to,
           \A f \in F : Shown'[f] \in to,
           \A f \in Finding \ F : Shown'[f] = Shown[f]
    PROVE  Lifecycle!Change(F, to)
<1> DEFINE new == [f \in F |-> Shown'[f]]
<1>1. new \in [F -> to]
  OBVIOUS
<1>2. Shown' = [f \in Finding |-> IF f \in F THEN new[f] ELSE Shown[f]]
  BY DEF Shown
<1> QED BY <1>1, <1>2 DEF Lifecycle!Change

\* What the dashboard shows, row by row.
LEMMA ShownIs ==
    ASSUME NEW f \in Finding
    PROVE  /\ Shown[f] = "absent" <=> status[f] = "absent"
           /\ Shown[f] = "rejected" <=> status[f] = "false_positive"
           /\ Shown[f] = "confirmed" <=> status[f] = "confirmed"
           /\ status[f] = "new" /\ verdict[f] = "unsure" => Shown[f] = "unsure"
           /\ status[f] = "new" /\ verdict[f] # "unsure" => Shown[f] = "unverified"
BY DEF Shown

LEMMA StepLifecycle ==
    ASSUME SingleWriter
    PROVE  OneCommandInv /\ [Next]_vars => [Lifecycle!Next]_<<Shown, Judged>>
<1> SUFFICES ASSUME OneCommandInv, [Next]_vars
             PROVE  Lifecycle!Next \/ UNCHANGED <<Shown, Judged>>
  OBVIOUS
<1> USE ParametersAssumption, RulesAssumption
<1> USE DEF OneCommandInv, TypeOK, StoreType, ProcessType
<1>1. ASSUME NEW p \in Proc, CheckBatch(p) PROVE Lifecycle!Record
  <2>1. PICK C \in Heads(work[p], Batch, OldestFirst) :
              UpsertFindings({f \in Finding : SnapOf[f] \in C}, loaded[p])
    BY <1>1 DEF CheckBatch
  <2> DEFINE F == {f \in Finding : SnapOf[f] \in C}
  <2>2. C \subseteq Unchecked
    BY <1>1, HeadsSubset DEF CheckBatch, WorkIsQueue
  <2>3. \A f \in F : status[f] = "absent" /\ verdict[f] = "none"
    BY <2>2 DEF RowsFollowChecks, Row, Unchecked
  <2>4. \A f \in F : Shown'[f] \in {"unverified", "rejected"}
    BY <1>1, <2>1, <2>3, ClassifyType DEF CheckBatch, UpsertFindings, Shown
  <2>5. \A f \in Finding \ F : Shown'[f] = Shown[f]
    BY <1>1, <2>1 DEF CheckBatch, UpsertFindings, Shown
  <2>6. F \in SUBSET Lifecycle!In({"absent"})
    BY <2>3, ShownIs DEF Lifecycle!In
  <2>7. UNCHANGED Judged
    BY <1>1 DEF CheckBatch, Judged
  <2> HIDE DEF F
  <2>8. Lifecycle!Change(F, {"unverified", "rejected"})
    BY <2>4, <2>5, <2>6, ChangeIntro DEF Lifecycle!In
  <2> QED BY <2>6, <2>7, <2>8 DEF Lifecycle!Record
<1>2. ASSUME NEW p \in Proc, FilterWrite(p) PROVE Lifecycle!Refilter
  <2> DEFINE F == work[p]
  <2>1. F = Unlocked
    BY <1>2 DEF FilterWrite, WorkIsQueue
  <2>2. \A f \in F : Shown'[f] \in {"unverified", "unsure", "rejected"}
    BY <1>2, <2>1, ClassifyType DEF FilterWrite, Reclassify, Shown, Unlocked
  <2>3. \A f \in Finding \ F : Shown'[f] = Shown[f]
    BY <1>2 DEF FilterWrite, Reclassify, Shown
  <2>4. F \in SUBSET Lifecycle!In({"unverified", "unsure", "rejected"})
    BY <2>1, ShownIs DEF Unlocked, Row, Locked, Status, Lifecycle!In
  <2>5. UNCHANGED verdict /\ UNCHANGED Judged
    BY <1>2 DEF FilterWrite, Judged
  <2>6. \A f \in F : /\ Shown'[f] = "unsure" => f \in Judged
                     /\ Shown[f] = "unsure" => Shown'[f] # "unverified"
    <3> SUFFICES ASSUME NEW f \in F
                 PROVE  /\ Shown'[f] = "unsure" => f \in Judged
                        /\ Shown[f] = "unsure" => Shown'[f] # "unverified"
      OBVIOUS
    <3>1. f \in Finding
      BY <2>1 DEF Unlocked
    <3>2. Shown'[f] = "unsure" => verdict[f] = "unsure"
      BY <2>5, <3>1 DEF Shown
    <3>3. Shown[f] = "unsure" => verdict'[f] = "unsure"
      BY <2>5, <3>1 DEF Shown
    <3>4. verdict'[f] = "unsure" => Shown'[f] # "unverified"
      BY <3>1 DEF Shown
    <3> QED BY <3>1, <3>2, <3>3, <3>4 DEF Judged
  <2> HIDE DEF F
  <2>7. Lifecycle!Change(F, {"unverified", "unsure", "rejected"})
    BY <2>2, <2>3, <2>4, ChangeIntro DEF Lifecycle!In
  <2> QED BY <2>4, <2>5, <2>6, <2>7 DEF Lifecycle!Refilter
<1>3. ASSUME NEW p \in Proc, VerifyReset(p) PROVE Lifecycle!Reset
  <2>1. /\ status'  = [f \in Finding |-> IF verdict[f] # "none" THEN "new" ELSE status[f]]
        /\ verdict' = [f \in Finding |-> "none"]
    BY <1>3 DEF VerifyReset, ResetVerdicts
  <2>2. Judged' = {}
    BY <2>1 DEF Judged
  <2>3. \A f \in Finding : Shown'[f] = IF f \in Judged THEN "unverified" ELSE Shown[f]
    BY <2>1 DEF Shown, Judged
  <2>4. Shown' = [f \in Finding |-> Shown'[f]]
    BY DEF Shown
  <2>5. Shown' = [f \in Finding |-> IF f \in Judged THEN "unverified" ELSE Shown[f]]
    BY <2>3, <2>4, Zenon
  <2> QED BY <2>2, <2>5 DEF Lifecycle!Reset
<1>4. ASSUME NEW p \in Proc, VerifyBatch(p) PROVE Lifecycle!Judge
  <2>1. PICK C \in Heads(work[p], Batch, BestFirst) :
              \E reply \in [C -> Verdict] : ApplyVerdicts(C, reply)
    BY <1>4 DEF VerifyBatch
  <2>2. PICK reply \in [C -> Verdict] : ApplyVerdicts(C, reply)
    BY <2>1
  <2>3. \A f \in C : f \in Finding /\ Pending(f)
    BY <1>4, HeadsSubset DEF VerifyBatch, WorkIsQueue
  <2>4. \A f \in C : /\ verdict'[f] = reply[f]
                     /\ status'[f] = VerdictStatus(reply[f], "new")
    BY <2>2, <2>3 DEF ApplyVerdicts, Pending
  <2>5. \A f \in C : \/ status'[f] = "confirmed"
                     \/ status'[f] = "false_positive"
                     \/ status'[f] = "new" /\ verdict'[f] = "unsure"
    BY <2>4, VerdictStatusType DEF Verdict, Status
  <2>6. \A f \in C : Shown'[f] \in {"confirmed", "rejected", "unsure"}
    BY <2>3, <2>5 DEF Shown
  <2>7. \A f \in Finding \ C : Shown'[f] = Shown[f]
    BY <2>2 DEF ApplyVerdicts, Shown
  <2>8. C \in SUBSET (Lifecycle!In({"unverified"}) \ Judged)
    BY <2>3, ShownIs DEF Pending, Judged, Lifecycle!In
  <2>9. Lifecycle!Change(C, {"confirmed", "rejected", "unsure"})
    BY <2>6, <2>7, <2>8, ChangeIntro DEF Lifecycle!In
  <2>10. Judged' = Judged \cup C
    <3>1. \A f \in C : verdict'[f] # "none"
      BY <2>2, <2>4 DEF Verdict
    <3>2. \A f \in Finding \ C : verdict'[f] = verdict[f]
      BY <2>2 DEF ApplyVerdicts
    <3> QED BY <2>3, <3>1, <3>2 DEF Judged
  <2> QED BY <2>8, <2>9, <2>10 DEF Lifecycle!Judge
<1>5. CASE UNCHANGED <<status, verdict>>
  BY <1>5 DEF Shown, Judged
<1> QED BY <1>1, <1>2, <1>3, <1>4, <1>5
        DEF Next, Step, SaveSnapshot, EditAllowlist, CheckRead, FilterRead, VerifyRead,
            Interrupt, store, vars, Lifecycle!Next

\* One command at a time, what the dashboard shows of a finding, and whether it has
\* been judged, follow its abstract life; a reset takes back the judged findings, and
\* leaves alone what only the rules have rejected.
THEOREM LifecycleImplemented == ASSUME SingleWriter PROVE Spec => ImplementsLifecycle
<1>1. Init => Lifecycle!Init
  BY DEF Init, Shown, Judged, Lifecycle!Init
<1> QED BY <1>1, StepLifecycle, OneCommand, PTL
        DEF Spec, ImplementsLifecycle, Lifecycle!Spec, Lifecycle!life
=============================================================================
