---------------------------- MODULE DashboardProofs ----------------------------
(***************************************************************************)
(* Theorems about Dashboard: what the rows of the table say about the      *)
(* READMEs, and what the two files of a report say about the rows.         *)
(***************************************************************************)
EXTENDS Dashboard, CheckBatchProofs

-----------------------------------------------------------------------------
(* The table under check and verify                                        *)

\* A verdict changes nothing of what is said of its row.
LEMMA VerifyInv ==
    ASSUME CheckInv, NEW f \in findings, NEW v \in {"typo", "not_typo", "unsure"}, Verify(f, v)
    PROVE  CheckInv'
<1> DEFINE status == CASE v = "typo"     -> "confirmed"
                       [] v = "not_typo" -> "false_positive"
                       [] v = "unsure"   -> "new"
           g == [f EXCEPT !.verdict = v, !.status = status]
<1>1. UNCHANGED <<saved, checked, memory>> /\ findings' = (findings \ {f}) \cup {g}
  BY DEF Verify
<1>2. status \in {"new", "false_positive", "confirmed"}
  OBVIOUS
<1> HIDE DEF status
<1>3. f \in RowRecord
  BY DEF CheckInv, CheckType
<1>4. /\ g \in RowRecord
      /\ g.readme = f.readme /\ g.line = f.line /\ g.col = f.col /\ g.token = f.token
      /\ g.source = f.source
  BY <1>2, <1>3 DEF RowRecord
<1> HIDE DEF g
<1>5. /\ Id(g) = Id(f)
      /\ \A n : RowIs(f, n) => RowIs(g, n)
      /\ \A r, n, i : RowFor(f, r, n, i) => RowFor(g, r, n, i)
  BY <1>4, SameRow
<1>6. CheckType'
  <2>1. IsFiniteSet(findings')
    BY <1>1, FS_RemoveElement, FS_AddElement DEF CheckInv, CheckType
  <2>2. findings' \subseteq RowRecord
    BY <1>1, <1>4 DEF CheckInv, CheckType
  <2> QED BY <1>1, <2>1, <2>2 DEF CheckInv, CheckType, memory
<1>7. RowsFromReports'
  <2> SUFFICES ASSUME NEW h \in findings'
               PROVE  h.readme \in checked /\ \E n \in Lines(h.readme) : RowIs(h, n)
    BY <1>1 DEF RowsFromReports, RowIs, Lines, By, First, Places, Prose
  <2>1. CASE h = g
    BY <1>4, <1>5, <2>1 DEF CheckInv, RowsFromReports
  <2>2. CASE h # g
    BY <1>1, <2>2 DEF CheckInv, RowsFromReports
  <2> QED BY <2>1, <2>2
<1>8. ReportsHaveRows'
  <2> SUFFICES ASSUME NEW r \in checked, NEW n \in Lines(r), NEW by \in Tool,
                      NEW i \in Reported(by, Prose(r, n))
               PROVE  \E h \in findings' : RowFor(h, r, n, i)
    BY <1>1 DEF ReportsHaveRows, RowFor, Lines, Prose
  <2>1. PICK h \in findings : RowFor(h, r, n, i)
    BY DEF CheckInv, ReportsHaveRows
  <2> QED BY <1>1, <1>5, <2>1
<1>9. OneRowPerId'
  <2> SUFFICES ASSUME NEW a \in findings', NEW b \in findings', Id(a) = Id(b) PROVE a = b
    BY DEF OneRowPerId, Id
  <2> QED BY <1>1, <1>5 DEF CheckInv, OneRowPerId
<1> QED BY <1>1, <1>6, <1>7, <1>8, <1>9, MemoryStays DEF CheckInv

LEMMA CheckInvStays == CheckInv /\ UNCHANGED check => CheckInv'
<1> SUFFICES ASSUME CheckInv, UNCHANGED check PROVE CheckInv'
  OBVIOUS
<1>1. UNCHANGED <<saved, checked, findings, memory>>
  BY DEF check
<1>2. CheckType'
  BY <1>1 DEF CheckInv, CheckType, memory
<1> QED BY <1>1, <1>2, MemoryStays, RowsStay DEF CheckInv

LEMMA CheckInvNext == CheckInv /\ [Next]_vars => CheckInv'
<1> SUFFICES ASSUME CheckInv, [Next]_vars PROVE CheckInv'
  OBVIOUS
<1>1. CASE CheckNext
  BY <1>1, CheckInvStep
<1>2. ASSUME NEW f \in findings, NEW v \in {"typo", "not_typo", "unsure"}, Verify(f, v)
      PROVE  CheckInv'
  BY <1>2, VerifyInv
<1>3. CASE ReadRows \/ CountScanned \/ WriteFiles \/ ForgetMarks \/ UNCHANGED check
  BY <1>3, CheckInvStays DEF ReadRows, CountScanned, WriteFiles, ForgetMarks
<1>5. ASSUME NEW r \in Readme, Refetch(r) PROVE CheckInv'
  BY <1>5, CheckInvStays DEF Refetch
<1>4. CASE UNCHANGED vars
  BY <1>4, CheckInvStays DEF vars
<1> QED BY <1>1, <1>2, <1>3, <1>4, <1>5 DEF Next, SiteNext, Check

\* The invariant of check holds whatever verify and report do meanwhile.
THEOREM CheckInvariant == Spec => []CheckInv
<1>1. Init => CheckInv
  BY CheckInvInit DEF Init
<1> QED BY <1>1, CheckInvNext, PTL DEF Spec

-----------------------------------------------------------------------------
(* The rows and the READMEs                                                *)

\* Every finding points to a line of its README on which a block begins, and its
\* token is a whole word of that block, but for the gaps that inline code, images and
\* HTML leave in it: whatever markup stands between its pieces, and however many blocks
\* without prose come before (extract_lines, the line numbers of check, crossref).
LEMMA RowsStand == CheckInv => RowsStandInReadme
<1> SUFFICES ASSUME CheckInv, NEW f \in findings
             PROVE  Stands(f)
  BY DEF RowsStandInReadme
<1> DEFINE r == f.readme
           l == Low(f.token)
<1>1. PICK n \in Lines(r) : RowIs(f, n)
  BY DEF CheckInv, RowsFromReports
<1>2. r \in Readme
  BY DEF CheckInv, CheckType, RowRecord
<1> HIDE DEF r, l
<1>3. /\ f.line = ExtractLines(r)[n].line
      /\ By(r, n, l) # {}
      /\ f.token = First(r, <<r, n, l>>).word
  BY <1>1 DEF RowIs, r, l
<1>4. PICK by \in Tool : \E i \in Reported(by, Prose(r, n)) :
         First(r, <<r, n, l>>) = Hit(r, n, Prose(r, n), i, by)
  BY <1>2, <1>3, FirstIs
<1>5. PICK i \in Starts(Prose(r, n)) : f.token = WordAt(Prose(r, n), i)
  BY <1>3, <1>4, KeyOfHit DEF Reported
<1>6. PICK b \in DOMAIN Blocks[r] : /\ ExtractLines(r)[n].line = Blocks[r][b].line
                                    /\ Prose(r, n) = InlineProse(Blocks[r][b].children)
  BY <1>2, LinesAreBlocks
<1>7. Blocks[r][b].children \in Seq(Child)
  BY <1>2, BlocksType
<1>8. LET v == Seen(Blocks[r][b].children)
      IN  \E p, q \in DOMAIN v : IsWord(v, p, q) /\ f.token = Ungapped(v, p, q)
  BY <1>5, <1>6, <1>7, WordStands
<1> QED BY <1>3, <1>6, <1>8 DEF r, Stands

\* The same of every behaviour: see RowsStand.
THEOREM FindingsStandInReadme == Spec => []RowsStandInReadme
BY CheckInvariant, RowsStand, PTL

\* A word a checker reports has one row for its block, whatever its case, whatever the
\* order in which the checkers print and however often the README is checked; the row
\* says who reports the word, and where typos does.
LEMMA RowsSumUp == CheckInv => RowsSumUpHits
<1> SUFFICES ASSUME CheckInv, NEW r \in checked, NEW b \in DOMAIN Blocks[r],
                    NEW i \in Starts(InlineProse(Blocks[r][b].children))
             PROVE  LET block == Blocks[r][b]
                        t     == InlineProse(block.children)
                        w     == WordAt(t, i)
                        own   == {f \in findings : /\ f.readme = r /\ f.line = block.line
                                                   /\ Low(f.token) = Low(w)}
                        by    == {c \in Tool : Spots(block, c, w) # {}}
                    IN  /\ Cardinality(own) = IF by = {} THEN 0 ELSE 1
                        /\ \A f \in own : /\ f.source = "both" <=> by = Tool
                                          /\ f.source # "both" => by = {f.source}
                                          /\ f.col # 0 => f.col + 1 \in Spots(block, "typos", w)
  BY DEF RowsSumUpHits
<1> DEFINE block == Blocks[r][b]
           t     == InlineProse(block.children)
           l     == Low(WordAt(t, i))
           own   == {f \in findings : f.readme = r /\ f.line = block.line /\ Low(f.token) = l}
           by    == {c \in Tool : Spots(block, c, WordAt(t, i)) # {}}
<1>1. r \in Readme
  BY DEF CheckInv, CheckType
<1>2. t # <<>>
  BY DEF Starts
<1> HIDE DEF t
<1>3. PICK n \in Lines(r) : ExtractLines(r)[n].line = block.line /\ Prose(r, n) = t
  BY <1>1, <1>2, LinesAreBlocks DEF t
<1>4. by = By(r, n, l)
  <2>1. \A c : Spots(block, c, WordAt(t, i)) = {j \in Reported(c, t) : Low(WordAt(t, j)) = l}
    BY DEF Spots, t
  <2> QED BY <1>3, <2>1 DEF By
<1> HIDE DEF block, l, own, by
<1>5. ASSUME NEW f \in own PROVE f \in findings /\ f.readme = r /\ Low(f.token) = l /\ RowIs(f, n)
  <2>1. f \in findings /\ f.readme = r /\ f.line = block.line /\ Low(f.token) = l
    BY DEF own
  <2>2. PICK m \in Lines(r) : RowIs(f, m)
    BY <2>1 DEF CheckInv, RowsFromReports
  <2>3. ExtractLines(r)[m].line = ExtractLines(r)[n].line
    BY <1>3, <2>1, <2>2 DEF RowIs
  <2>4. m = n
    BY <1>1, <2>3, LinesAreBlocks
  <2> QED BY <2>1, <2>2, <2>4
<1>6. \A f \in own : /\ by # {}
                     /\ f.token = First(r, <<r, n, l>>).word
                     /\ f.line = block.line
                     /\ f.source = "both" <=> by = Tool
                     /\ f.source # "both" => by = {f.source}
                     /\ f.col # 0 => f.col + 1 \in Reported("typos", t) /\ Low(WordAt(t, f.col + 1)) = l
  BY <1>3, <1>4, <1>5 DEF RowIs
<1>7. \A f, g \in own : f = g
  BY <1>5, <1>6 DEF CheckInv, OneRowPerId, Id
<1>8. by # {} => own # {}
  <2> SUFFICES ASSUME NEW c \in by PROVE own # {}
    OBVIOUS
  <2>1. c \in Tool /\ \E j \in Reported(c, Prose(r, n)) : Low(WordAt(Prose(r, n), j)) = l
    BY <1>4 DEF By
  <2>2. PICK j \in Reported(c, Prose(r, n)) : Low(WordAt(Prose(r, n), j)) = l
    BY <2>1
  <2>3. PICK f \in findings : RowFor(f, r, n, j)
    BY <2>1 DEF CheckInv, ReportsHaveRows
  <2>4. f \in own
    BY <1>3, <2>2, <2>3 DEF RowFor, own
  <2> QED BY <2>4
<1>9. Cardinality(own) = IF by = {} THEN 0 ELSE 1
  <2>1. CASE by = {}
    <3>1. own = {}
      BY <1>6, <2>1
    <3> QED BY <2>1, <3>1, FS_EmptySet
  <2>2. CASE by # {}
    <3>1. PICK f \in own : TRUE
      BY <1>8, <2>2
    <3>2. own = {f}
      BY <1>7, <3>1
    <3> QED BY <2>2, <3>2, FS_Singleton
  <2> QED BY <2>1, <2>2
<1>10. \A f \in own : /\ f.source = "both" <=> by = Tool
                      /\ f.source # "both" => by = {f.source}
                      /\ f.col # 0 => f.col + 1 \in Spots(block, "typos", WordAt(t, i))
  <2>1. Spots(block, "typos", WordAt(t, i)) = {j \in Reported("typos", t) : Low(WordAt(t, j)) = l}
    BY DEF Spots, t, l, block
  <2> QED BY <1>6, <2>1
<1> QED BY <1>9, <1>10 DEF own, by, block, t, l

\* The same of every behaviour: see RowsSumUp.
THEOREM FindingsSumUpHits == Spec => []RowsSumUpHits
BY CheckInvariant, RowsSumUp, PTL

-----------------------------------------------------------------------------
(* The table over time                                                     *)

\* No row is ever lost, and no verdict of one: a README checked again overwrites its
\* rows, but each under the name it had, and with its verdict (upsert_findings).
KeepsRows ==
    \A f \in findings : \E g \in findings' : /\ Id(g) = Id(f)
                                             /\ f.verdict # "none" => g.verdict = f.verdict

LEMMA CommitKeepsRows ==
    ASSUME CheckInv, CommitBatch
    PROVE  KeepsRows
<1> SUFFICES ASSUME NEW f \in findings
             PROVE  \E g \in findings' : Id(g) = Id(f) /\ g.verdict = f.verdict
  BY DEF KeepsRows
<1>1. UpsertFindings(Rows) /\ tool = "typos" /\ Unread = {}
  BY DEF CommitBatch, Rows
<1>2. CASE \A row \in Rows : Id(f) # Id(row)
  <2>1. f \in findings'
    BY <1>1, <1>2 DEF UpsertFindings
  <2> QED BY <2>1
<1>3. CASE \E row \in Rows : Id(f) = Id(row)
  <2>1. PICK row \in Rows : Id(f) = Id(row)
    BY <1>3
  <2> DEFINE v == (CHOOSE h \in findings : Id(h) = Id(row)).verdict
             g == [row EXCEPT !.verdict = v]
  <2>2. g \in findings'
    <3>1. \E h \in findings : Id(h) = Id(row)
      BY <2>1
    <3> QED BY <1>1, <3>1 DEF UpsertFindings
  <2>3. v = f.verdict
    <3>1. \A h \in findings : Id(h) = Id(row) => h = f
      BY <2>1 DEF CheckInv, OneRowPerId
    <3>2. (CHOOSE h \in findings : Id(h) = Id(row)) = f
      BY <2>1, <3>1
    <3> QED BY <3>2
  <2>4. row \in RowRecord
    BY <1>1, BatchRows DEF CheckInv
  <2> HIDE DEF v
  <2>5. g.verdict = v /\ Id(g) = Id(row)
    BY <2>4 DEF RowRecord, Id
  <2> QED BY <2>1, <2>2, <2>3, <2>5
<1> QED BY <1>2, <1>3

LEMMA VerifyKeepsRows ==
    ASSUME CheckInv, NEW f \in findings, NEW v \in {"typo", "not_typo", "unsure"}, Verify(f, v)
    PROVE  KeepsRows
<1> DEFINE status == CASE v = "typo"     -> "confirmed"
                       [] v = "not_typo" -> "false_positive"
                       [] v = "unsure"   -> "new"
           g == [f EXCEPT !.verdict = v, !.status = status]
<1>1. f.verdict = "none" /\ findings' = (findings \ {f}) \cup {g}
  BY DEF Verify
<1>2. f \in RowRecord
  BY DEF CheckInv, CheckType
<1> HIDE DEF status
<1>3. Id(g) = Id(f)
  BY <1>2 DEF RowRecord, Id
<1> HIDE DEF g
<1> QED BY <1>1, <1>3 DEF KeepsRows

\* No step loses a row or a verdict: see KeepsRows.
THEOREM RowsAreKept == Spec => [][KeepsRows]_vars
<1>1. CheckInv /\ [Next]_vars => [KeepsRows]_vars
  <2> SUFFICES ASSUME CheckInv, [Next]_vars PROVE [KeepsRows]_vars
    OBVIOUS
  <2>1. UNCHANGED findings => KeepsRows
    BY DEF KeepsRows
  <2>2. CASE CommitBatch
    BY <2>2, CommitKeepsRows
  <2>3. ASSUME NEW f \in findings, NEW v \in {"typo", "not_typo", "unsure"}, Verify(f, v)
        PROVE  KeepsRows
    BY <2>3, VerifyKeepsRows
  <2>4. CASE CheckNext /\ ~CommitBatch
    BY <2>1, <2>4 DEF CheckNext, Fetch, PrintFile, PrintHit, StartBatch, StartTypos, LoseBatch
  <2>5. CASE ReadRows \/ CountScanned \/ WriteFiles \/ ForgetMarks \/ UNCHANGED check
    BY <2>1, <2>5 DEF ReadRows, CountScanned, WriteFiles, ForgetMarks, check
  <2>7. ASSUME NEW r \in Readme, Refetch(r) PROVE UNCHANGED findings
    BY <2>7 DEF Refetch, check
  <2>6. CASE UNCHANGED vars
    BY <2>6
  <2> QED BY <2>1, <2>2, <2>3, <2>4, <2>5, <2>6, <2>7 DEF Next, SiteNext, Check
<1> QED BY <1>1, CheckInvariant, PTL DEF Spec

-----------------------------------------------------------------------------
(* The report                                                              *)

Listable(S) ==
    /\ IsFiniteSet(S)
    /\ \A e \in S : e.readme \in saved /\ e.verdict \in {"confirmed", "unsure", "unverified"}

\* The READMEs a list has rows of
ReadmesOf(S) == {e.readme : e \in S}

\* What report holds is of READMEs in the database, of which some have the mark it
\* counts; when all had it, the count is at least that of the READMEs of its list, and
\* so it is in what report has written.
SiteInv ==
    /\ Listable(rows) /\ Listable(list)
    /\ marked \subseteq saved
    /\ pc = "write" =>
          scanned \in Nat /\ (whole => Cardinality(ReadmesOf(rows)) <= scanned)
    /\ meta = Meta(list, meta.scanned)
    /\ meta.scanned \in Nat
    /\ pc = "idle" /\ whole => Cardinality(ReadmesOf(list)) <= meta.scanned

LEMMA ReadmesFinite ==
    ASSUME NEW S, IsFiniteSet(S)
    PROVE  IsFiniteSet(ReadmesOf(S))
<1> DEFINE f == [e \in S |-> e.readme]
<1>1. DOMAIN f = S /\ {f[e] : e \in S} = ReadmesOf(S)
  BY DEF ReadmesOf
<1> HIDE DEF f
<1> QED BY <1>1, ImageFinite

LEMMA SiteInvInit == Init => SiteInv
<1> SUFFICES ASSUME Init PROVE SiteInv
  OBVIOUS
<1>1. pc = "idle" /\ rows = {} /\ list = {} /\ meta = Meta({}, 0) /\ marked = {}
  BY DEF Init
<1>2. meta.scanned = 0
  BY <1>1 DEF Meta
<1>3. ReadmesOf({}) = {}
  BY DEF ReadmesOf
<1> QED BY <1>1, <1>2, <1>3, FS_EmptySet DEF SiteInv, Listable

\* Nothing leaves the database.
LEMMA SavedGrows == CheckNext => saved \subseteq saved'
BY DEF CheckNext, Fetch, PrintFile, PrintHit, StartBatch, StartTypos, CommitBatch, LoseBatch

LEMMA SiteStays ==
    ASSUME SiteInv, UNCHANGED site, saved \subseteq saved', marked' \subseteq saved'
    PROVE  SiteInv'
BY DEF SiteInv, site, Listable, Meta, With, InOrg, ReadmesOf

LEMMA ReadRowsInv ==
    ASSUME CheckInv, SiteInv, ReadRows
    PROVE  SiteInv'
<1> DEFINE G == {g \in findings : g.status \in {"confirmed", "new"}}
           entry == [f \in G |-> Entry(f)]
<1>1. rows' = FindingsRows /\ pc' = "count" /\ UNCHANGED <<check, marked, scanned, whole, list, meta>>
  BY DEF ReadRows
<1>2. IsFiniteSet(FindingsRows)
  <2>1. IsFiniteSet(G)
    BY FS_Subset DEF CheckInv, CheckType
  <2>2. DOMAIN entry = G /\ {entry[f] : f \in G} = FindingsRows
    BY DEF FindingsRows
  <2> HIDE DEF entry, G
  <2> QED BY <2>1, <2>2, ImageFinite
<1>3. \A e \in FindingsRows : e.readme \in saved /\ e.verdict \in {"confirmed", "unsure", "unverified"}
  <2> SUFFICES ASSUME NEW f \in G
               PROVE  Entry(f).readme \in saved
                      /\ Entry(f).verdict \in {"confirmed", "unsure", "unverified"}
    BY DEF FindingsRows
  <2>1. f.readme \in checked /\ checked \subseteq saved
    BY DEF CheckInv, CheckType, RowsFromReports
  <2> QED BY <2>1 DEF Entry
<1>4. saved' = saved
  BY <1>1 DEF check
<1> QED BY <1>1, <1>2, <1>3, <1>4 DEF SiteInv, Listable, Meta, With, InOrg, ReadmesOf

LEMMA CountScannedInv ==
    ASSUME CheckInv, SiteInv, CountScanned
    PROVE  SiteInv'
<1>1. /\ scanned' = Cardinality(marked) /\ whole' = (saved \subseteq marked) /\ pc' = "write"
      /\ UNCHANGED <<check, marked, rows, list, meta>>
  BY DEF CountScanned
<1>2. IsFiniteSet(saved) /\ IsFiniteSet(marked) /\ Cardinality(marked) \in Nat
  BY FS_Subset, FS_CardinalityType DEF CheckInv, CheckType, SiteInv
<1>3. ReadmesOf(rows) \subseteq saved
  BY DEF SiteInv, Listable, ReadmesOf
<1>4. saved \subseteq marked => Cardinality(ReadmesOf(rows)) <= Cardinality(marked)
  <2> SUFFICES ASSUME saved \subseteq marked PROVE Cardinality(ReadmesOf(rows)) <= Cardinality(marked)
    OBVIOUS
  <2>1. ReadmesOf(rows) \subseteq marked
    BY <1>3
  <2> QED BY <1>2, <2>1, FS_Subset
<1>5. saved' = saved
  BY <1>1 DEF check
<1> QED BY <1>1, <1>2, <1>4, <1>5 DEF SiteInv, Listable, Meta, With, InOrg, ReadmesOf

LEMMA WriteFilesInv ==
    ASSUME SiteInv, WriteFiles
    PROVE  SiteInv'
<1>1. /\ pc = "write" /\ list' = rows /\ meta' = Meta(rows, scanned) /\ pc' = "idle" /\ rows' = {}
      /\ UNCHANGED <<check, marked, whole>>
  BY DEF WriteFiles
<1>2. meta'.scanned = scanned
  BY <1>1 DEF Meta
<1>3. meta' = Meta(list', meta'.scanned)
  BY <1>1, <1>2
<1>4. scanned \in Nat /\ (whole => Cardinality(ReadmesOf(rows)) <= scanned)
  BY <1>1 DEF SiteInv
<1>5. saved' = saved
  BY <1>1 DEF check
<1>6. Listable(rows)' /\ Listable(list)' /\ (marked \subseteq saved)'
  BY <1>1, <1>5, FS_EmptySet DEF SiteInv, Listable
<1>7. /\ (whole => Cardinality(ReadmesOf(list)) <= meta.scanned)'
      /\ meta'.scanned \in Nat /\ pc' # "write"
  BY <1>1, <1>2, <1>4 DEF ReadmesOf
<1>8. Meta(list, meta.scanned)' = Meta(list', meta'.scanned)
  BY DEF Meta, With, InOrg
<1> QED BY <1>1, <1>3, <1>6, <1>7, <1>8 DEF SiteInv

LEMMA SiteInvNext == CheckInv /\ SiteInv /\ [Next]_vars => SiteInv'
<1> SUFFICES ASSUME CheckInv, SiteInv, [Next]_vars PROVE SiteInv'
  OBVIOUS
<1>1. CASE Check
  <2>1. /\ saved \subseteq saved' /\ marked' = marked \cup (saved' \ saved)
        /\ marked \subseteq saved /\ UNCHANGED site
    BY <1>1, SavedGrows DEF Check, SiteInv
  <2>2. marked' \subseteq saved'
    BY <2>1
  <2> QED BY <2>1, <2>2, SiteStays
<1>2. ASSUME NEW f \in findings, NEW v \in {"typo", "not_typo", "unsure"}, Verify(f, v)
      PROVE  SiteInv'
  BY <1>2, SiteStays DEF Verify, SiteInv
<1>3. CASE ReadRows
  BY <1>3, ReadRowsInv
<1>4. CASE CountScanned
  BY <1>4, CountScannedInv
<1>5. CASE WriteFiles
  BY <1>5, WriteFilesInv
<1>6. ASSUME NEW r \in Readme, Refetch(r) PROVE SiteInv'
  BY <1>6, SiteStays DEF Refetch, check, SiteInv
<1>7. CASE ForgetMarks
  BY <1>7, SiteStays DEF ForgetMarks, check, SiteInv
<1>8. CASE UNCHANGED <<check, marked, site>>
  BY <1>8, SiteStays DEF check, SiteInv
<1>9. CASE UNCHANGED vars
  BY <1>8, <1>9 DEF vars
<1> QED BY <1>1, <1>2, <1>3, <1>4, <1>5, <1>6, <1>7, <1>8, <1>9 DEF Next, SiteNext

\* What report counts, when it writes, and what it has written before: see SiteInv.
THEOREM SiteInvariant == Spec => []SiteInv
BY CheckInvariant, SiteInvInit, SiteInvNext, PTL DEF Spec

\* A report never names more repositories with typos than READMEs scanned, although
\* the count is a query of its own (build_site), unless some README had no mark when
\* it counted.
LEMMA ScannedCovers == SiteInv => ScannedCoversList
<1> SUFFICES ASSUME SiteInv, pc = "idle", whole PROVE meta.repos <= meta.scanned
  BY DEF ScannedCoversList
<1> DEFINE C == With(list, "confirmed")
           n == meta.scanned
<1>1. Meta(list, n).repos = Cardinality(ReadmesOf(C))
  BY DEF Meta, ReadmesOf
<1>2. meta = Meta(list, n) /\ Cardinality(ReadmesOf(list)) <= n /\ n \in Nat
  BY DEF SiteInv
<1>3. IsFiniteSet(list) /\ ReadmesOf(C) \subseteq ReadmesOf(list)
  BY DEF SiteInv, Listable, With, ReadmesOf
<1> HIDE DEF C, n
<1>4. IsFiniteSet(ReadmesOf(list))
  BY <1>3, ReadmesFinite
<1>5. /\ Cardinality(ReadmesOf(C)) <= Cardinality(ReadmesOf(list))
      /\ Cardinality(ReadmesOf(C)) \in Nat /\ Cardinality(ReadmesOf(list)) \in Nat
  BY <1>3, <1>4, FS_Subset, FS_CardinalityType
<1>6. meta.repos = Cardinality(ReadmesOf(C))
  BY <1>1, <1>2
<1> QED BY <1>2, <1>5, <1>6 DEF n

\* The same of every behaviour: see ScannedCovers.
THEOREM ScannedCoversReport == Spec => []ScannedCoversList
BY SiteInvariant, ScannedCovers, PTL

-----------------------------------------------------------------------------
(* What is listed                                                          *)

ListRow ==
    [readme : Readme, line : Nat, token : Seq(Piece), source : Tool \cup {"both"},
     verdict : {"confirmed", "unsure", "unverified"}]

PageRecord ==
    [open : BOOLEAN, all : SUBSET ListRow, org : Org \cup {none}, q : Readme \cup {none},
     pending : BOOLEAN, bothOnly : BOOLEAN, limit : Nat]

\* Types of the report and of the page
SiteType ==
    /\ pc \in {"idle", "count", "write"}
    /\ rows \subseteq ListRow /\ list \subseteq ListRow
    /\ page \in PageRecord

\* As long as neither filter nor a reset of the verdicts comes in between (see
\* FindingStore for these), a row is only confirmed by a verdict, and only rejected by a
\* rule or by a verdict; what a rule rejects stays rejected, however often its README
\* is checked again (apply_verdicts, upsert_findings).
DecisionsGrounded ==
    \A f \in findings :
        /\ f.status = "confirmed" => f.verdict = "typo"
        /\ f.status = "false_positive" => f.token \in Noise \/ f.verdict = "not_typo"
        /\ f.token \in Noise => f.status = "false_positive"

LEMMA CommitGrounded ==
    ASSUME CheckInv, DecisionsGrounded, CommitBatch
    PROVE  DecisionsGrounded'
<1>1. UpsertFindings(Rows) /\ tool = "typos" /\ Unread = {}
  BY DEF CommitBatch, Rows
<1> SUFFICES ASSUME NEW f \in findings', f \notin findings
             PROVE  /\ f.status = "confirmed" => f.verdict = "typo"
                    /\ f.status = "false_positive" => f.token \in Noise \/ f.verdict = "not_typo"
                    /\ f.token \in Noise => f.status = "false_positive"
  BY DEF DecisionsGrounded
<1>2. PICK row \in Rows :
         f = [row EXCEPT !.verdict = IF \E g \in findings : Id(g) = Id(row)
                                     THEN (CHOOSE g \in findings : Id(g) = Id(row)).verdict
                                     ELSE "none"]
  BY <1>1 DEF UpsertFindings
<1>3. row \in RowRecord
  BY <1>1, BatchRows DEF CheckInv
<1>4. f.status = row.status /\ f.token = row.token
  BY <1>2, <1>3 DEF RowRecord
<1>5. row.status = IF row.token \in Noise THEN "false_positive" ELSE "new"
  BY DEF Rows, FindingRow
<1> QED BY <1>4, <1>5

LEMMA VerifyGrounded ==
    ASSUME CheckInv, DecisionsGrounded,
           NEW f \in findings, NEW v \in {"typo", "not_typo", "unsure"}, Verify(f, v)
    PROVE  DecisionsGrounded'
<1> DEFINE status == CASE v = "typo"     -> "confirmed"
                       [] v = "not_typo" -> "false_positive"
                       [] v = "unsure"   -> "new"
           g == [f EXCEPT !.verdict = v, !.status = status]
<1>1. f.status = "new" /\ findings' = (findings \ {f}) \cup {g}
  BY DEF Verify
<1>2. /\ status = "confirmed" => v = "typo"
      /\ status = "false_positive" => v = "not_typo"
  OBVIOUS
<1> HIDE DEF status
<1>3. f \in RowRecord /\ f.token \notin Noise
  BY <1>1 DEF CheckInv, CheckType, DecisionsGrounded
<1>4. g.status = status /\ g.verdict = v /\ g.token = f.token
  BY <1>3 DEF RowRecord
<1> HIDE DEF g
<1> QED BY <1>1, <1>2, <1>3, <1>4 DEF DecisionsGrounded

\* See DecisionsGrounded.
THEOREM DecisionsAreGrounded == Spec => []DecisionsGrounded
<1>1. Init => DecisionsGrounded
  BY DEF Init, CheckInit, DecisionsGrounded
<1>2. CheckInv /\ DecisionsGrounded /\ [Next]_vars => DecisionsGrounded'
  <2> SUFFICES ASSUME CheckInv, DecisionsGrounded, [Next]_vars PROVE DecisionsGrounded'
    OBVIOUS
  <2>1. UNCHANGED findings => DecisionsGrounded'
    BY DEF DecisionsGrounded
  <2>2. CASE CommitBatch
    BY <2>2, CommitGrounded
  <2>3. ASSUME NEW f \in findings, NEW v \in {"typo", "not_typo", "unsure"}, Verify(f, v)
        PROVE  DecisionsGrounded'
    BY <2>3, VerifyGrounded
  <2>4. CASE CheckNext /\ ~CommitBatch
    BY <2>1, <2>4 DEF CheckNext, Fetch, PrintFile, PrintHit, StartBatch, StartTypos, LoseBatch
  <2>5. CASE ReadRows \/ CountScanned \/ WriteFiles \/ ForgetMarks \/ UNCHANGED check
    BY <2>1, <2>5 DEF ReadRows, CountScanned, WriteFiles, ForgetMarks, check
  <2>7. ASSUME NEW r \in Readme, Refetch(r) PROVE UNCHANGED findings
    BY <2>7 DEF Refetch, check
  <2>6. CASE UNCHANGED vars
    BY <2>1, <2>6 DEF vars, check
  <2> QED BY <2>1, <2>2, <2>3, <2>4, <2>5, <2>6, <2>7 DEF Next, SiteNext, Check
<1> QED BY <1>1, <1>2, CheckInvariant, PTL DEF Spec

\* What each row of a list accuses stands in its README.
Genuine(S) == \A e \in S : Stands(e)

\* From the markdown to the screen: what report has read, what findings.json holds and
\* what an open page lists is genuine, though the table has moved on since.
ListedIsGenuine == Genuine(rows) /\ Genuine(list) /\ Genuine(page.all)

LEMMA EntriesAreGenuine ==
    ASSUME CheckInv
    PROVE  FindingsRows \subseteq ListRow /\ Genuine(FindingsRows)
<1> SUFFICES ASSUME NEW f \in findings, f.status \in {"confirmed", "new"}
             PROVE  Entry(f) \in ListRow /\ Stands(Entry(f))
  BY DEF FindingsRows, Genuine
<1>1. Stands(f)
  BY RowsStand DEF RowsStandInReadme
<1>2. f \in RowRecord
  BY DEF CheckInv, CheckType
<1>3. /\ Entry(f).readme = f.readme /\ Entry(f).line = f.line
      /\ Entry(f).token = f.token /\ Entry(f).source = f.source
  BY DEF Entry
<1>4. Entry(f) \in ListRow
  BY <1>2 DEF Entry, RowRecord, ListRow
<1>5. Stands(Entry(f))
  BY <1>1, <1>3 DEF Stands
<1> QED BY <1>4, <1>5

\* The page lists what it was opened with, whatever is filtered.
LEMMA PageLists ==
    ASSUME SiteType, ListedIsGenuine, PageNext, UNCHANGED <<check, marked, site>>
    PROVE  SiteType' /\ ListedIsGenuine'
<1>1. /\ UNCHANGED <<pc, rows, list>>
      /\ START \in Nat /\ STEP \in Nat
  BY DashboardAssumption DEF site
<1>2. Closed \in PageRecord /\ Closed.all = {}
  BY <1>1 DEF Closed, PageRecord
<1>3. CASE Open
  <2>1. page' = [Closed EXCEPT !.open = TRUE, !.all = list] /\ list \subseteq ListRow
    BY <1>3 DEF Open, SiteType
  <2>2. page' \in PageRecord /\ page'.all = list
    BY <1>2, <2>1 DEF PageRecord
  <2> QED BY <1>1, <2>2 DEF SiteType, ListedIsGenuine, Genuine
<1>4. CASE Close
  <2>1. page' \in PageRecord /\ page'.all = {}
    BY <1>2, <1>4 DEF Close
  <2> QED BY <1>1, <2>1 DEF SiteType, ListedIsGenuine, Genuine
<1>5. CASE Refilter \/ ShowMore
  <2>1. page \in PageRecord
    BY DEF SiteType
  <2>2. page' \in PageRecord /\ page'.all = page.all
    <3>1. ASSUME NEW r \in Readme \cup {none}, Search(r)
          PROVE  page' \in PageRecord /\ page'.all = page.all
      BY <1>1, <2>1, <3>1 DEF Search, PageRecord
    <3>2. ASSUME NEW o \in Org, ClickChip(o)
          PROVE  page' \in PageRecord /\ page'.all = page.all
      BY <1>1, <2>1, <3>2 DEF ClickChip, PageRecord
    <3>3. CASE TogglePending
      BY <1>1, <2>1, <3>3 DEF TogglePending, PageRecord
    <3>4. CASE ToggleBoth
      BY <1>1, <2>1, <3>4 DEF ToggleBoth, PageRecord
    <3>5. CASE ShowMore
      BY <1>1, <2>1, <3>5 DEF ShowMore, PageRecord
    <3> QED BY <1>5, <3>1, <3>2, <3>3, <3>4, <3>5 DEF Refilter
  <2> QED BY <1>1, <2>2 DEF SiteType, ListedIsGenuine, Genuine
<1> QED BY <1>3, <1>4, <1>5 DEF PageNext

LEMMA ListedNext ==
    CheckInv /\ SiteType /\ ListedIsGenuine /\ [Next]_vars
        => SiteType' /\ ListedIsGenuine'
<1> SUFFICES ASSUME CheckInv, SiteType, ListedIsGenuine, [Next]_vars
             PROVE  SiteType' /\ ListedIsGenuine'
  OBVIOUS
<1>1. ASSUME UNCHANGED <<site, page>> PROVE SiteType' /\ ListedIsGenuine'
  BY <1>1 DEF site, SiteType, ListedIsGenuine, Genuine
<1>2. CASE Check /\ UNCHANGED page
  BY <1>1, <1>2 DEF Check
<1>3. ASSUME NEW f \in findings, NEW v \in {"typo", "not_typo", "unsure"}, Verify(f, v),
             UNCHANGED page
      PROVE  SiteType' /\ ListedIsGenuine'
  BY <1>1, <1>3 DEF Verify
<1>4. CASE ReadRows /\ UNCHANGED page
  BY <1>4, EntriesAreGenuine DEF ReadRows, SiteType, ListedIsGenuine, Genuine
<1>5. CASE CountScanned /\ UNCHANGED page
  BY <1>5 DEF CountScanned, SiteType, ListedIsGenuine, Genuine
<1>6. CASE WriteFiles /\ UNCHANGED page
  BY <1>6 DEF WriteFiles, SiteType, ListedIsGenuine, Genuine
<1>7. CASE PageNext /\ UNCHANGED <<check, marked, site>>
  BY <1>7, PageLists
<1>8. CASE UNCHANGED vars
  BY <1>1, <1>8 DEF vars
<1>9. ASSUME (\E r \in Readme : Refetch(r)) \/ ForgetMarks, UNCHANGED page
      PROVE  SiteType' /\ ListedIsGenuine'
  BY <1>1, <1>9 DEF Refetch, ForgetMarks
<1> QED BY <1>2, <1>3, <1>4, <1>5, <1>6, <1>7, <1>8, <1>9 DEF Next, SiteNext

\* See SiteType and ListedIsGenuine.
THEOREM ListedRows == Spec => [](SiteType /\ ListedIsGenuine)
<1>1. Init => SiteType /\ ListedIsGenuine
  <2>1. START \in Nat
    BY DashboardAssumption
  <2> QED BY <2>1 DEF Init, Closed, SiteType, PageRecord, ListedIsGenuine, Genuine
<1> QED BY <1>1, ListedNext, CheckInvariant, PTL DEF Spec
=============================================================================
