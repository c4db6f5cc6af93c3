------------------------------ MODULE CheckBatch ------------------------------
(***************************************************************************)
(* `typocrawler check` on the words of a README: markdown is reduced to    *)
(* prose, one line for each block; two spell checkers run over the files   *)
(* of a batch; what they report is merged, and entered in the table        *)
(* findings under the source line of its block.                            *)
(*                                                                         *)
(* Text is a sequence of pieces, which markdown does not cut, and of       *)
(* spaces; a word is a run of pieces.  The corrections are left out, and   *)
(* which command may overtake which is the business of FindingStore.       *)
(***************************************************************************)
EXTENDS Integers, SequencesExt

CONSTANTS
    Readme,     \* snapshots, each of a repository of its own
    Blocks,     \* their blocks with inline content, in their order: the source line,
                \* 1-based, on which no other begins, and the children the markdown
                \* parser finds
    Piece,      \* pieces of words
    Lower,      \* each in lower case
    Knows,      \* the words each checker reports
    Noise       \* the words a rule of classify rejects

Space == " "
Gap   == "#"    \* what a reader sees in the place of inline code, an image or HTML
Tool  == {"codespell", "typos"}
Child == [type : {"text", "break", "code_inline", "image", "html_inline", "marker"},
          text : Seq(Piece \cup {Space})]

ASSUME CheckAssumption ==
    /\ Space \notin Piece /\ Gap \notin Piece
    /\ Blocks \in [Readme -> Seq([line : Nat \ {0}, children : Seq(Child)])]
    /\ \A r \in Readme : \A i, j \in DOMAIN Blocks[r] :
          i < j => Blocks[r][i].line < Blocks[r][j].line
    /\ Lower \in [Piece -> Piece]
    /\ Knows \in [Tool -> SUBSET Seq(Piece)]
    /\ Noise \subseteq Seq(Piece)

VARIABLES
    saved,      \* snapshots in the database
    checked,    \* those that have been checked
    findings,   \* the rows of the table
    batch,      \* snapshots of the batch under way
    tool,       \* the checker at work on it, "none" between batches
    unread,     \* what the checker has still to print about each file
    hits        \* what has been read of the checkers' output, in its order

memory == <<batch, tool, unread, hits>>
check  == <<saved, checked, findings, memory>>

-----------------------------------------------------------------------------
(* Prose                                                                   *)

\* What of a child is kept; the text inside emphasis and links is a child, too.
Part(child) ==
    CASE child.type = "text"  -> child.text
      [] child.type = "break" -> <<Space>>
      [] OTHER                -> <<>>

\* The numbers of a finite set in their order
Sorted(I) ==
    [k \in 1 .. Cardinality(I) |-> CHOOSE i \in I : Cardinality({j \in I : j <= i}) = k]

\* Spaces are kept one between two words: of a run of them the first.
Kept(t) ==
    {i \in DOMAIN t : \/ t[i] # Space
                      \/ i > 1 /\ t[i - 1] # Space /\ \E j \in i .. Len(t) : t[j] # Space}

\* The text at places I, in their order
At(t, I) == LET s == Sorted(I) IN [k \in DOMAIN s |-> t[s[k]]]

Tidy(t) == At(t, Kept(t))

InlineProse(children) == Tidy(FlattenSeq([i \in DOMAIN children |-> Part(children[i])]))

\* (mutated: blocks without prose are kept in the index, but not in the file)
MutExtractLines(r) ==
    [i \in DOMAIN Blocks[r] |->
        [line |-> Blocks[r][Min({i + 1, Len(Blocks[r])})].line,
         text |-> InlineProse(Blocks[r][i].children)]]

\* The blocks that have prose
Readable(r) ==
    Sorted({i \in DOMAIN Blocks[r] : InlineProse(Blocks[r][i].children) # <<>>})

\* Source line and prose of each of these
ExtractLines(r) ==
    LET index == Readable(r)
        block(n) == Blocks[r][index[n]]
    IN  [n \in DOMAIN index |->
            [line |-> block(n).line, text |-> InlineProse(block(n).children)]]

-----------------------------------------------------------------------------
(* The checkers                                                            *)

Starts(t) == {i \in DOMAIN t : t[i] # Space /\ (i = 1 \/ t[i - 1] = Space)}

WordAt(t, i) ==
    SubSeq(t, i, Max({j \in i .. Len(t) : \A k \in i .. j : t[k] # Space}))

Low(w) == [i \in DOMAIN w |-> Lower[w[i]]]

\* A word of line n as a checker prints it: codespell has no columns, typos counts
\* them from 0.
Hit(r, n, t, i, by) ==
    [readme |-> r, line |-> n, col |-> IF by = "typos" THEN i - 1 ELSE 0,
     word |-> WordAt(t, i), source |-> by]

\* Where the words stand that a checker reports
Reported(by, t) == {i \in Starts(t) : WordAt(t, i) \in Knows[by]}

\* What it prints about line n of the file of r, with the prose t, and about all lines
OnLine(by, r, n, t) ==
    LET spots == Sorted(Reported(by, t))
    IN  [k \in DOMAIN spots |-> Hit(r, n, t, spots[k], by)]

Report(by, r) ==
    LET lines == ExtractLines(r)
    IN  FlattenSeq([n \in DOMAIN lines |-> OnLine(by, r, n, lines[n].text)])

-----------------------------------------------------------------------------
(* Merging                                                                 *)

\* (mutated: case counts)
MutKey(h) == <<h.readme, h.line, h.word>>

Key(h) == <<h.readme, h.line, Low(h.word)>>

\* One group of crossref: the word of its first hit, the first column that is not 0,
\* and who has made it.
Merge(hs, k) ==
    LET I     == {i \in DOMAIN hs : Key(hs[i]) = k}
        cols  == {i \in I : hs[i].col # 0}
        first == hs[Min(I)]
    IN  [first EXCEPT !.col    = IF cols = {} THEN 0 ELSE hs[Min(cols)].col,
                      !.source = IF {hs[i].source : i \in I} = Tool THEN "both" ELSE first.source]

Crossref(hs) == {Merge(hs, Key(hs[i])) : i \in DOMAIN hs}

InFile(h) == h.readme \in batch /\ h.line \in 1 .. Len(ExtractLines(h.readme))

\* The row of a merged hit
FindingRow(h) ==
    [readme  |-> h.readme,
     line    |-> ExtractLines(h.readme)[h.line].line,
     col     |-> h.col,
     token   |-> h.word,
     source  |-> h.source,
     score   |-> IF h.source = "both" THEN 2 ELSE 1,
     status  |-> IF h.word \in Noise THEN "false_positive" ELSE "new",
     verdict |-> "none"]

\* uq_finding_dedup; a README is checked in one version here
Id(row) == <<row.readme, row.token, row.line>>

\* A row already there is overwritten, but for its verdict.
UpsertFindings(rows) ==
    findings' = {f \in findings : \A row \in rows : Id(f) # Id(row)}
                \cup {[row EXCEPT !.verdict =
                          IF \E f \in findings : Id(f) = Id(row)
                          THEN (CHOOSE f \in findings : Id(f) = Id(row)).verdict
                          ELSE "none"] : row \in rows}

-----------------------------------------------------------------------------
(* A batch                                                                 *)

Idle == batch = {} /\ tool = "none" /\ unread = [r \in Readme |-> <<>>] /\ hits = <<>>

CheckInit == saved = {} /\ checked = {} /\ findings = {} /\ Idle

Fetch(r) ==
    /\ r \notin saved
    /\ saved' = saved \cup {r}
    /\ UNCHANGED <<checked, findings, memory>>

\* The files of a batch are written, and codespell starts.  A snapshot may be
\* checked again by a command that has read its work list before.
StartBatch(B) ==
    /\ tool = "none"
    /\ B # {} /\ B \subseteq saved
    /\ batch' = B
    /\ tool' = "codespell"
    /\ unread' = [r \in Readme |-> IF r \in B THEN Report("codespell", r) ELSE <<>>]
    /\ hits' = <<>>
    /\ UNCHANGED <<saved, checked, findings>>

Unread == {r \in batch : unread[r] # <<>>}

\* codespell goes over the files one after another, in any order ...
PrintFile(r) ==
    /\ tool = "codespell"
    /\ r \in Unread
    /\ hits' = hits \o unread[r]
    /\ unread' = [unread EXCEPT ![r] = <<>>]
    /\ UNCHANGED <<saved, checked, findings, batch, tool>>

StartTypos ==
    /\ tool = "codespell" /\ Unread = {}
    /\ tool' = "typos"
    /\ unread' = [r \in Readme |-> IF r \in batch THEN Report("typos", r) ELSE <<>>]
    /\ UNCHANGED <<saved, checked, findings, batch, hits>>

\* ... typos over several at the same time.
PrintHit(r) ==
    /\ tool = "typos"
    /\ r \in Unread
    /\ hits' = Append(hits, Head(unread[r]))
    /\ unread' = [unread EXCEPT ![r] = Tail(@)]
    /\ UNCHANGED <<saved, checked, findings, batch, tool>>

Drop == batch' = {} /\ tool' = "none" /\ unread' = [r \in Readme |-> <<>>] /\ hits' = <<>>

\* The rows and the marks of the batch, in one transaction
CommitBatch ==
    /\ tool = "typos" /\ Unread = {}
    /\ UpsertFindings({FindingRow(h) : h \in {g \in Crossref(hits) : InFile(g)}})
    /\ checked' = checked \cup batch
    /\ Drop
    /\ UNCHANGED saved

\* A checker ends with an error, or the process is killed.
LoseBatch ==
    /\ tool # "none"
    /\ Drop
    /\ UNCHANGED <<saved, checked, findings>>

CheckNext ==
    \/ \E r \in Readme : Fetch(r) \/ PrintFile(r) \/ PrintHit(r)
    \/ \E B \in SUBSET Readme : StartBatch(B)
    \/ StartTypos \/ CommitBatch \/ LoseBatch

-----------------------------------------------------------------------------
(* Properties                                                              *)

\* What a reader sees of a child, and of a block
Sight(child) ==
    CASE child.type = "text"   -> child.text
      [] child.type = "break"  -> <<Space>>
      [] child.type = "marker" -> <<>>
      [] OTHER                 -> <<Gap>>

Seen(children) == FlattenSeq([i \in DOMAIN children |-> Sight(children[i])])

\* There is a word of t at p .. q, and no more of it.
IsWord(t, p, q) ==
    /\ 1 <= p /\ p <= q /\ q <= Len(t)
    /\ \A x \in p .. q : t[x] # Space
    /\ p = 1 \/ t[p - 1] = Space
    /\ q = Len(t) \/ t[q + 1] = Space

\* The word at p .. q without its gaps
Ungapped(t, p, q) == At(t, {x \in p .. q : t[x] # Gap})

\* On the line e points to, a block begins in which its token is a word: a whole one,
\* between spaces and ends of lines.  The word is to be read without its gaps, if it
\* has any, which extract.py drops without leaving a space: a word "te<br>h" is what
\* the token "teh" stands for, although no reader finds "teh" there.
Stands(e) ==
    \E i \in DOMAIN Blocks[e.readme] :
        LET block == Blocks[e.readme][i]
            seen  == Seen(block.children)
        IN  /\ block.line = e.line
            /\ \E p, q \in DOMAIN seen : IsWord(seen, p, q) /\ e.token = Ungapped(seen, p, q)

\* What a finding accuses is a word of its README, in the block the finding points to:
\* no piece of a word, no two words joined, none of a neighbouring block.
RowsStandInReadme == \A f \in findings : Stands(f)

\* The places of a block where w stands, in any case, and a checker reports it
Spots(block, by, w) ==
    LET t == InlineProse(block.children)
    IN  {i \in Reported(by, t) : Low(WordAt(t, i)) = Low(w)}

\* In whatever order the checkers print, and however often a README is checked: a
\* word a checker reports has one row for its block, whatever its case, which says
\* who reports it and points, if not to 0, to a place where typos does.
RowsSumUpHits ==
    \A r \in checked : \A b \in DOMAIN Blocks[r] :
        LET block == Blocks[r][b]
            t     == InlineProse(block.children)
        IN  \A i \in Starts(t) :
              LET w   == WordAt(t, i)
                  own == {f \in findings : /\ f.readme = r /\ f.line = block.line
                                           /\ Low(f.token) = Low(w)}
                  by  == {c \in Tool : Spots(block, c, w) # {}}
              IN  /\ Cardinality(own) = IF by = {} THEN 0 ELSE 1
                  /\ \A f \in own : /\ f.source = "both" <=> by = Tool
                                    /\ f.source # "both" => by = {f.source}
                                    /\ f.col # 0 => f.col + 1 \in Spots(block, "typos", w)
=============================================================================
