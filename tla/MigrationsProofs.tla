--------------------------- MODULE MigrationsProofs ---------------------------
(***************************************************************************)
(* Theorems about Migrations, for any number of processes killed.          *)
(*                                                                         *)
(* A stamp is written in a step of its own, after the column: the          *)
(* induction needs to know of the revision in between (StampFollows).  A   *)
(* drop of all tables begins at revision 1 and stays there, so that no     *)
(* stamp of a column survives it (DropsAtOne).                             *)
(***************************************************************************)
EXTENDS Migrations, TLAPS

\* The revision about to be stamped has its column.
StampFollows ==
    pc = "stamp" => stamp < Head /\ (stamp + 1 \in Added => stamp + 1 \in columns)

\* Tables are dropped at revision 1.
DropsAtOne == pc = "downgrade" => stamp = 1

SchemaInv == TypeOK /\ StampTellsTheTruth /\ StampFollows /\ DropsAtOne

\* The revisions 2 to 4 are all there are.
LEMMA Revisions == \A r \in Added : r \in 2 .. 4 /\ TableOf(r) \in Table
BY DEF Added, Head, TableOf, Table

\* The commands that come upon the schema
LEMMA Commands == DOMAIN Needs = {"discover", "fetch", "check", "filter", "verify", "report"}
BY DEF Needs

USE MigrationsAssumption DEF Head, Added

LEMMA SchemaInit == Init => SchemaInv
<1> SUFFICES ASSUME Init PROVE SchemaInv
    OBVIOUS
<1>1. CASE tables = {} /\ columns = {} /\ stamp = 0 /\ rows = {}
    BY <1>1, Commands DEF Init, SchemaInv, TypeOK, StampTellsTheTruth, StampFollows, DropsAtOne
<1>2. CASE tables = Table /\ rows \in {{}, Table}
    <2>1. PICK v \in 1 .. 4 : tables = {} \/ (columns = 2 .. v /\ stamp \in 0 .. v)
        BY DEF Init
    <2>2. tables # {}
        BY <1>2 DEF Table
    <2>3. QED
        BY <1>2, <2>1, <2>2, Revisions, Commands
        DEF Init, SchemaInv, TypeOK, StampTellsTheTruth, StampFollows, DropsAtOne
<1>3. QED
    BY <1>1, <1>2 DEF Init

LEMMA SchemaStep == SchemaInv /\ [Next]_vars => SchemaInv'
<1> SUFFICES ASSUME SchemaInv, [Next]_vars PROVE SchemaInv'
    OBVIOUS
<1> USE Revisions, Commands DEF SchemaInv, TypeOK, StampTellsTheTruth, StampFollows, DropsAtOne
<1>1. CASE StartCommand
    BY <1>1 DEF StartCommand
<1>2. CASE CreateTable
    <2>1. PICK t \in Table : /\ tables' = tables \cup {t}
                             /\ columns' = columns \cup {r \in Added : TableOf(r) = t}
        BY <1>2 DEF CreateTable
    <2>2. UNCHANGED <<stamp, rows, temps, pc, kills>>
        BY <1>2 DEF CreateTable
    <2>3. columns \subseteq columns' /\ columns' \subseteq {r \in Added : TableOf(r) \in tables'}
        BY <2>1
    <2>4. TypeOK'
        BY <2>1, <2>2, <2>3
    <2>5. QED
        BY <2>2, <2>3, <2>4
<1>3. CASE Work
    <2>1. Fills(pc) \subseteq Table
        BY DEF Fills, Table
    <2>2. QED
        BY <1>3, <2>1 DEF Work
<1>4. CASE NoSuchColumn
    BY <1>4 DEF NoSuchColumn
<1>5. CASE StartUpgrade \/ EndUpgrade \/ EndCreate \/ Kill
    <2>1. UNCHANGED <<tables, columns, stamp, rows, temps>> /\ kills' \in 0 .. MaxKills
        BY <1>5 DEF StartUpgrade, EndUpgrade, EndCreate, Kill
    <2>2. pc' \in {"upgrade", "idle"} \/ (pc' = "stamp" /\ stamp = 0)
        BY <1>5 DEF StartUpgrade, EndUpgrade, EndCreate, Kill
    <2>3. QED
        BY <2>1, <2>2
<1>6. ASSUME NEW r \in Added, AddColumn(r) PROVE SchemaInv'
    BY <1>6 DEF AddColumn
<1>7. ASSUME NEW r \in Added, FindColumn(r) \/ NoSuchTable(r) PROVE SchemaInv'
    <2>1. UNCHANGED <<tables, columns, stamp, rows, temps, kills>>
        BY <1>7 DEF FindColumn, NoSuchTable
    <2>2. pc' = "idle" \/ (pc' = "stamp" /\ stamp = r - 1 /\ r \in columns)
        BY <1>7 DEF FindColumn, NoSuchTable
    <2>3. QED
        BY <2>1, <2>2
<1>8. CASE Stamp
    BY <1>8 DEF Stamp
<1>9. ASSUME NEW r \in Added, CreateTemp(r) \/ DropColumn(r) PROVE SchemaInv'
    <2>1. CASE CreateTemp(r)
        <3>1. temps' \subseteq Table
            BY <2>1 DEF CreateTemp
        <3>2. QED
            BY <2>1, <3>1 DEF CreateTemp
    <2>2. CASE DropColumn(r)
        <3>1. rows' \subseteq rows /\ temps' \subseteq temps
            BY <2>2 DEF DropColumn
        <3>2. QED
            BY <2>2, <3>1 DEF DropColumn
    <2>3. QED
        BY <1>9, <2>1, <2>2
<1>10. CASE StartDropAll \/ EndDropAll
    <2>1. UNCHANGED <<tables, columns, rows, temps, kills>>
        BY <1>10 DEF StartDropAll, EndDropAll
    <2>2. (pc' = "downgrade" /\ stamp' = 1) \/ (pc' = "idle" /\ stamp' = 0)
        BY <1>10 DEF StartDropAll, EndDropAll
    <2>3. QED
        BY <2>1, <2>2
<1>11. CASE DropTable
    <2>1. PICK t \in tables : /\ tables' = tables \ {t}
                              /\ columns' = {r \in columns : TableOf(r) # t}
                              /\ rows' = rows \ {t}
        BY <1>11 DEF DropTable
    <2>2. TypeOK'
        BY <1>11, <2>1 DEF DropTable
    <2>3. QED
        BY <1>11, <2>2 DEF DropTable
<1>12. CASE UNCHANGED vars
    BY <1>12 DEF vars
<1>13. QED
    BY <1>1, <1>2, <1>3, <1>4, <1>5, <1>6, <1>7, <1>8, <1>9, <1>10, <1>11, <1>12
    DEF Next, Command, Upgrade, Downgrade

\* The invariant holds in every reachable state.
THEOREM SchemaInvariant == Spec => []SchemaInv
BY SchemaInit, SchemaStep, PTL DEF Spec

\* Every variable keeps its type, however often processes are killed.
THEOREM SchemaTypeCorrect == Spec => []TypeOK
BY SchemaInvariant, PTL DEF SchemaInv

\* A column is there as long as its revision is stamped, from every earlier
\* database on and with processes killed between any two steps.
THEOREM StampsAreTrue == Spec => []StampTellsTheTruth
BY SchemaInvariant, PTL DEF SchemaInv

\* No revision loses a row on the way up or down, unless all tables are dropped:
\* Alembic's connection does not enforce the foreign keys.
THEOREM MigrationsKeepRows == Spec => RowsKept
<1>1. [Next]_vars => [rows \subseteq rows' \/ pc = "downgrade"]_rows
    <2> SUFFICES ASSUME [Next]_vars PROVE rows \subseteq rows' \/ pc = "downgrade"
        OBVIOUS
    <2>1. ASSUME NEW r \in Added, DropColumn(r) PROVE rows \subseteq rows'
        BY <2>1 DEF DropColumn, DeletedWith, ForeignKeys
    <2>2. QED
        BY <2>1 DEF Next, Command, Upgrade, Downgrade, vars, StartCommand, CreateTable, Work,
            NoSuchColumn, StartUpgrade, EndUpgrade, EndCreate, Kill, AddColumn, FindColumn,
            NoSuchTable, Stamp, StartDropAll, DropTable, EndDropAll, CreateTemp
<1>2. QED
    BY <1>1, PTL DEF Spec, RowsKept
=============================================================================
