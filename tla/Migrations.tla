------------------------------ MODULE Migrations ------------------------------
(***************************************************************************)
(* The schema of typos.db under Alembic (migrations/) and under the        *)
(* commands, each of which begins with init_db: create_all, which adds     *)
(* tables that are missing and nothing else.  A database may come from any *)
(* earlier version of models.py, stamped by Alembic or never seen by it.   *)
(*                                                                         *)
(* Revision r \in 2 .. Head adds one column, which is named here by r.     *)
(* SQLite's driver opens a transaction before the first INSERT, UPDATE or  *)
(* DELETE, and not before a CREATE, ALTER or DROP: what a revision does so *)
(* is committed at once, and its stamp in alembic_version afterwards.      *)
(***************************************************************************)
EXTENDS Integers

CONSTANT MaxKills   \* bound: processes killed

ASSUME MigrationsAssumption == MaxKills \in Nat

VARIABLES
    tables,     \* the tables there are
    columns,    \* the columns there are, of those added by a revision
    stamp,      \* the revision in alembic_version, 0 for none
    rows,       \* the tables that have rows
    temps,      \* the tables a downgrade has begun to make anew: _alembic_tmp_*
    pc,         \* what is running: nothing, a command or Alembic
    kills       \* processes killed so far

vars == <<tables, columns, stamp, rows, temps, pc, kills>>

Table == {"orgs", "repos", "readme_snapshots", "findings", "crawl_runs"}
Head  == 4
Added == 2 .. Head

\* The table a revision adds its column to
TableOf(r) ==
    CASE r = 2 -> "repos"
      [] r = 3 -> "readme_snapshots"
      [] r = 4 -> "findings"

\* Tables with a foreign key on t, or on one of these; the keys say ON DELETE CASCADE.
Children(t) ==
    CASE t = "orgs"  -> {"repos", "readme_snapshots", "findings"}
      [] t = "repos" -> {"readme_snapshots", "findings"}
      [] OTHER       -> {}

\* The columns the statements of a command name
Needs ==
    [discover |-> {}, fetch |-> {2}, check |-> {3, 4}, filter |-> {4},
     verify   |-> {}, report |-> {2}]

\* The tables a command enters rows in, if there is something to do
Fills(c) ==
    CASE c = "discover"                                -> {"orgs", "repos", "crawl_runs"}
      [] c = "fetch" /\ "repos" \in rows              -> {"readme_snapshots", "crawl_runs"}
      [] c = "check" /\ "readme_snapshots" \in rows   -> {"findings", "crawl_runs"}
      [] OTHER                                         -> {}

\* (mutated: Alembic connects as the commands do)
MutForeignKeys == TRUE

\* PRAGMA foreign_keys, on Alembic's connection: env.py makes an engine of its
\* own, without the pragmas of make_engine.
ForeignKeys == FALSE

\* Dropping a table deletes its rows first.
DeletedWith(t) == IF ForeignKeys THEN Children(t) ELSE {}

\* What earlier versions have left: no database, or one with the columns up to a
\* version v, stamped as far as an upgrade got
Init ==
    /\ \/ tables = {} /\ columns = {} /\ stamp = 0 /\ rows = {}
       \/ /\ tables = Table
          /\ \E v \in 1 .. Head : columns = 2 .. v /\ stamp \in 0 .. v
          /\ rows \in {{}, Table}
    /\ temps = {} /\ pc = "idle" /\ kills = 0

Kill ==
    /\ pc # "idle"
    /\ kills < MaxKills
    /\ kills' = kills + 1
    /\ pc' = "idle"
    /\ UNCHANGED <<tables, columns, stamp, rows, temps>>

-----------------------------------------------------------------------------
(* Commands                                                                *)

StartCommand ==
    /\ pc = "idle"
    /\ pc' \in DOMAIN Needs
    /\ UNCHANGED <<tables, columns, stamp, rows, temps, kills>>

\* (mutated: tables there are get their columns, too)
MutCreateTable ==
    /\ pc \in DOMAIN Needs \/ (pc = "upgrade" /\ stamp = 0)
    /\ \E t \in Table \ tables :
          /\ \A p \in Table \ tables : t \notin Children(p)
          /\ tables' = tables \cup {t}
          /\ columns' = Added
    /\ UNCHANGED <<stamp, rows, temps, pc, kills>>

\* create_all, in init_db or in revision 1, creates what is missing, as models.py
\* has it now.
CreateTable ==
    /\ pc \in DOMAIN Needs \/ (pc = "upgrade" /\ stamp = 0)
    /\ \E t \in Table \ tables :
          /\ \A p \in Table \ tables : t \notin Children(p)
          /\ tables' = tables \cup {t}
          /\ columns' = columns \cup {r \in Added : TableOf(r) = t}
    /\ UNCHANGED <<stamp, rows, temps, pc, kills>>

\* With all tables there, the command does its work ...
Work ==
    /\ pc \in DOMAIN Needs
    /\ tables = Table
    /\ Needs[pc] \subseteq columns
    /\ rows' = rows \cup Fills(pc)
    /\ pc' = "idle"
    /\ UNCHANGED <<tables, columns, stamp, temps, kills>>

\* ... or stumbles over a column that is missing.
NoSuchColumn ==
    /\ pc \in DOMAIN Needs
    /\ tables = Table
    /\ ~(Needs[pc] \subseteq columns)
    /\ pc' = "idle"
    /\ UNCHANGED <<tables, columns, stamp, rows, temps, kills>>

-----------------------------------------------------------------------------
(* alembic upgrade head                                                    *)

StartUpgrade ==
    /\ pc = "idle"
    /\ pc' = "upgrade"
    /\ UNCHANGED <<tables, columns, stamp, rows, temps, kills>>

\* (mutated: a column that is missing is left to create_all)
MutAddColumn(r) ==
    /\ pc = "upgrade" /\ stamp = r - 1
    /\ r \notin columns
    /\ TableOf(r) \in tables
    /\ pc' = "stamp"
    /\ UNCHANGED <<tables, columns, stamp, rows, temps, kills>>

\* Revision r looks for its column and adds it ...
AddColumn(r) ==
    /\ pc = "upgrade" /\ stamp = r - 1
    /\ r \notin columns
    /\ TableOf(r) \in tables
    /\ columns' = columns \cup {r}
    /\ pc' = "stamp"
    /\ UNCHANGED <<tables, stamp, rows, temps, kills>>

\* (mutated: it is not looked for: "duplicate column name")
MutFindColumn(r) ==
    /\ pc = "upgrade" /\ stamp = r - 1
    /\ r \in columns
    /\ pc' = "idle"
    /\ UNCHANGED <<tables, columns, stamp, rows, temps, kills>>

\* ... unless it is there, because create_all has made it or an earlier upgrade
\* was cut off.
FindColumn(r) ==
    /\ pc = "upgrade" /\ stamp = r - 1
    /\ r \in columns
    /\ pc' = "stamp"
    /\ UNCHANGED <<tables, columns, stamp, rows, temps, kills>>

\* NoSuchTableError, where a downgrade from revision 1 was cut off
NoSuchTable(r) ==
    /\ pc = "upgrade" /\ stamp = r - 1
    /\ TableOf(r) \notin tables
    /\ pc' = "idle"
    /\ UNCHANGED <<tables, columns, stamp, rows, temps, kills>>

\* Revision 1 is done when create_all is.
EndCreate ==
    /\ pc = "upgrade" /\ stamp = 0
    /\ tables = Table
    /\ pc' = "stamp"
    /\ UNCHANGED <<tables, columns, stamp, rows, temps, kills>>

\* The revision is stamped, and the next one begins.
Stamp ==
    /\ pc = "stamp"
    /\ stamp' = stamp + 1
    /\ pc' = "upgrade"
    /\ UNCHANGED <<tables, columns, rows, temps, kills>>

EndUpgrade ==
    /\ pc = "upgrade" /\ stamp = Head
    /\ pc' = "idle"
    /\ UNCHANGED <<tables, columns, stamp, rows, temps, kills>>

-----------------------------------------------------------------------------
(* alembic downgrade -1                                                    *)

\* The table is to be made anew without the column, which is there as long as its
\* revision is stamped (StampTellsTheTruth).  The new one is there at once; if it is
\* left from a downgrade that was cut off, the downgrade fails here.
CreateTemp(r) ==
    /\ pc = "idle" /\ stamp = r
    /\ r \in columns
    /\ TableOf(r) \notin temps
    /\ temps' = temps \cup {TableOf(r)}
    /\ pc' = "copy"
    /\ UNCHANGED <<tables, columns, stamp, rows, kills>>

\* It is filled from the old one, which is dropped, and takes its name; the INSERT
\* has opened a transaction that ends with the stamp.
DropColumn(r) ==
    /\ pc = "copy" /\ stamp = r
    /\ columns' = columns \ {r}
    /\ rows' = rows \ DeletedWith(TableOf(r))
    /\ temps' = temps \ {TableOf(r)}
    /\ stamp' = r - 1
    /\ pc' = "idle"
    /\ UNCHANGED <<tables, kills>>

StartDropAll ==
    /\ pc = "idle" /\ stamp = 1
    /\ pc' = "downgrade"
    /\ UNCHANGED <<tables, columns, stamp, rows, temps, kills>>

\* drop_all, from the children up
DropTable ==
    /\ pc = "downgrade"
    /\ \E t \in tables :
          /\ Children(t) \cap tables = {}
          /\ tables' = tables \ {t}
          /\ columns' = {r \in columns : TableOf(r) # t}
          /\ rows' = rows \ {t}
    /\ UNCHANGED <<stamp, temps, pc, kills>>

EndDropAll ==
    /\ pc = "downgrade" /\ tables = {}
    /\ stamp' = 0
    /\ pc' = "idle"
    /\ UNCHANGED <<tables, columns, rows, temps, kills>>

-----------------------------------------------------------------------------
Command   == CreateTable \/ Work \/ NoSuchColumn
Upgrade   == \/ CreateTable \/ EndCreate \/ Stamp \/ EndUpgrade
             \/ \E r \in Added : AddColumn(r) \/ FindColumn(r) \/ NoSuchTable(r)
Downgrade ==
    \/ StartDropAll \/ DropTable \/ EndDropAll
    \/ \E r \in Added : CreateTemp(r) \/ DropColumn(r)

Next == StartCommand \/ Command \/ StartUpgrade \/ Upgrade \/ Downgrade \/ Kill

Spec == Init /\ [][Next]_vars

\* Processes go on.  The upgrade is run again and again (every job does), and
\* commands are.
FairSpec ==
    /\ Spec
    /\ WF_vars(Command \/ Upgrade \/ DropTable \/ EndDropAll \/ \E r \in Added : DropColumn(r))
    /\ SF_vars(StartUpgrade)
    /\ SF_vars(StartCommand)

-----------------------------------------------------------------------------
(* Properties                                                              *)

\* Every variable keeps its type; columns and rows are those of tables there are.
TypeOK ==
    /\ tables \subseteq Table
    /\ columns \subseteq {r \in Added : TableOf(r) \in tables}
    /\ stamp \in 0 .. Head
    /\ rows \subseteq tables
    /\ temps \subseteq Table
    /\ pc \in DOMAIN Needs \cup {"idle", "upgrade", "stamp", "copy", "downgrade"}
    /\ kills \in 0 .. MaxKills

\* A stamp can be relied on: wherever the database came from, whatever was cut off
\* and gone back over, a column is there as long as its revision is stamped, so
\* that an upgrade, which begins after the stamp, leaves none out.
StampTellsTheTruth == 2 .. stamp \subseteq columns

\* Neither an upgrade nor a downgrade that leaves the tables standing takes a row
\* away, although tables are dropped and made anew with foreign keys on them.
RowsKept == [][rows \subseteq rows' \/ pc = "downgrade"]_rows

\* After the last downgrade the database gets to Head, and commands no longer fail.
UpgradeReachesHead ==
    <>[][~Downgrade]_vars => <>[](stamp = Head /\ columns = Added)
=============================================================================
