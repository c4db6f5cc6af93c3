---------------------------- MODULE MCDiscoverRun ----------------------------
(***************************************************************************)
(* Three organisations: one with two pages, which takes archived           *)
(* repositories and ones without a star in spite of the defaults; one with *)
(* a page, which refuses forks in spite of them; one that there is not.    *)
(***************************************************************************)
EXTENDS DiscoverRun

plain    == [stars |-> 1, archived |-> FALSE, fork |-> FALSE]
archived == [stars |-> 0, archived |-> TRUE,  fork |-> FALSE]
forked   == [stars |-> 1, archived |-> FALSE, fork |-> TRUE]

MCVersions == {plain, archived, forked}

MCOrg   == 1 .. 3
MCRepo  == 1 .. 3
MCOrgOf == [r \in MCRepo |-> IF r = 3 THEN 2 ELSE 1]

MCDefaults == [min_stars |-> 1, include_forks |-> TRUE, include_archived |-> FALSE]
MCRules == [o \in MCOrg |->
    [min_stars        |-> IF o = 1 THEN 0 ELSE Unset,
     include_forks    |-> IF o = 2 THEN FALSE ELSE Unset,
     include_archived |-> IF o = 1 THEN TRUE ELSE Unset]]

MCAtGitHub == [r \in MCRepo |-> IF r = 2 THEN archived ELSE plain]
=============================================================================
