------------------------------ MODULE MCFetchRun ------------------------------
(***************************************************************************)
(* Four repositories for two worker threads, of the kinds GitHub answers   *)
(* for.                                                                    *)
(***************************************************************************)
EXTENDS FetchRun

MCRepo == 1 .. 4
MCKind == [r \in MCRepo |->
    CASE r = 1 -> "broken" [] r = 2 -> "readme" [] r = 3 -> "absent" [] r = 4 -> "readme"]
=============================================================================
