----------------------------- MODULE MCGovernor -----------------------------
(***************************************************************************)
(* A small instance of Governor: two jobs that carry one key, one that     *)
(* carries another and one that carries none.                              *)
(***************************************************************************)
EXTENDS Governor, TLC

CONSTANTS first, retry, apart, blank

MCJobs == {first, retry, apart, blank}

MCKeys == {"deploy", "draft"}

MCKeyOf ==
  first :> "deploy" @@ retry :> "deploy" @@ apart :> "draft" @@ blank :> NoKey

MCAuthorities == {"Modify", "Draft"}

MCRequired ==
  first :> "Modify" @@ retry :> "Modify" @@ apart :> "Draft" @@ blank :> "Draft"

MCResults == {"one", "two"}
=============================================================================
