------------------------------ MODULE MCTabLock ------------------------------
(***************************************************************************)
(* Three goroutines on two short ids.  Three entry identities are enough:  *)
(* a new entry is created only for a short id that has none, by an idle    *)
(* goroutine, so at most two are in the map or in use by the others then.  *)
(***************************************************************************)
EXTENDS TabLock
=============================================================================
