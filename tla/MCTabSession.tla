----------------------------- MODULE MCTabSession -----------------------------
(***************************************************************************)
(* Instance: commands to the page while the tab is removed or the          *)
(* connection is lost; two route RPCs and a removal; observation of two    *)
(* kinds that share a domain, with a removal and a loss, or with events.   *)
(***************************************************************************)
EXTENDS TabSession

MCKinds == {"console", "errors"}
MCScenarios ==
    {{"page", "removal", "loss"}, {"routes", "removal"}, {"observation", "removal", "loss"},
     {"observation", "events"}}
=============================================================================
