--------------------------- MODULE MCTabLifecycle ---------------------------
(***************************************************************************)
(* Instances of TabLifecycle: target ids of one digit never collide; those *)
(* of two digits collide when their last digits agree.                     *)
(***************************************************************************)
EXTENDS TabLifecycle

MCDigits == {0, 1}
MCClients == {"client"}
MCNew == {"new"}
MCNoList == {"new", "select", "use", "close"}
MCNoSelect == {"new", "list", "use", "close"}

\* One tab, which the user or tab_new opens.
MCOneTarget == {<<0>>}
MCNoTargets == {}

\* One tab of the daemon and one of the user, with different short ids.
MCTargets == {<<0>>, <<1>>}
MCNewTargets == {<<0>>}
MCUserTargets == {<<1>>}

\* One tab of the daemon and one of the user whose shortest short ids collide.
MCColliding == {<<0, 0>>, <<1, 0>>}
MCNewColliding == {<<0, 0>>}
MCUserColliding == {<<1, 0>>}
=============================================================================
