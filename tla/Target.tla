-------------------------------- MODULE Target --------------------------------
(***************************************************************************)
(* What the daemon's parts that serve one target share: the target in      *)
(* Chrome and the CDP connection of the Session (external).                *)
(***************************************************************************)
VARIABLES
    live,   \* Chrome has the target
    lost    \* the connection is gone and the Session's context cancelled

targetVars == <<live, lost>>

\* CDP commands to the target can succeed.
Reachable == live /\ ~lost

\* The user closes the tab, or Target.closeTarget does.
Vanish ==
    /\ live
    /\ live' = FALSE
    /\ UNCHANGED lost

\* The connection breaks, which cancels every context of the Session.
Lose ==
    /\ ~lost
    /\ lost' = TRUE
    /\ UNCHANGED live

TargetInit == live = TRUE /\ lost = FALSE
TargetTypeOK == live \in BOOLEAN /\ lost \in BOOLEAN
=============================================================================
