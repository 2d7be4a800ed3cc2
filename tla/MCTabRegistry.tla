---------------------------- MODULE MCTabRegistry ----------------------------
(***************************************************************************)
(* Five targets with four-digit ids and short ids of two digits or more:   *)
(* three share their last two digits, two of these their last three, so    *)
(* that short ids of every length occur; the other two collide as well.    *)
(***************************************************************************)
EXTENDS TabRegistry

MCDigits == 0..1
MCTargets == {<<0, 0, 0, 1>>, <<1, 0, 0, 1>>, <<0, 1, 0, 1>>,
              <<0, 1, 1, 0>>, <<1, 0, 1, 0>>}
=============================================================================
