------------------------------ MODULE MCCampaign ------------------------------
(* An instance of Campaign: both suites with Pi, or one of them, which the   *)
(* code handles on a path of its own.                                        *)
EXTENDS Campaign

CONSTANTS greenfield_pi, evolution_pi

MCOrders == {<<greenfield_pi, evolution_pi>>, <<evolution_pi>>}
TwoSpeeds == {10, 20}
=============================================================================
