-------------------------- MODULE MCIntegrityGuard --------------------------
(* The integrity guard over a book of three orders.                         *)
EXTENDS IntegrityGuard

Report(incoming, traded, rested) ==
  [check_conservation |-> TRUE, incoming_qty |-> incoming, traded_qty |-> traded,
   rested_qty |-> rested]

(* No report, an exact one, one that loses or makes up a unit, and one      *)
(* whose sum wraps to the incoming quantity.                                *)
MCOutcomes ==
  {no_conservation, Report(2, 1, 1), Report(2, 1, 0), Report(1, 1, 1),
   Report(0, 3, 1)}

=============================================================================
