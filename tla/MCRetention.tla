------------------------------ MODULE MCRetention ------------------------------
(* Instances of Retention for TLC: months of two days. *)
EXTENDS Retention

TwoDayMonth == [t \in Times |-> t \div 2]
FirstMonths == 0..12
TwoDayEnd == [m \in FirstMonths |-> 2 * m + 2]
=============================================================================
