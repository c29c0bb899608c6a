------------------------------- MODULE MCIngest -------------------------------
(***************************************************************************)
(* Instances of Ingest for TLC.                                            *)
(***************************************************************************)
EXTENDS Ingest, TLC

CONSTANTS a1, a2, ip1, NoSource, r1, o1

Alert(id, srcip, second, occurrence) ==
  [id |-> id, srcip |-> srcip, rule |-> r1, second |-> second,
   occurrence |-> occurrence]

\* One failure, reported from auth.log and from journald.
TwinAlerts == {Alert(a1, ip1, 0, o1), Alert(a2, ip1, 0, o1)}

OneOfTwins == {Alert(a1, ip1, 0, o1)}

\* One alert only.
SingleAlert == {Alert(a1, ip1, 0, o1)}

KeysOfAlerts == {KeyOf(a) : a \in Alerts}
=============================================================================
