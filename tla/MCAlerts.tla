-------------------------------- MODULE MCAlerts -------------------------------
(* Values for model checking Alerts. *)
EXTENDS Alerts

CONSTANTS a, c1

================================================================================
