----------------------------- MODULE MCChangeRisk ------------------------------
(***************************************************************************)
(* A change that resembles the seeded incident and one that resembles none;  *)
(* one incident on the service both are for.                               *)
(***************************************************************************)
EXTENDS ChangeRisk

Change(title, diff, freeze) ==
  [service |-> "orders-service", serviceTokens |-> {"orders", "service"},
   title |-> title, diff |-> diff, peakWindow |-> TRUE, freeze |-> freeze]

PoolChange == Change({"raise", "pool", "250"}, {"pool", "250"}, FALSE)
CopyChange == Change({"copy"}, {"text"}, FALSE)
FrozenChange == Change({"pool"}, {}, TRUE)

MCChanges == {PoolChange, CopyChange, FrozenChange}
MCIncidents == {[tokens |-> {"pool", "oom", "orders", "service"},
                 service |-> "orders-service"]}
=============================================================================
