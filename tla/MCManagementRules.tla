-------------------------- MODULE MCManagementRules --------------------------
(* A small instance of ManagementRules for TLC. *)
EXTENDS ManagementRules, TLC

CONSTANTS trail, lock, flawed, limit, target, naive

\* flawed is a profit lock whose floor is what arms it; naive is a time without a zone.
MCParameters ==
    trail :> [type |-> "TRAILING_SL", trail |-> 50, activate |-> 3]
    @@ lock :> [type |-> "PROFIT_LOCK", activate |-> 2, floor |-> 1]
    @@ flawed :> [type |-> "PROFIT_LOCK", activate |-> 2, floor |-> 2]
    @@ limit :> [type |-> "HORIZON"]
    @@ target :> [type |-> "CONDITION", metric |-> "premium", operator |-> "AT_OR_ABOVE",
                  value |-> 6]
    @@ naive :> [type |-> "TIME_EXIT", at |-> Incomparable]

MCQuantities == {-1, 0, 1}

Facts(t, premium, pnl) == [at |-> t, premium |-> premium, spot |-> Unknown, pnl |-> pnl]

\* The premium climbs, falls to the stop or is missing; the P&L arms, holds or hits the lock.
MCSnapshots ==
    {Facts(0, Unknown, 2), Facts(0, 1, 1), Facts(0, 3, 2), Facts(1, 6, -1)}
==============================================================================
