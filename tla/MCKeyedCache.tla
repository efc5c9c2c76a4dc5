---------------------------- MODULE MCKeyedCache ----------------------------
(* Two exchange quotes of one exchange, whose factories both resolve the   *)
(* exchange's currency list first; the list can also be asked for directly.*)
EXTENDS KeyedCache, TLC
CONSTANTS sell, buy, currencies

MCKeys == {sell, buy, currencies}
MCNested == (sell :> currencies) @@ (buy :> currencies) @@ (currencies :> NoKey)
=============================================================================
