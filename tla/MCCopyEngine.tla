---------------------------- MODULE MCCopyEngine ----------------------------
(* Small instances of CopyEngine.                                          *)
EXTENDS CopyEngine, TLC

CONSTANTS eur, gold   \* symbol names

MCSymbols == {eur, gold}

(* Ticket 1 trades eur, ticket 2 gold, opened in minute 1.                 *)
MCSymbolOf == [t \in Tickets |-> IF t = 1 THEN eur ELSE gold]
MCOpenTime == [t \in Tickets |-> IF t = 1 THEN 1 ELSE 0]
MCInfoOf == [sym \in MCSymbols |->
               [volume_step |-> 1, volume_min |-> 1, volume_max |-> 50]]

Cfg(age, map) ==
  [sizing_mode |-> "copy_master", step_amount |-> 0, step_size |-> 0,
   master_base_lot |-> 0, fixed_lot |-> 0, max_lot |-> 10,
   max_trade_age_minutes |-> age, symbol_map |-> map]

(* eur by its own name if the slave has it, or mapped to gold's name.      *)
SameName == [sym \in MCSymbols |-> None]
Crossed  == (eur :> gold) @@ (gold :> gold)
Explicit == [sym \in MCSymbols |-> sym]

(* One configuration; two that differ in the map and in a lot size of 0.   *)
MCOneConfig  == {Cfg(1, Explicit)}
MCTwoConfigs == {Cfg(1, Explicit), Cfg(1, Crossed)}
MCThreeConfigs ==
  {Cfg(1, Explicit), Cfg(1, SameName), [Cfg(1, Crossed) EXCEPT !.max_lot = 0]}
=============================================================================
