------------------------------- MODULE MCWAL --------------------------------
(* WAL on small instances. *)
EXTENDS WAL

CONSTANTS Tx, Demotions, Losses

MCBudget == [tx |-> Tx, demote |-> Demotions, crash |-> Losses]
=============================================================================
