----------------------------- MODULE MCJournal ------------------------------
(* Journal on small instances. *)
EXTENDS Journal

CONSTANTS Tx, Demotions, Losses

MCBudget == [tx |-> Tx, demote |-> Demotions, crash |-> Losses]
=============================================================================
