------------------------- MODULE MCRecurringCommands -------------------------
(***************************************************************************)
(* One command that is always run, and up to two added on the fly.         *)
(***************************************************************************)
EXTENDS RecurringCommands

PreConfigured == <<"date">>
=============================================================================
