------------------------ MODULE MC_TelegramAccounts -------------------------
(* Instances of TelegramAccounts for TLC. *)
EXTENDS TelegramAccounts, TLC
=============================================================================
