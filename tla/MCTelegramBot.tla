---------------------------- MODULE MCTelegramBot -----------------------------
(***************************************************************************)
(* TelegramBot with every order of prompts and commands.                   *)
(***************************************************************************)
EXTENDS TelegramBot, TLC
=============================================================================
