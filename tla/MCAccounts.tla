----------------------------- MODULE MCAccounts -----------------------------
(* Accounts with two addresses and two connects at once.  Neither the      *)
(* addresses nor the connects differ in anything but their names.          *)
EXTENDS Accounts, TLC

CONSTANTS work, home, button, preferences

MCAccount  == {work, home}
MCFlow     == {button, preferences}
MCSymmetry == Permutations(MCAccount) \cup Permutations(MCFlow)
=============================================================================
