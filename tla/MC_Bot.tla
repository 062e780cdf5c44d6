-------------------------------- MODULE MC_Bot --------------------------------
(***************************************************************************)
(* Bot for TLC: one main loop and a few messages.                          *)
(***************************************************************************)
EXTENDS Bot, TLC

Say(phrases) == [op |-> "message", intent |-> "nil", text |-> phrases]

\* An order, a question, a wish to stop, a text nobody's lists know.
BotRequests == {Say({"fix"}), Say({"why"}), Say({"stop"}), Say({})}
Orders      == {Say({"fix"})}
OrderOrStop == {Say({"fix"}), Say({"stop"})}
=============================================================================
