------------------------------- MODULE TradeCycle -------------------------------
(***************************************************************************)
(* What the strategy loop promises about its trades, whatever requests     *)
(* fail, whenever it is stopped and restarted, and whatever the exchange   *)
(* does meanwhile: a new trade begins only without exposure, a trade is    *)
(* never turned around, and an exit belongs to a position.                 *)
(* ExecutorLoop and TradePrices implement this specification.              *)
(***************************************************************************)

VARIABLES
  phase,     \* what the loop believes: flat, entering, holding, exiting
  exposure   \* what the exchange holds: none, long, short

Exposures == {"none", "long", "short"}

Init == phase = "flat" /\ exposure = "none"

\* Fills change the exposure by way of "none": it is never reversed.
Exchange ==
  /\ exposure' \in Exposures
  /\ exposure = "none" \/ exposure' \in {exposure, "none"}
  /\ UNCHANGED phase

\* An entry is submitted only when the exchange holds nothing.
Enter ==
  /\ phase = "flat" /\ exposure = "none"
  /\ phase' = "entering"
  /\ UNCHANGED exposure

EntryEnds ==
  /\ phase = "entering"
  /\ phase' \in {"flat", "holding"}
  /\ UNCHANGED exposure

\* A position found at the exchange is taken over, at a restart with its exit.
TakeOver ==
  /\ phase = "flat"
  /\ phase' \in {"holding", "exiting"}
  /\ UNCHANGED exposure

\* A market exit reduces the exposure in the same step.
Exit ==
  /\ phase = "holding"
  /\ phase' = "exiting"
  /\ exposure' \in {exposure, "none"}

\* The exit was not filled, or it was and the position is closed.
ExitEnds ==
  /\ phase = "exiting"
  /\ phase' \in {"holding", "flat"}
  /\ UNCHANGED exposure

\* The exchange turns out to hold nothing.
CloseBySync ==
  /\ phase = "holding"
  /\ phase' = "flat"
  /\ UNCHANGED exposure

\* The loop ends; a market exit under way may still be carried out.
Stop ==
  /\ phase' = "flat"
  /\ exposure' \in {exposure, "none"}

Next == Exchange \/ Enter \/ EntryEnds \/ TakeOver \/ Exit \/ ExitEnds
          \/ CloseBySync \/ Stop

Spec == Init /\ [][Next]_<<phase, exposure>>
=============================================================================
