---------------------------- MODULE TurnProtocol ----------------------------
(***************************************************************************)
(* What one game promises to its two clients, with every card left out:    *)
(* whose turn it is, in which phase, and who owes an answer.  Engine       *)
(* implements this protocol.                                               *)
(***************************************************************************)
EXTENDS Naturals

CONSTANTS
  Player,    \* the two players
  Nobody,    \* no player: nobody owes an answer
  Other(_)   \* the player who has the next turn

VARIABLES
  current,   \* the player whose turn it is
  starting,  \* the player who had the first turn
  phase,     \* "action" or "buy"
  turn,      \* the round, counted by the starting player's turns
  asked,     \* the player who owes an answer, or Nobody
  question,  \* how many questions have been asked: the ID of the last one
  ended

vars == <<current, starting, phase, turn, asked, question, ended>>
turnVars == <<current, starting, phase, turn, ended>>

Init ==
  /\ current \in Player /\ starting = current
  /\ phase = "action" /\ turn = 1 /\ ended = FALSE
  /\ asked = Nobody /\ question = 0

\* The current player plays a card that asks somebody something.  Only action
\* cards ask, so never in the Buy phase.
Ask ==
  /\ ~ended /\ asked = Nobody /\ phase = "action"
  /\ asked' \in Player /\ question' = question + 1
  /\ UNCHANGED turnVars

\* The answer to the one question that is open may raise the next one.
Answer ==
  /\ ~ended /\ asked # Nobody
  /\ \/ asked' = Nobody /\ question' = question
     \/ asked' \in Player /\ question' = question + 1
  /\ UNCHANGED turnVars

EndActions ==
  /\ ~ended /\ asked = Nobody /\ phase = "action"
  /\ phase' = "buy"
  /\ UNCHANGED <<current, starting, turn, asked, question, ended>>

\* The turn passes to the other player with nothing left open.
EndTurn ==
  /\ ~ended /\ asked = Nobody /\ phase = "buy"
  /\ current' = Other(current) /\ phase' = "action"
  /\ turn' = IF current' = starting THEN turn + 1 ELSE turn
  /\ ended' \in BOOLEAN
  /\ UNCHANGED <<starting, asked, question>>

Next == Ask \/ Answer \/ EndActions \/ EndTurn

Spec == Init /\ [][Next]_vars
=============================================================================
