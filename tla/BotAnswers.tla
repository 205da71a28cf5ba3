----------------------------- MODULE BotAnswers -----------------------------
(***************************************************************************)
(* The bots' answers in games against any client: the engine asks what it  *)
(* can come to ask, and every bot that may be asked answers.               *)
(***************************************************************************)
EXTENDS Engine, Strategies

\* An attack asks its victim only what every strategy can answer: whichever
\* bot the victim is, its answer is accepted.
VictimsCanAnswer ==
  LET d == gs.decision
  IN  (d # NoDecision /\ d.player # gs.current) =>
        \A name \in Names :
          \A s \in ResolveAction(NewBot(name), d.player, Snapshot(gs, d.player)) :
            \A h \in Apply(gs, s.act) : ~h.err
=============================================================================
