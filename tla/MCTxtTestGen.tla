----------------------------- MODULE MCTxtTestGen -----------------------------
(* Two pool threads, the smallest pool in which two send handlers run at  *)
(* once, and two timer expiries, so that three sends can be posted.       *)
EXTENDS TxtTestGen

MCPoolSize == 2
MCMaxTicks == 2

=============================================================================
