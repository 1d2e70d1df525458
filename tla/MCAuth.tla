------------------------------- MODULE MCAuth -------------------------------
(***************************************************************************)
(* Auth with two requests at a time.                                       *)
(***************************************************************************)
EXTENDS Auth, TLC

CONSTANTS h1, h2, g1, g2, e1, e2

TwoHandlers == {h1, h2}
TwoSlugs == {g1, g2}
TwoEmails == {e1, e2}
=============================================================================
