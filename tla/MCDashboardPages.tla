-------------------------- MODULE MCDashboardPages --------------------------
(* Two of everything the pages can be switched between, but for the token.  *)
EXTENDS DashboardPages

\* The feed has no boxes, and opening its transaction takes clicks of its own.
Clicks == [analytics |-> 4, addresses |-> 4, feed |-> 6]
=============================================================================
