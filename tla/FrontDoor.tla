------------------------------ MODULE FrontDoor ------------------------------
(***************************************************************************)
(* What a request passes before the store works for it: the gates of the   *)
(* API (Access) and, behind them, the guards of the server's start and the *)
(* checks of a connection (Serving).  The two share no state: a gate is a  *)
(* function of the deployment and of what the request shows, a check looks *)
(* at the database only.                                                   *)
(***************************************************************************)
EXTENDS Access, Serving

\* A request is served as what it has proven to be (Access), and nothing is served that was
\* not verified (Serving): a gate that forgets to ask, or a check that was made too long ago,
\* for something else or not at all, would serve it all the same.
ServedAsProven == CallersAreProven /\ ServedAsVerified
=============================================================================
