-------------------------------- MODULE Pipes --------------------------------
(***************************************************************************)
(* The two places where the program asks a child over a pipe and reads its *)
(* answers line by line: the connector's client, whose lines carry ids     *)
(* (NxClient), and the jobs over the tenants, whose lines carry none       *)
(* (TenantRuns).  They run in different processes and share no state.      *)
(***************************************************************************)
EXTENDS NxClient, TenantRuns

\* Whoever asks over a pipe takes no answer to another question for its own, whatever hangs,
\* dies or comes too late, and leaves no child behind (_mcp_roundtrip, ContainerTransport).
AnswersAreMine == OwnAnswersOnly /\ TenantRunIsWhole
=============================================================================
