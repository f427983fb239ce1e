-------------------------- MODULE MCWorkspaceStore --------------------------
(***************************************************************************)
(* WorkspaceStore for TLC.                                                 *)
(***************************************************************************)
EXTENDS WorkspaceStore

\* Every request, saves that end halfway at every step, daemons that come back.
EveryOp == OpNames \ {"overlap"}

\* What clients report: tabs past their limit with one of them twice, the last
\* active, or tabs at the limit.
MCLayouts ==
    [tabs : {<<p, e, p>> : p \in Terminals, e \in Paths}, active : {2}, folders : Roots] \cup
    [tabs : {<<p, e>> : p \in Terminals, e \in Paths}, active : {0}, folders : Roots]
=============================================================================
