------------------------------ MODULE MCAdvance ------------------------------
(***************************************************************************)
(* The workflows of MCLauncher, what their live files are edited to, and   *)
(* what advance makes of their pairs.                                      *)
(***************************************************************************)
EXTENDS Advance, MCLauncher

MCBlockedPairs == {MCBlocked}
MCFailedPairs == Systems

\* The shared counter is split, code no longer knows done/ready, and a review
\* that asks for changes is done again.
SplitWorkflow ==
    [Common EXCEPT !.on[code] = [MCOn[code] EXCEPT ![MCReady] = NoTarget],
                   !.on[review] = [MCOn[review] EXCEPT ![MCChanges] = review]]

LiveSplit == {SplitWorkflow}

LoopWorkflows == {LoopWorkflow}
=============================================================================
