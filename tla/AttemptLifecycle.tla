--------------------------- MODULE AttemptLifecycle ---------------------------
(***************************************************************************)
(* What a run promises about its attempts, without saying how: at most one *)
(* is live and it is the latest; it ends once; its outcome is routed at    *)
(* most once, before or together with the start of the next one; and what  *)
(* has been routed, or passed over, stays so.                              *)
(***************************************************************************)
EXTENDS Naturals, Sequences

VARIABLE phases     \* the phase of every attempt of the run, in start order

Phases == {"live", "ended", "routed"}

Idle == phases = <<>> \/ phases[Len(phases)] # "live"

Init == phases = <<>>

\* A start may leave the outcome before it unrouted: after a human resolved
\* the block it caused, or when it was a worker's own report.
Start ==
    /\ Idle
    /\ phases' = Append(phases, "live")

RouteAndStart ==
    /\ phases # <<>>
    /\ phases[Len(phases)] = "ended"
    /\ phases' = Append([phases EXCEPT ![Len(phases)] = "routed"], "live")

End ==
    /\ phases # <<>>
    /\ phases[Len(phases)] = "live"
    /\ phases' = [phases EXCEPT ![Len(phases)] = "ended"]

\* A human skips the step the outcome selected.
Route ==
    /\ phases # <<>>
    /\ phases[Len(phases)] = "ended"
    /\ phases' = [phases EXCEPT ![Len(phases)] = "routed"]

Next == Start \/ RouteAndStart \/ End \/ Route

Spec == Init /\ [][Next]_phases
=============================================================================
