------------------------------ MODULE MCRunFiles ------------------------------
(***************************************************************************)
(* One run, and a start that pins the configuration and writes one of its  *)
(* three artifacts, which differ in nothing but their paths.               *)
(***************************************************************************)
EXTENDS RunFiles

MCStartSteps == <<"config", "context">>
=============================================================================
