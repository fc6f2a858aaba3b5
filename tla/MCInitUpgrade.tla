---------------------------- MODULE MCInitUpgrade ----------------------------
(***************************************************************************)
(* Projects for orc init and orc init upgrade: an agent, a runtime and two *)
(* workflows, whose paths lie on both sides of the manifest's.             *)
(***************************************************************************)
EXTENDS InitUpgrade

CONSTANTS planner, codex, bugfix, review

MCManaged == {planner, codex, bugfix, review}
MCPathOrder == <<Gitignore, planner, Config, codex, Lock, bugfix, review, Instructions>>
MCInitOrder == <<Config, bugfix, review, codex, planner, Lock, Gitignore, Instructions>>

MCScaffold(config, base) ==
    [p \in Paths |->
        CASE p = Config -> config
          [] p = Lock -> LockOf([m \in Managed |-> 1])
          [] p = Gitignore -> [text |-> 1, runs |-> TRUE, broad |-> FALSE]
          [] p = Instructions -> [text |-> 1, section |-> TRUE]
          [] p \in Managed -> Scaffold(base)]

NoProject == [p \in Paths |-> Absent]
Fresh == MCScaffold(NewConfig, 1)

\* Set up before there was a setup version: no manifest, one workflow.
Legacy ==
    [MCScaffold([EmptyConfig EXCEPT !.text = 1, !.caps = "max", !.refs = {planner, bugfix}], 1)
        EXCEPT ![Lock] = Absent, ![codex] = Absent, ![review] = Absent,
               ![Gitignore] = [text |-> 1, runs |-> FALSE, broad |-> FALSE],
               ![Instructions] = Absent]

\* The manifest is there, codex has been customized, and a workflow of the
\* next release is missing.
Partial == [Fresh EXCEPT ![bugfix] = Absent, ![codex].text = 1, ![Lock] =
                LockOf([m \in Managed |-> IF m = bugfix THEN 0 ELSE 1])]

\* codex is configured elsewhere, and .gitignore hides all of .orc.
Elsewhere ==
    [MCScaffold([NewConfig EXCEPT !.text = 1, !.setup = 0, !.refs = {planner, review},
                                  !.elsewhere = {codex}], 1)
        EXCEPT ![codex] = Absent, ![bugfix] = Absent,
               ![Gitignore] = [text |-> 1, runs |-> FALSE, broad |-> TRUE]]

Unclear == [Fresh EXCEPT ![Config].caps = "both", ![Config].text = 1, ![review] = Absent]
Broken == [Fresh EXCEPT ![Config].caps = "unparsable", ![Config].text = 1, ![Lock].text = 1]

MCProjects == {NoProject, Fresh, Legacy, Partial, Elsewhere, Unclear, Broken}
=============================================================================
