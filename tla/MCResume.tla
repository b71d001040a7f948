------------------------------- MODULE MCResume -------------------------------
(***************************************************************************)
(* The reviewed tools on one root: the scheduler beside another root of the *)
(* same backend manifest, every tool of one worker, and the runner of one   *)
(* worker beside the runner and the rollback workflow of another.           *)
(***************************************************************************)
EXTENDS ResumeWorkflow, TLC

CONSTANTS w1, w2

OneByOne(roots, n) ==
  [roots |-> roots, external |-> {FALSE}, allow |-> {FALSE}, overwrite |-> {FALSE},
   inFlight |-> 1, deliveries |-> n]

TwoRoots == OneByOne(Roots, 2)
OneRoot == OneByOne({Root}, 1)
TwoWorkers == [OneRoot EXCEPT !.inFlight = 2]
MCProfiles == {TwoRoots, OneRoot, TwoWorkers}

Team(first, second) == (w1 :> first) @@ (w2 :> second)
MCTools ==
  (TwoRoots :> Team({"workflow"}, {}))
    @@ (OneRoot :> Team(AllTools, {}))
    @@ (TwoWorkers :> Team({"runner", "rollback"}, {"runner"}))

MCStepLists ==
  {<<>>, <<"acquire", "preflight", "recover", "release">>,
   <<"preflight", "commit">>, <<"preflight", "recover">>}
MCGrants == {{"acquire", "preflight"}, StepActions}

MCRaceProfiles == {OneByOne({Root}, 0)}
MCRaceTools == [p \in MCRaceProfiles |-> Team({"workflow"}, {"workflow"})]
MCRaceStepLists == {<<"acquire">>, <<"acquire", "release">>}
=============================================================================
