----------------------------- MODULE MCDelivery -----------------------------
(***************************************************************************)
(* The executor on small profiles: two roots that share one backend         *)
(* manifest without external delivery, one root with everything, and the    *)
(* profiles of the violation runs.                                          *)
(***************************************************************************)
EXTENDS DeliveryTransaction, TLC

TwoRoots(inFlight, n) ==
  [roots |-> Roots, external |-> {FALSE}, allow |-> {FALSE}, overwrite |-> {TRUE},
   inFlight |-> inFlight, deliveries |-> n]

OneRoot(external, allow, overwrite, n) ==
  {[roots |-> {r}, external |-> external, allow |-> allow, overwrite |-> overwrite,
    inFlight |-> 1, deliveries |-> n] : r \in Roots}

MCProfiles == {TwoRoots(1, 3)} \union OneRoot(BOOLEAN, BOOLEAN, BOOLEAN, 3)
MCDuplicate == OneRoot(BOOLEAN, {FALSE}, {TRUE}, 4)
MCCommitCrash == OneRoot({FALSE}, {FALSE}, {FALSE}, 1)
MCRace == {TwoRoots(2, 2)}

MCSymmetry == Permutations(Roots)
=============================================================================
