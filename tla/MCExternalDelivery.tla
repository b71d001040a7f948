-------------------------- MODULE MCExternalDelivery --------------------------
(***************************************************************************)
(* Two roots with the same asset name, in the combinations of provider      *)
(* options a reviewer would choose between.  In the pair that replaces and  *)
(* sends, a delivery on record may be made again.                           *)
(***************************************************************************)
EXTENDS ExternalDelivery, TLC

CONSTANTS a, b

GitHub(reuse, allow, approved, expected) ==
  [begins |-> "create", reuse |-> reuse, check |-> TRUE, allow |-> allow,
   approved |-> approved, repeat |-> FALSE, expected |-> expected]

Webhook ==
  [begins |-> "send", reuse |-> FALSE, check |-> FALSE, allow |-> FALSE,
   approved |-> FALSE, repeat |-> TRUE, expected |-> None]

Unchecked == [GitHub(TRUE, FALSE, FALSE, None) EXCEPT !.check = FALSE]

Default == GitHub(FALSE, FALSE, FALSE, None)
Replaces == [GitHub(TRUE, FALSE, TRUE, None) EXCEPT !.repeat = TRUE]
ReplacesFirst == GitHub(TRUE, FALSE, TRUE, 1)
Allows == GitHub(TRUE, TRUE, FALSE, None)

Pair(x, y) == (a :> x) @@ (b :> y)
MCConfigs ==
  {Pair(Default, Unchecked), Pair(ReplacesFirst, Allows), Pair(Replaces, Webhook)}
=============================================================================
