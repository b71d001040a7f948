--------------------------- MODULE SharedManifest ---------------------------
(***************************************************************************)
(* What the roots that share one backend manifest are promised: publications *)
(* and withdrawals are atomic, a withdrawal undoes one publication of its    *)
(* root and nothing of another's, and what has been promised stays.          *)
(***************************************************************************)
CONSTANTS
  Roots,
  None    \* nobody

VARIABLES
  manifest,  \* whose entries it has, and who published last
  promised   \* roots that were told their entries are final

vars == <<manifest, promised>>

Manifest == [entries : SUBSET Roots, policy : Roots \union {None}]

Init ==
  /\ manifest = [entries |-> {}, policy |-> None]
  /\ promised = {}

\* The manifest m with a publication of r.
Published(r, m) == [entries |-> m.entries \union {r}, policy |-> r]

Publish(r) ==
  /\ manifest' = Published(r, manifest)
  /\ UNCHANGED promised

\* Back to a content that r's publication turns into the present one.
Withdraw(r) ==
  \E m \in Manifest :
    /\ Published(r, m) = manifest
    /\ promised \subseteq m.entries
    /\ manifest' = m
    /\ UNCHANGED promised

Promise(r) ==
  /\ r \in manifest.entries
  /\ promised' = promised \union {r}
  /\ UNCHANGED manifest

Next == \E r \in Roots : Publish(r) \/ Withdraw(r) \/ Promise(r)

Spec == Init /\ [][Next]_vars

\* Entries that were promised are there.
PromisesKept == promised \subseteq manifest.entries

\* A step takes the entries of one root away at most, and that root is the one
\* that published last.
OnlyOwnWithdrawn ==
  [][ manifest.entries \ manifest'.entries \subseteq {manifest.policy} ]_vars
=============================================================================
