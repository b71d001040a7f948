------------------------------ MODULE LeaseLock ------------------------------
(***************************************************************************)
(* What a delivery lock provider promises its callers, with every call      *)
(* atomic: one lock record with an owner, a fencing token and a lease.      *)
(* While the record lives its token grows by one per write, its lease ends  *)
(* no earlier than the clock allows, and only its owner writes it until the *)
(* lease has ended.  The providers are checked to implement this.           *)
(***************************************************************************)
EXTENDS Naturals

CONSTANTS Owners, LeaseSeconds, NoLock

VARIABLES lock, clock

vars == <<lock, clock>>

Lock == [owner : Owners, token : Nat, expires : Nat]

\* A lease is counted from the start of the call, which may lie in the past.
LeaseEnds == 0 .. (clock + LeaseSeconds)

Init ==
  /\ lock = NoLock
  /\ clock = 0

\* A new record is created where there is none.
Grant(o) ==
  /\ lock = NoLock
  /\ \E e \in LeaseEnds : lock' = [owner |-> o, token |-> 1, expires |-> e]
  /\ UNCHANGED clock

\* The owner renews, or acquires again: same owner, next token.
Extend ==
  /\ lock # NoLock
  /\ \E e \in LeaseEnds :
       lock' = [owner |-> lock.owner, token |-> lock.token + 1, expires |-> e]
  /\ UNCHANGED clock

\* Another owner replaces a record only after its lease has ended.
TakeOver(o) ==
  /\ lock # NoLock
  /\ lock.expires <= clock
  /\ \E e \in LeaseEnds :
       lock' = [owner |-> o, token |-> lock.token + 1, expires |-> e]
  /\ UNCHANGED clock

Release ==
  /\ lock # NoLock
  /\ lock' = NoLock
  /\ UNCHANGED clock

\* Time passes; a record whose lease has ended may vanish (Redis EX).
Tick ==
  /\ clock' = clock + 1
  /\ \/ UNCHANGED lock
     \/ /\ lock # NoLock
        /\ lock.expires <= clock'
        /\ lock' = NoLock

Next ==
  \/ \E o \in Owners : Grant(o) \/ TakeOver(o)
  \/ Extend
  \/ Release
  \/ Tick

Spec == Init /\ [][Next]_vars
=============================================================================
