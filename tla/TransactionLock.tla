---------------------------- MODULE TransactionLock ----------------------------
(***************************************************************************)
(* The executor's own lock on a delivery root, delivery-transaction-lock    *)
(* .json (delivery/executors.py, require_transaction_lock): the check that  *)
(* every apply makes before its side effects, the record it writes then and *)
(* again at its end, and the reviewed release, the only operation that      *)
(* takes the record away.  The lock stays when the call is over, until it   *)
(* is released: it keeps the root for its owner, or for whoever presents    *)
(* its resume token, from one call to the next.                             *)
(*                                                                         *)
(* _write_json truncates the file and fills it, so a crash may leave it     *)
(* torn.  One transaction id uses the root; the side effects themselves are *)
(* DeliveryTransaction, and the fence on a provider's token, which the same *)
(* check applies when the caller gives one, is in RedisLockProvider.  A     *)
(* call whose plan has errors writes no lock and delivers nothing, and is   *)
(* left out like the dry runs.                                              *)
(***************************************************************************)
EXTENDS Naturals, FiniteSets

CONSTANTS
  Callers,       \* processes that call execute on the root
  Owners,        \* transaction_lock_owner values
  OwnerOf,       \* the owner each caller acts for
  LeaseSeconds,  \* transaction_lock_lease_seconds
  MaxClock,      \* bound of the clock
  MaxInFlight,   \* bound of the calls in flight at once
  MaxCrashes,    \* bound of the crashes
  None,          \* no file, no value
  Torn           \* a file that was truncated and not filled

\* A resume token is a digest of who acquired the lock and when.
Token == [owner : Owners, at : 0 .. MaxClock]
LockRecord == [owner : Owners, token : Token, expires : Nat]

ASSUME LockAssumption ==
  /\ OwnerOf \in [Callers -> Owners]
  /\ LeaseSeconds \in Nat \ {0}
  /\ MaxClock \in Nat /\ MaxInFlight \in Nat /\ MaxCrashes \in Nat
  /\ None \notin LockRecord \union Token \union Owners
  /\ Torn \notin LockRecord \union {None}

VARIABLES
  lock,     \* delivery-transaction-lock.json
  clock,
  call,     \* per caller: the call in progress
  crashes,  \* crashes so far
  holder    \* history: the last complete lock since the last release

vars == <<lock, clock, call, crashes, holder>>

\* expectedOwner and expectedToken are what the caller names, at is created_at,
\* record what an apply writes.
Call ==
  [pc : {"idle", "check", "truncate", "fill", "work", "refill", "release_check", "unlink"},
   at : 0 .. MaxClock, expectedOwner : Owners \union {None}, expectedToken : Token \union {None},
   record : LockRecord \union {None}]

NoCall ==
  [pc |-> "idle", at |-> 0, expectedOwner |-> None, expectedToken |-> None, record |-> None]

Init ==
  /\ lock = None
  /\ clock = 0
  /\ call = [c \in Callers |-> NoCall]
  /\ crashes = 0
  /\ holder = None

-----------------------------------------------------------------------------
Readable == lock \notin {None, Torn}
Stale(c) == Readable /\ lock.expires < call[c].at
SameOwner(c) == Readable /\ lock.owner = OwnerOf[c]
TokenMatches(c) == Readable /\ lock.token = call[c].expectedToken

Goto(c, pc) == call' = [call EXCEPT ![c].pc = pc]
End(c) == call' = [call EXCEPT ![c] = NoCall]

Start(c, pc, owner, token) ==
  /\ call[c].pc = "idle"
  /\ Cardinality({d \in Callers : call[d].pc # "idle"}) < MaxInFlight
  /\ call' = [call EXCEPT ![c] =
       [NoCall EXCEPT !.pc = pc, !.at = clock, !.expectedOwner = owner, !.expectedToken = token]]
  /\ UNCHANGED <<lock, clock, crashes, holder>>

\* execute, in apply mode with require_transaction_lock.
StartApply(c) == \E token \in Token \union {None} : Start(c, "check", None, token)

\* _build_transaction_lock: no blocking reason.
TornReadsAsNoLock(c) ==
  Readable =>
    /\ ~Stale(c)
    /\ SameOwner(c) \/ TokenMatches(c)
    /\ call[c].expectedToken # None => TokenMatches(c)
StaleLockTaken(c) ==
  /\ lock # Torn
  /\ Readable => Stale(c) \/ SameOwner(c) \/ TokenMatches(c)
LockAllows(c) ==
  /\ lock # Torn
  /\ Readable =>
       /\ ~Stale(c)
       /\ SameOwner(c) \/ TokenMatches(c)
       /\ call[c].expectedToken # None => TokenMatches(c)

\* The token of the lock is kept by its owner and by who presents it.
FreshToken(c) == [owner |-> OwnerOf[c], at |-> call[c].at]
TokenAsGiven(c) ==
  IF SameOwner(c) \/ TokenMatches(c) THEN lock.token ELSE call[c].expectedToken
ResumeToken(c) ==
  IF SameOwner(c) \/ TokenMatches(c) THEN lock.token
  ELSE IF call[c].expectedToken # None THEN call[c].expectedToken
  ELSE FreshToken(c)

Check(c) ==
  /\ call[c].pc = "check"
  /\ IF LockAllows(c)
       THEN call' = [call EXCEPT ![c].pc = "truncate",
                                 ![c].record = [owner   |-> OwnerOf[c],
                                                token   |-> ResumeToken(c),
                                                expires |-> call[c].at + LeaseSeconds]]
       ELSE End(c)
  /\ UNCHANGED <<lock, clock, crashes, holder>>

\* _write_json, before the side effects ...
Truncate(c) ==
  /\ call[c].pc = "truncate"
  /\ lock' = Torn
  /\ Goto(c, "fill")
  /\ UNCHANGED <<clock, crashes, holder>>

Fill(c) ==
  /\ call[c].pc = "fill"
  /\ lock' = call[c].record
  /\ holder' = call[c].record
  /\ Goto(c, "work")
  /\ UNCHANGED <<clock, crashes>>

\* ... and the same record after them, whatever the file holds by then.
TruncateAgain(c) ==
  /\ call[c].pc = "work"
  /\ lock' = Torn
  /\ Goto(c, "refill")
  /\ UNCHANGED <<clock, crashes, holder>>

FillAgain(c) ==
  /\ call[c].pc = "refill"
  /\ lock' = call[c].record
  /\ holder' = call[c].record
  /\ End(c)
  /\ UNCHANGED <<clock, crashes>>

\* An exception of the side effects ends the call before the second write.
Raise(c) ==
  /\ call[c].pc = "work"
  /\ End(c)
  /\ UNCHANGED <<lock, clock, crashes, holder>>

-----------------------------------------------------------------------------
\* An approved release, which may name the owner and the token it expects.
StartReleaseOf(c, owner, token) == Start(c, "release_check", owner, token)

StartRelease(c) ==
  \E owner \in Owners \union {None}, token \in Token \union {None} : StartReleaseOf(c, owner, token)

\* _build_transaction_lock_release: a malformed lock is never removed, a stale
\* one is noted and removed like any other.
ReleaseNeedsLiveLock(c) ==
  /\ Readable /\ ~Stale(c)
  /\ call[c].expectedOwner \in {None, lock.owner}
  /\ call[c].expectedToken \in {None, lock.token}
ReleaseAllowed(c) ==
  /\ Readable
  /\ call[c].expectedOwner \in {None, lock.owner}
  /\ call[c].expectedToken \in {None, lock.token}

ReleaseCheck(c) ==
  /\ call[c].pc = "release_check"
  /\ IF ReleaseAllowed(c) THEN Goto(c, "unlink") ELSE End(c)
  /\ UNCHANGED <<lock, clock, crashes, holder>>

\* unlink takes away what is there; it fails when nothing is.
Unlink(c) ==
  /\ call[c].pc = "unlink"
  /\ lock' = None
  /\ holder' = None
  /\ End(c)
  /\ UNCHANGED <<clock, crashes>>

Crash(c) ==
  /\ crashes < MaxCrashes
  /\ call[c].pc # "idle"
  /\ End(c)
  /\ crashes' = crashes + 1
  /\ UNCHANGED <<lock, clock, holder>>

Tick ==
  /\ clock < MaxClock
  /\ clock' = clock + 1
  /\ UNCHANGED <<lock, call, crashes, holder>>

Progress(c) ==
  \/ Check(c) \/ Truncate(c) \/ Fill(c) \/ TruncateAgain(c) \/ FillAgain(c) \/ Raise(c)
  \/ ReleaseCheck(c) \/ Unlink(c)

Next ==
  \/ \E c \in Callers : StartApply(c) \/ StartRelease(c) \/ Progress(c) \/ Crash(c)
  \/ Tick

\* A live process carries its call to the end.
Fairness == \A c \in Callers : WF_vars(Progress(c))

Spec == Init /\ [][Next]_vars /\ Fairness

-----------------------------------------------------------------------------
TypeOK ==
  /\ lock \in LockRecord \union {None, Torn}
  /\ clock \in 0 .. MaxClock
  /\ call \in [Callers -> Call]
  /\ crashes \in 0 .. MaxCrashes
  /\ holder \in LockRecord \union {None}

\* From its first acquisition to its release a lock has one owner and one resume
\* token, unless who takes it over presented that token: no lapse of the lease,
\* no crash and no torn file lets another owner in, and what a caller was told
\* is good for its next call.
OneTenure ==
  [][ (holder # None /\ holder' # None) =>
        /\ holder'.token = holder.token
        /\ holder'.owner # holder.owner =>
             \E c \in Callers : call[c].expectedToken = holder.token ]_vars

\* A lock file that a crash left torn closes the root for good: no call takes it
\* for a free one and starts to write, and no release removes it.
LeftTorn == lock = Torn /\ \A c \in Callers : call[c].pc \notin {"fill", "refill"}

TornLockBlocks == [][LeftTorn => LeftTorn']_vars

\* A lock whose lease has run out does not close the root for good: reviewers
\* who release it without naming an owner get it removed, whoever left it.
Lapsed == Readable /\ lock.expires < clock

StaleLockIsReleased ==
  []<><<\E c \in Callers : StartReleaseOf(c, None, None)>>_vars => (Lapsed ~> ~Lapsed)
=============================================================================
