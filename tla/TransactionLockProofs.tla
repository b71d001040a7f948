------------------------- MODULE TransactionLockProofs -------------------------
(***************************************************************************)
(* Theorems about TransactionLock.  The types hold with any number of calls *)
(* in flight; what the lock promises is proved for calls one at a time,     *)
(* since nothing in the executor keeps two apart, with a crash anywhere.    *)
(***************************************************************************)
EXTENDS TransactionLock, FiniteSetTheorems, TLAPS

Writing == {"truncate", "fill", "work", "refill"}

\* A call that writes has a record to write.
TypeInv ==
  /\ TypeOK
  /\ \A c \in Callers : call[c].pc \in Writing => call[c].record \in LockRecord

\* A caller between two calls is well typed.
LEMMA NoCallOK == NoCall \in Call
  BY LockAssumption DEF NoCall, Call

\* A lock file is one of: absent, torn, a record.
LEMMA ReadableIsRecord ==
  ASSUME TypeOK, Readable
  PROVE  lock \in LockRecord
  BY DEF TypeOK, Readable

\* What a check that passes writes is a record, whatever token was presented.
LEMMA NewRecordOK ==
  ASSUME TypeOK, NEW c \in Callers
  PROVE  /\ ResumeToken(c) \in Token
         /\ [owner |-> OwnerOf[c], token |-> ResumeToken(c),
             expires |-> call[c].at + LeaseSeconds] \in LockRecord
<1>1. /\ call[c].at \in 0 .. MaxClock /\ call[c].expectedToken \in Token \union {None}
      /\ OwnerOf[c] \in Owners /\ call[c].at + LeaseSeconds \in Nat
  BY LockAssumption DEF TypeOK, Call
<1>2. FreshToken(c) \in Token
  BY <1>1 DEF FreshToken, Token
<1>3. Readable => lock.token \in Token
  BY ReadableIsRecord DEF LockRecord
<1>4. ResumeToken(c) \in Token
  BY <1>1, <1>2, <1>3 DEF ResumeToken, SameOwner, TokenMatches
<1> QED BY <1>1, <1>4 DEF LockRecord

\* A call that starts is well typed.
LEMMA StartOK ==
  ASSUME TypeInv, NEW c \in Callers, NEW pc \in {"check", "release_check"},
         NEW owner \in Owners \union {None}, NEW token \in Token \union {None},
         Start(c, pc, owner, token)
  PROVE  TypeInv'
<1>1. [NoCall EXCEPT !.pc = pc, !.at = clock, !.expectedOwner = owner, !.expectedToken = token] \in Call
  BY DEF NoCall, Call, TypeInv, TypeOK
<1>2. [NoCall EXCEPT !.pc = pc, !.at = clock, !.expectedOwner = owner, !.expectedToken = token].pc \notin Writing
  BY DEF NoCall, Writing
<1> QED BY <1>1, <1>2 DEF TypeInv, TypeOK, Start

\* Every step keeps the types, however many calls are in flight.
LEMMA TypeStep == TypeInv /\ [Next]_vars => TypeInv'
<1> SUFFICES ASSUME TypeInv, [Next]_vars PROVE TypeInv'
  OBVIOUS
<1> USE DEF TypeInv, TypeOK
<1>ended. \A c \in Callers : End(c) =>
             call' \in [Callers -> Call] /\ \A d \in Callers : call'[d].pc \in Writing => call'[d].record \in LockRecord
  BY NoCallOK DEF End, NoCall, Writing
<1>moved. \A c \in Callers, p \in {"fill", "work", "refill", "unlink"} :
             Goto(c, p) /\ (p = "unlink" \/ call[c].pc \in Writing) =>
               call' \in [Callers -> Call] /\ \A d \in Callers : call'[d].pc \in Writing => call'[d].record \in LockRecord
  BY DEF Goto, Writing, Call
<1>1. ASSUME NEW c \in Callers, StartApply(c) PROVE TypeInv'
  BY <1>1, StartOK DEF StartApply
<1>2. ASSUME NEW c \in Callers, StartRelease(c) PROVE TypeInv'
  BY <1>2, StartOK DEF StartRelease, StartReleaseOf
<1>3. ASSUME NEW c \in Callers, Check(c) PROVE TypeInv'
  <2>1. CASE LockAllows(c)
    <3> DEFINE r == [owner |-> OwnerOf[c], token |-> ResumeToken(c), expires |-> call[c].at + LeaseSeconds]
    <3>1. r \in LockRecord
      BY NewRecordOK
    <3>2. call' = [call EXCEPT ![c].pc = "truncate", ![c].record = r] /\ UNCHANGED <<lock, clock, crashes, holder>>
      BY <1>3, <2>1 DEF Check
    <3> HIDE DEF r
    <3> QED BY <3>1, <3>2 DEF Call
  <2>2. CASE ~LockAllows(c)
    BY <1>3, <2>2, <1>ended DEF Check
  <2> QED BY <2>1, <2>2
<1>4. ASSUME NEW c \in Callers, Truncate(c) PROVE TypeInv'
  BY <1>4, <1>moved DEF Truncate, Writing
<1>5. ASSUME NEW c \in Callers, Fill(c) PROVE TypeInv'
  BY <1>5, <1>moved DEF Fill, Writing
<1>6. ASSUME NEW c \in Callers, TruncateAgain(c) PROVE TypeInv'
  BY <1>6, <1>moved DEF TruncateAgain, Writing
<1>7. ASSUME NEW c \in Callers, FillAgain(c) PROVE TypeInv'
  BY <1>7, <1>ended DEF FillAgain, Writing
<1>8. ASSUME NEW c \in Callers, Raise(c) PROVE TypeInv'
  BY <1>8, <1>ended DEF Raise
<1>9. ASSUME NEW c \in Callers, ReleaseCheck(c) PROVE TypeInv'
  BY <1>9, <1>ended, <1>moved DEF ReleaseCheck
<1>10. ASSUME NEW c \in Callers, Unlink(c) PROVE TypeInv'
  BY <1>10, <1>ended DEF Unlink
<1>11. ASSUME NEW c \in Callers, Crash(c) PROVE TypeInv'
  BY <1>11, <1>ended, LockAssumption DEF Crash
<1>12. CASE Tick
  BY <1>12, LockAssumption DEF Tick
<1>13. CASE UNCHANGED vars
  BY <1>13 DEF vars
<1> QED
  BY <1>1, <1>2, <1>3, <1>4, <1>5, <1>6, <1>7, <1>8, <1>9, <1>10, <1>11, <1>12, <1>13 DEF Next, Progress

\* They hold at the start.
LEMMA TypeInit == Init => TypeInv
  BY NoCallOK, LockAssumption DEF Init, TypeInv, TypeOK, NoCall, Writing

\* Types of the lock file, the calls and the history, for any number of calls in
\* flight.
THEOREM LockTypes == Spec => []TypeOK
<1>1. Spec => []TypeInv
  BY TypeInit, TypeStep, PTL DEF Spec
<1>2. TypeInv => TypeOK
  BY DEF TypeInv
<1> QED BY <1>1, <1>2, PTL

-----------------------------------------------------------------------------
(***************************************************************************)
(* One call at a time.  What a call checked is still in the file when it    *)
(* writes, and what it writes carries on the tenure the file stands for.    *)
(***************************************************************************)
OneCall == \A c, d \in Callers : call[c].pc # "idle" /\ call[d].pc # "idle" => c = d

CallInv(c) ==
  /\ call[c].pc \in {"truncate", "work", "unlink"} => lock # Torn
  /\ call[c].pc \in {"fill", "refill"} => lock = Torn
  /\ call[c].pc \in Writing /\ holder # None =>
       /\ call[c].record.token = holder.token
       /\ call[c].record.owner # holder.owner => call[c].expectedToken = holder.token

SerialInv ==
  /\ TypeInv
  /\ OneCall
  /\ lock # Torn => holder = lock
  /\ \A c \in Callers : CallInv(c)

\* A call that passes the check carries on the tenure of the lock it found.
LEMMA AllowedCarriesOn ==
  ASSUME NEW c \in Callers, LockAllows(c), lock # None
  PROVE  /\ ResumeToken(c) = lock.token
         /\ OwnerOf[c] # lock.owner => call[c].expectedToken = lock.token
  BY DEF LockAllows, ResumeToken, SameOwner, TokenMatches, Readable

\* While a call is in flight every other caller is between two calls, and stays
\* there.
LEMMA OthersIdle ==
  ASSUME SerialInv, NEW c \in Callers, call[c].pc # "idle", NEW o, call' = [call EXCEPT ![c] = o]
  PROVE  OneCall' /\ call'[c] = o /\ \A d \in Callers \ {c} : call'[d].pc = "idle" /\ CallInv(d)'
<1>1. \A d \in Callers : call'[d] = IF d = c THEN o ELSE call[d]
  BY DEF SerialInv, TypeInv, TypeOK
<1>2. \A d \in Callers \ {c} : call[d].pc = "idle"
  BY DEF SerialInv, OneCall
<1> QED BY <1>1, <1>2 DEF OneCall, CallInv, Writing

\* With one call in flight at a time every step keeps the invariant.
LEMMA SerialStep ==
  ASSUME MaxInFlight = 1
  PROVE  SerialInv /\ [Next]_vars => SerialInv'
<1> SUFFICES ASSUME SerialInv, [Next]_vars PROVE SerialInv'
  OBVIOUS
<1>type. TypeInv'
  BY TypeStep DEF SerialInv
<1>ok. call \in [Callers -> Call]
  BY DEF SerialInv, TypeInv, TypeOK
<1>ended. ASSUME NEW c \in Callers, call[c].pc # "idle", End(c), lock' # Torn => holder' = lock'
          PROVE  SerialInv'
  <2>1. OneCall' /\ call'[c] = NoCall /\ \A d \in Callers \ {c} : CallInv(d)'
    BY <1>ended, OthersIdle DEF End
  <2>2. CallInv(c)'
    BY <2>1 DEF CallInv, NoCall, Writing
  <2> QED BY <1>type, <1>ended, <2>1, <2>2 DEF SerialInv
<1>moved. ASSUME NEW c \in Callers, call[c].pc # "idle", NEW o, call' = [call EXCEPT ![c] = o],
                 CallInv(c)', lock' # Torn => holder' = lock'
          PROVE  SerialInv'
  BY <1>moved, <1>type, OthersIdle DEF SerialInv
<1>started. ASSUME NEW c \in Callers, NEW pc \in {"check", "release_check"},
                   NEW owner, NEW token, Start(c, pc, owner, token)
            PROVE  SerialInv'
  <2> DEFINE Busy == {d \in Callers : call[d].pc # "idle"}
  <2>1. Cardinality(Busy) < 1
    BY <1>started DEF Start
  <2>2. Busy = {}
    <3> SUFFICES ASSUME NEW d \in Busy PROVE FALSE
      OBVIOUS
    <3>1. Busy = {d}
      BY DEF SerialInv, OneCall
    <3> HIDE DEF Busy
    <3> QED BY <2>1, <3>1, FS_Singleton
  <2>3. call'[c].pc = pc /\ \A d \in Callers \ {c} : call'[d].pc = "idle"
    BY <2>2, <1>started, <1>ok DEF Start, NoCall
  <2>4. OneCall' /\ \A d \in Callers : CallInv(d)'
    BY <2>3 DEF OneCall, CallInv, Writing
  <2> QED BY <1>type, <1>started, <2>4 DEF SerialInv, Start
<1>1. ASSUME NEW c \in Callers, StartApply(c) PROVE SerialInv'
  BY <1>1, <1>started DEF StartApply
<1>2. ASSUME NEW c \in Callers, StartRelease(c) PROVE SerialInv'
  BY <1>2, <1>started DEF StartRelease, StartReleaseOf
<1>3. ASSUME NEW c \in Callers, Check(c) PROVE SerialInv'
  <2>1. CASE LockAllows(c)
    <3> DEFINE r == [owner |-> OwnerOf[c], token |-> ResumeToken(c), expires |-> call[c].at + LeaseSeconds]
               o == [call[c] EXCEPT !.pc = "truncate", !.record = r]
    <3>1. call' = [call EXCEPT ![c] = o] /\ UNCHANGED <<lock, holder>> /\ call[c].pc = "check"
      BY <1>3, <2>1 DEF Check
    <3>2. call'[c].pc = "truncate" /\ call'[c].record = r /\ call'[c].expectedToken = call[c].expectedToken
      BY <3>1, <1>ok DEF Call
    <3>3. lock # Torn /\ holder = lock
      BY <2>1 DEF LockAllows, SerialInv
    <3>4. CallInv(c)'
      BY <2>1, <3>1, <3>2, <3>3, AllowedCarriesOn DEF CallInv
    <3> QED BY <3>1, <3>3, <3>4, <1>moved
  <2>2. CASE ~LockAllows(c)
    BY <1>3, <2>2, <1>ended DEF Check, SerialInv
  <2> QED BY <2>1, <2>2
<1>goto. ASSUME NEW c \in Callers, NEW p, Goto(c, p)
         PROVE  /\ call' = [call EXCEPT ![c] = [call[c] EXCEPT !.pc = p]]
                /\ call'[c].pc = p /\ call'[c].record = call[c].record
                /\ call'[c].expectedToken = call[c].expectedToken
  BY <1>goto, <1>ok DEF Goto, Call
<1>4. ASSUME NEW c \in Callers, Truncate(c) PROVE SerialInv'
  <2>1. CallInv(c)'
    BY <1>4, <1>goto DEF Truncate, CallInv, SerialInv, Writing
  <2> QED BY <1>4, <2>1, <1>goto, <1>moved DEF Truncate
<1>5. ASSUME NEW c \in Callers, Fill(c) PROVE SerialInv'
  <2>1. call[c].record \in LockRecord /\ lock' = call[c].record /\ holder' = call[c].record
    BY <1>5 DEF Fill, SerialInv, TypeInv, Writing
  <2>2. lock' # Torn
    BY <2>1, LockAssumption
  <2>3. CallInv(c)'
    BY <1>5, <2>1, <2>2, <1>goto DEF Fill, CallInv
  <2> QED BY <1>5, <2>1, <2>3, <1>goto, <1>moved DEF Fill
<1>6. ASSUME NEW c \in Callers, TruncateAgain(c) PROVE SerialInv'
  <2>1. CallInv(c)'
    BY <1>6, <1>goto DEF TruncateAgain, CallInv, SerialInv, Writing
  <2> QED BY <1>6, <2>1, <1>goto, <1>moved DEF TruncateAgain
<1>7. ASSUME NEW c \in Callers, FillAgain(c) PROVE SerialInv'
  BY <1>7, <1>ended DEF FillAgain
<1>8. ASSUME NEW c \in Callers, Raise(c) PROVE SerialInv'
  BY <1>8, <1>ended DEF Raise, SerialInv
<1>9. ASSUME NEW c \in Callers, ReleaseCheck(c) PROVE SerialInv'
  <2>1. CASE ReleaseAllowed(c)
    <3>1. CallInv(c)'
      BY <1>9, <2>1, <1>goto DEF ReleaseCheck, ReleaseAllowed, Readable, CallInv, Writing
    <3> QED BY <1>9, <2>1, <3>1, <1>goto, <1>moved DEF ReleaseCheck, SerialInv
  <2>2. CASE ~ReleaseAllowed(c)
    BY <1>9, <2>2, <1>ended DEF ReleaseCheck, SerialInv
  <2> QED BY <2>1, <2>2
<1>10. ASSUME NEW c \in Callers, Unlink(c) PROVE SerialInv'
  BY <1>10, <1>ended DEF Unlink
<1>11. ASSUME NEW c \in Callers, Crash(c) PROVE SerialInv'
  BY <1>11, <1>ended DEF Crash, SerialInv
<1>12. CASE UNCHANGED <<lock, call, holder>>
  BY <1>12, <1>type DEF SerialInv, OneCall, CallInv
<1> QED
  BY <1>1, <1>2, <1>3, <1>4, <1>5, <1>6, <1>7, <1>8, <1>9, <1>10, <1>11, <1>12
  DEF Next, Progress, Tick, vars

\* It holds at the start.
LEMMA SerialInit == Init => SerialInv
  BY TypeInit, LockAssumption DEF Init, SerialInv, OneCall, CallInv, NoCall, Writing

\* It is an invariant.
LEMMA SerialInvariance ==
  ASSUME MaxInFlight = 1
  PROVE  Spec => []SerialInv
  BY SerialInit, SerialStep, PTL DEF Spec

\* Only a fill writes a complete lock over another, and what it writes carries
\* the tenure on.
LEMMA TenureStep ==
  ASSUME SerialInv, [Next]_vars, holder # None, holder' # None
  PROVE  /\ holder'.token = holder.token
         /\ holder'.owner # holder.owner => \E c \in Callers : call[c].expectedToken = holder.token
<1>1. \/ \E c \in Callers : call[c].pc \in Writing /\ holder' = call[c].record
      \/ holder' = holder
      \/ holder' = None
  BY DEF Next, Progress, vars, StartApply, StartRelease, StartReleaseOf, Start, Check, Truncate,
         Fill, TruncateAgain, FillAgain, Raise, ReleaseCheck, Unlink, Crash, Tick, Writing
<1> QED BY <1>1 DEF SerialInv, CallInv

\* One tenure: with calls one at a time, whatever dies in between, no lapse of
\* the lease lets another owner in, and the token a caller was given stays good.
THEOREM OneTenureHolds ==
  ASSUME MaxInFlight = 1
  PROVE  Spec => OneTenure
<1>1. SerialInv /\ [Next]_vars =>
        [(holder # None /\ holder' # None) =>
           /\ holder'.token = holder.token
           /\ holder'.owner # holder.owner =>
                \E c \in Callers : call[c].expectedToken = holder.token]_vars
  BY TenureStep
<1> QED BY <1>1, SerialInvariance, PTL DEF Spec, OneTenure

\* With a torn lock and no call writing, a step leaves both as they are.
LEMMA TornStep ==
  ASSUME SerialInv, [Next]_vars, LeftTorn
  PROVE  LeftTorn'
<1>ok. call \in [Callers -> Call]
  BY DEF SerialInv, TypeInv, TypeOK
<1>0. \A c \in Callers : call[c].pc \notin Writing \union {"unlink"}
  BY DEF SerialInv, CallInv, LeftTorn, Writing
<1>1. ASSUME NEW c \in Callers,
             StartApply(c) \/ StartRelease(c) \/ Check(c) \/ ReleaseCheck(c) \/ Crash(c)
      PROVE  LeftTorn'
  <2>1. ~LockAllows(c) /\ ~ReleaseAllowed(c)
    BY DEF LeftTorn, LockAllows, ReleaseAllowed, Readable
  <2>2. ASSUME NEW pc \in {"check", "release_check"}, NEW owner, NEW token, Start(c, pc, owner, token)
        PROVE  LeftTorn'
    <3>1. \A d \in Callers : call'[d].pc \in {call[d].pc, pc}
      BY <2>2, <1>ok DEF Start, NoCall
    <3> QED BY <2>2, <3>1 DEF Start, LeftTorn
  <2>3. ASSUME End(c), lock' = lock PROVE LeftTorn'
    BY <2>3, <1>ok DEF End, NoCall, LeftTorn
  <2> QED BY <1>1, <2>1, <2>2, <2>3 DEF StartApply, StartRelease, StartReleaseOf, Check, ReleaseCheck, Crash
<1>2. CASE UNCHANGED <<lock, call>>
  BY <1>2 DEF LeftTorn
<1> QED
  BY <1>0, <1>1, <1>2
  DEF Next, Progress, vars, Truncate, Fill, TruncateAgain, FillAgain, Raise, Unlink, Tick, Writing

\* A torn lock closes the root for good: with calls one at a time no apply takes
\* it for a free one and no release removes it.
THEOREM TornLockStays ==
  ASSUME MaxInFlight = 1
  PROVE  Spec => TornLockBlocks
<1>1. SerialInv /\ [Next]_vars => [LeftTorn => LeftTorn']_vars
  BY TornStep
<1> QED BY <1>1, SerialInvariance, PTL DEF Spec, TornLockBlocks
=============================================================================
