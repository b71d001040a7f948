----------------------- MODULE ExternalDeliveryProofs -----------------------
(***************************************************************************)
(* Theorems about ExternalDelivery for every set of delivery roots, every   *)
(* choice of configurations and every number of retries.                    *)
(***************************************************************************)
EXTENDS ExternalDelivery, FiniteSetTheorems, TLAPS

\* A root that is deleting, and a DELETE that may still arrive, is approved for
\* the asset it names.
Approved(c, id) == config[c].approved /\ config[c].expected \in {None, id}

\* What makes the properties inductive: an answered upload has been taken in, and
\* every deletion under way is approved for the id it carries.
DeliveryInv ==
  /\ ExternalTypeOK
  /\ \A c \in Callers : call[c].stage = "delete" => Approved(c, call[c].found.id)
  /\ \A q \in late : q.kind = "delete" => q.id # None /\ Approved(q.from, q.id)
  /\ \A c \in Callers :
       \/ call[c].stage \in {"upload", "send"} /\ call[c].reply = "ok"
       \/ call[c].stage = "record" /\ call[c].succeeded
       \/ result[c] = "performed"
       => c \in stored

-----------------------------------------------------------------------------
\* A finite set has an image no larger than itself.
LEMMA ImageBound ==
  ASSUME NEW S, IsFiniteSet(S), NEW f, f = [x \in S |-> f[x]]
  PROVE  /\ IsFiniteSet({f[x] : x \in S})
         /\ Cardinality({f[x] : x \in S}) <= Cardinality(S)
<1>1. f \in Surjection(S, {f[x] : x \in S})
  BY DEF Surjection
<1> QED BY <1>1, FS_Surjection

\* A union has no more elements than its parts together.
LEMMA UnionBound ==
  ASSUME NEW S, IsFiniteSet(S), NEW T, IsFiniteSet(T)
  PROVE  /\ IsFiniteSet(S \union T)
         /\ Cardinality(S \union T) <= Cardinality(S) + Cardinality(T)
<1>1. IsFiniteSet(S \cap T)
  <2>1. S \cap T \in SUBSET S
    OBVIOUS
  <2> QED BY <2>1, FS_Subset
<1>2. /\ IsFiniteSet(S \union T)
      /\ Cardinality(S \union T) = Cardinality(S) + Cardinality(T) - Cardinality(S \cap T)
  BY FS_Union
<1>3. Cardinality(S) \in Nat /\ Cardinality(T) \in Nat /\ Cardinality(S \cap T) \in Nat
  BY <1>1, FS_CardinalityType
<1> QED BY <1>2, <1>3

\* The bound on the ids: there is always one nobody holds.
LEMMA NewIdExists ==
  ASSUME ExternalTypeOK
  PROVE  NewId \in 1 .. MaxId /\ NewId \notin Held
<1> DEFINE Finding == {d \in Callers : call[d].found # None}
           E == [c \in Callers |-> config[c].expected]
           L == [q \in late |-> q.id]
           F == [c \in Finding |-> call[c].found.id]
           Es == {E[c] : c \in Callers}
           Ls == {L[q] : q \in late}
           Fs == {F[c] : c \in Finding}
<1>1. IsFiniteSet(Callers) /\ Cardinality(Callers) \in Nat /\ Cardinality(late) \in Nat
  BY ExternalAssumption, FS_CardinalityType DEF ExternalTypeOK
<1>2. IsFiniteSet(Es) /\ Cardinality(Es) <= Cardinality(Callers)
  BY <1>1, ImageBound
<1>3. IsFiniteSet(Ls) /\ Cardinality(Ls) <= MaxLate
  <2>1. IsFiniteSet(Ls) /\ Cardinality(Ls) <= Cardinality(late)
    BY ImageBound DEF ExternalTypeOK
  <2> QED BY <2>1, <1>1, FS_CardinalityType, ExternalAssumption DEF ExternalTypeOK
<1>4. IsFiniteSet(Fs) /\ Cardinality(Fs) <= Cardinality(Callers)
  <2>1. IsFiniteSet(Finding) /\ Cardinality(Finding) <= Cardinality(Callers)
    BY <1>1, FS_Subset
  <2>2. IsFiniteSet(Fs) /\ Cardinality(Fs) <= Cardinality(Finding)
    BY <2>1, ImageBound
  <2> QED BY <2>1, <2>2, <1>1, FS_CardinalityType
<1>5. Held = (Es \union Ls) \union Fs
  BY DEF Held
<1> HIDE DEF Es, Ls, Fs
<1>6. IsFiniteSet(Held) /\ Cardinality(Held) < MaxId
  <2>1. /\ IsFiniteSet(Es \union Ls)
        /\ Cardinality(Es \union Ls) <= Cardinality(Es) + Cardinality(Ls)
    BY <1>2, <1>3, UnionBound
  <2>2. /\ IsFiniteSet((Es \union Ls) \union Fs)
        /\ Cardinality((Es \union Ls) \union Fs) <= Cardinality(Es \union Ls) + Cardinality(Fs)
    BY <2>1, <1>4, UnionBound
  <2>3. /\ Cardinality(Es) \in Nat /\ Cardinality(Ls) \in Nat /\ Cardinality(Fs) \in Nat
        /\ Cardinality(Es \union Ls) \in Nat /\ Cardinality((Es \union Ls) \union Fs) \in Nat
    BY <1>2, <1>3, <1>4, <2>1, <2>2, FS_CardinalityType
  <2> QED BY <2>1, <2>2, <2>3, <1>1, <1>2, <1>3, <1>4, <1>5, ExternalAssumption
<1>7. \E i \in 1 .. MaxId : i \notin Held
  <2>1. IsFiniteSet(1 .. MaxId) /\ Cardinality(1 .. MaxId) = MaxId
    BY ExternalAssumption, FS_Interval
  <2>2. ~(1 .. MaxId \subseteq Held)
    <3> SUFFICES ASSUME 1 .. MaxId \subseteq Held PROVE FALSE
      OBVIOUS
    <3>1. MaxId <= Cardinality(Held)
      BY <1>6, <2>1, FS_Subset
    <3> QED BY <3>1, <1>6, FS_CardinalityType, ExternalAssumption
  <2> QED BY <2>2
<1> QED BY <1>7 DEF NewId

\* What the service does with one request: it keeps its types and every package it
\* has, takes in the one of a request it does not refuse, and lets an asset go
\* only when the request deletes that one.
LEMMA CarryOutKeeps ==
  ASSUME ExternalTypeOK, NEW q \in Request, q.kind = "delete" => q.id # None, CarryOut(q)
  PROVE  /\ released' \in BOOLEAN
         /\ asset' \in Asset \union {None}
         /\ asset' # None => released'
         /\ stored \subseteq stored'
         /\ stored' \subseteq Callers
         /\ ~Refuses(q) /\ q.kind \in {"upload", "send"} => q.from \in stored'
         /\ asset # None /\ asset' # asset => q.kind = "delete" /\ q.id = asset.id
<1>1. CASE Refuses(q)
  BY <1>1 DEF CarryOut, service, ExternalTypeOK
<1>2. CASE ~Refuses(q) /\ q.kind = "upload"
  <2>1. [id |-> NewId, by |-> q.from] \in Asset
    BY NewIdExists DEF Asset, Request
  <2>2. released /\ asset = None
    BY <1>2 DEF Refuses
  <2>3. asset' = [id |-> NewId, by |-> q.from]
    BY <1>2 DEF CarryOut
  <2> QED BY <1>2, <2>1, <2>2, <2>3 DEF CarryOut, ExternalTypeOK, Request
<1>3. CASE ~Refuses(q) /\ q.kind = "delete"
  BY <1>3 DEF CarryOut, Refuses, ExternalTypeOK
<1>4. CASE ~Refuses(q) /\ q.kind \notin {"upload", "delete"}
  <2>1. asset' = asset
    BY <1>4 DEF CarryOut
  <2> QED BY <1>4, <2>1 DEF CarryOut, ExternalTypeOK, Request
<1> QED BY <1>1, <1>2, <1>3, <1>4

\* A call that waits for an answer sends a well-typed request, and a DELETE it
\* sends is approved.
LEMMA OutgoingOK ==
  ASSUME DeliveryInv, NEW c \in Callers, call[c].stage \in Kinds
  PROVE  /\ Outgoing(c) \in Request
         /\ Outgoing(c).from = c
         /\ Outgoing(c).kind = call[c].stage
         /\ Outgoing(c).kind = "delete" =>
              Outgoing(c).id # None /\ Approved(c, Outgoing(c).id)
<1>1. call[c].stage = "delete" => call[c].found.id \in 1 .. MaxId
  BY DEF DeliveryInv, ExternalTypeOK, Call, Asset
<1>2. \A i \in 1 .. MaxId : i # None
  BY ExternalAssumption
<1> QED BY <1>1, <1>2 DEF Outgoing, Request, DeliveryInv, Approved

\* A step of the calling process alone: the call goes on to k.
LEMMA AdvanceKeeps ==
  ASSUME DeliveryInv, NEW c \in Callers, NEW k \in Call,
         call' = [call EXCEPT ![c] = k],
         UNCHANGED <<config, service, late, calm, result>>,
         k.stage = "delete" => k.found # None /\ Approved(c, k.found.id),
         \/ k.stage \in {"upload", "send"} /\ k.reply = "ok"
         \/ k.stage = "record" /\ k.succeeded
         => c \in stored
  PROVE  DeliveryInv'
<1>1. ExternalTypeOK'
  BY DEF DeliveryInv, ExternalTypeOK, service
<1>2. \A d \in Callers : call'[d] = IF d = c THEN k ELSE call[d]
  BY DEF DeliveryInv, ExternalTypeOK
<1> QED BY <1>1, <1>2 DEF DeliveryInv, Approved, service

\* A call between two requests is well typed.
LEMMA NoCallOK ==
  /\ NoCall \in Call
  /\ \A stage \in Kinds : [NoCall EXCEPT !.stage = stage] \in Call
  /\ \A succeeded \in BOOLEAN :
       [NoCall EXCEPT !.stage = "record", !.succeeded = succeeded] \in Call
  /\ \A stage \in Kinds, found \in Asset \union {None} :
       [NoCall EXCEPT !.stage = stage, !.found = found] \in Call
<1>1. 1 \in 1 .. MaxRetries + 1
  BY ExternalAssumption
<1> QED BY <1>1 DEF NoCall, Call

\* The next request goes out.
LEMMA GotoKeeps ==
  ASSUME DeliveryInv, NEW c \in Callers, NEW stage \in Kinds, Goto(c, stage),
         UNCHANGED <<config, service, late, calm, result>>,
         stage = "delete" => call[c].found # None /\ Approved(c, call[c].found.id)
  PROVE  DeliveryInv'
<1> DEFINE k == [NoCall EXCEPT !.stage = stage,
                               !.found = IF stage = "delete" THEN call[c].found ELSE None]
<1>1. call[c].found \in Asset \union {None}
  BY DEF DeliveryInv, ExternalTypeOK, Call
<1>2. k \in Call /\ k.reply = "none" /\ k.stage = stage
      /\ (stage = "delete" => k.found = call[c].found)
  BY <1>1, NoCallOK DEF NoCall
<1>3. k.stage # "record"
  BY <1>2 DEF Kinds
<1> HIDE DEF k
<1> QED BY <1>2, <1>3, AdvanceKeeps DEF Goto, k

\* The provider returns.
LEMMA FinishKeeps ==
  ASSUME DeliveryInv, NEW c \in Callers, NEW succeeded \in BOOLEAN, Finish(c, succeeded),
         UNCHANGED <<config, service, late, calm, result>>,
         succeeded => c \in stored
  PROVE  DeliveryInv'
<1> DEFINE k == [NoCall EXCEPT !.stage = "record", !.succeeded = succeeded]
<1>1. k \in Call /\ k.stage = "record" /\ k.succeeded = succeeded
  BY NoCallOK DEF NoCall
<1> HIDE DEF k
<1> QED BY <1>1, AdvanceKeeps DEF Finish, k

\* An answer, or the lack of one, to the request of c.
LEMMA ReplyKeeps ==
  ASSUME DeliveryInv, NEW c \in Callers, Waiting(c),
         NEW reply \in {"ok", "refused", "retry"}, Reply(c, reply),
         UNCHANGED <<config, calm, result>>,
         \/ CarryOut(Outgoing(c)) /\ UNCHANGED late /\ (reply = "ok" => ~Refuses(Outgoing(c)))
         \/ late' \in Lost(c) /\ UNCHANGED service /\ reply # "ok"
  PROVE  DeliveryInv'
<1> DEFINE k == [call[c] EXCEPT !.reply = reply,
                                !.found = IF call[c].stage = "list" /\ reply = "ok" THEN asset ELSE @]
<1>1. call[c] \in Call /\ call[c].stage \in Kinds /\ call[c].stage \notin {"idle", "record"}
  BY DEF Waiting, Kinds, DeliveryInv, ExternalTypeOK
<1>2. /\ k \in Call /\ k.stage = call[c].stage /\ k.reply = reply
      /\ k.stage # "list" => k.found = call[c].found
  BY <1>1 DEF DeliveryInv, ExternalTypeOK, Call
<1>3. call' = [call EXCEPT ![c] = k]
  BY <1>1 DEF Reply, Call
<1> HIDE DEF k
<1>4. \A d \in Callers : call'[d] = IF d = c THEN k ELSE call[d]
  BY <1>3 DEF DeliveryInv, ExternalTypeOK
<1>5. /\ Outgoing(c) \in Request
      /\ Outgoing(c).from = c
      /\ Outgoing(c).kind = call[c].stage
      /\ Outgoing(c).kind = "delete" => Outgoing(c).id # None /\ Approved(c, Outgoing(c).id)
  BY <1>1, OutgoingOK
<1>6. /\ released' \in BOOLEAN
      /\ asset' \in Asset \union {None}
      /\ asset' # None => released'
      /\ stored \subseteq stored'
      /\ stored' \subseteq Callers
  <2>1. CASE CarryOut(Outgoing(c))
    BY <2>1, <1>5, CarryOutKeeps DEF DeliveryInv
  <2>2. CASE UNCHANGED service
    BY <2>2 DEF service, DeliveryInv, ExternalTypeOK
  <2> QED BY <2>1, <2>2
<1>7. reply = "ok" /\ k.stage \in {"upload", "send"} => c \in stored'
  BY <1>2, <1>5, CarryOutKeeps DEF DeliveryInv
<1>8. /\ late' \subseteq Request /\ IsFiniteSet(late') /\ Cardinality(late') <= MaxLate
      /\ \A q \in late' : q.kind = "delete" => q.id # None /\ Approved(q.from, q.id)
  <2>1. CASE late' = late
    BY <2>1 DEF DeliveryInv, ExternalTypeOK
  <2>2. CASE late' = late \union {Outgoing(c)} /\ Cardinality(late') <= MaxLate
    <3>1. IsFiniteSet(late \union {Outgoing(c)})
      BY FS_AddElement DEF DeliveryInv, ExternalTypeOK
    <3> QED BY <3>1, <2>2, <1>5 DEF DeliveryInv, ExternalTypeOK
  <2> QED BY <2>1, <2>2 DEF Lost
<1>9. ExternalTypeOK'
  <2>1. call' \in [Callers -> Call]
    BY <1>2, <1>3 DEF DeliveryInv, ExternalTypeOK
  <2>2. \A d \in Callers : call'[d].stage = "delete" => call'[d].found # None
    BY <1>2, <1>4 DEF DeliveryInv, ExternalTypeOK
  <2> QED BY <2>1, <2>2, <1>6, <1>8 DEF DeliveryInv, ExternalTypeOK
<1>10. \A d \in Callers : call'[d].stage = "delete" => Approved(d, call'[d].found.id)
  BY <1>2, <1>4 DEF DeliveryInv
<1>11. \A d \in Callers :
         \/ call'[d].stage \in {"upload", "send"} /\ call'[d].reply = "ok"
         \/ call'[d].stage = "record" /\ call'[d].succeeded
         \/ result'[d] = "performed"
         => d \in stored'
  BY <1>1, <1>2, <1>4, <1>6, <1>7 DEF DeliveryInv
<1> QED BY <1>8, <1>9, <1>10, <1>11 DEF DeliveryInv, Approved

\* Every step of the system keeps the invariant.
LEMMA DeliveryStep == DeliveryInv /\ [ExtNext]_extVars => DeliveryInv'
<1> SUFFICES ASSUME DeliveryInv, [ExtNext]_extVars PROVE DeliveryInv'
  OBVIOUS
<1>type. \A c \in Callers : call[c] \in Call
  BY DEF DeliveryInv, ExternalTypeOK
<1>ok. \A c \in Callers : call[c].stage \in {"upload", "send"} /\ Succeeded(c) => c \in stored
  BY DEF DeliveryInv, Succeeded
<1>release. ASSUME NEW c \in Callers, WithRelease(c),
                   UNCHANGED <<config, service, late, calm, result>>
            PROVE  DeliveryInv'
  BY <1>release, GotoKeeps DEF WithRelease, Kinds
<1>blocked. ASSUME NEW c \in Callers, Finish(c, FALSE),
                   UNCHANGED <<config, service, late, calm, result>>
            PROVE  DeliveryInv'
  BY <1>blocked, FinishKeeps
<1>1. ASSUME NEW c \in Callers, Deliver(c) PROVE DeliveryInv'
  <2>1. config[c].begins \in {"create", "send"}
    BY ExternalAssumption DEF DeliveryInv, ExternalTypeOK, Config
  <2>2. [NoCall EXCEPT !.stage = config[c].begins] \in Call
    BY <2>1, NoCallOK DEF Kinds
  <2> QED BY <1>1, <2>1, <2>2, AdvanceKeeps DEF Deliver, NoCall
<1>2. ASSUME NEW c \in Callers, Retry(c) PROVE DeliveryInv'
  <2> DEFINE k == [call[c] EXCEPT !.reply = "none",
                                  !.attempt = IF @ > MaxRetries THEN @ ELSE @ + 1]
  <2>1. k \in Call /\ k.reply = "none" /\ k.stage = call[c].stage /\ k.found = call[c].found
    <3>1. call[c].attempt \in 1 .. MaxRetries + 1
      BY <1>type DEF Call
    <3>2. (IF call[c].attempt > MaxRetries THEN call[c].attempt ELSE call[c].attempt + 1)
            \in 1 .. MaxRetries + 1
      BY <3>1, ExternalAssumption
    <3> QED BY <1>type, <3>2 DEF Call
  <2>2. call' = [call EXCEPT ![c] = k]
    BY <1>2, <1>type DEF Retry, Call
  <2>3. k.stage # "record"
    BY <1>2, <2>1 DEF Retry, Kinds
  <2> HIDE DEF k
  <2> QED BY <1>2, <2>1, <2>2, <2>3, AdvanceKeeps DEF Retry, DeliveryInv, ExternalTypeOK
<1>3. ASSUME NEW c \in Callers, Created(c) PROVE DeliveryInv'
  <2>1. CASE WithRelease(c)
    BY <1>3, <2>1, <1>release DEF Created
  <2>2. CASE Goto(c, "find")
    BY <1>3, <2>2, GotoKeeps DEF Created, Kinds
  <2>3. CASE Finish(c, FALSE)
    BY <1>3, <2>3, <1>blocked DEF Created
  <2> QED BY <1>3, <2>1, <2>2, <2>3 DEF Created
<1>4. ASSUME NEW c \in Callers, Found(c) PROVE DeliveryInv'
  BY <1>4, <1>release, <1>blocked DEF Found
<1>5. ASSUME NEW c \in Callers, Listed(c) PROVE DeliveryInv'
  <2>1. CASE Finish(c, FALSE)
    BY <1>5, <2>1, <1>blocked DEF Listed
  <2>2. CASE DeleteApproved(c) /\ Goto(c, "delete")
    BY <1>5, <2>2, GotoKeeps DEF Listed, DeleteApproved, Approved, Kinds
  <2>3. CASE Goto(c, "upload")
    BY <1>5, <2>3, GotoKeeps DEF Listed, Kinds
  <2> QED BY <1>5, <2>1, <2>2, <2>3 DEF Listed
<1>6. ASSUME NEW c \in Callers, Deleted(c) PROVE DeliveryInv'
  <2>1. CASE Goto(c, "upload")
    BY <1>6, <2>1, GotoKeeps DEF Deleted, Kinds
  <2> QED BY <1>6, <2>1, <1>blocked DEF Deleted
<1>7. ASSUME NEW c \in Callers, Uploaded(c) \/ Sent(c) PROVE DeliveryInv'
  <2>1. Succeeded(c) \in BOOLEAN /\ (Succeeded(c) => c \in stored)
    BY <1>7, <1>ok DEF Uploaded, Sent, Answered, Succeeded
  <2> QED BY <1>7, <2>1, FinishKeeps DEF Uploaded, Sent
<1>8. ASSUME NEW c \in Callers, Record(c) PROVE DeliveryInv'
  <2>1. NoCall \in Call /\ NoCall.stage = "idle"
    BY NoCallOK DEF NoCall
  <2>2. \A d \in Callers : call'[d] = IF d = c THEN NoCall ELSE call[d]
    BY <1>8 DEF Record, DeliveryInv, ExternalTypeOK
  <2>3. call[c].stage = "record" /\ (result'[c] = "performed" => call[c].succeeded)
    BY <1>8 DEF Record, DeliveryInv, ExternalTypeOK
  <2>4. \A d \in Callers : d # c => result'[d] = result[d]
    BY <1>8 DEF Record, DeliveryInv, ExternalTypeOK
  <2>5. ExternalTypeOK'
    BY <1>8, <2>1, <2>2 DEF Record, DeliveryInv, ExternalTypeOK, service
  <2> QED BY <1>8, <2>1, <2>2, <2>3, <2>4, <2>5 DEF Record, DeliveryInv, Approved, service
<1>9. ASSUME NEW c \in Callers, Answer(c) PROVE DeliveryInv'
  BY <1>9, ReplyKeeps DEF Answer
<1>10. ASSUME NEW c \in Callers, Fault(c) PROVE DeliveryInv'
  BY <1>10, ReplyKeeps DEF Fault
<1>11. ASSUME NEW c \in Callers, Crash(c) PROVE DeliveryInv'
  <2>1. NoCall \in Call /\ NoCall.stage = "idle"
    BY NoCallOK DEF NoCall
  <2>2. \A d \in Callers : call'[d] = IF d = c THEN NoCall ELSE call[d]
    BY <1>11 DEF Crash, DeliveryInv, ExternalTypeOK
  <2>3. /\ late' \subseteq Request /\ IsFiniteSet(late') /\ Cardinality(late') <= MaxLate
        /\ \A q \in late' : q.kind = "delete" => q.id # None /\ Approved(q.from, q.id)
    <3>1. CASE late' = late
      BY <3>1 DEF DeliveryInv, ExternalTypeOK
    <3>2. CASE Waiting(c) /\ late' = late \union {Outgoing(c)} /\ Cardinality(late') <= MaxLate
      <4>1. IsFiniteSet(late \union {Outgoing(c)})
        BY FS_AddElement DEF DeliveryInv, ExternalTypeOK
      <4> QED BY <4>1, <3>2, OutgoingOK DEF DeliveryInv, ExternalTypeOK, Waiting
    <3> QED BY <1>11, <3>1, <3>2 DEF Crash, Lost
  <2>4. ExternalTypeOK'
    BY <1>11, <2>1, <2>2, <2>3 DEF Crash, DeliveryInv, ExternalTypeOK, service
  <2> QED BY <1>11, <2>1, <2>2, <2>3, <2>4 DEF Crash, DeliveryInv, Approved, service
<1>12. ASSUME NEW q \in late, ServeLate(q) PROVE DeliveryInv'
  <2>1. q \in Request /\ (q.kind = "delete" => q.id # None)
    BY DEF DeliveryInv, ExternalTypeOK
  <2>2. /\ released' \in BOOLEAN
        /\ asset' \in Asset \union {None}
        /\ asset' # None => released'
        /\ stored \subseteq stored'
        /\ stored' \subseteq Callers
    BY <1>12, <2>1, CarryOutKeeps DEF ServeLate, DeliveryInv
  <2>3. IsFiniteSet(late') /\ Cardinality(late') <= MaxLate /\ late' \subseteq late
    <3>1. late' = late \ {q}
      BY <1>12 DEF ServeLate
    <3>2. late' \in SUBSET late
      BY <3>1
    <3>3. IsFiniteSet(late') /\ Cardinality(late') <= Cardinality(late)
      BY <3>2, FS_Subset DEF DeliveryInv, ExternalTypeOK
    <3>4. Cardinality(late) \in Nat /\ Cardinality(late') \in Nat
      BY <3>3, FS_CardinalityType DEF DeliveryInv, ExternalTypeOK
    <3> QED BY <3>2, <3>3, <3>4, ExternalAssumption DEF DeliveryInv, ExternalTypeOK
  <2>4. ExternalTypeOK'
    BY <1>12, <2>2, <2>3 DEF ServeLate, DeliveryInv, ExternalTypeOK
  <2> QED BY <1>12, <2>2, <2>3, <2>4 DEF ServeLate, DeliveryInv, Approved
<1>13. CASE CalmDown
  BY <1>13 DEF CalmDown, DeliveryInv, ExternalTypeOK, Approved, service
<1>14. CASE UNCHANGED extVars
  BY <1>14 DEF extVars, DeliveryInv, ExternalTypeOK, Approved, service
<1> QED
  BY <1>1, <1>2, <1>3, <1>4, <1>5, <1>6, <1>7, <1>8, <1>9, <1>10, <1>11, <1>12, <1>13, <1>14
  DEF ExtNext, Progress

\* It holds at the start.
LEMMA DeliveryStart == ExtInit => DeliveryInv
<1> SUFFICES ASSUME ExtInit PROVE DeliveryInv
  OBVIOUS
<1>1. \A c \in Callers : call[c] = NoCall
  BY DEF ExtInit
<1>2. asset \in Asset \union {None} /\ (asset # None => released)
  <2>1. 1 \in 1 .. MaxId
    <3>1. Cardinality(Callers) \in Nat
      BY ExternalAssumption, FS_CardinalityType
    <3> QED BY <3>1, ExternalAssumption
  <2> QED BY <2>1 DEF ExtInit, Asset
<1>3. IsFiniteSet(late) /\ Cardinality(late) <= MaxLate
  BY FS_EmptySet, ExternalAssumption DEF ExtInit
<1>4. ExternalTypeOK
  BY <1>1, <1>2, <1>3, NoCallOK DEF ExtInit, ExternalTypeOK, NoCall
<1> QED BY <1>1, <1>4 DEF DeliveryInv, ExtInit, NoCall

\* The invariant holds of every run of every instance.
LEMMA DeliveryInvariance == ExtSpec => []DeliveryInv
<1> QED BY DeliveryStart, DeliveryStep, PTL DEF ExtSpec

\* Types, and no DELETE without an asset that the lookup has returned.
THEOREM ExternalTypes == ExtSpec => []ExternalTypeOK
<1>1. DeliveryInv => ExternalTypeOK
  BY DEF DeliveryInv
<1> QED BY <1>1, DeliveryInvariance, PTL

\* external-delivery-result.json reports a delivery only if the service has taken
\* that package, whatever was retried, lost, answered twice or already there.
THEOREM ResultsAreTrue == ExtSpec => []PerformedIsStored
<1>1. DeliveryInv => PerformedIsStored
  BY DEF DeliveryInv, PerformedIsStored
<1> QED BY <1>1, DeliveryInvariance, PTL

\* A request, in time or late, removes an asset only if a reviewer approved that.
LEMMA CarryOutApproved ==
  ASSUME DeliveryInv, NEW q \in Request,
         q.kind = "delete" => q.id # None /\ Approved(q.from, q.id),
         CarryOut(q), asset # None, asset' # asset
  PROVE  \E c \in Callers : config[c].approved /\ config[c].expected \in {None, asset.id}
<1>1. q.kind = "delete" /\ q.id = asset.id
  BY CarryOutKeeps DEF DeliveryInv
<1> QED BY <1>1 DEF Request, Approved

\* No asset is removed or replaced except on behalf of a root whose reviewer
\* approved the deletion of that very asset.
THEOREM DeletionsAreApproved == ExtSpec => AssetsLeaveByApproval
<1>1. DeliveryInv /\ [ExtNext]_extVars =>
        [ asset # None /\ asset' # asset =>
            \E c \in Callers :
              /\ config[c].approved
              /\ config[c].expected \in {None, asset.id} ]_extVars
  <2> SUFFICES ASSUME DeliveryInv, ExtNext, asset # None, asset' # asset
               PROVE  \E c \in Callers :
                        /\ config[c].approved
                        /\ config[c].expected \in {None, asset.id}
    BY DEF extVars, service
  <2>1. ASSUME NEW c \in Callers, Answer(c) \/ Fault(c)
        PROVE  \E d \in Callers : config[d].approved /\ config[d].expected \in {None, asset.id}
    <3>1. CarryOut(Outgoing(c)) /\ call[c].stage \in Kinds
      BY <2>1 DEF Answer, Fault, Waiting, service
    <3> QED BY <3>1, OutgoingOK, CarryOutApproved
  <2>2. ASSUME NEW q \in late, ServeLate(q)
        PROVE  \E d \in Callers : config[d].approved /\ config[d].expected \in {None, asset.id}
    <3>1. q \in Request /\ (q.kind = "delete" => q.id # None /\ Approved(q.from, q.id))
      BY DEF DeliveryInv, ExternalTypeOK
    <3> QED BY <3>1, <2>2, CarryOutApproved DEF ServeLate
  <2>3. ~(\E c \in Callers : Deliver(c) \/ Progress(c) \/ Crash(c)) /\ ~CalmDown
    BY DEF Deliver, Progress, Retry, Created, Found, Listed, Deleted, Uploaded, Sent, Record,
           Crash, CalmDown, service
  <2> QED BY <2>1, <2>2, <2>3 DEF ExtNext
<1> QED BY <1>1, DeliveryInvariance, PTL DEF ExtSpec, AssetsLeaveByApproval
=============================================================================
