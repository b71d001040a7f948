--------------------------- MODULE ExternalDelivery ---------------------------
(***************************************************************************)
(* The external delivery providers of delivery/executors.py that speak HTTP *)
(* (github-release, and webhook and presigned-object, which send one        *)
(* request), with the retry loop of _http_request_with_retries, the service *)
(* at the other end, and the result file the executor writes last.          *)
(*                                                                         *)
(* Several delivery roots deliver a package each to one release, under one  *)
(* asset name.  The service is external: GitHub refuses a release whose tag *)
(* exists, an asset whose name is taken, and the deletion of an asset that  *)
(* is gone.  Until it is calm it may answer any request with an error,      *)
(* carried out or not, may carry it out after the caller gave up on it, and *)
(* the calling process may die.  Delays between attempts, what is recorded  *)
(* about them, dry runs and preflight checks of the configuration are left  *)
(* out.                                                                     *)
(***************************************************************************)
EXTENDS Naturals, FiniteSets

CONSTANTS
  Callers,     \* delivery roots; each stands for its package as well
  Configs,     \* the provider configurations in use
  MaxRetries,  \* retry_attempts, after _coerce_retry_attempts
  MaxLate,     \* bound on the requests that may still be carried out late
  MaxId,       \* asset ids; one nobody holds any more is given out again
  None

\* The options of the provider a root is configured with: request is the one a
\* delivery begins with, a release to create or a package to send; approved
\* holds both approve_existing_asset_delete and approve_replacement_upload; repeat
\* says that the duplicate guard lets a delivery through that is on record already.
Config ==
  [begins : {"create", "send"}, reuse : BOOLEAN, check : BOOLEAN, allow : BOOLEAN,
   approved : BOOLEAN, repeat : BOOLEAN, expected : (1 .. MaxId) \union {None}]

ASSUME ExternalAssumption ==
  /\ Configs \subseteq [Callers -> Config]
  /\ MaxRetries \in 0 .. 5
  /\ MaxLate \in Nat
  /\ IsFiniteSet(Callers)
  /\ MaxId \in Nat
  /\ MaxId > 2 * Cardinality(Callers) + MaxLate
  /\ None \notin Nat

VARIABLES
  config,    \* per root: its provider configuration; it never changes
  released,  \* whether the release of the tag exists
  asset,     \* the asset of that name in the release
  late,      \* requests nobody waits for that the service may still carry out
  calm,      \* from some time on: no faults and no crashes
  call,      \* per root: the delivery in progress
  result,    \* per root: external-delivery-result.json
  stored     \* history: the packages the service has ever taken

service == <<released, asset, stored>>
extVars == <<config, service, late, calm, call, result>>

Kinds == {"create", "find", "list", "delete", "upload", "send"}

Asset == [id : 1 .. MaxId, by : Callers \union {None}]

Request == [from : Callers, kind : Kinds, id : (1 .. MaxId) \union {None}]

\* stage is the request under way, or where the call is between requests; reply
\* is what came back for the attempt; found is the asset the lookup has seen.
Call ==
  [stage : Kinds \union {"idle", "record"}, attempt : 1 .. MaxRetries + 1,
   reply : {"none", "ok", "refused", "retry"}, found : Asset \union {None},
   succeeded : BOOLEAN]

NoCall ==
  [stage |-> "idle", attempt |-> 1, reply |-> "none", found |-> None, succeeded |-> FALSE]

ExtInit ==
  /\ config \in Configs
  /\ released \in BOOLEAN
  /\ asset \in {None} \union {[id |-> 1, by |-> None] : x \in {y \in {1} : released}}
  /\ late = {}
  /\ calm = FALSE
  /\ call = [c \in Callers |-> NoCall]
  /\ result = [c \in Callers |-> "none"]
  /\ stored = {}

-----------------------------------------------------------------------------
\* What the service does with a request it carries out.
Refuses(q) ==
  \/ q.kind = "create" /\ released
  \/ q.kind \in {"find", "list", "upload"} /\ ~released
  \/ q.kind = "upload" /\ asset # None
  \/ q.kind = "delete" /\ (asset = None \/ asset.id # q.id)

\* The ids somebody still knows.
Held ==
  {config[c].expected : c \in Callers} \union {q.id : q \in late}
    \union {call[c].found.id : c \in {d \in Callers : call[d].found # None}}

NewId == CHOOSE i \in 1 .. MaxId : i \notin Held

CarryOut(q) ==
  IF Refuses(q) THEN UNCHANGED service
  ELSE
    /\ released' = (released \/ q.kind = "create")
    /\ asset' = CASE q.kind = "upload" -> [id |-> NewId, by |-> q.from]
                  [] q.kind = "delete" -> None
                  [] OTHER -> asset
    /\ stored' = IF q.kind \in {"upload", "send"} THEN stored \union {q.from} ELSE stored

Waiting(c) == call[c].stage \in Kinds /\ call[c].reply = "none"

\* The DELETE goes to the url of the asset the lookup returned.
Outgoing(c) ==
  [from |-> c, kind |-> call[c].stage,
   id |-> IF call[c].stage = "delete" THEN call[c].found.id ELSE None]

\* A lookup that is served late changes nothing and is not kept.
Lost(c) ==
  {late} \union
    {l \in {late \union {Outgoing(c)}} :
       call[c].stage \notin {"find", "list"} /\ Cardinality(l) <= MaxLate}

Reply(c, reply) ==
  call' = [call EXCEPT ![c].reply = reply,
                       ![c].found = IF call[c].stage = "list" /\ reply = "ok" THEN asset ELSE @]

\* The service carries out the request and the answer arrives.
Answer(c) ==
  /\ Waiting(c)
  /\ CarryOut(Outgoing(c))
  /\ Reply(c, IF Refuses(Outgoing(c)) THEN "refused" ELSE "ok")
  /\ UNCHANGED <<config, late, calm, result>>

\* It answers with an error, a retryable one or another, or not in time: the
\* request was carried out, was not, or will be later.
Fault(c) ==
  /\ ~calm
  /\ Waiting(c)
  /\ \E reply \in {"retry", "refused"} : Reply(c, reply)
  /\ \/ CarryOut(Outgoing(c)) /\ UNCHANGED late
     \/ late' \in Lost(c) /\ UNCHANGED service
  /\ UNCHANGED <<config, calm, result>>

ServeLate(q) ==
  /\ q \in late
  /\ late' = late \ {q}
  /\ CarryOut(q)
  /\ UNCHANGED <<config, calm, call, result>>

CalmDown ==
  /\ ~calm
  /\ calm' = TRUE
  /\ UNCHANGED <<config, service, late, call, result>>

-----------------------------------------------------------------------------
\* _build_external_delivery_duplicate_guard: a recorded delivery is made again
\* only with allow_duplicate_external_delivery, or when the journal names another
\* file than its result (the guard record, in DeliveryTransaction).
Deliver(c) ==
  /\ call[c].stage = "idle"
  /\ result[c] = "performed" => config[c].repeat
  /\ call' = [call EXCEPT ![c] = [NoCall EXCEPT !.stage = config[c].begins]]
  /\ UNCHANGED <<config, service, late, calm, result>>

\* One attempt is over: it is repeated while an error or a retryable status code
\* came back and attempts are left.
WillRetryForever(c) == call[c].reply = "retry"
WillRetry(c) == call[c].reply = "retry" /\ call[c].attempt < MaxRetries + 1

Retry(c) ==
  /\ call[c].stage \in Kinds
  /\ WillRetry(c)
  /\ call' = [call EXCEPT ![c].reply = "none",
                          ![c].attempt = IF @ > MaxRetries THEN @ ELSE @ + 1]
  /\ UNCHANGED <<config, service, late, calm, result>>

\* The last attempt of a stage is in: 200 <= status_code < 300 is a success.
AnyAnswerSucceeds(c) == call[c].reply # "retry"
Succeeded(c) == call[c].reply = "ok"

Answered(c, kind) ==
  /\ call[c].stage = kind
  /\ call[c].reply # "none"
  /\ ~WillRetry(c)

Goto(c, stage) ==
  call' = [call EXCEPT ![c] = [NoCall EXCEPT !.stage = stage,
                                             !.found = IF stage = "delete" THEN call[c].found ELSE None]]

Finish(c, succeeded) ==
  call' = [call EXCEPT ![c] = [NoCall EXCEPT !.stage = "record", !.succeeded = succeeded]]

WithRelease(c) == Goto(c, IF config[c].check THEN "list" ELSE "upload")

CreatedWithoutReuse(c) ==
  /\ Answered(c, "create")
  /\ IF Succeeded(c) THEN WithRelease(c) ELSE Finish(c, FALSE)
  /\ UNCHANGED <<config, service, late, calm, result>>

\* A release that could not be created may be there already.
Created(c) ==
  /\ Answered(c, "create")
  /\ IF Succeeded(c) THEN WithRelease(c)
     ELSE IF config[c].reuse THEN Goto(c, "find")
     ELSE Finish(c, FALSE)
  /\ UNCHANGED <<config, service, late, calm, result>>

Found(c) ==
  /\ Answered(c, "find")
  /\ IF Succeeded(c) THEN WithRelease(c) ELSE Finish(c, FALSE)
  /\ UNCHANGED <<config, service, late, calm, result>>

\* _github_existing_asset_identity_matches and the two approvals.
ApprovedWithoutAsset(c) == config[c].approved
ApprovedForAnyAsset(c) == call[c].found # None /\ config[c].approved
DeleteApproved(c) ==
  /\ call[c].found # None
  /\ config[c].approved
  /\ config[c].expected \in {None, call[c].found.id}

Listed(c) ==
  /\ Answered(c, "list")
  /\ IF ~Succeeded(c) THEN Finish(c, FALSE)
     ELSE IF DeleteApproved(c) THEN Goto(c, "delete")
     ELSE IF call[c].found = None \/ config[c].allow THEN Goto(c, "upload")
     ELSE Finish(c, FALSE)
  /\ UNCHANGED <<config, service, late, calm, result>>

\* The upload needs the deletion to have succeeded, or allow_existing_asset.
Deleted(c) ==
  /\ Answered(c, "delete")
  /\ IF Succeeded(c) \/ config[c].allow THEN Goto(c, "upload") ELSE Finish(c, FALSE)
  /\ UNCHANGED <<config, service, late, calm, result>>

Uploaded(c) ==
  /\ Answered(c, "upload")
  /\ Finish(c, Succeeded(c))
  /\ UNCHANGED <<config, service, late, calm, result>>

\* _post_json and _put_json: webhook and presigned object.
Sent(c) ==
  /\ Answered(c, "send")
  /\ Finish(c, Succeeded(c))
  /\ UNCHANGED <<config, service, late, calm, result>>

\* external-delivery-result.json is written when the provider has returned.
Record(c) ==
  /\ call[c].stage = "record"
  /\ result' = [result EXCEPT ![c] = IF call[c].succeeded THEN "performed" ELSE "blocked"]
  /\ call' = [call EXCEPT ![c] = NoCall]
  /\ UNCHANGED <<config, service, late, calm>>

\* The process dies; what it asked for may still be carried out.
Crash(c) ==
  /\ ~calm
  /\ call[c].stage # "idle"
  /\ call' = [call EXCEPT ![c] = NoCall]
  /\ late' \in IF Waiting(c) THEN Lost(c) ELSE {late}
  /\ UNCHANGED <<config, service, calm, result>>

Progress(c) ==
  \/ Retry(c) \/ Created(c) \/ Found(c) \/ Listed(c) \/ Deleted(c) \/ Uploaded(c)
  \/ Sent(c) \/ Record(c)

ExtNext ==
  \/ \E c \in Callers : Deliver(c) \/ Progress(c) \/ Answer(c) \/ Fault(c) \/ Crash(c)
  \/ \E q \in late : ServeLate(q)
  \/ CalmDown

\* A live process goes on with its delivery, and every attempt ends: urlopen
\* returns, raises, or times out.
ExtFairness ==
  \A c \in Callers :
    /\ WF_extVars(Progress(c))
    /\ WF_extVars(Answer(c) \/ Fault(c))

ExtSpec == ExtInit /\ [][ExtNext]_extVars /\ ExtFairness

-----------------------------------------------------------------------------
ExternalTypeOK ==
  /\ config \in Configs
  /\ released \in BOOLEAN
  /\ asset \in Asset \union {None}
  /\ late \subseteq Request
  /\ IsFiniteSet(late) /\ Cardinality(late) <= MaxLate
  /\ calm \in BOOLEAN
  /\ call \in [Callers -> Call]
  /\ result \in [Callers -> {"none", "blocked", "performed"}]
  /\ stored \subseteq Callers
  /\ asset # None => released
  /\ \A c \in Callers : call[c].stage = "delete" => call[c].found # None

\* A result file that reports the delivery is never wrong: the service has taken
\* that root's own package, whatever was lost, retried or already there.
PerformedIsStored ==
  \A c \in Callers : result[c] = "performed" => c \in stored

\* An asset leaves the release only on behalf of a root whose reviewer approved
\* the deletion, and of that very asset when the approval names one: neither a
\* request that arrives late nor a lookup that is out of date removes another.
AssetsLeaveByApproval ==
  [][ (asset # None /\ asset' # asset) =>
        \E c \in Callers :
          /\ config[c].approved
          /\ config[c].expected \in {None, asset.id} ]_extVars

\* Every delivery ends with a recorded result or with its process, however often
\* the service answers with an error.
DeliveriesEnd ==
  \A c \in Callers : call[c].stage # "idle" ~> call[c].stage = "idle"

\* Once the service is calm, a root that may replace the asset and is delivered
\* again after each blocked result gets its package stored, even if an earlier
\* run died between the deletion and the upload, or lost the answer to either.
MayReplace(c) ==
  \/ config[c].begins = "send"
  \/ config[c].reuse /\ config[c].check /\ config[c].approved /\ config[c].expected = None

RetriesDeliver ==
  \A c \in Callers :
    MayReplace(c) /\ <>calm /\ []<><<Deliver(c)>>_extVars => <>(c \in stored)
=============================================================================
