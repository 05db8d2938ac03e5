------------------------------ MODULE Webhooks ------------------------------
(***************************************************************************)
(* Webhook deliveries (src/webhooks).  An event gets one delivery row and  *)
(* one job of the queue per subscribed endpoint; the queue's processor     *)
(* posts it, a job that runs every minute posts FAILED ones again, and an  *)
(* operator may ask for that.  All of them write the same row.             *)
(*                                                                         *)
(* The queue is Bull, modelled from how the code uses it: a job that       *)
(* throws is run again until `attempts` are made, a job whose worker died  *)
(* is run once more, and a job that ended is removed.                      *)
(***************************************************************************)
EXTENDS Naturals, FiniteSets

CONSTANTS Endpoints,    \* endpoints that may be created, each by one request
          Owner,        \* the owner of each endpoint
          Subscribes,   \* the events each endpoint subscribes to
          Events,       \* the events that are dispatched
          Ticks,        \* runs of the minutely job that may overlap
          Operators,    \* requests for a manual retry
          MAX_ENDPOINTS_PER_USER, attempts, maxRetries,
          None

Deliveries == Events \X Endpoints

ASSUME WebhooksAssumption ==
    /\ Subscribes \in [Endpoints -> SUBSET Events]
    /\ MAX_ENDPOINTS_PER_USER \in Nat
    /\ attempts \in Nat \ {0} /\ maxRetries \in Nat
    /\ None \notin Deliveries

VARIABLES endpoints,    \* rows of webhook_endpoints
          creator,      \* per endpoint: the step of the request creating it
          dispatcher,   \* per event: the step of dispatchEvent
          targets,      \* per event: the endpoints it has still to serve
          row,          \* per delivery: its row; status "none": no such row
          job,          \* per delivery: its job in the queue
          attemptsMade, stalled, \* of that job
          expired,      \* jobs older than the replay window
          worker,       \* per delivery: the step of the processor
          entity,       \* per delivery: the entity the processor works on
          tick,         \* per run: its step
          due,          \* per run: the deliveries it has still to retry
          snapshot,     \* per run: their entities, as it read them
          current,      \* per run: the delivery it is at
          operator, wish, wished, \* per request: step, delivery, its retryCount
          accepted,     \* history: deliveries an endpoint has received
          posts,        \* history: per delivery, the posts of the processor
          struck        \* history: deliveries hit by a fault of the system

source == <<endpoints, creator, dispatcher, targets>>
queue == <<job, attemptsMade, stalled, expired>>
processor == <<worker, entity>>
retrier == <<tick, due, snapshot, current>>
manual == <<operator, wish, wished>>
history == <<accepted, posts, struck>>
vars == <<source, row, queue, processor, retrier, manual, history>>

Statuses == {"none", "pending", "delivered", "failed", "expired"}
Rows == [status : Statuses, attemptCount : Nat, retryCount : 0..maxRetries,
         nextRetryAt : {"null", "past", "future"}]
NoRow == [status |-> "none", attemptCount |-> 0, retryCount |-> 0,
          nextRetryAt |-> "null"]

Init == /\ endpoints = {}
        /\ creator = [e \in Endpoints |-> "idle"]
        /\ dispatcher = [v \in Events |-> "idle"]
        /\ targets = [v \in Events |-> {}]
        /\ row = [d \in Deliveries |-> NoRow]
        /\ job = [d \in Deliveries |-> "none"]
        /\ attemptsMade = [d \in Deliveries |-> 0]
        /\ stalled = {}
        /\ expired = {}
        /\ worker = [d \in Deliveries |-> "idle"]
        /\ entity = [d \in Deliveries |-> NoRow]
        /\ tick = [k \in Ticks |-> "idle"]
        /\ due = [k \in Ticks |-> {}]
        /\ snapshot = [k \in Ticks |-> row]
        /\ current = [k \in Ticks |-> None]
        /\ operator = [o \in Operators |-> "idle"]
        /\ wish = [o \in Operators |-> None]
        /\ wished = [o \in Operators |-> 0]
        /\ accepted = {}
        /\ posts = [d \in Deliveries |-> 0]
        /\ struck = {}

(***************************************************************************)
(* Endpoints.                                                              *)
(***************************************************************************)
(* The owner's endpoints are counted; nothing is held until the save. *)
createEndpoint(e) ==
    LET active == {f \in endpoints : Owner[f] = Owner[e]} IN
    /\ creator[e] = "idle"
    /\ \/ /\ Cardinality(active) >= MAX_ENDPOINTS_PER_USER
          /\ creator' = [creator EXCEPT ![e] = "refused"]
       \/ /\ Cardinality(active) < MAX_ENDPOINTS_PER_USER
          /\ creator' = [creator EXCEPT ![e] = "validate"]
    /\ UNCHANGED <<endpoints, dispatcher, targets, row, queue, processor,
                   retrier, manual, history>>

(* validateWebhookUrl looks the host up, and accepts it or not. *)
SaveEndpoint(e) ==
    /\ creator[e] = "validate"
    /\ \/ creator' = [creator EXCEPT ![e] = "refused"] /\ UNCHANGED endpoints
       \/ /\ creator' = [creator EXCEPT ![e] = "ok"]
          /\ endpoints' = endpoints \cup {e}
    /\ UNCHANGED <<dispatcher, targets, row, queue, processor, retrier, manual,
                   history>>

(* No code deletes an endpoint; the processor allows for its absence. *)
RemoveEndpoint(e) ==
    /\ e \in endpoints
    /\ endpoints' = endpoints \ {e}
    /\ UNCHANGED <<creator, dispatcher, targets, row, queue, processor, retrier,
                   manual, history>>

(***************************************************************************)
(* dispatchEvent: per target, a row and then a job.                        *)
(***************************************************************************)
dispatchEvent(v) ==
    /\ dispatcher[v] = "idle"
    /\ targets' = [targets EXCEPT ![v] =
                     {e \in endpoints : v \in Subscribes[e]}]
    /\ dispatcher' = [dispatcher EXCEPT ![v] = "save"]
    /\ UNCHANGED <<endpoints, creator, row, queue, processor, retrier, manual,
                   history>>

SaveDelivery(v, e) ==
    /\ dispatcher[v] = "save" /\ e \in targets[v]
    /\ row' = [row EXCEPT ![<<v, e>>].status = "pending"]
    /\ dispatcher' = [dispatcher EXCEPT ![v] = "add"]
    /\ UNCHANGED <<endpoints, creator, targets, queue, processor, retrier,
                   manual, history>>

(* The target whose row is saved and whose job is not yet added. *)
Saved(v, e) == /\ dispatcher[v] = "add" /\ e \in targets[v]
               /\ row[<<v, e>>].status # "none"

AddJob(v, e) ==
    /\ Saved(v, e)
    /\ job' = [job EXCEPT ![<<v, e>>] = "waiting"]
    /\ targets' = [targets EXCEPT ![v] = @ \ {e}]
    /\ dispatcher' = [dispatcher EXCEPT ![v] = "save"]
    /\ UNCHANGED <<endpoints, creator, row, attemptsMade, stalled, expired,
                   processor, retrier, manual, history>>

(* The save or the queue throws: the other targets get nothing either. *)
DispatchFails(v) ==
    /\ targets[v] # {} /\ dispatcher[v] \in {"save", "add"}
    /\ dispatcher' = [dispatcher EXCEPT ![v] = "failed"]
    /\ struck' = struck \cup {<<v, e>> : e \in {f \in Endpoints : Saved(v, f)}}
    /\ UNCHANGED <<endpoints, creator, targets, row, queue, processor, retrier,
                   manual, accepted, posts>>

(***************************************************************************)
(* The processor.                                                          *)
(***************************************************************************)
Work(d, step) == worker' = [worker EXCEPT ![d] = step]

(* The job ends and is removed. *)
JobEnds(d) ==
    /\ Work(d, "idle")
    /\ job' = [job EXCEPT ![d] = "gone"]
    /\ UNCHANGED attemptsMade

(* Mutant: the job is added without a number of attempts to count to. *)
JobThrowsAgain(d) ==
    /\ Work(d, "idle")
    /\ job' = [job EXCEPT ![d] = "waiting"]
    /\ UNCHANGED attemptsMade

(* The processor throws: Bull runs the job again while attempts are left. *)
JobThrows(d) ==
    /\ Work(d, "idle")
    /\ attemptsMade' = [attemptsMade EXCEPT ![d] = @ + 1]
    /\ job' = [job EXCEPT ![d] =
                 IF attemptsMade[d] + 1 < attempts THEN "waiting" ELSE "gone"]

(* Bull hands a job to the processor, which loads the row. *)
deliver(d) ==
    /\ job[d] = "waiting"
    /\ job' = [job EXCEPT ![d] = "active"]
    /\ entity' = [entity EXCEPT ![d] = row[d]]
    /\ Work(d, "lookup")
    /\ UNCHANGED <<source, row, attemptsMade, stalled, expired, retrier, manual,
                   history>>

LookUpEndpoint(d) ==
    /\ worker[d] = "lookup"
    /\ \/ /\ d[2] \notin endpoints
          /\ entity' = [entity EXCEPT ![d].status = "failed"]
          /\ Work(d, "missing")
       \/ /\ d[2] \in endpoints /\ d \in expired
          /\ entity' = [entity EXCEPT ![d].status = "expired",
                                      ![d].attemptCount = @ + 1]
          /\ Work(d, "tooLate")
       \/ /\ d[2] \in endpoints /\ d \notin expired
          /\ entity' = [entity EXCEPT ![d].attemptCount = @ + 1]
          /\ Work(d, "attempt")
    /\ UNCHANGED <<source, row, queue, retrier, manual, history>>

(* What save makes of the row: the columns the processor set become the    *)
(* entity's; those it did not set do so as well, unless they changed after *)
(* TypeORM compared the entity with the row.                               *)
Written(d) ==
    {entity[d],
     [row[d] EXCEPT !.attemptCount = entity[d].attemptCount,
                    !.status = IF worker[d] \in {"attempt", "retry"}
                                  THEN @ ELSE entity[d].status]}

SaveSteps == {"missing", "tooLate", "attempt", "delivered", "lastFailure",
              "retry"}

(* Mutant: an attempt is posted first and counted afterwards. *)
SaveUncounted(d) ==
    /\ worker[d] \in SaveSteps
    /\ row' = IF worker[d] = "attempt" THEN row
                                       ELSE [row EXCEPT ![d] = entity[d]]
    /\ \/ worker[d] = "attempt" /\ Work(d, "post")
                                /\ UNCHANGED <<job, attemptsMade>>
       \/ worker[d] = "retry" /\ JobThrows(d)
       \/ worker[d] \notin {"attempt", "retry"} /\ JobEnds(d)
    /\ UNCHANGED <<source, stalled, expired, entity, retrier, manual, history>>

Save(d) ==
    /\ worker[d] \in SaveSteps
    /\ \E w \in Written(d) : row' = [row EXCEPT ![d] = w]
    /\ \/ worker[d] = "attempt" /\ Work(d, "post")
                                /\ UNCHANGED <<job, attemptsMade>>
       \/ worker[d] = "retry" /\ JobThrows(d)
       \/ worker[d] \notin {"attempt", "retry"} /\ JobEnds(d)
    /\ UNCHANGED <<source, stalled, expired, entity, retrier, manual, history>>

(* Mutant: the last attempt is missed by one. *)
CatchOneMore(d) ==
    /\ UNCHANGED <<job, attemptsMade, entity>>
    /\ Work(d, "retry")

(* The catch block: the last attempt is marked FAILED, an earlier one is   *)
(* saved as it is, whatever status it has by then, and thrown on.          *)
Catch(d) ==
    /\ UNCHANGED <<job, attemptsMade>>
    /\ \/ /\ attemptsMade[d] + 1 >= attempts
          /\ entity' = [entity EXCEPT ![d].status = "failed"]
          /\ Work(d, "lastFailure")
       \/ /\ attemptsMade[d] + 1 < attempts
          /\ Work(d, "retry") /\ UNCHANGED entity

(* Mutant: every answer counts as success. *)
PostUnchecked(d) ==
    /\ worker[d] = "post"
    /\ posts' = [posts EXCEPT ![d] = @ + 1]
    /\ entity' = [entity EXCEPT ![d].status = "delivered"]
    /\ Work(d, "delivered")
    /\ \E received \in BOOLEAN :
          accepted' = IF received THEN accepted \cup {d} ELSE accepted
    /\ UNCHANGED <<source, row, queue, retrier, manual, struck>>

(* The endpoint answers; or the post fails, before or after the endpoint   *)
(* has received it.                                                        *)
Post(d) ==
    /\ worker[d] = "post"
    /\ posts' = [posts EXCEPT ![d] = @ + 1]
    /\ \/ /\ accepted' = accepted \cup {d}
          /\ entity' = [entity EXCEPT ![d].status = "delivered"]
          /\ Work(d, "delivered") /\ UNCHANGED <<job, attemptsMade>>
       \/ accepted' \in {accepted, accepted \cup {d}} /\ Catch(d)
    /\ UNCHANGED <<source, row, stalled, expired, retrier, manual, struck>>

(* A statement of the processor throws; a save may have had its effect.    *)
WorkerFails(d) ==
    /\ worker[d] \in SaveSteps \cup {"lookup"}
    /\ \/ UNCHANGED row
       \/ /\ worker[d] \in SaveSteps
          /\ \E w \in Written(d) : row' = [row EXCEPT ![d] = w]
    /\ \/ worker[d] = "delivered" /\ Catch(d)
       \/ worker[d] # "delivered" /\ JobThrows(d) /\ UNCHANGED entity
    /\ struck' = struck \cup {d}
    /\ UNCHANGED <<source, stalled, expired, retrier, manual, accepted, posts>>

(***************************************************************************)
(* The minutely job.  It reads the rows once and works on that copy; a run *)
(* that takes longer than a minute overlaps the next.                      *)
(***************************************************************************)
retryFailedDeliveries(k) ==
    LET ready == {d \in Deliveries : /\ row[d].status = "failed"
                                     /\ row[d].nextRetryAt = "past"} IN
    /\ tick[k] = "idle" /\ ready # {}
    /\ due' = [due EXCEPT ![k] = ready]
    /\ snapshot' = [snapshot EXCEPT ![k] = row]
    /\ tick' = [tick EXCEPT ![k] = "next"]
    /\ UNCHANGED <<source, row, queue, processor, current, manual, history>>

Step(k, step) == tick' = [tick EXCEPT ![k] = step]
Continue(k) == Step(k, IF due'[k] = {} THEN "idle" ELSE "next")

NextDue(k, d) ==
    /\ tick[k] = "next" /\ d \in due[k]
    /\ due' = [due EXCEPT ![k] = @ \ {d}]
    /\ current' = [current EXCEPT ![k] = d]
    /\ \/ snapshot[k][d].retryCount >= maxRetries /\ Step(k, "giveUp")
       \/ /\ snapshot[k][d].retryCount < maxRetries
          /\ d[2] \notin endpoints
          /\ Continue(k)
       \/ /\ snapshot[k][d].retryCount < maxRetries
          /\ d[2] \in endpoints
          /\ Step(k, "post")
    /\ UNCHANGED <<source, row, queue, processor, snapshot, manual, history>>

(* nextRetryAt: undefined in an update leaves the column alone. *)
GiveUp(k) ==
    /\ tick[k] = "giveUp"
    /\ row' = [row EXCEPT ![current[k]].status = "failed"]
    /\ due' = due /\ Continue(k)
    /\ UNCHANGED <<source, queue, processor, snapshot, current, manual, history>>

PostAgain(k) ==
    /\ tick[k] = "post"
    /\ \/ accepted' = accepted \cup {current[k]} /\ Step(k, "succeeded")
       \/ /\ accepted' \in {accepted, accepted \cup {current[k]}}
          /\ Step(k, "failed")
    /\ UNCHANGED <<source, row, queue, processor, due, snapshot, current, manual,
                   posts, struck>>

(* Mutant: the count is incremented in the row, whatever it is by then. *)
RetriedIncrement(k) ==
    LET d == current[k]
        n == row[d].retryCount + 1
    IN  [row[d] EXCEPT !.retryCount = n,
           !.status = IF tick[k] = "succeeded" THEN "delivered" ELSE "failed",
           !.nextRetryAt = IF tick[k] = "failed" /\ n < maxRetries
                              THEN "future" ELSE @]

(* The row after the update that records the outcome. *)
Retried(k) ==
    LET d == current[k]
        n == snapshot[k][d].retryCount + 1
    IN  IF tick[k] = "succeeded"
           THEN [row[d] EXCEPT !.status = "delivered", !.retryCount = n]
           ELSE [row[d] EXCEPT !.status = "failed", !.retryCount = n,
                   !.nextRetryAt = IF n < maxRetries THEN "future" ELSE @]

UpdateRetried(k) ==
    /\ tick[k] \in {"succeeded", "failed"}
    /\ row' = [row EXCEPT ![current[k]] = Retried(k)]
    /\ due' = due /\ Continue(k)
    /\ UNCHANGED <<source, queue, processor, snapshot, current, manual, history>>

(* A statement of the run throws.  The update after a success is inside    *)
(* the try block, so the delivery is then recorded as failed; any other    *)
(* error ends the run.                                                     *)
TickFails(k) ==
    /\ tick[k] # "idle" /\ tick[k] # "post"
    /\ \/ UNCHANGED row
       \/ /\ tick[k] \in {"succeeded", "failed"}
          /\ row' = [row EXCEPT ![current[k]] = Retried(k)]
    /\ \/ tick[k] = "succeeded" /\ Step(k, "failed") /\ UNCHANGED due
       \/ /\ tick[k] # "succeeded" /\ Step(k, "idle")
          /\ due' = [due EXCEPT ![k] = {}]
    /\ UNCHANGED <<source, queue, processor, snapshot, current, manual, history>>

(***************************************************************************)
(* manualRetry, of a delivery in whatever status.                          *)
(***************************************************************************)
manualRetry(o, d) ==
    /\ operator[o] = "idle" /\ row[d].status # "none"
    /\ operator' = [operator EXCEPT ![o] = "update"]
    /\ wish' = [wish EXCEPT ![o] = d]
    /\ wished' = [wished EXCEPT ![o] = row[d].retryCount]
    /\ UNCHANGED <<source, row, queue, processor, retrier, history>>

MarkDue(o) ==
    /\ operator[o] = "update"
    /\ operator' = [operator EXCEPT ![o] = "ok"]
    /\ row' = [row EXCEPT ![wish[o]].nextRetryAt = "past",
                          ![wish[o]].retryCount =
                              IF wished[o] >= maxRetries THEN 0 ELSE @]
    /\ UNCHANGED <<source, queue, processor, retrier, wish, wished, history>>

(***************************************************************************)
(* Time and restarts.                                                      *)
(***************************************************************************)
RetryIsDue(d) ==
    /\ row[d].nextRetryAt = "future"
    /\ row' = [row EXCEPT ![d].nextRetryAt = "past"]
    /\ UNCHANGED <<source, queue, processor, retrier, manual, history>>

WindowEnds(d) ==
    /\ job[d] = "waiting" /\ d \notin expired
    /\ expired' = expired \cup {d}
    /\ UNCHANGED <<source, row, job, attemptsMade, stalled, processor, retrier,
                   manual, history>>

(* Everything in flight ends.  Bull finds the jobs whose worker died and   *)
(* runs each of them once more; a second time it fails them.               *)
Active == {d \in Deliveries : job[d] = "active"}

Restart ==
    /\ Active # {} \/ \E v \in Events : dispatcher[v] = "add"
    /\ job' = [d \in Deliveries |->
                 IF d \notin Active THEN job[d]
                 ELSE IF d \in stalled THEN "gone" ELSE "waiting"]
    /\ stalled' = stalled \cup Active
    /\ worker' = [d \in Deliveries |-> "idle"]
    /\ struck' = struck \cup Active
                        \cup {d \in Deliveries : Saved(d[1], d[2])}
    /\ creator' = [e \in Endpoints |->
                     IF creator[e] = "validate" THEN "failed" ELSE creator[e]]
    /\ dispatcher' = [v \in Events |->
                        IF dispatcher[v] \in {"save", "add"} THEN "failed"
                                                             ELSE dispatcher[v]]
    /\ tick' = [k \in Ticks |-> "idle"]
    /\ due' = [k \in Ticks |-> {}]
    /\ operator' = [o \in Operators |->
                      IF operator[o] = "update" THEN "failed" ELSE operator[o]]
    /\ UNCHANGED <<endpoints, targets, row, attemptsMade, expired, entity,
                   snapshot, current, wish, wished, accepted, posts>>

Process(d) == deliver(d) \/ LookUpEndpoint(d) \/ Save(d) \/ Post(d)

Dispatch(v) == \/ dispatchEvent(v) \/ DispatchFails(v)
               \/ \E e \in Endpoints : SaveDelivery(v, e) \/ AddJob(v, e)

RetryRun(k) == \/ retryFailedDeliveries(k) \/ GiveUp(k) \/ PostAgain(k)
               \/ UpdateRetried(k) \/ TickFails(k)
               \/ \E d \in Deliveries : NextDue(k, d)

Next == \/ \E e \in Endpoints : \/ createEndpoint(e) \/ SaveEndpoint(e)
                                \/ RemoveEndpoint(e)
        \/ \E v \in Events : Dispatch(v)
        \/ \E d \in Deliveries : \/ Process(d) \/ WorkerFails(d)
                                 \/ RetryIsDue(d) \/ WindowEnds(d)
        \/ \E k \in Ticks : RetryRun(k)
        \/ \E o \in Operators : \/ \E d \in Deliveries : manualRetry(o, d)
                                \/ MarkDue(o)
        \/ Restart

Spec == Init /\ [][Next]_vars

(* Bull hands out waiting jobs, and the processor's awaits return. *)
FairSpec == Spec /\ \A d \in Deliveries : WF_vars(Process(d))

(***************************************************************************)
(* Properties.                                                             *)
(***************************************************************************)
(* Every variable keeps the shape the code gives it; retryCount stays      *)
(* within maxRetries although overlapping runs and manual retries write it *)
(* from old copies.                                                        *)
TypeOK == /\ endpoints \in SUBSET Endpoints
          /\ creator \in [Endpoints ->
                            {"idle", "validate", "ok", "refused", "failed"}]
          /\ dispatcher \in [Events -> {"idle", "save", "add", "failed"}]
          /\ targets \in [Events -> SUBSET Endpoints]
          /\ row \in [Deliveries -> Rows]
          /\ job \in [Deliveries -> {"none", "waiting", "active", "gone"}]
          /\ attemptsMade \in [Deliveries -> 0..attempts]
          /\ stalled \in SUBSET Deliveries
          /\ expired \in SUBSET Deliveries
          /\ worker \in [Deliveries -> SaveSteps \cup {"idle", "lookup", "post"}]
          /\ entity \in [Deliveries -> Rows]
          /\ tick \in [Ticks -> {"idle", "next", "giveUp", "post", "succeeded",
                                 "failed"}]
          /\ due \in [Ticks -> SUBSET Deliveries]
          /\ snapshot \in [Ticks -> [Deliveries -> Rows]]
          /\ current \in [Ticks -> Deliveries \cup {None}]
          /\ operator \in [Operators -> {"idle", "update", "ok", "failed"}]
          /\ wish \in [Operators -> Deliveries \cup {None}]
          /\ wished \in [Operators -> 0..maxRetries]
          /\ accepted \in SUBSET Deliveries
          /\ posts \in [Deliveries -> Nat]
          /\ struck \in SUBSET Deliveries

(* A delivery marked DELIVERED was received by its endpoint, whichever of  *)
(* the processor and the overlapping retries wrote the row last.           *)
DeliveredMeansAccepted ==
    \A d \in Deliveries : row[d].status = "delivered" => d \in accepted

(* Every post of the processor is on record before it is sent: a crash or  *)
(* a failed save never leaves attemptCount below the posts made.           *)
PostsOnRecord == \A d \in Deliveries : posts[d] <= row[d].attemptCount

(* A delivery is left PENDING with no job to send it only where a restart  *)
(* or a failed statement hit it: refused posts alone end in FAILED.        *)
NothingStranded ==
    \A d \in Deliveries :
        /\ row[d].status = "pending"
        /\ job[d] \in {"none", "gone"}
        /\ ~Saved(d[1], d[2])
        => d \in struck

(* What a delivery's row says of its posts can be relied on, its counters  *)
(* keep their bounds, and nothing but a fault strands it.                  *)
DeliveriesAreHonest == /\ TypeOK
                       /\ DeliveredMeansAccepted
                       /\ PostsOnRecord
                       /\ NothingStranded

(* Every job leaves the queue: throws and stalls are bounded. *)
JobsEnd == \A d \in Deliveries : job[d] = "waiting" ~> job[d] = "gone"
============================================================================
