--------------------------- MODULE WebhooksProofs ---------------------------
(***************************************************************************)
(* Proofs about Webhooks: whatever the number of endpoints, events,        *)
(* overlapping runs and requests, a delivery's row can be relied on.       *)
(*                                                                         *)
(* The four writers of a row (dispatchEvent, the processor, the minutely   *)
(* job, manualRetry) work from copies, so the invariant says of each copy  *)
(* what its writer will make of the row.                                   *)
(***************************************************************************)
EXTENDS Webhooks, TLAPS

(* A job that is queued or running has attempts left, and a row. *)
JobFits(d) ==
    /\ job[d] = "none" => attemptsMade[d] = 0
    /\ job[d] \in {"waiting", "active"} => attemptsMade[d] < attempts
    /\ job[d] # "none" => row[d].status # "none"

(* The processor works on an entity that counts its posts, has the status  *)
(* of the outcome it is about to save, and throws only when attempts are   *)
(* left.                                                                   *)
WorkerFits(d) ==
    /\ worker[d] # "idle" => /\ job[d] = "active" /\ entity[d].status # "none"
                             /\ posts[d] <= entity[d].attemptCount
    /\ worker[d] \in {"attempt", "tooLate", "post"} => posts[d] < entity[d].attemptCount
    /\ worker[d] = "post" => posts[d] < row[d].attemptCount
    /\ worker[d] \in {"missing", "lastFailure"} => entity[d].status = "failed"
    /\ worker[d] = "tooLate" => entity[d].status = "expired"
    /\ worker[d] = "delivered" => entity[d].status = "delivered"
    /\ worker[d] = "retry" => attemptsMade[d] + 1 < attempts
    /\ entity[d].status = "delivered" => d \in accepted

(* What the row says, and that somebody minds it. *)
RowFits(d) ==
    /\ row[d].status = "delivered" => d \in accepted
    /\ posts[d] <= row[d].attemptCount
    /\ row[d].status # "none" /\ job[d] = "none" => Saved(d[1], d[2]) \/ d \in struck
    /\ row[d].status = "pending" /\ job[d] = "gone" => d \in struck

(* An event has no rows for the targets it has still to serve, but for the *)
(* one whose job comes next.                                               *)
DispatcherFits(v) ==
    /\ dispatcher[v] = "idle" => \A e \in Endpoints : row[<<v, e>>].status = "none"
    /\ dispatcher[v] = "save" => \A e \in targets[v] : row[<<v, e>>].status = "none"
    /\ dispatcher[v] = "add" =>
            /\ \A e \in targets[v] : job[<<v, e>>] = "none"
            /\ \A e, f \in targets[v] : row[<<v, e>>].status # "none" /\ row[<<v, f>>].status # "none"
                                            => e = f

(* A run is at a row that exists, with a retry left, and was answered if   *)
(* it says so.                                                             *)
TickFits(k) ==
    /\ \A d \in due[k] : row[d].status # "none"
    /\ tick[k] \in {"giveUp", "post", "succeeded", "failed"} =>
            current[k] \in Deliveries /\ row[current[k]].status # "none"
    /\ tick[k] \in {"post", "succeeded", "failed"} => snapshot[k][current[k]].retryCount < maxRetries
    /\ tick[k] = "succeeded" => current[k] \in accepted

OperatorFits(o) == operator[o] = "update" => wish[o] \in Deliveries

WInv == /\ TypeOK
        /\ \A d \in Deliveries : JobFits(d) /\ WorkerFits(d) /\ RowFits(d)
        /\ \A v \in Events : DispatcherFits(v)
        /\ \A k \in Ticks : TickFits(k)
        /\ \A o \in Operators : OperatorFits(o)
(***************************************************************************)
(* What the steps have in common.                                          *)
(***************************************************************************)
LEMMA DeliveryIsPair ==
    ASSUME NEW d \in Deliveries
    PROVE  d[1] \in Events /\ d[2] \in Endpoints /\ d = <<d[1], d[2]>>
  BY DEF Deliveries

LEMMA PairIsDelivery ==
    ASSUME NEW v \in Events, NEW e \in Endpoints
    PROVE  <<v, e>> \in Deliveries /\ <<v, e>>[1] = v /\ <<v, e>>[2] = e
  BY DEF Deliveries

(* What a step must leave alone for a delivery's three facts to stay. *)
LEMMA DeliveryKept ==
    ASSUME NEW d \in Deliveries, JobFits(d), WorkerFits(d), RowFits(d),
           job'[d] = job[d], attemptsMade'[d] = attemptsMade[d],
           worker'[d] = worker[d], entity'[d] = entity[d], posts'[d] = posts[d],
           row'[d].attemptCount = row[d].attemptCount,
           row'[d].status = "none" <=> row[d].status = "none",
           row'[d].status = "pending" => row[d].status = "pending",
           row'[d].status = "delivered" => row[d].status = "delivered" \/ d \in accepted,
           accepted \subseteq accepted', struck \subseteq struck',
           Saved(d[1], d[2]) => Saved(d[1], d[2])' \/ d \in struck'
    PROVE  JobFits(d)' /\ WorkerFits(d)' /\ RowFits(d)'
  <1>1. JobFits(d)'
    BY DEF JobFits
  <1>2. WorkerFits(d)'
    BY DEF WorkerFits
  <1>3. RowFits(d)'
    BY DEF RowFits
  <1> QED BY <1>1, <1>2, <1>3

LEMMA DispatcherKept ==
    ASSUME NEW v \in Events, DispatcherFits(v), targets[v] \in SUBSET Endpoints,
           dispatcher'[v] = dispatcher[v], targets'[v] = targets[v],
           \A d \in Deliveries : /\ row'[d].status = "none" <=> row[d].status = "none"
                                 /\ job'[d] = "none" <=> job[d] = "none"
    PROVE  DispatcherFits(v)'
  <1>1. \A e \in Endpoints : /\ row'[<<v, e>>].status = "none" <=> row[<<v, e>>].status = "none"
                             /\ job'[<<v, e>>] = "none" <=> job[<<v, e>>] = "none"
    BY PairIsDelivery
  <1>2. CASE dispatcher[v] = "add"
    <2>1. \A e \in targets'[v] : job'[<<v, e>>] = "none"
      BY <1>1, <1>2 DEF DispatcherFits
    <2>2. \A e, f \in targets'[v] : row'[<<v, e>>].status # "none" /\ row'[<<v, f>>].status # "none"
                                            => e = f
      BY <1>1, <1>2 DEF DispatcherFits
    <2> QED BY <1>2, <2>1, <2>2 DEF DispatcherFits
  <1> QED BY <1>1, <1>2 DEF DispatcherFits

LEMMA TickKept ==
    ASSUME NEW k \in Ticks, TickFits(k), due[k] \in SUBSET Deliveries,
           tick'[k] = tick[k], due'[k] = due[k], snapshot'[k] = snapshot[k],
           current'[k] = current[k], accepted \subseteq accepted',
           \A d \in Deliveries : row[d].status # "none" => row'[d].status # "none"
    PROVE  TickFits(k)'
  BY DEF TickFits

(* Of the deliveries, the step changes d. *)
OnlyAt(d) ==
    \A c \in Deliveries \ {d} :
        /\ row'[c] = row[c] /\ job'[c] = job[c] /\ attemptsMade'[c] = attemptsMade[c]
        /\ worker'[c] = worker[c] /\ entity'[c] = entity[c] /\ posts'[c] = posts[c]

(* A step that leaves dispatching, the runs and the requests alone, and of *)
(* the deliveries changes one, keeps the invariant if it does so there.    *)
LEMMA OneDelivery ==
    ASSUME WInv, NEW d \in Deliveries,
           UNCHANGED <<endpoints, creator, dispatcher, targets, stalled, expired, tick,
                       due, snapshot, current, operator, wish, wished>>,
           row' \in [Deliveries -> Rows] /\ entity' \in [Deliveries -> Rows],
           job' \in [Deliveries -> {"none", "waiting", "active", "gone"}],
           worker' \in [Deliveries -> SaveSteps \cup {"idle", "lookup", "post"}],
           attemptsMade' \in [Deliveries -> 0..attempts] /\ posts' \in [Deliveries -> Nat],
           OnlyAt(d),
           accepted' \in {accepted, accepted \cup {d}}, struck' \in {struck, struck \cup {d}},
           row[d].status # "none" /\ row'[d].status # "none",
           job[d] # "none" /\ job'[d] # "none",
           JobFits(d)', WorkerFits(d)', RowFits(d)'
    PROVE  WInv'
  <1>0. TypeOK
    BY DEF WInv
  <1>1. accepted' \in SUBSET Deliveries /\ struck' \in SUBSET Deliveries
    BY <1>0 DEF TypeOK
  <1>2. TypeOK'
    BY <1>0, <1>1 DEF TypeOK
  <1>3. \A c \in Deliveries : /\ row'[c].status = "none" <=> row[c].status = "none"
                              /\ job'[c] = "none" <=> job[c] = "none"
    BY DEF OnlyAt
  <1>4. accepted \subseteq accepted' /\ struck \subseteq struck'
    OBVIOUS
  <1>5. ASSUME NEW c \in Deliveries
         PROVE  JobFits(c)' /\ WorkerFits(c)' /\ RowFits(c)'
    <2>1. CASE c = d
      BY <2>1
    <2>2. CASE c # d
      <3>1. Saved(c[1], c[2]) => Saved(c[1], c[2])'
        BY <2>2, DeliveryIsPair DEF Saved, OnlyAt
      <3>2. JobFits(c) /\ WorkerFits(c) /\ RowFits(c)
        BY DEF WInv
      <3> QED BY <1>4, <2>2, <3>1, <3>2, DeliveryKept DEF OnlyAt
    <2> QED BY <2>1, <2>2
  <1>6. \A v \in Events : DispatcherFits(v)'
    BY <1>0, <1>3, DispatcherKept DEF WInv, TypeOK
  <1>7. \A k \in Ticks : TickFits(k)'
    BY <1>0, <1>3, <1>4, TickKept DEF WInv, TypeOK
  <1>8. \A o \in Operators : OperatorFits(o)'
    BY DEF WInv, OperatorFits
  <1> QED BY <1>2, <1>5, <1>6, <1>7, <1>8 DEF WInv

(* A step that changes the processor's state of no delivery, and rows only *)
(* in what the processor does not rely on, keeps the deliveries' facts and *)
(* what depends on them.                                                   *)
RowsKeep ==
    \A d \in Deliveries :
        /\ row'[d].attemptCount = row[d].attemptCount
        /\ row'[d].status = "none" <=> row[d].status = "none"
        /\ row'[d].status = "pending" => row[d].status = "pending"
        /\ row'[d].status = "delivered" => row[d].status = "delivered" \/ d \in accepted

LEMMA RowsKept ==
    ASSUME WInv, TypeOK', RowsKeep,
           UNCHANGED <<endpoints, creator, dispatcher, targets, job, attemptsMade,
                       stalled, worker, entity, posts, struck>>,
           accepted \subseteq accepted'
    PROVE  /\ \A d \in Deliveries : JobFits(d)' /\ WorkerFits(d)' /\ RowFits(d)'
           /\ \A v \in Events : DispatcherFits(v)'
           /\ \A k \in Ticks : (/\ tick'[k] = tick[k] /\ due'[k] = due[k]
                                /\ snapshot'[k] = snapshot[k] /\ current'[k] = current[k])
                               => TickFits(k)'
  <1>0. TypeOK
    BY DEF WInv
  <1>1. ASSUME NEW d \in Deliveries
        PROVE  JobFits(d)' /\ WorkerFits(d)' /\ RowFits(d)'
    <2>1. Saved(d[1], d[2]) => Saved(d[1], d[2])'
      BY DeliveryIsPair DEF Saved, RowsKeep
    <2>2. JobFits(d) /\ WorkerFits(d) /\ RowFits(d)
      BY DEF WInv
    <2> QED BY <2>1, <2>2, DeliveryKept DEF RowsKeep
  <1>2. \A v \in Events : DispatcherFits(v)'
    BY <1>0, DispatcherKept DEF WInv, TypeOK, RowsKeep
  <1>3. ASSUME NEW k \in Ticks
        PROVE  (/\ tick'[k] = tick[k] /\ due'[k] = due[k]
                /\ snapshot'[k] = snapshot[k] /\ current'[k] = current[k])
               => TickFits(k)'
    BY <1>0, TickKept DEF WInv, TypeOK, RowsKeep
  <1> QED BY <1>1, <1>2, <1>3

(* One row is written, by somebody other than the processor. *)
LEMMA OneRow ==
    ASSUME TypeOK, NEW d \in Deliveries, NEW R \in Rows, row' = [row EXCEPT ![d] = R],
           R.attemptCount = row[d].attemptCount,
           R.status = "none" <=> row[d].status = "none",
           R.status = "pending" => row[d].status = "pending",
           R.status = "delivered" => row[d].status = "delivered" \/ d \in accepted
    PROVE  RowsKeep /\ row' \in [Deliveries -> Rows]
  <1>1. row' \in [Deliveries -> Rows]
    BY DEF TypeOK
  <1>2. row'[d] = R /\ \A c \in Deliveries : c # d => row'[c] = row[c]
    BY DEF TypeOK
  <1> QED BY <1>1, <1>2 DEF RowsKeep

LEMMA NoRowWritten ==
    ASSUME UNCHANGED row
    PROVE  RowsKeep
  BY DEF RowsKeep
(***************************************************************************)
(* Endpoints.                                                              *)
(***************************************************************************)
LEMMA EndpointStep ==
    ASSUME WInv, NEW e \in Endpoints, createEndpoint(e) \/ SaveEndpoint(e) \/ RemoveEndpoint(e)
    PROVE  WInv'
  <1>0. TypeOK
    BY DEF WInv
  <1>1. UNCHANGED <<dispatcher, targets, row, job, attemptsMade, stalled, expired,
                    worker, entity, tick, due, snapshot, current, operator, wish, wished,
                    accepted, posts, struck>>
    BY DEF createEndpoint, SaveEndpoint, RemoveEndpoint, queue, processor, retrier, manual,
       history
  <1>2. endpoints' \in SUBSET Endpoints
    BY <1>0 DEF createEndpoint, SaveEndpoint, RemoveEndpoint, TypeOK
  <1>3. creator' \in [Endpoints -> {"idle", "validate", "ok", "refused", "failed"}]
    BY <1>0 DEF createEndpoint, SaveEndpoint, RemoveEndpoint, TypeOK
  <1>4. TypeOK'
    BY <1>0, <1>1, <1>2, <1>3 DEF TypeOK
  <1>5. \A d \in Deliveries : JobFits(d)' /\ WorkerFits(d)' /\ RowFits(d)'
    BY <1>1 DEF WInv, JobFits, WorkerFits, RowFits, Saved
  <1>6. \A v \in Events : DispatcherFits(v)'
    BY <1>1 DEF WInv, DispatcherFits
  <1>7. \A k \in Ticks : TickFits(k)'
    BY <1>1 DEF WInv, TickFits
  <1>8. \A o \in Operators : OperatorFits(o)'
    BY <1>1 DEF WInv, OperatorFits
  <1> QED BY <1>4, <1>5, <1>6, <1>7, <1>8 DEF WInv

(* A step of dispatchEvent concerns one event: the deliveries of others,   *)
(* and what nobody but dispatchEvent relies on, stay as they are.          *)
LEMMA OneEvent ==
    ASSUME WInv, TypeOK', NEW v \in Events,
           UNCHANGED <<attemptsMade, worker, entity, tick, due, snapshot, current,
                       operator, wish, wished, accepted, posts>>,
           struck \subseteq struck',
           \A u \in Events : u # v => dispatcher'[u] = dispatcher[u] /\ targets'[u] = targets[u],
           \A d \in Deliveries : d[1] # v => row'[d] = row[d] /\ job'[d] = job[d],
           \A d \in Deliveries : row[d].status # "none" => row'[d].status # "none",
           DispatcherFits(v)',
           \A e \in Endpoints : JobFits(<<v, e>>)' /\ WorkerFits(<<v, e>>)' /\ RowFits(<<v, e>>)'
    PROVE  WInv'
  <1>0. TypeOK
    BY DEF WInv
  <1>1. ASSUME NEW d \in Deliveries
        PROVE  JobFits(d)' /\ WorkerFits(d)' /\ RowFits(d)'
    <2>1. CASE d[1] = v
      <3>1. d = <<v, d[2]>> /\ d[2] \in Endpoints
        BY <2>1, DeliveryIsPair
      <3> QED BY <3>1
    <2>2. CASE d[1] # v
      <3>1. Saved(d[1], d[2]) => Saved(d[1], d[2])'
        BY <2>2, DeliveryIsPair DEF Saved
      <3>2. JobFits(d) /\ WorkerFits(d) /\ RowFits(d)
        BY DEF WInv
      <3> QED BY <2>2, <3>1, <3>2, DeliveryKept
    <2> QED BY <2>1, <2>2
  <1>2. ASSUME NEW u \in Events
        PROVE  DispatcherFits(u)'
    <2>1. CASE u = v
      BY <2>1
    <2>2. CASE u # v
      <3>1. \A e \in Endpoints : row'[<<u, e>>] = row[<<u, e>>] /\ job'[<<u, e>>] = job[<<u, e>>]
        BY <2>2, PairIsDelivery
      <3>2. DispatcherFits(u) /\ targets[u] \in SUBSET Endpoints
        BY <1>0 DEF WInv, TypeOK
      <3> QED BY <2>2, <3>1, <3>2 DEF DispatcherFits
    <2> QED BY <2>1, <2>2
  <1>3. \A k \in Ticks : TickFits(k)'
    BY <1>0, TickKept DEF WInv, TypeOK
  <1>4. \A o \in Operators : OperatorFits(o)'
    BY DEF WInv, OperatorFits
  <1> QED BY <1>1, <1>2, <1>3, <1>4 DEF WInv

(* One lemma per step of dispatchEvent. *)
LEMMA DispatchEventStep ==
    ASSUME WInv, NEW v \in Events, dispatchEvent(v)
    PROVE  WInv'
  <1> USE WebhooksAssumption
  <1>0. TypeOK
    BY DEF WInv
  <1>1. UNCHANGED <<endpoints, creator, row, job, attemptsMade, stalled, expired, worker,
                    entity, tick, due, snapshot, current, operator, wish, wished,
                    accepted, posts, struck>>
    BY DEF dispatchEvent, queue, processor, retrier, manual, history
  <1>2. PICK T : targets' = [targets EXCEPT ![v] = T] /\ T = {e \in endpoints : v \in Subscribes[e]}
    BY DEF dispatchEvent
  <1>3. dispatcher[v] = "idle" /\ dispatcher' = [dispatcher EXCEPT ![v] = "save"]
    BY DEF dispatchEvent
  <1>4. T \in SUBSET Endpoints
    BY <1>0, <1>2 DEF TypeOK
  <1>5. /\ dispatcher' \in [Events -> {"idle", "save", "add", "failed"}]
        /\ targets' \in [Events -> SUBSET Endpoints]
    BY <1>0, <1>2, <1>3, <1>4 DEF TypeOK
  <1>6. TypeOK'
    BY <1>0, <1>1, <1>5 DEF TypeOK
  <1>7. dispatcher'[v] = "save" /\ targets'[v] = T
    BY <1>0, <1>2, <1>3 DEF TypeOK
  <1>8. \A e \in Endpoints : row[<<v, e>>].status = "none"
    BY <1>3 DEF WInv, DispatcherFits
  <1>9. DispatcherFits(v)'
    BY <1>1, <1>4, <1>7, <1>8 DEF DispatcherFits
  <1>10. ASSUME NEW e \in Endpoints
         PROVE  JobFits(<<v, e>>)' /\ WorkerFits(<<v, e>>)' /\ RowFits(<<v, e>>)'
    <2>1. <<v, e>> \in Deliveries
      BY PairIsDelivery
    <2>2. JobFits(<<v, e>>) /\ WorkerFits(<<v, e>>) /\ RowFits(<<v, e>>)
      BY <2>1 DEF WInv
    <2> QED BY <1>1, <1>8, <2>2 DEF JobFits, WorkerFits, RowFits
  <1>11. \A u \in Events : u # v => dispatcher'[u] = dispatcher[u] /\ targets'[u] = targets[u]
    BY <1>0, <1>2, <1>3 DEF TypeOK
  <1> QED BY <1>1, <1>6, <1>9, <1>10, <1>11, OneEvent

LEMMA SaveDeliveryStep ==
    ASSUME WInv, NEW v \in Events, NEW e \in Endpoints, SaveDelivery(v, e)
    PROVE  WInv'
  <1>0. TypeOK /\ <<v, e>> \in Deliveries
    BY PairIsDelivery DEF WInv
  <1>1. UNCHANGED <<endpoints, creator, targets, job, attemptsMade, stalled, expired,
                    worker, entity, tick, due, snapshot, current, operator, wish, wished,
                    accepted, posts, struck>>
    BY DEF SaveDelivery, queue, processor, retrier, manual, history
  <1>2. dispatcher[v] = "save" /\ e \in targets[v] /\ dispatcher' = [dispatcher EXCEPT ![v] = "add"]
    BY DEF SaveDelivery
  <1>3. PICK R : R = [row[<<v, e>>] EXCEPT !.status = "pending"]
    OBVIOUS
  <1>4. row[<<v, e>>] \in Rows
    BY <1>0 DEF TypeOK
  <1>5. R \in Rows /\ R.status = "pending" /\ R.attemptCount = row[<<v, e>>].attemptCount
    BY <1>3, <1>4 DEF Rows, Statuses
  <1>6. row' = [row EXCEPT ![<<v, e>>] = R]
    BY <1>3 DEF SaveDelivery
  <1>7. row' \in [Deliveries -> Rows]
    BY <1>0, <1>5, <1>6 DEF TypeOK
  <1>8. dispatcher' \in [Events -> {"idle", "save", "add", "failed"}]
    BY <1>0, <1>2 DEF TypeOK
  <1>9. TypeOK'
    BY <1>0, <1>1, <1>7, <1>8 DEF TypeOK
  <1>10. row'[<<v, e>>] = R /\ dispatcher'[v] = "add"
    BY <1>0, <1>2, <1>6 DEF TypeOK
  <1>11. \A d \in Deliveries : d # <<v, e>> => row'[d] = row[d]
    BY <1>0, <1>6 DEF TypeOK
  <1>12. \A f \in targets[v] : f \in Endpoints /\ row[<<v, f>>].status = "none" /\ job[<<v, f>>] = "none"
    BY <1>0, <1>2, PairIsDelivery DEF WInv, DispatcherFits, JobFits, TypeOK
  <1>13. \A f \in targets[v] : f # e => row'[<<v, f>>].status = "none"
    BY <1>11, <1>12, PairIsDelivery
  <1>14. DispatcherFits(v)'
    BY <1>1, <1>10, <1>12, <1>13 DEF DispatcherFits
  <1>15. ASSUME NEW f \in Endpoints
         PROVE  JobFits(<<v, f>>)' /\ WorkerFits(<<v, f>>)' /\ RowFits(<<v, f>>)'
    <2>1. <<v, f>> \in Deliveries /\ <<v, f>>[1] = v /\ <<v, f>>[2] = f
      BY PairIsDelivery
    <2>2. JobFits(<<v, f>>) /\ WorkerFits(<<v, f>>) /\ RowFits(<<v, f>>)
      BY <2>1 DEF WInv
    <2>3. CASE f = e
      <3>1. job[<<v, e>>] = "none" /\ row[<<v, e>>].status = "none" /\ worker[<<v, e>>] = "idle"
        BY <1>2, <1>12, <2>2, <2>3 DEF WorkerFits
      <3>2. Saved(v, e)'
        BY <1>1, <1>2, <1>5, <1>10 DEF Saved
      <3>3. JobFits(<<v, e>>)'
        BY <1>1, <2>2, <2>3, <3>1 DEF JobFits
      <3>4. WorkerFits(<<v, e>>)'
        BY <1>1, <2>2, <2>3, <3>1 DEF WorkerFits
      <3>5. RowFits(<<v, e>>)'
        BY <1>1, <1>5, <1>10, <2>1, <2>2, <2>3, <3>1, <3>2 DEF RowFits
      <3> QED BY <2>3, <3>3, <3>4, <3>5
    <2>4. CASE f # e
      <3>1. row'[<<v, f>>] = row[<<v, f>>]
        BY <1>11, <2>1, <2>4
      <3>2. ~Saved(v, f)
        BY <1>2 DEF Saved
      <3> QED BY <1>1, <2>1, <2>2, <3>1, <3>2, DeliveryKept
    <2> QED BY <2>3, <2>4
  <1>16. \A u \in Events : u # v => dispatcher'[u] = dispatcher[u] /\ targets'[u] = targets[u]
    BY <1>0, <1>1, <1>2 DEF TypeOK
  <1>17. \A d \in Deliveries : d[1] # v => row'[d] = row[d] /\ job'[d] = job[d]
    BY <1>1, <1>11
  <1>18. \A d \in Deliveries : row[d].status # "none" => row'[d].status # "none"
    BY <1>5, <1>10, <1>11
  <1> QED BY <1>1, <1>9, <1>14, <1>15, <1>16, <1>17, <1>18, OneEvent

LEMMA AddJobStep ==
    ASSUME WInv, NEW v \in Events, NEW e \in Endpoints, AddJob(v, e)
    PROVE  WInv'
  <1> USE WebhooksAssumption
  <1>0. TypeOK /\ <<v, e>> \in Deliveries
    BY PairIsDelivery DEF WInv
  <1>1. UNCHANGED <<endpoints, creator, row, attemptsMade, stalled, expired, worker,
                    entity, tick, due, snapshot, current, operator, wish, wished,
                    accepted, posts, struck>>
    BY DEF AddJob, processor, retrier, manual, history
  <1>2. dispatcher[v] = "add" /\ e \in targets[v] /\ row[<<v, e>>].status # "none"
    BY DEF AddJob, Saved
  <1>3. /\ job' = [job EXCEPT ![<<v, e>>] = "waiting"]
        /\ targets' = [targets EXCEPT ![v] = @ \ {e}]
        /\ dispatcher' = [dispatcher EXCEPT ![v] = "save"]
    BY DEF AddJob
  <1>4. /\ dispatcher' \in [Events -> {"idle", "save", "add", "failed"}]
        /\ targets' \in [Events -> SUBSET Endpoints]
        /\ job' \in [Deliveries -> {"none", "waiting", "active", "gone"}]
    BY <1>0, <1>3 DEF TypeOK
  <1>5. TypeOK'
    BY <1>0, <1>1, <1>4 DEF TypeOK
  <1>6. job'[<<v, e>>] = "waiting" /\ dispatcher'[v] = "save" /\ targets'[v] = targets[v] \ {e}
    BY <1>0, <1>3 DEF TypeOK
  <1>7. \A d \in Deliveries : d # <<v, e>> => job'[d] = job[d]
    BY <1>0, <1>3 DEF TypeOK
  <1>8. \A f \in targets[v] : f # e => row[<<v, f>>].status = "none"
    BY <1>2 DEF WInv, DispatcherFits
  <1>9. DispatcherFits(v)'
    BY <1>1, <1>6, <1>8 DEF DispatcherFits
  <1>10. ASSUME NEW f \in Endpoints
         PROVE  JobFits(<<v, f>>)' /\ WorkerFits(<<v, f>>)' /\ RowFits(<<v, f>>)'
    <2>1. <<v, f>> \in Deliveries /\ <<v, f>>[1] = v /\ <<v, f>>[2] = f
      BY PairIsDelivery
    <2>2. JobFits(<<v, f>>) /\ WorkerFits(<<v, f>>) /\ RowFits(<<v, f>>)
      BY <2>1 DEF WInv
    <2>3. CASE f = e
      <3>1. job[<<v, e>>] = "none" /\ attemptsMade[<<v, e>>] = 0 /\ worker[<<v, e>>] = "idle"
        BY <1>2, <2>2, <2>3 DEF WorkerFits, JobFits, WInv, DispatcherFits
      <3>2. JobFits(<<v, e>>)'
        BY <1>1, <1>2, <1>6, <3>1 DEF JobFits
      <3>3. WorkerFits(<<v, e>>)'
        BY <1>1, <2>2, <2>3, <3>1 DEF WorkerFits
      <3>4. RowFits(<<v, e>>)'
        BY <1>1, <1>6, <2>2, <2>3 DEF RowFits
      <3> QED BY <2>3, <3>2, <3>3, <3>4
    <2>4. CASE f # e
      <3>1. job'[<<v, f>>] = job[<<v, f>>]
        BY <1>7, <2>1, <2>4
      <3>2. ~Saved(v, f)
        BY <1>8, <2>4 DEF Saved
      <3> QED BY <1>1, <2>1, <2>2, <3>1, <3>2, DeliveryKept
    <2> QED BY <2>3, <2>4
  <1>11. \A u \in Events : u # v => dispatcher'[u] = dispatcher[u] /\ targets'[u] = targets[u]
    BY <1>0, <1>3 DEF TypeOK
  <1>12. \A d \in Deliveries : d[1] # v => row'[d] = row[d] /\ job'[d] = job[d]
    BY <1>1, <1>7
  <1> QED BY <1>1, <1>5, <1>9, <1>10, <1>11, <1>12, OneEvent

LEMMA DispatchFailsStep ==
    ASSUME WInv, NEW v \in Events, DispatchFails(v)
    PROVE  WInv'
  <1>0. TypeOK
    BY DEF WInv
  <1>1. UNCHANGED <<endpoints, creator, targets, row, job, attemptsMade, stalled,
                    expired, worker, entity, tick, due, snapshot, current, operator, wish,
                    wished, accepted, posts>>
    BY DEF DispatchFails, queue, processor, retrier, manual
  <1>2. /\ dispatcher' = [dispatcher EXCEPT ![v] = "failed"]
        /\ struck' = struck \cup {<<v, e>> : e \in {f \in Endpoints : Saved(v, f)}}
    BY DEF DispatchFails
  <1>3. dispatcher' \in [Events -> {"idle", "save", "add", "failed"}] /\ dispatcher'[v] = "failed"
    BY <1>0, <1>2 DEF TypeOK
  <1>4. struck' \in SUBSET Deliveries /\ struck \subseteq struck'
    BY <1>0, <1>2, PairIsDelivery DEF TypeOK
  <1>5. TypeOK'
    BY <1>0, <1>1, <1>3, <1>4 DEF TypeOK
  <1>6. DispatcherFits(v)'
    BY <1>3 DEF DispatcherFits
  <1>7. ASSUME NEW f \in Endpoints
         PROVE  JobFits(<<v, f>>)' /\ WorkerFits(<<v, f>>)' /\ RowFits(<<v, f>>)'
    <2>1. <<v, f>> \in Deliveries /\ <<v, f>>[1] = v /\ <<v, f>>[2] = f
      BY PairIsDelivery
    <2>2. JobFits(<<v, f>>) /\ WorkerFits(<<v, f>>) /\ RowFits(<<v, f>>)
      BY <2>1 DEF WInv
    <2>3. Saved(v, f) => <<v, f>> \in struck'
      BY <1>2
    <2> QED BY <1>1, <1>4, <2>1, <2>2, <2>3, DeliveryKept
  <1>8. \A u \in Events : u # v => dispatcher'[u] = dispatcher[u] /\ targets'[u] = targets[u]
    BY <1>0, <1>1, <1>2 DEF TypeOK
  <1> QED BY <1>1, <1>4, <1>5, <1>6, <1>7, <1>8, OneEvent

(***************************************************************************)
(* The processor.                                                          *)
(***************************************************************************)
LEMMA WrittenAreRows ==
    ASSUME TypeOK, NEW d \in Deliveries, NEW w \in Written(d)
    PROVE  /\ w \in Rows /\ w.attemptCount = entity[d].attemptCount
           /\ w.status \in {row[d].status, entity[d].status}
           /\ worker[d] \notin {"attempt", "retry"} => w.status = entity[d].status
  <1>1. row[d] \in Rows /\ entity[d] \in Rows
    BY DEF TypeOK
  <1>2. CASE w = entity[d]
    BY <1>1, <1>2 DEF Rows
  <1>3. CASE w = [row[d] EXCEPT !.attemptCount = entity[d].attemptCount,
                    !.status = IF worker[d] \in {"attempt", "retry"}
                                  THEN @ ELSE entity[d].status]
    BY <1>1, <1>3 DEF Rows
  <1> QED BY <1>2, <1>3 DEF Written

(* Writing back what is there changes nothing. *)
LEMMA WrittenBack ==
    ASSUME TypeOK, NEW d \in Deliveries
    PROVE  /\ row = [row EXCEPT ![d] = row[d]] /\ row[d] \in Rows
           /\ job = [job EXCEPT ![d] = job[d]] /\ job[d] \in {"none", "waiting", "active", "gone"}
           /\ attemptsMade = [attemptsMade EXCEPT ![d] = attemptsMade[d]]
           /\ attemptsMade[d] \in 0..attempts
           /\ worker = [worker EXCEPT ![d] = worker[d]]
           /\ entity = [entity EXCEPT ![d] = entity[d]] /\ entity[d] \in Rows
           /\ posts = [posts EXCEPT ![d] = posts[d]] /\ posts[d] \in Nat
  BY DEF TypeOK

LEMMA DeliverStep ==
    ASSUME WInv, NEW d \in Deliveries, deliver(d)
    PROVE  WInv'
  <1>0. TypeOK /\ JobFits(d) /\ WorkerFits(d) /\ RowFits(d)
    BY DEF WInv
  <1>1. UNCHANGED <<endpoints, creator, dispatcher, targets, row, attemptsMade, stalled,
                    expired, tick, due, snapshot, current, operator, wish, wished,
                    accepted, posts, struck>>
    BY DEF deliver, source, retrier, manual, history
  <1>2. /\ job[d] = "waiting" /\ job' = [job EXCEPT ![d] = "active"]
        /\ entity' = [entity EXCEPT ![d] = row[d]]
        /\ worker' = [worker EXCEPT ![d] = "lookup"]
    BY DEF deliver, Work
  <1>3. job'[d] = "active" /\ entity'[d] = row[d] /\ worker'[d] = "lookup"
    BY <1>0, <1>2 DEF TypeOK
  <1>4. JobFits(d)'
    BY <1>0, <1>1, <1>2, <1>3 DEF JobFits
  <1>5. WorkerFits(d)'
    BY <1>0, <1>1, <1>2, <1>3 DEF WorkerFits, RowFits, JobFits
  <1>6. RowFits(d)'
    BY <1>0, <1>1, <1>2, <1>3 DEF RowFits
  <1>7. /\ row' = [row EXCEPT ![d] = row[d]] /\ row[d] \in Rows
        /\ attemptsMade' = [attemptsMade EXCEPT ![d] = attemptsMade[d]]
        /\ attemptsMade[d] \in 0..attempts
        /\ posts' = [posts EXCEPT ![d] = posts[d]] /\ posts[d] \in Nat
    BY <1>0, <1>1, WrittenBack
  <1>8. row[d].status # "none"
    BY <1>0, <1>2 DEF JobFits
  <1>9. /\ row' \in [Deliveries -> Rows] /\ entity' \in [Deliveries -> Rows]
        /\ job' \in [Deliveries -> {"none", "waiting", "active", "gone"}]
        /\ worker' \in [Deliveries -> SaveSteps \cup {"idle", "lookup", "post"}]
    BY <1>0, <1>1, <1>2 DEF TypeOK
  <1>10. attemptsMade' \in [Deliveries -> 0..attempts] /\ posts' \in [Deliveries -> Nat]
    BY <1>0, <1>1, <1>2 DEF TypeOK
  <1>11. OnlyAt(d)
    BY <1>0, <1>1, <1>2 DEF TypeOK, OnlyAt
  <1> QED BY <1>1, <1>2, <1>3, <1>4, <1>5, <1>6, <1>8, <1>9, <1>10, <1>11, OneDelivery

LEMMA LookUpEndpointStep ==
    ASSUME WInv, NEW d \in Deliveries, LookUpEndpoint(d)
    PROVE  WInv'
  <1>0. TypeOK /\ JobFits(d) /\ WorkerFits(d) /\ RowFits(d)
    BY DEF WInv
  <1>1. UNCHANGED <<endpoints, creator, dispatcher, targets, row, job, attemptsMade,
                    stalled, expired, tick, due, snapshot, current, operator, wish,
                    wished, accepted, posts, struck>>
    BY DEF LookUpEndpoint, source, queue, retrier, manual, history
  <1>2. /\ row' = [row EXCEPT ![d] = row[d]] /\ row[d] \in Rows
        /\ job' = [job EXCEPT ![d] = job[d]] /\ job[d] \in {"none", "waiting", "active", "gone"}
        /\ attemptsMade' = [attemptsMade EXCEPT ![d] = attemptsMade[d]]
        /\ attemptsMade[d] \in 0..attempts
        /\ posts' = [posts EXCEPT ![d] = posts[d]] /\ posts[d] \in Nat
        /\ entity[d] \in Rows
    BY <1>0, <1>1, WrittenBack
  <1>3. worker[d] = "lookup" /\ job[d] = "active" /\ entity[d].status # "none"
        /\ posts[d] <= entity[d].attemptCount
    BY <1>0 DEF LookUpEndpoint, WorkerFits
  <1>4. JobFits(d)' /\ RowFits(d)'
    BY <1>0, <1>1 DEF JobFits, RowFits, Saved
  <1>5. PICK X \in Rows, W \in {"missing", "tooLate", "attempt"} :
            /\ entity' = [entity EXCEPT ![d] = X] /\ worker' = [worker EXCEPT ![d] = W]
            /\ \/ W = "missing" /\ X.status = "failed" /\ X.attemptCount = entity[d].attemptCount
               \/ W = "tooLate" /\ X.status = "expired" /\ X.attemptCount = entity[d].attemptCount + 1
               \/ /\ W = "attempt" /\ X.status = entity[d].status
                  /\ X.attemptCount = entity[d].attemptCount + 1
    <2>1. PICK n : n = entity[d].attemptCount + 1
      OBVIOUS
    <2>2. n \in Nat
      BY <1>2, <2>1 DEF Rows
    <2>3. CASE /\ entity' = [entity EXCEPT ![d].status = "failed"]
               /\ worker' = [worker EXCEPT ![d] = "missing"]
      <3>1. PICK X : X = [entity[d] EXCEPT !.status = "failed"]
        OBVIOUS
      <3>2. X \in Rows /\ X.status = "failed" /\ X.attemptCount = entity[d].attemptCount
        BY <1>2, <3>1 DEF Rows, Statuses
      <3>3. entity' = [entity EXCEPT ![d] = X]
        BY <2>3, <3>1
      <3> QED BY <2>3, <3>2, <3>3
    <2>4. CASE /\ entity' = [entity EXCEPT ![d].status = "expired", ![d].attemptCount = @ + 1]
               /\ worker' = [worker EXCEPT ![d] = "tooLate"]
      <3>1. PICK X : X = [entity[d] EXCEPT !.status = "expired", !.attemptCount = n]
        OBVIOUS
      <3>2. X \in Rows /\ X.status = "expired" /\ X.attemptCount = n
        BY <1>2, <2>2, <3>1 DEF Rows, Statuses
      <3>3. entity' = [entity EXCEPT ![d] = X]
        BY <1>0, <2>1, <2>4, <3>1 DEF TypeOK
      <3> QED BY <2>1, <2>4, <3>2, <3>3
    <2>5. CASE /\ entity' = [entity EXCEPT ![d].attemptCount = @ + 1]
               /\ worker' = [worker EXCEPT ![d] = "attempt"]
      <3>1. PICK X : X = [entity[d] EXCEPT !.attemptCount = n]
        OBVIOUS
      <3>2. X \in Rows /\ X.status = entity[d].status /\ X.attemptCount = n
        BY <1>2, <2>2, <3>1 DEF Rows
      <3>3. entity' = [entity EXCEPT ![d] = X]
        BY <2>1, <2>5, <3>1
      <3> QED BY <2>1, <2>5, <3>2, <3>3
    <2> QED BY <2>3, <2>4, <2>5 DEF LookUpEndpoint, Work
  <1>6. entity'[d] = X /\ worker'[d] = W
    BY <1>0, <1>5 DEF TypeOK
  <1>7. entity[d].attemptCount \in Nat
    BY <1>2 DEF Rows
  <1>8. WorkerFits(d)'
    BY <1>0, <1>1, <1>2, <1>3, <1>5, <1>6, <1>7 DEF WorkerFits
  <1>9. W \in SaveSteps \cup {"idle", "lookup", "post"}
    BY <1>5 DEF SaveSteps
  <1>10. row[d].status # "none"
    BY <1>0, <1>3 DEF JobFits
  <1>11. /\ row' \in [Deliveries -> Rows] /\ entity' \in [Deliveries -> Rows]
         /\ job' \in [Deliveries -> {"none", "waiting", "active", "gone"}]
         /\ worker' \in [Deliveries -> SaveSteps \cup {"idle", "lookup", "post"}]
    BY <1>0, <1>1, <1>5, <1>9 DEF TypeOK
  <1>12. attemptsMade' \in [Deliveries -> 0..attempts] /\ posts' \in [Deliveries -> Nat]
    BY <1>0, <1>1, <1>5, <1>9 DEF TypeOK
  <1>13. OnlyAt(d)
    BY <1>0, <1>1, <1>5, <1>9 DEF TypeOK, OnlyAt
  <1> QED BY <1>1, <1>3, <1>4, <1>8, <1>10, <1>11, <1>12, <1>13, OneDelivery

(* What the catch block makes of a failure. *)
LEMMA CatchFits ==
    ASSUME TypeOK, NEW d \in Deliveries, Catch(d)
    PROVE  /\ UNCHANGED <<job, attemptsMade>>
           /\ \E X \in Rows : /\ entity' = [entity EXCEPT ![d] = X]
                             /\ X.attemptCount = entity[d].attemptCount
                             /\ \/ /\ X.status = "failed"
                                   /\ worker' = [worker EXCEPT ![d] = "lastFailure"]
                                \/ /\ X.status = entity[d].status /\ attemptsMade[d] + 1 < attempts
                                   /\ worker' = [worker EXCEPT ![d] = "retry"]
  <1>1. UNCHANGED <<job, attemptsMade>>
    BY DEF Catch
  <1>2. CASE /\ attemptsMade[d] + 1 >= attempts
             /\ entity' = [entity EXCEPT ![d].status = "failed"]
             /\ Work(d, "lastFailure")
    <2>1. PICK X : X = [entity[d] EXCEPT !.status = "failed"]
      OBVIOUS
    <2>0. entity[d] \in Rows
      BY DEF TypeOK
    <2>2. X \in Rows /\ X.status = "failed" /\ X.attemptCount = entity[d].attemptCount
      BY <2>0, <2>1 DEF Rows, Statuses
    <2>3. entity' = [entity EXCEPT ![d] = X]
      BY <1>2, <2>1
    <2> QED BY <1>1, <1>2, <2>2, <2>3 DEF Work
  <1>3. CASE attemptsMade[d] + 1 < attempts /\ Work(d, "retry") /\ UNCHANGED entity
    BY <1>1, <1>3, WrittenBack DEF Work
  <1> QED BY <1>2, <1>3 DEF Catch

LEMMA PostStep ==
    ASSUME WInv, NEW d \in Deliveries, Post(d)
    PROVE  WInv'
  <1>0. TypeOK /\ JobFits(d) /\ WorkerFits(d) /\ RowFits(d)
    BY DEF WInv
  <1>1. UNCHANGED <<endpoints, creator, dispatcher, targets, row, job, attemptsMade,
                    stalled, expired, tick, due, snapshot, current, operator, wish,
                    wished, struck>>
    BY DEF Post, Catch, source, retrier, manual
  <1>2. /\ row' = [row EXCEPT ![d] = row[d]] /\ row[d] \in Rows
        /\ job' = [job EXCEPT ![d] = job[d]] /\ job[d] \in {"none", "waiting", "active", "gone"}
        /\ attemptsMade' = [attemptsMade EXCEPT ![d] = attemptsMade[d]]
        /\ attemptsMade[d] \in 0..attempts
        /\ entity[d] \in Rows /\ posts[d] \in Nat
    BY <1>0, <1>1, WrittenBack
  <1>3. /\ worker[d] = "post" /\ job[d] = "active" /\ entity[d].status # "none"
        /\ posts[d] < entity[d].attemptCount /\ posts[d] < row[d].attemptCount
    BY <1>0 DEF Post, WorkerFits
  <1>4. PICK P : P = posts[d] + 1
    OBVIOUS
  <1>5. posts' = [posts EXCEPT ![d] = P] /\ P \in Nat
    BY <1>2, <1>4 DEF Post
  <1>6. posts'[d] = P
    BY <1>0, <1>5 DEF TypeOK
  <1>7. P <= entity[d].attemptCount /\ P <= row[d].attemptCount
    BY <1>2, <1>3, <1>4 DEF Rows
  <1>8. accepted' \in {accepted, accepted \cup {d}}
    BY DEF Post
  <1>9. JobFits(d)'
    BY <1>0, <1>1 DEF JobFits
  <1>10. RowFits(d)'
    BY <1>0, <1>1, <1>6, <1>7, <1>8 DEF RowFits, Saved
  <1>11. PICK X \in Rows, W \in {"delivered", "lastFailure", "retry"} :
            /\ entity' = [entity EXCEPT ![d] = X] /\ worker' = [worker EXCEPT ![d] = W]
            /\ X.attemptCount = entity[d].attemptCount
            /\ \/ W = "delivered" /\ X.status = "delivered" /\ accepted' = accepted \cup {d}
               \/ W = "lastFailure" /\ X.status = "failed"
               \/ W = "retry" /\ X.status = entity[d].status /\ attemptsMade[d] + 1 < attempts
    <2>1. CASE Catch(d)
      BY <1>0, <2>1, CatchFits
    <2>2. CASE /\ accepted' = accepted \cup {d}
               /\ entity' = [entity EXCEPT ![d].status = "delivered"]
               /\ Work(d, "delivered")
      <3>1. PICK X : X = [entity[d] EXCEPT !.status = "delivered"]
        OBVIOUS
      <3>2. X \in Rows /\ X.status = "delivered" /\ X.attemptCount = entity[d].attemptCount
        BY <1>2, <3>1 DEF Rows, Statuses
      <3>3. entity' = [entity EXCEPT ![d] = X]
        BY <2>2, <3>1
      <3> QED BY <2>2, <3>2, <3>3 DEF Work
    <2> QED BY <2>1, <2>2 DEF Post
  <1>12. entity'[d] = X /\ worker'[d] = W
    BY <1>0, <1>11 DEF TypeOK
  <1>13. WorkerFits(d)'
    BY <1>0, <1>1, <1>3, <1>6, <1>7, <1>8, <1>11, <1>12 DEF WorkerFits
  <1>14. W \in SaveSteps \cup {"idle", "lookup", "post"}
    BY <1>11 DEF SaveSteps
  <1>15. row[d].status # "none"
    BY <1>0, <1>3 DEF JobFits
  <1>16. /\ row' \in [Deliveries -> Rows] /\ entity' \in [Deliveries -> Rows]
         /\ job' \in [Deliveries -> {"none", "waiting", "active", "gone"}]
         /\ worker' \in [Deliveries -> SaveSteps \cup {"idle", "lookup", "post"}]
    BY <1>0, <1>1, <1>5, <1>11, <1>14 DEF TypeOK
  <1>17. attemptsMade' \in [Deliveries -> 0..attempts] /\ posts' \in [Deliveries -> Nat]
    BY <1>0, <1>1, <1>5, <1>11, <1>14 DEF TypeOK
  <1>18. OnlyAt(d)
    BY <1>0, <1>1, <1>5, <1>11, <1>14 DEF TypeOK, OnlyAt
  <1> QED BY <1>1, <1>3, <1>8, <1>9, <1>10, <1>13, <1>15, <1>16, <1>17, <1>18, OneDelivery

(* What throwing makes of the job. *)
LEMMA JobThrowsFits ==
    ASSUME TypeOK, NEW d \in Deliveries, attemptsMade[d] < attempts, JobThrows(d)
    PROVE  /\ worker' = [worker EXCEPT ![d] = "idle"]
           /\ \E A \in 0..attempts, J \in {"waiting", "gone"} :
                  /\ A = attemptsMade[d] + 1 /\ attemptsMade' = [attemptsMade EXCEPT ![d] = A]
                  /\ job' = [job EXCEPT ![d] = J] /\ (J = "waiting" <=> A < attempts)
  <1> USE WebhooksAssumption
  <1>1. PICK A : A = attemptsMade[d] + 1
    OBVIOUS
  <1>2. A \in 0..attempts
    BY <1>1 DEF TypeOK
  <1>3. PICK J : J = IF A < attempts THEN "waiting" ELSE "gone"
    OBVIOUS
  <1>4. attemptsMade' = [attemptsMade EXCEPT ![d] = A] /\ job' = [job EXCEPT ![d] = J]
    BY <1>1, <1>3 DEF JobThrows
  <1> QED BY <1>1, <1>2, <1>3, <1>4 DEF JobThrows, Work

LEMMA SaveStep ==
    ASSUME WInv, NEW d \in Deliveries, Save(d)
    PROVE  WInv'
  <1> USE WebhooksAssumption
  <1>0. TypeOK /\ JobFits(d) /\ WorkerFits(d) /\ RowFits(d)
    BY DEF WInv
  <1>1. UNCHANGED <<endpoints, creator, dispatcher, targets, stalled, expired, entity,
                    tick, due, snapshot, current, operator, wish, wished, accepted, posts,
                    struck>>
    BY DEF Save, source, retrier, manual, history
  <1>2. /\ entity' = [entity EXCEPT ![d] = entity[d]] /\ entity[d] \in Rows
        /\ posts' = [posts EXCEPT ![d] = posts[d]] /\ posts[d] \in Nat
        /\ attemptsMade[d] \in 0..attempts
    BY <1>0, <1>1, WrittenBack
  <1>3. /\ worker[d] \in SaveSteps /\ job[d] = "active" /\ entity[d].status # "none"
        /\ posts[d] <= entity[d].attemptCount /\ row[d].status # "none" /\ attemptsMade[d] < attempts
    BY <1>0 DEF Save, WorkerFits, JobFits, SaveSteps
  <1>4. PICK w \in Rows :
            /\ row' = [row EXCEPT ![d] = w] /\ w.attemptCount = entity[d].attemptCount
            /\ w.status \in {row[d].status, entity[d].status}
            /\ worker[d] \notin {"attempt", "retry"} => w.status = entity[d].status
    BY <1>0, WrittenAreRows DEF Save
  <1>5. row'[d] = w
    BY <1>0, <1>4 DEF TypeOK
  <1>6. PICK J \in {"waiting", "active", "gone"}, A \in 0..attempts, W \in {"idle", "post"} :
            /\ job' = [job EXCEPT ![d] = J] /\ worker' = [worker EXCEPT ![d] = W]
            /\ attemptsMade' = [attemptsMade EXCEPT ![d] = A]
            /\ \/ worker[d] = "attempt" /\ W = "post" /\ J = "active" /\ A = attemptsMade[d]
               \/ worker[d] = "retry" /\ W = "idle" /\ J = "waiting" /\ A < attempts
               \/ worker[d] \notin {"attempt", "retry"} /\ W = "idle" /\ J = "gone"
    <2>1. CASE worker[d] = "attempt" /\ Work(d, "post") /\ UNCHANGED <<job, attemptsMade>>
      BY <1>0, <1>2, <1>3, <2>1, WrittenBack DEF Work
    <2>2. CASE worker[d] = "retry" /\ JobThrows(d)
      <3>1. attemptsMade[d] + 1 < attempts
        BY <1>0, <2>2 DEF WorkerFits
      <3> QED BY <1>0, <1>3, <2>2, <3>1, JobThrowsFits
    <2>3. CASE worker[d] \notin {"attempt", "retry"} /\ JobEnds(d)
      BY <1>0, <1>2, <2>3, WrittenBack DEF JobEnds, Work
    <2> QED BY <2>1, <2>2, <2>3 DEF Save
  <1>7. job'[d] = J /\ attemptsMade'[d] = A /\ worker'[d] = W
    BY <1>0, <1>6 DEF TypeOK
  <1>8. JobFits(d)'
    BY <1>3, <1>4, <1>5, <1>6, <1>7 DEF JobFits
  <1>9. WorkerFits(d)'
    BY <1>0, <1>1, <1>3, <1>4, <1>5, <1>6, <1>7 DEF WorkerFits
  <1>10. RowFits(d)'
    <2>1. w.status = "delivered" => d \in accepted
      BY <1>0, <1>4 DEF RowFits, WorkerFits
    <2>2. J = "gone" => w.status # "pending"
      BY <1>0, <1>3, <1>4, <1>6 DEF SaveSteps, WorkerFits
    <2> QED BY <1>1, <1>3, <1>4, <1>5, <1>6, <1>7, <2>1, <2>2 DEF RowFits
  <1>11. /\ W \in SaveSteps \cup {"idle", "lookup", "post"}
         /\ J \in {"none", "waiting", "active", "gone"}
    BY <1>6
  <1>12. w.status # "none" /\ J # "none"
    BY <1>3, <1>4, <1>6
  <1>13. /\ row' \in [Deliveries -> Rows] /\ entity' \in [Deliveries -> Rows]
         /\ job' \in [Deliveries -> {"none", "waiting", "active", "gone"}]
         /\ worker' \in [Deliveries -> SaveSteps \cup {"idle", "lookup", "post"}]
    BY <1>0, <1>1, <1>4, <1>6, <1>11 DEF TypeOK
  <1>14. attemptsMade' \in [Deliveries -> 0..attempts] /\ posts' \in [Deliveries -> Nat]
    BY <1>0, <1>1, <1>4, <1>6, <1>11 DEF TypeOK
  <1>15. OnlyAt(d)
    BY <1>0, <1>1, <1>4, <1>6, <1>11 DEF TypeOK, OnlyAt
  <1> QED BY <1>1, <1>3, <1>5, <1>7, <1>8, <1>9, <1>10, <1>12, <1>13, <1>14, <1>15, OneDelivery

LEMMA WorkerFailsStep ==
    ASSUME WInv, NEW d \in Deliveries, WorkerFails(d)
    PROVE  WInv'
  <1> USE WebhooksAssumption
  <1>0. TypeOK /\ JobFits(d) /\ WorkerFits(d) /\ RowFits(d)
    BY DEF WInv
  <1>1. /\ UNCHANGED <<endpoints, creator, dispatcher, targets, stalled, expired, tick,
                       due, snapshot, current, operator, wish, wished, accepted, posts>>
        /\ struck' = struck \cup {d}
    BY DEF WorkerFails, source, retrier, manual
  <1>2. /\ posts' = [posts EXCEPT ![d] = posts[d]] /\ posts[d] \in Nat
        /\ attemptsMade[d] \in 0..attempts /\ row[d] \in Rows /\ entity[d] \in Rows
    BY <1>0, <1>1, WrittenBack
  <1>3. /\ worker[d] # "idle" /\ worker[d] # "post" /\ job[d] = "active" /\ entity[d].status # "none"
        /\ posts[d] <= entity[d].attemptCount /\ row[d].status # "none" /\ attemptsMade[d] < attempts
    BY <1>0 DEF WorkerFails, WorkerFits, JobFits, SaveSteps
  <1>4. PICK w \in Rows : /\ row' = [row EXCEPT ![d] = w]
                          /\ w.attemptCount \in {row[d].attemptCount, entity[d].attemptCount}
                          /\ w.status \in {row[d].status, entity[d].status}
    BY <1>0, <1>2, WrittenAreRows, WrittenBack DEF WorkerFails
  <1>5. row'[d] = w
    BY <1>0, <1>4 DEF TypeOK
  <1>6. PICK J \in {"waiting", "active", "gone"}, A \in 0..attempts, X \in Rows,
             W \in {"idle", "lastFailure", "retry"} :
            /\ job' = [job EXCEPT ![d] = J] /\ worker' = [worker EXCEPT ![d] = W]
            /\ attemptsMade' = [attemptsMade EXCEPT ![d] = A] /\ entity' = [entity EXCEPT ![d] = X]
            /\ X.attemptCount = entity[d].attemptCount
            /\ \/ W = "lastFailure" /\ X.status = "failed" /\ J = "active" /\ A = attemptsMade[d]
               \/ /\ W = "retry" /\ X.status = entity[d].status /\ J = "active" /\ A = attemptsMade[d]
                  /\ attemptsMade[d] + 1 < attempts
               \/ W = "idle" /\ X = entity[d] /\ J = "waiting" /\ A < attempts
               \/ W = "idle" /\ X = entity[d] /\ J = "gone"
    <2>1. CASE Catch(d)
      BY <1>0, <1>2, <1>3, <2>1, CatchFits, WrittenBack
    <2>2. CASE JobThrows(d) /\ UNCHANGED entity
      BY <1>0, <1>2, <1>3, <2>2, JobThrowsFits, WrittenBack
    <2> QED BY <2>1, <2>2 DEF WorkerFails
  <1>7. job'[d] = J /\ attemptsMade'[d] = A /\ worker'[d] = W /\ entity'[d] = X
    BY <1>0, <1>6 DEF TypeOK
  <1>8. JobFits(d)'
    BY <1>3, <1>4, <1>5, <1>6, <1>7 DEF JobFits
  <1>9. WorkerFits(d)'
    BY <1>0, <1>1, <1>3, <1>6, <1>7 DEF WorkerFits
  <1>10. RowFits(d)'
    <2>1. w.status = "delivered" => d \in accepted
      BY <1>0, <1>4 DEF RowFits, WorkerFits
    <2>2. posts[d] <= w.attemptCount
      BY <1>0, <1>3, <1>4 DEF RowFits
    <2> QED BY <1>1, <1>3, <1>5, <1>6, <1>7, <2>1, <2>2 DEF RowFits
  <1>11. /\ W \in SaveSteps \cup {"idle", "lookup", "post"}
         /\ J \in {"none", "waiting", "active", "gone"}
    BY <1>6 DEF SaveSteps
  <1>12. w.status # "none" /\ J # "none"
    BY <1>3, <1>4, <1>6
  <1>13. /\ row' \in [Deliveries -> Rows] /\ entity' \in [Deliveries -> Rows]
         /\ job' \in [Deliveries -> {"none", "waiting", "active", "gone"}]
         /\ worker' \in [Deliveries -> SaveSteps \cup {"idle", "lookup", "post"}]
    BY <1>0, <1>1, <1>4, <1>6, <1>11 DEF TypeOK
  <1>14. attemptsMade' \in [Deliveries -> 0..attempts] /\ posts' \in [Deliveries -> Nat]
    BY <1>0, <1>1, <1>4, <1>6, <1>11 DEF TypeOK
  <1>15. OnlyAt(d)
    BY <1>0, <1>1, <1>4, <1>6, <1>11 DEF TypeOK, OnlyAt
  <1> QED BY <1>1, <1>3, <1>5, <1>7, <1>8, <1>9, <1>10, <1>12, <1>13, <1>14, <1>15, OneDelivery

(***************************************************************************)
(* The minutely job.                                                       *)
(***************************************************************************)
LEMMA OneTick ==
    ASSUME WInv, TypeOK', RowsKeep, NEW k \in Ticks,
           UNCHANGED <<endpoints, creator, dispatcher, targets, job, attemptsMade,
                       stalled, worker, entity, operator, wish, wished, posts, struck>>,
           accepted \subseteq accepted',
           \A j \in Ticks : j # k => /\ tick'[j] = tick[j] /\ due'[j] = due[j]
                                     /\ snapshot'[j] = snapshot[j] /\ current'[j] = current[j],
           TickFits(k)'
    PROVE  WInv'
  <1>1. /\ \A d \in Deliveries : JobFits(d)' /\ WorkerFits(d)' /\ RowFits(d)'
        /\ \A v \in Events : DispatcherFits(v)'
    BY RowsKept
  <1>2. ASSUME NEW j \in Ticks, j # k
        PROVE  TickFits(j)'
    BY <1>2, RowsKept
  <1>3. \A j \in Ticks : TickFits(j)'
    BY <1>2
  <1>4. \A o \in Operators : OperatorFits(o)'
    BY DEF WInv, OperatorFits
  <1> QED BY <1>1, <1>3, <1>4 DEF WInv

LEMMA RetryFailedDeliveriesStep ==
    ASSUME WInv, NEW k \in Ticks, retryFailedDeliveries(k)
    PROVE  WInv'
  <1>0. TypeOK
    BY DEF WInv
  <1>1. UNCHANGED <<endpoints, creator, dispatcher, targets, row, job, attemptsMade,
                    stalled, expired, worker, entity, current, operator, wish, wished,
                    accepted, posts, struck>>
    BY DEF retryFailedDeliveries, source, queue, processor, manual, history
  <1>2. PICK S : /\ S = {d \in Deliveries : row[d].status = "failed" /\ row[d].nextRetryAt = "past"}
                 /\ due' = [due EXCEPT ![k] = S]
    BY DEF retryFailedDeliveries
  <1>3. snapshot' = [snapshot EXCEPT ![k] = row] /\ tick' = [tick EXCEPT ![k] = "next"]
    BY DEF retryFailedDeliveries
  <1>4. due' \in [Ticks -> SUBSET Deliveries]
    BY <1>0, <1>2 DEF TypeOK
  <1>5. snapshot' \in [Ticks -> [Deliveries -> Rows]]
    BY <1>0, <1>3 DEF TypeOK
  <1>6. tick' \in [Ticks -> {"idle", "next", "giveUp", "post", "succeeded", "failed"}]
    BY <1>0, <1>3 DEF TypeOK
  <1>7. TypeOK'
    BY <1>0, <1>1, <1>4, <1>5, <1>6 DEF TypeOK
  <1>8. due'[k] = S /\ tick'[k] = "next"
    BY <1>0, <1>2, <1>3 DEF TypeOK
  <1>9. TickFits(k)'
    BY <1>1, <1>2, <1>8 DEF TickFits
  <1>10. \A j \in Ticks : j # k => tick'[j] = tick[j] /\ due'[j] = due[j] /\ snapshot'[j] = snapshot[j]
    BY <1>0, <1>2, <1>3 DEF TypeOK
  <1> QED BY <1>1, <1>7, <1>9, <1>10, NoRowWritten, OneTick

LEMMA NextDueStep ==
    ASSUME WInv, NEW k \in Ticks, NEW d \in Deliveries, NextDue(k, d)
    PROVE  WInv'
  <1>0. TypeOK /\ TickFits(k)
    BY DEF WInv
  <1>1. UNCHANGED <<endpoints, creator, dispatcher, targets, row, job, attemptsMade,
                    stalled, expired, worker, entity, snapshot, operator, wish, wished,
                    accepted, posts, struck>>
    BY DEF NextDue, source, queue, processor, manual, history
  <1>2. /\ d \in due[k] /\ due' = [due EXCEPT ![k] = @ \ {d}]
        /\ current' = [current EXCEPT ![k] = d]
    BY DEF NextDue
  <1>3. PICK step \in {"idle", "next", "giveUp", "post"} :
            /\ tick' = [tick EXCEPT ![k] = step]
            /\ step = "post" => snapshot[k][d].retryCount < maxRetries
    BY DEF NextDue, Continue, Step
  <1>4. due' \in [Ticks -> SUBSET Deliveries] /\ current' \in [Ticks -> Deliveries \cup {None}]
    BY <1>0, <1>2 DEF TypeOK
  <1>5. tick' \in [Ticks -> {"idle", "next", "giveUp", "post", "succeeded", "failed"}]
    BY <1>0, <1>3 DEF TypeOK
  <1>6. TypeOK'
    BY <1>0, <1>1, <1>4, <1>5 DEF TypeOK
  <1>7. due'[k] = due[k] \ {d} /\ tick'[k] = step /\ current'[k] = d
    BY <1>0, <1>2, <1>3 DEF TypeOK
  <1>8. TickFits(k)'
    BY <1>0, <1>1, <1>2, <1>3, <1>7 DEF TickFits
  <1>9. \A j \in Ticks : j # k => tick'[j] = tick[j] /\ due'[j] = due[j] /\ current'[j] = current[j]
    BY <1>0, <1>2, <1>3 DEF TypeOK
  <1> QED BY <1>1, <1>6, <1>8, <1>9, NoRowWritten, OneTick

LEMMA PostAgainStep ==
    ASSUME WInv, NEW k \in Ticks, PostAgain(k)
    PROVE  WInv'
  <1>0. TypeOK /\ TickFits(k)
    BY DEF WInv
  <1>1. UNCHANGED <<endpoints, creator, dispatcher, targets, row, job, attemptsMade,
                    stalled, expired, worker, entity, due, snapshot, current, operator,
                    wish, wished, posts, struck>>
    BY DEF PostAgain, source, queue, processor, manual
  <1>2. tick[k] = "post" /\ current[k] \in Deliveries
    BY <1>0 DEF PostAgain, TickFits
  <1>3. PICK step \in {"succeeded", "failed"} :
            /\ tick' = [tick EXCEPT ![k] = step]
            /\ step = "succeeded" => accepted' = accepted \cup {current[k]}
            /\ accepted' \in {accepted, accepted \cup {current[k]}}
    BY DEF PostAgain, Step
  <1>4. tick' \in [Ticks -> {"idle", "next", "giveUp", "post", "succeeded", "failed"}]
    BY <1>0, <1>3 DEF TypeOK
  <1>5. accepted' \in SUBSET Deliveries
    BY <1>0, <1>2, <1>3 DEF TypeOK
  <1>6. TypeOK'
    BY <1>0, <1>1, <1>4, <1>5 DEF TypeOK
  <1>7. tick'[k] = step
    BY <1>0, <1>3 DEF TypeOK
  <1>8. TickFits(k)'
    BY <1>0, <1>1, <1>2, <1>3, <1>7 DEF TickFits
  <1>9. \A j \in Ticks : j # k => tick'[j] = tick[j]
    BY <1>0, <1>3 DEF TypeOK
  <1>10. accepted \subseteq accepted'
    BY <1>3
  <1> QED BY <1>1, <1>6, <1>8, <1>9, <1>10, NoRowWritten, OneTick

LEMMA RetriedIsRow ==
    ASSUME TypeOK, NEW k \in Ticks, TickFits(k), tick[k] \in {"succeeded", "failed"}
    PROVE  /\ current[k] \in Deliveries /\ row[current[k]].status # "none"
           /\ Retried(k) \in Rows
           /\ Retried(k).attemptCount = row[current[k]].attemptCount
           /\ Retried(k).status = IF tick[k] = "succeeded" THEN "delivered" ELSE "failed"
  <1> USE WebhooksAssumption
  <1>1. PICK d \in Deliveries : d = current[k] /\ row[d].status # "none"
    BY DEF TickFits
  <1>2. PICK n : n = snapshot[k][d].retryCount + 1
    OBVIOUS
  <1>3. row[d] \in Rows /\ snapshot[k][d] \in Rows /\ snapshot[k][d].retryCount < maxRetries
    BY <1>1 DEF TypeOK, TickFits
  <1>4. n \in 0..maxRetries
    BY <1>2, <1>3 DEF Rows
  <1>5. CASE tick[k] = "succeeded"
    <2>1. Retried(k) = [row[d] EXCEPT !.status = "delivered", !.retryCount = n]
      BY <1>1, <1>2, <1>5 DEF Retried
    <2> QED BY <1>1, <1>3, <1>4, <1>5, <2>1 DEF Rows, Statuses
  <1>6. CASE tick[k] = "failed"
    <2>1. Retried(k) = [row[d] EXCEPT !.status = "failed", !.retryCount = n,
                   !.nextRetryAt = IF n < maxRetries THEN "future" ELSE @]
      BY <1>1, <1>2, <1>6 DEF Retried
    <2> QED BY <1>1, <1>3, <1>4, <1>6, <2>1 DEF Rows, Statuses
  <1> QED BY <1>5, <1>6

(* A run that writes the row it is at, or none, and goes on or ends. *)
LEMMA RunWrites ==
    ASSUME WInv, NEW k \in Ticks,
           UNCHANGED <<endpoints, creator, dispatcher, targets, job, attemptsMade,
                       stalled, expired, worker, entity, snapshot, current, operator,
                       wish, wished, accepted, posts, struck>>,
           RowsKeep, row' \in [Deliveries -> Rows],
           NEW step \in {"idle", "next", "failed"}, tick' = [tick EXCEPT ![k] = step],
           step = "failed" => tick[k] = "succeeded",
           due' = due \/ due' = [due EXCEPT ![k] = {}]
    PROVE  WInv'
  <1>0. TypeOK /\ TickFits(k)
    BY DEF WInv
  <1>1. tick' \in [Ticks -> {"idle", "next", "giveUp", "post", "succeeded", "failed"}]
    BY <1>0 DEF TypeOK
  <1>2. due' \in [Ticks -> SUBSET Deliveries]
    BY <1>0 DEF TypeOK
  <1>3. TypeOK'
    BY <1>0, <1>1, <1>2 DEF TypeOK
  <1>4. tick'[k] = step /\ due'[k] \subseteq due[k] /\ due[k] \subseteq Deliveries
    BY <1>0 DEF TypeOK
  <1>5. \A j \in Ticks : j # k => tick'[j] = tick[j] /\ due'[j] = due[j]
    BY <1>0 DEF TypeOK
  <1>6. TickFits(k)'
    BY <1>0, <1>4 DEF TickFits, RowsKeep
  <1> QED BY <1>3, <1>5, <1>6, OneTick

LEMMA GiveUpStep ==
    ASSUME WInv, NEW k \in Ticks, GiveUp(k)
    PROVE  WInv'
  <1>0. TypeOK /\ TickFits(k)
    BY DEF WInv
  <1>1. UNCHANGED <<endpoints, creator, dispatcher, targets, job, attemptsMade, stalled,
                    expired, worker, entity, due, snapshot, current, operator, wish,
                    wished, accepted, posts, struck>>
    BY DEF GiveUp, source, queue, processor, manual, history
  <1>2. current[k] \in Deliveries /\ row[current[k]].status # "none"
    BY <1>0 DEF GiveUp, TickFits
  <1>3. PICK R : R = [row[current[k]] EXCEPT !.status = "failed"]
    OBVIOUS
  <1>4. row[current[k]] \in Rows
    BY <1>0, <1>2 DEF TypeOK
  <1>5. R \in Rows /\ R.status = "failed" /\ R.attemptCount = row[current[k]].attemptCount
    BY <1>3, <1>4 DEF Rows, Statuses
  <1>6. row' = [row EXCEPT ![current[k]] = R]
    BY <1>3 DEF GiveUp
  <1>7. RowsKeep /\ row' \in [Deliveries -> Rows]
    BY <1>0, <1>2, <1>5, <1>6, OneRow
  <1>8. PICK step \in {"idle", "next"} : tick' = [tick EXCEPT ![k] = step]
    BY DEF GiveUp, Continue, Step
  <1> QED BY <1>1, <1>7, <1>8, RunWrites

(* The update of a retried row is one the processor can live with. *)
LEMMA RetriedKeeps ==
    ASSUME WInv, NEW k \in Ticks, tick[k] \in {"succeeded", "failed"},
           row' = [row EXCEPT ![current[k]] = Retried(k)]
    PROVE  RowsKeep /\ row' \in [Deliveries -> Rows]
  <1>0. TypeOK /\ TickFits(k)
    BY DEF WInv
  <1>1. PICK R : R = Retried(k)
    OBVIOUS
  <1>2. /\ current[k] \in Deliveries /\ row[current[k]].status # "none" /\ R \in Rows
        /\ R.attemptCount = row[current[k]].attemptCount
        /\ R.status = IF tick[k] = "succeeded" THEN "delivered" ELSE "failed"
    BY <1>0, <1>1, RetriedIsRow
  <1>3. tick[k] = "succeeded" => current[k] \in accepted
    BY <1>0 DEF TickFits
  <1> QED BY <1>0, <1>1, <1>2, <1>3, OneRow

LEMMA UpdateRetriedStep ==
    ASSUME WInv, NEW k \in Ticks, UpdateRetried(k)
    PROVE  WInv'
  <1>1. UNCHANGED <<endpoints, creator, dispatcher, targets, job, attemptsMade, stalled,
                    expired, worker, entity, due, snapshot, current, operator, wish,
                    wished, accepted, posts, struck>>
    BY DEF UpdateRetried, source, queue, processor, manual, history
  <1>2. RowsKeep /\ row' \in [Deliveries -> Rows]
    BY RetriedKeeps DEF UpdateRetried
  <1>3. PICK step \in {"idle", "next"} : tick' = [tick EXCEPT ![k] = step]
    BY DEF UpdateRetried, Continue, Step
  <1> QED BY <1>1, <1>2, <1>3, RunWrites

LEMMA TickFailsStep ==
    ASSUME WInv, NEW k \in Ticks, TickFails(k)
    PROVE  WInv'
  <1>1. UNCHANGED <<endpoints, creator, dispatcher, targets, job, attemptsMade, stalled,
                    expired, worker, entity, snapshot, current, operator, wish, wished,
                    accepted, posts, struck>>
    BY DEF TickFails, source, queue, processor, manual, history
  <1>2. RowsKeep /\ row' \in [Deliveries -> Rows]
    <2>1. CASE UNCHANGED row
      BY <2>1, NoRowWritten DEF WInv, TypeOK
    <2>2. CASE tick[k] \in {"succeeded", "failed"} /\ row' = [row EXCEPT ![current[k]] = Retried(k)]
      BY <2>2, RetriedKeeps
    <2> QED BY <2>1, <2>2 DEF TickFails
  <1>3. CASE tick[k] = "succeeded" /\ Step(k, "failed") /\ UNCHANGED due
    BY <1>1, <1>2, <1>3, RunWrites DEF Step
  <1>4. CASE Step(k, "idle") /\ due' = [due EXCEPT ![k] = {}]
    BY <1>1, <1>2, <1>4, RunWrites DEF Step
  <1> QED BY <1>3, <1>4 DEF TickFails

(***************************************************************************)
(* Requests, time and restarts.                                            *)
(***************************************************************************)
LEMMA OnlyRowsStep ==
    ASSUME WInv, TypeOK', RowsKeep,
           UNCHANGED <<endpoints, creator, dispatcher, targets, job, attemptsMade,
                       stalled, worker, entity, tick, due, snapshot, current, accepted,
                       posts, struck>>,
           \A o \in Operators : OperatorFits(o)'
    PROVE  WInv'
  <1>1. /\ \A d \in Deliveries : JobFits(d)' /\ WorkerFits(d)' /\ RowFits(d)'
        /\ \A v \in Events : DispatcherFits(v)'
    BY RowsKept
  <1>2. \A k \in Ticks : TickFits(k)'
    BY RowsKept
  <1> QED BY <1>1, <1>2 DEF WInv

LEMMA ManualRetryStep ==
    ASSUME WInv, NEW o \in Operators, NEW d \in Deliveries, manualRetry(o, d)
    PROVE  WInv'
  <1>0. TypeOK
    BY DEF WInv
  <1>1. UNCHANGED <<endpoints, creator, dispatcher, targets, row, job, attemptsMade,
                    stalled, expired, worker, entity, tick, due, snapshot, current,
                    accepted, posts, struck>>
    BY DEF manualRetry, source, queue, processor, retrier, history
  <1>2. PICK n : n = row[d].retryCount
    OBVIOUS
  <1>3. n \in 0..maxRetries
    BY <1>0, <1>2 DEF TypeOK, Rows
  <1>4. /\ operator' = [operator EXCEPT ![o] = "update"]
        /\ wish' = [wish EXCEPT ![o] = d]
        /\ wished' = [wished EXCEPT ![o] = n]
    BY <1>2 DEF manualRetry
  <1>5. /\ operator' \in [Operators -> {"idle", "update", "ok", "failed"}]
        /\ wish' \in [Operators -> Deliveries \cup {None}]
        /\ wished' \in [Operators -> 0..maxRetries]
    BY <1>0, <1>3, <1>4 DEF TypeOK
  <1>6. TypeOK'
    BY <1>0, <1>1, <1>5 DEF TypeOK
  <1>7. \A p \in Operators : OperatorFits(p)'
    BY <1>0, <1>4 DEF WInv, OperatorFits, TypeOK
  <1> QED BY <1>1, <1>6, <1>7, NoRowWritten, OnlyRowsStep

LEMMA MarkDueStep ==
    ASSUME WInv, NEW o \in Operators, MarkDue(o)
    PROVE  WInv'
  <1> USE WebhooksAssumption
  <1>0. TypeOK /\ wish[o] \in Deliveries
    BY DEF WInv, MarkDue, OperatorFits
  <1>1. UNCHANGED <<endpoints, creator, dispatcher, targets, job, attemptsMade, stalled,
                    expired, worker, entity, tick, due, snapshot, current, wish, wished,
                    accepted, posts, struck>>
    BY DEF MarkDue, source, queue, processor, retrier, history
  <1>2. row[wish[o]] \in Rows /\ 0 \in 0..maxRetries
    BY <1>0 DEF TypeOK
  <1>3. PICK n : n = IF wished[o] >= maxRetries THEN 0 ELSE row[wish[o]].retryCount
    OBVIOUS
  <1>4. n \in 0..maxRetries
    BY <1>2, <1>3 DEF Rows
  <1>5. PICK R : R = [row[wish[o]] EXCEPT !.nextRetryAt = "past", !.retryCount = n]
    OBVIOUS
  <1>6. /\ R \in Rows /\ R.status = row[wish[o]].status
        /\ R.attemptCount = row[wish[o]].attemptCount
    BY <1>2, <1>4, <1>5 DEF Rows
  <1>7. row' = [row EXCEPT ![wish[o]] = R]
    BY <1>0, <1>3, <1>5 DEF MarkDue, TypeOK
  <1>8. RowsKeep /\ row' \in [Deliveries -> Rows]
    BY <1>0, <1>6, <1>7, OneRow
  <1>9. operator' = [operator EXCEPT ![o] = "ok"]
    BY DEF MarkDue
  <1>10. operator' \in [Operators -> {"idle", "update", "ok", "failed"}]
    BY <1>0, <1>9 DEF TypeOK
  <1>11. TypeOK'
    BY <1>0, <1>1, <1>8, <1>10 DEF TypeOK
  <1>12. \A p \in Operators : OperatorFits(p)'
    BY <1>0, <1>1, <1>9 DEF WInv, OperatorFits, TypeOK
  <1> QED BY <1>1, <1>8, <1>11, <1>12, OnlyRowsStep

LEMMA RetryIsDueStep ==
    ASSUME WInv, NEW d \in Deliveries, RetryIsDue(d)
    PROVE  WInv'
  <1>0. TypeOK
    BY DEF WInv
  <1>1. UNCHANGED <<endpoints, creator, dispatcher, targets, job, attemptsMade, stalled,
                    expired, worker, entity, tick, due, snapshot, current, operator, wish,
                    wished, accepted, posts, struck>>
    BY DEF RetryIsDue, source, queue, processor, retrier, manual, history
  <1>2. row[d] \in Rows
    BY <1>0 DEF TypeOK
  <1>3. PICK R : R = [row[d] EXCEPT !.nextRetryAt = "past"]
    OBVIOUS
  <1>4. R \in Rows /\ R.status = row[d].status /\ R.attemptCount = row[d].attemptCount
    BY <1>2, <1>3 DEF Rows
  <1>5. row' = [row EXCEPT ![d] = R]
    BY <1>3 DEF RetryIsDue
  <1>6. RowsKeep /\ row' \in [Deliveries -> Rows]
    BY <1>0, <1>4, <1>5, OneRow
  <1>7. TypeOK'
    BY <1>0, <1>1, <1>6 DEF TypeOK
  <1>8. \A o \in Operators : OperatorFits(o)'
    BY <1>1 DEF WInv, OperatorFits
  <1> QED BY <1>1, <1>6, <1>7, <1>8, OnlyRowsStep

LEMMA WindowEndsStep ==
    ASSUME WInv, NEW d \in Deliveries, WindowEnds(d)
    PROVE  WInv'
  <1>1. UNCHANGED <<endpoints, creator, dispatcher, targets, row, job, attemptsMade,
                    stalled, worker, entity, tick, due, snapshot, current, operator, wish,
                    wished, accepted, posts, struck>>
    BY DEF WindowEnds, source, processor, retrier, manual, history
  <1>2. TypeOK'
    BY <1>1 DEF WindowEnds, WInv, TypeOK
  <1>3. \A o \in Operators : OperatorFits(o)'
    BY <1>1 DEF WInv, OperatorFits
  <1> QED BY <1>1, <1>2, <1>3, NoRowWritten, OnlyRowsStep

LEMMA RestartStep ==
    ASSUME WInv, Restart
    PROVE  WInv'
  <1>0. TypeOK
    BY DEF WInv
  <1>1. UNCHANGED <<endpoints, targets, row, attemptsMade, expired, entity, snapshot,
                    current, wish, wished, accepted, posts>>
    BY DEF Restart
  <1>2. job' \in [Deliveries -> {"none", "waiting", "active", "gone"}]
    BY <1>0 DEF Restart, TypeOK
  <1>3. stalled' \in SUBSET Deliveries /\ struck' \in SUBSET Deliveries
    BY <1>0 DEF Restart, TypeOK, Active
  <1>4. /\ creator' \in [Endpoints -> {"idle", "validate", "ok", "refused", "failed"}]
        /\ dispatcher' \in [Events -> {"idle", "save", "add", "failed"}]
        /\ operator' \in [Operators -> {"idle", "update", "ok", "failed"}]
    BY <1>0 DEF Restart, TypeOK
  <1>5. /\ worker' = [d \in Deliveries |-> "idle"]
        /\ tick' = [k \in Ticks |-> "idle"] /\ due' = [k \in Ticks |-> {}]
    BY DEF Restart
  <1>6. TypeOK'
    BY <1>0, <1>1, <1>2, <1>3, <1>4, <1>5 DEF TypeOK
  <1>7. ASSUME NEW d \in Deliveries
        PROVE  JobFits(d)' /\ WorkerFits(d)' /\ RowFits(d)'
    <2>1. JobFits(d) /\ WorkerFits(d) /\ RowFits(d)
      BY DEF WInv
    <2>2. worker'[d] = "idle"
      BY <1>5
    <2>3. /\ job'[d] = IF job[d] # "active" THEN job[d] ELSE IF d \in stalled THEN "gone" ELSE "waiting"
          /\ job[d] = "active" => d \in struck'
          /\ Saved(d[1], d[2]) => d \in struck'
          /\ d \in struck => d \in struck'
      BY DEF Restart, Active
    <2>4. JobFits(d)'
      BY <1>1, <2>1, <2>3 DEF JobFits
    <2>5. WorkerFits(d)'
      BY <1>1, <2>1, <2>2 DEF WorkerFits
    <2>6. RowFits(d)'
      BY <1>1, <2>1, <2>3 DEF RowFits
    <2> QED BY <2>4, <2>5, <2>6
  <1>8. ASSUME NEW v \in Events
        PROVE  DispatcherFits(v)'
    <2>1. \/ dispatcher'[v] = dispatcher[v] /\ dispatcher[v] \in {"idle", "failed"}
          \/ dispatcher'[v] = "failed"
      BY <1>0 DEF Restart, TypeOK
    <2> QED BY <1>1, <2>1 DEF DispatcherFits, WInv
  <1>9. \A k \in Ticks : TickFits(k)'
    BY <1>5 DEF TickFits
  <1>10. \A o \in Operators : OperatorFits(o)'
    BY <1>1 DEF WInv, OperatorFits, Restart
  <1> QED BY <1>6, <1>7, <1>8, <1>9, <1>10 DEF WInv

(***************************************************************************)
(* The invariant, and what follows.                                        *)
(***************************************************************************)
LEMMA WInitial == Init => WInv
  <1> SUFFICES ASSUME Init PROVE WInv
    OBVIOUS
  <1> USE WebhooksAssumption
  <1>1. NoRow \in Rows /\ 0 \in 0..attempts /\ 0 \in 0..maxRetries
    BY DEF NoRow, Rows, Statuses
  <1>2. /\ row \in [Deliveries -> Rows] /\ entity \in [Deliveries -> Rows]
        /\ snapshot \in [Ticks -> [Deliveries -> Rows]]
    BY <1>1 DEF Init
  <1>3. TypeOK
    BY <1>1, <1>2 DEF Init, TypeOK
  <1>4. \A d \in Deliveries : /\ row[d].status = "none" /\ row[d].attemptCount = 0
                              /\ entity[d].status = "none"
    BY DEF Init, NoRow
  <1>5. \A d \in Deliveries : JobFits(d) /\ WorkerFits(d) /\ RowFits(d)
    BY <1>4 DEF Init, JobFits, WorkerFits, RowFits
  <1>6. \A v \in Events : DispatcherFits(v)
    BY <1>4, PairIsDelivery DEF Init, DispatcherFits
  <1>7. \A k \in Ticks : TickFits(k)
    BY DEF Init, TickFits
  <1>8. \A o \in Operators : OperatorFits(o)
    BY DEF Init, OperatorFits
  <1> QED BY <1>3, <1>5, <1>6, <1>7, <1>8 DEF WInv

LEMMA WStep == WInv /\ [Next]_vars => WInv'
  <1> SUFFICES ASSUME WInv, [Next]_vars PROVE WInv'
    OBVIOUS
  <1>1. ASSUME NEW e \in Endpoints, createEndpoint(e) \/ SaveEndpoint(e) \/ RemoveEndpoint(e)
        PROVE  WInv'
    BY <1>1, EndpointStep
  <1>2. ASSUME NEW v \in Events, Dispatch(v)
        PROVE  WInv'
    BY <1>2, DispatchEventStep, DispatchFailsStep, SaveDeliveryStep, AddJobStep DEF Dispatch
  <1>3. ASSUME NEW d \in Deliveries, Process(d)
        PROVE  WInv'
    BY <1>3, DeliverStep, LookUpEndpointStep, SaveStep, PostStep DEF Process
  <1>4. ASSUME NEW d \in Deliveries, WorkerFails(d) \/ RetryIsDue(d) \/ WindowEnds(d)
        PROVE  WInv'
    BY <1>4, WorkerFailsStep, RetryIsDueStep, WindowEndsStep
  <1>5. ASSUME NEW k \in Ticks, RetryRun(k)
        PROVE  WInv'
    BY <1>5, RetryFailedDeliveriesStep, GiveUpStep, PostAgainStep, UpdateRetriedStep,
       TickFailsStep, NextDueStep
       DEF RetryRun
  <1>6. ASSUME NEW o \in Operators, MarkDue(o) \/ \E d \in Deliveries : manualRetry(o, d)
        PROVE  WInv'
    BY <1>6, MarkDueStep, ManualRetryStep
  <1>7. CASE UNCHANGED vars
    <2>1. UNCHANGED <<endpoints, creator, dispatcher, targets, row, job, attemptsMade,
                      stalled, expired, worker, entity, tick, due, snapshot, current,
                      operator, wish, wished, accepted, posts, struck>>
      BY <1>7 DEF vars, source, queue, processor, retrier, manual, history
    <2>2. TypeOK'
      BY <2>1 DEF WInv, TypeOK
    <2>3. \A o \in Operators : OperatorFits(o)'
      BY <2>1 DEF WInv, OperatorFits
    <2> QED BY <2>1, <2>2, <2>3, NoRowWritten, OnlyRowsStep
  <1> QED BY <1>1, <1>2, <1>3, <1>4, <1>5, <1>6, <1>7, RestartStep DEF Next

(* In every state a delivery marked DELIVERED was received by its endpoint, *)
(* every post of the processor is counted in the row before it is sent,    *)
(* the counters keep their bounds, and a delivery is left PENDING with no  *)
(* job only where a restart or a failed statement hit it: however the      *)
(* processor, overlapping retry runs and manual retries interleave.        *)
THEOREM DeliveriesHonest == Spec => []DeliveriesAreHonest
  <1>1. WInv => DeliveriesAreHonest
    <2> SUFFICES ASSUME WInv PROVE DeliveriesAreHonest
      OBVIOUS
    <2>1. TypeOK
      BY DEF WInv
    <2>2. \A d \in Deliveries : RowFits(d)
      BY DEF WInv
    <2>3. DeliveredMeansAccepted /\ PostsOnRecord
      BY <2>2 DEF RowFits, DeliveredMeansAccepted, PostsOnRecord
    <2>4. NothingStranded
      BY <2>2 DEF RowFits, NothingStranded
    <2> QED BY <2>1, <2>3, <2>4 DEF DeliveriesAreHonest
  <1> QED BY <1>1, WInitial, WStep, PTL DEF Spec
==========================================================================
