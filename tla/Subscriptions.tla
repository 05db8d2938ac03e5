--------------------------- MODULE Subscriptions ---------------------------
(***************************************************************************)
(* The second implementation of webhooks (src/modules/webhooks): the       *)
(* subscriptions to one event and WebhookDispatcherService, which sends an *)
(* event to the subscriptions that are active when it begins, one after    *)
(* the other, with a row per delivery.  A post that fails is recorded and  *)
(* reported; an error of the database or of the report ends the dispatch.  *)
(***************************************************************************)
EXTENDS Integers, FiniteSets

CONSTANTS Subs, Dispatches, NoSub

ASSUME SubscriptionsAssumption == NoSub \notin Subs

VARIABLES subscription,     \* per id: "none", "active" or "disabled"
          toggling,         \* the value that a toggle under way will save, per id
          targets,          \* per dispatch: the subscriptions it has yet to serve
          snapshot,         \* per dispatch: the subscriptions it began with
          serving,          \* per dispatch: the one it serves
          dispatch,         \* per dispatch: its step
          deliveries,       \* per dispatch and subscription: the status of the row
          acceptedBy,       \* the endpoints' side: posts they have accepted
          broken            \* history: dispatches in which a query or report failed

subVars == <<subscription, toggling, targets, snapshot, serving, dispatch, deliveries,
             acceptedBy, broken>>

DeliveryStatus == {"pending", "delivered", "failed"}

SubsInit ==
    /\ subscription = [s \in Subs |-> "none"]
    /\ toggling = [s \in Subs |-> "none"]
    /\ targets = [d \in Dispatches |-> {}]
    /\ snapshot = [d \in Dispatches |-> {}]
    /\ serving = [d \in Dispatches |-> NoSub]
    /\ dispatch = [d \in Dispatches |-> "new"]
    /\ deliveries = [d \in Dispatches |-> [s \in Subs |-> "none"]]
    /\ acceptedBy = {}
    /\ broken = {}

DispatcherUnchanged == UNCHANGED <<targets, snapshot, serving, dispatch, deliveries, acceptedBy,
                                   broken>>

----------------------------------------------------------------------------
(* WebhooksService. *)

createSubscription(s) ==
    /\ subscription[s] = "none"
    /\ subscription' = [subscription EXCEPT ![s] = "active"]
    /\ UNCHANGED toggling /\ DispatcherUnchanged

(* toggle() loads, flips isActive, sets status to agree and saves.  A      *)
(* subscription is active when both columns say so.  An update may have    *)
(* disabled it by one of them alone, and flipping leaves it disabled then. *)
toggle(s, status) ==
    /\ subscription[s] # "none" /\ toggling[s] = "none"
    /\ subscription[s] = "active" => status = "disabled"
    /\ toggling' = [toggling EXCEPT ![s] = status]
    /\ UNCHANGED subscription /\ DispatcherUnchanged

saveToggle(s) ==
    /\ toggling[s] # "none"
    /\ subscription' = [subscription EXCEPT ![s] = toggling[s]]
    /\ toggling' = [toggling EXCEPT ![s] = "none"]
    /\ DispatcherUnchanged

updateSubscription(s, status) ==
    /\ subscription[s] # "none"
    /\ subscription' = [subscription EXCEPT ![s] = status]
    /\ UNCHANGED toggling /\ DispatcherUnchanged

----------------------------------------------------------------------------
(* WebhookDispatcherService. *)

getActiveSubscriptionsForEvent == {s \in Subs : subscription[s] = "active"}

beginDispatch(d) ==
    /\ dispatch[d] = "new"
    /\ targets' = [targets EXCEPT ![d] = getActiveSubscriptionsForEvent]
    /\ snapshot' = [snapshot EXCEPT ![d] = getActiveSubscriptionsForEvent]
    /\ dispatch' = [dispatch EXCEPT ![d] = "loop"]
    /\ UNCHANGED <<subscription, toggling, serving, deliveries, acceptedBy, broken>>

insertDelivery(d, s) ==
    /\ dispatch[d] = "loop" /\ s \in targets[d]
    /\ targets' = [targets EXCEPT ![d] = @ \ {s}]
    /\ serving' = [serving EXCEPT ![d] = s]
    /\ deliveries' = [deliveries EXCEPT ![d][s] = "pending"]
    /\ dispatch' = [dispatch EXCEPT ![d] = "post"]
    /\ UNCHANGED <<subscription, toggling, snapshot, acceptedBy, broken>>

(* The endpoint accepts, refuses, or accepts and its answer is lost. *)
post(d, accepts, answered) ==
    /\ dispatch[d] = "post"
    /\ acceptedBy' = IF accepts THEN acceptedBy \cup {<<d, serving[d]>>} ELSE acceptedBy
    /\ dispatch' = [dispatch EXCEPT ![d] = IF accepts /\ answered THEN "delivered" ELSE "failed"]
    /\ UNCHANGED <<subscription, toggling, targets, snapshot, serving, deliveries, broken>>

recordDelivered(d) ==
    /\ dispatch[d] = "delivered"
    /\ deliveries' = [deliveries EXCEPT ![d][serving[d]] = "delivered"]
    /\ dispatch' = [dispatch EXCEPT ![d] = "loop"]
    /\ UNCHANGED <<subscription, toggling, targets, snapshot, serving, acceptedBy, broken>>

(* The update of a delivered post throws: the catch records a failure. *)
recordThrows(d) ==
    /\ dispatch[d] = "delivered"
    /\ dispatch' = [dispatch EXCEPT ![d] = "failed"]
    /\ broken' = broken \cup {d}
    /\ UNCHANGED <<subscription, toggling, targets, snapshot, serving, deliveries, acceptedBy>>

(* Mutant: the error of a post is thrown again. *)
recordFailedRethrows(d) ==
    /\ dispatch[d] = "failed"
    /\ deliveries' = [deliveries EXCEPT ![d][serving[d]] = "failed"]
    /\ dispatch' = [dispatch EXCEPT ![d] = "aborted"]
    /\ UNCHANGED <<subscription, toggling, targets, snapshot, serving, acceptedBy, broken>>

recordFailed(d) ==
    /\ dispatch[d] = "failed"
    /\ deliveries' = [deliveries EXCEPT ![d][serving[d]] = "failed"]
    /\ dispatch' = [dispatch EXCEPT ![d] = "report"]
    /\ UNCHANGED <<subscription, toggling, targets, snapshot, serving, acceptedBy, broken>>

report(d) ==
    /\ dispatch[d] = "report"
    /\ dispatch' = [dispatch EXCEPT ![d] = "loop"]
    /\ UNCHANGED <<subscription, toggling, targets, snapshot, serving, deliveries, acceptedBy,
                   broken>>

endDispatch(d) ==
    /\ dispatch[d] = "loop" /\ targets[d] = {}
    /\ dispatch' = [dispatch EXCEPT ![d] = "done"]
    /\ UNCHANGED <<subscription, toggling, targets, snapshot, serving, deliveries, acceptedBy,
                   broken>>

(* The insert, the update or the report in the catch throws, or a stop. *)
dispatchBreaks(d) ==
    /\ dispatch[d] \notin {"new", "done", "aborted"}
    /\ dispatch' = [dispatch EXCEPT ![d] = "aborted"]
    /\ broken' = broken \cup {d}
    /\ UNCHANGED <<subscription, toggling, targets, snapshot, serving, deliveries, acceptedBy>>

SubsNext ==
    \/ \E s \in Subs : \/ createSubscription(s) \/ saveToggle(s)
                       \/ \E status \in {"active", "disabled"} :
                            toggle(s, status) \/ updateSubscription(s, status)
    \/ \E d \in Dispatches :
        \/ beginDispatch(d) \/ recordDelivered(d) \/ recordThrows(d) \/ recordFailed(d)
        \/ report(d) \/ endDispatch(d) \/ dispatchBreaks(d)
        \/ \E s \in Subs : insertDelivery(d, s)
        \/ \E accepts, answered \in BOOLEAN : post(d, accepts, answered)

SubsSpec == SubsInit /\ [][SubsNext]_subVars

----------------------------------------------------------------------------
(* Type invariant. *)
SubsTypeOK ==
    /\ subscription \in [Subs -> {"none", "active", "disabled"}]
    /\ toggling \in [Subs -> {"none", "active", "disabled"}]
    /\ targets \in [Dispatches -> SUBSET Subs]
    /\ snapshot \in [Dispatches -> SUBSET Subs]
    /\ serving \in [Dispatches -> Subs \cup {NoSub}]
    /\ dispatch \in [Dispatches -> {"new", "loop", "post", "delivered", "failed", "report",
                                    "done", "aborted"}]
    /\ deliveries \in [Dispatches -> [Subs -> DeliveryStatus \cup {"none"}]]
    /\ acceptedBy \subseteq Dispatches \X Subs
    /\ broken \subseteq Dispatches

(* Endpoints cannot keep an event from one another: as long as no query or *)
(* report failed, a dispatch that ended has a settled delivery for every   *)
(* subscription it began with, and a delivery is recorded as delivered     *)
(* only if its endpoint accepted it.                                       *)
EveryTargetIsServed ==
    \A d \in Dispatches :
        /\ dispatch[d] \in {"done", "aborted"} /\ d \notin broken =>
            \A s \in snapshot[d] : deliveries[d][s] \in {"delivered", "failed"}
        /\ \A s \in Subs : deliveries[d][s] = "delivered" => <<d, s>> \in acceptedBy
============================================================================
