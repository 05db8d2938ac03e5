---------------------------- MODULE Idempotency ----------------------------
(***************************************************************************)
(* The Idempotency-Key of a request (src/idempotency): IdempotencyGuard    *)
(* looks the key up before the handler runs, IdempotencyInterceptor stores *)
(* the handler's answer after it, and a daily job deletes expired rows.    *)
(*                                                                         *)
(* Nothing is written between the lookup and the end of the handler, so    *)
(* two requests with one key may both find nothing.  The answer of a       *)
(* handler is identified with the request it ran for.                      *)
(***************************************************************************)
EXTENDS Naturals

CONSTANTS Requests,
          Keys,         \* values of the Idempotency-Key header
          Hashes,       \* hashRequest of method, url and body
          None

ASSUME IdempotencyAssumption == None \notin Requests \cup Keys \cup Hashes

VARIABLES rowHash, rowResponse, \* table idempotency_keys; None: no such row
          expired,              \* the keys whose row has passed expiresAt
          pc, key, hash,        \* per request: its step, its key, its hash
          dirty,        \* per request: columns its UPDATE writes; None: INSERT
          answer,       \* per request: the answer it was given
          executed,     \* history: requests whose handler ran to its end
          before,       \* history: per request, who was answered before it came
          unsaved,      \* history: requests whose answer was not stored
          cleaned       \* history: requests whose key was deleted after they came

table == <<rowHash, rowResponse, expired>>
history == <<executed, before, unsaved, cleaned>>
vars == <<table, pc, key, hash, dirty, answer, history>>

Columns == {"requestHash", "response"}
Outcomes == {"ok", "refused", "failed"}
Steps == {"idle", "findByKey", "handle", "load", "write"}
Active(r) == pc[r] \in Steps \ {"idle"}

Init == /\ rowHash = [k \in Keys |-> None]
        /\ rowResponse = [k \in Keys |-> None]
        /\ expired = {}
        /\ pc = [r \in Requests |-> "idle"]
        /\ key = [r \in Requests |-> None]
        /\ hash = [r \in Requests |-> None]
        /\ dirty = [r \in Requests |-> None]
        /\ answer = [r \in Requests |-> None]
        /\ executed = {}
        /\ before = [r \in Requests |-> {}]
        /\ unsaved = {}
        /\ cleaned = {}

Goto(r, step) == pc' = [pc EXCEPT ![r] = step]

(***************************************************************************)
(* The guard.                                                              *)
(***************************************************************************)
(* The header is missing, too short or too long. *)
RefuseKey(r) ==
    /\ pc[r] = "idle"
    /\ Goto(r, "refused")
    /\ UNCHANGED <<table, key, hash, dirty, answer, history>>

canActivate(r, k, h) ==
    /\ pc[r] = "idle"
    /\ key' = [key EXCEPT ![r] = k]
    /\ hash' = [hash EXCEPT ![r] = h]
    /\ before' = [before EXCEPT ![r] = {q \in Requests : pc[q] = "ok"}]
    /\ Goto(r, "findByKey")
    /\ UNCHANGED <<table, dirty, answer, executed, unsaved, cleaned>>

(* The row, expired or not, answers a request with the same hash; a        *)
(* request with another hash is refused.                                   *)
findByKey(r) ==
    LET k == key[r] IN
    /\ pc[r] = "findByKey"
    /\ \/ rowResponse[k] = None /\ Goto(r, "handle") /\ UNCHANGED answer
       \/ /\ rowResponse[k] # None /\ rowHash[k] # hash[r]
          /\ Goto(r, "refused") /\ UNCHANGED answer
       \/ /\ rowResponse[k] # None /\ rowHash[k] = hash[r]
          /\ Goto(r, "ok")
          /\ answer' = [answer EXCEPT ![r] = rowResponse[k]]
    /\ UNCHANGED <<table, key, hash, dirty, history>>

(***************************************************************************)
(* The handler and the interceptor.                                        *)
(***************************************************************************)
(* Mutant: the answer is sent and the store forgotten. *)
handleUnstored(r) ==
    /\ pc[r] = "handle"
    /\ executed' = executed \cup {r}
    /\ answer' = [answer EXCEPT ![r] = r]
    /\ Goto(r, "ok")
    /\ UNCHANGED <<table, key, hash, dirty, before, unsaved, cleaned>>

(* The handler ends, and the interceptor has its answer. *)
handle(r) ==
    /\ pc[r] = "handle"
    /\ executed' = executed \cup {r}
    /\ answer' = [answer EXCEPT ![r] = r]
    /\ Goto(r, "load")
    /\ UNCHANGED <<table, key, hash, dirty, before, unsaved, cleaned>>

(* store: save of an entity with a primary key loads the row first, and    *)
(* then inserts it or updates the columns that differ.                     *)
LoadRow(r) ==
    LET k == key[r] IN
    /\ pc[r] = "load"
    /\ dirty' = [dirty EXCEPT ![r] =
          IF rowResponse[k] = None THEN None
          ELSE {c \in Columns : c = "response" \/ rowHash[k] # hash[r]}]
    /\ Goto(r, "write")
    /\ UNCHANGED <<table, key, hash, answer, history>>

(* Mutant: store is called with the hash and the answer swapped. *)
WriteRowSwapped(r) ==
    /\ pc[r] = "write"
    /\ rowHash' = [rowHash EXCEPT ![key[r]] = answer[r]]
    /\ rowResponse' = [rowResponse EXCEPT ![key[r]] = hash[r]]
    /\ Goto(r, "ok")
    /\ UNCHANGED <<expired, key, hash, dirty, answer, history>>

(* An INSERT of a key that has appeared meanwhile fails, and an UPDATE of  *)
(* a row that was deleted meanwhile changes nothing: the interceptor       *)
(* answers the client in either case.                                      *)
WriteRow(r) ==
    LET k == key[r]
        hit == dirty[r] = None <=> rowResponse[k] = None
    IN
    /\ pc[r] = "write"
    /\ rowHash' = [rowHash EXCEPT ![k] =
          IF hit /\ (dirty[r] = None \/ "requestHash" \in dirty[r])
             THEN hash[r] ELSE @]
    /\ rowResponse' = [rowResponse EXCEPT ![k] = IF hit THEN answer[r] ELSE @]
    /\ expired' = IF hit THEN expired \ {k} ELSE expired
    /\ Goto(r, "ok")
    /\ UNCHANGED <<key, hash, dirty, answer, history>>

(* The catchError of the interceptor: an error of the store is logged and  *)
(* the client gets the answer.                                             *)
StoreError(r) ==
    /\ pc[r] \in {"load", "write"}
    /\ Goto(r, "ok")
    /\ unsaved' = unsaved \cup {r}
    /\ UNCHANGED <<table, key, hash, dirty, answer, executed, before, cleaned>>

(* Mutant: the interceptor stores the answer of a handler that threw. *)
ErrorStored(r) ==
    /\ pc[r] = "handle"
    /\ answer' = [answer EXCEPT ![r] = r]
    /\ Goto(r, "load")
    /\ UNCHANGED <<table, key, hash, dirty, history>>

(* The lookup or the handler throws: nothing is stored. *)
Error(r) ==
    /\ pc[r] \in {"findByKey", "handle"}
    /\ Goto(r, "failed")
    /\ UNCHANGED <<table, key, hash, dirty, answer, history>>

(***************************************************************************)
(* Time, the clean-up job, and restarts.                                   *)
(***************************************************************************)
Expire(k) ==
    /\ rowResponse[k] # None /\ k \notin expired
    /\ expired' = expired \cup {k}
    /\ UNCHANGED <<rowHash, rowResponse, pc, key, hash, dirty, answer, history>>

cleanup ==
    /\ expired # {}
    /\ rowHash' = [k \in Keys |-> IF k \in expired THEN None ELSE rowHash[k]]
    /\ rowResponse' =
          [k \in Keys |-> IF k \in expired THEN None ELSE rowResponse[k]]
    /\ expired' = {}
    /\ cleaned' = cleaned \cup {r \in Requests : key[r] \in expired}
    /\ UNCHANGED <<pc, key, hash, dirty, answer, executed, before, unsaved>>

Restart ==
    /\ \E r \in Requests : Active(r)
    /\ pc' = [r \in Requests |-> IF Active(r) THEN "failed" ELSE pc[r]]
    /\ UNCHANGED <<table, key, hash, dirty, answer, history>>

Step(r) == \/ \E k \in Keys, h \in Hashes : canActivate(r, k, h)
           \/ RefuseKey(r) \/ findByKey(r) \/ handle(r)
           \/ LoadRow(r) \/ WriteRow(r) \/ StoreError(r) \/ Error(r)

Next == \/ \E r \in Requests : Step(r)
        \/ \E k \in Keys : Expire(k)
        \/ cleanup
        \/ Restart

Spec == Init /\ [][Next]_vars

(***************************************************************************)
(* Properties.                                                             *)
(***************************************************************************)
(* Every variable keeps the shape the code gives it. *)
TypeOK == /\ rowHash \in [Keys -> Hashes \cup {None}]
          /\ rowResponse \in [Keys -> Requests \cup {None}]
          /\ expired \in SUBSET Keys
          /\ pc \in [Requests -> Steps \cup Outcomes]
          /\ key \in [Requests -> Keys \cup {None}]
          /\ hash \in [Requests -> Hashes \cup {None}]
          /\ dirty \in [Requests -> (SUBSET Columns) \cup {None}]
          /\ answer \in [Requests -> Requests \cup {None}]
          /\ executed \in SUBSET Requests
          /\ before \in [Requests -> SUBSET Requests]
          /\ unsaved \in SUBSET Requests
          /\ cleaned \in SUBSET Requests

(* A client that repeats a request after it was answered never has it      *)
(* executed again, as long as the first answer could be stored and the key *)
(* was not deleted by the clean-up: the answer is not given before it is   *)
(* stored, and no concurrent request with that key loses the row.          *)
NoReexecution ==
    \A r \in executed : \A q \in before[r] :
        key[q] = key[r] => q \in unsaved \cup cleaned

(* An answer is the answer of a handler that ran to its end for the same   *)
(* key: a request that failed or was cut off leaves nothing to replay.     *)
AnswersAreReal ==
    \A r \in Requests :
        pc[r] = "ok" => answer[r] \in executed /\ key[answer[r]] = key[r]
============================================================================
