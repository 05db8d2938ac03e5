---------------------------- MODULE EntitySaves ----------------------------
(***************************************************************************)
(* Four services that load an entity, change one field and save it while   *)
(* others work on the same row: API keys (src/modules/api-keys), devices   *)
(* registered for push messages (src/notifications/push), rotation of the  *)
(* wallets' encryption key (src/admin/key-rotation.service.ts) and actions *)
(* that a second administrator approves (src/admin).                       *)
(*                                                                         *)
(* TypeORM's save writes every column in which the entity differs from the *)
(* row, and inserts the row if it is gone: what changed since the entity   *)
(* was loaded is changed back.  The version column of a wallet is          *)
(* incremented and not compared.  The services share no row: a behaviour   *)
(* is about one of them.                                                   *)
(***************************************************************************)
EXTENDS Integers, FiniteSets

CONSTANTS Savers,       \* requests
          ApiKeys,      \* keys of one user, all of one name
          RotatedWallets, MaxWalletCredits,
          Approvals,
          Devices, DeviceOwners, MAX_TOKENS_PER_USER,
          NoKey

ASSUME EntitySavesAssumption ==
    /\ NoKey \notin ApiKeys \cup Approvals \cup Devices \cup DeviceOwners
    /\ MaxWalletCredits \in Nat /\ MAX_TOKENS_PER_USER \in Nat \ {0}

VARIABLES service,      \* "keys", "devices", "rotation" or "approvals"
          keyState,     \* per key: "none", "active", "revoked"
          keyExpired,   \* the keys past expiresAt
          creating,     \* keys whose name was found to be free
          held,         \* per caller: the entity it has loaded, what for, and for whom
          revoked,      \* history: keys whose revocation was saved
          overlapped,   \* history: keys that a validation held at that moment
          wallet,       \* per wallet: balance and keyVersion
          creditedTo,      \* history: what was credited to it
          loadedWallets,    \* the wallets that rotate() has loaded
          toRotate,         \* the wallets it has yet to visit
          overtaken,    \* history: wallets credited before their turn came
          approval,     \* per approval: "none", "pending" or "approved"
          requestedBy,  \* who asked
          timesExecuted,     \* history: how often its action was carried out
          contendedApprovals,    \* history: approvals that two callers held at once
          ownerOf,      \* per device token: its row's userId, or NoKey
          lastWord,     \* history: the owner that the last change of it gave it
          crossedDevices       \* history: tokens changed while another caller held them

keyVars == <<keyState, keyExpired, creating, revoked, overlapped>>
rotationVars == <<wallet, creditedTo, loadedWallets, toRotate, overtaken>>
approvalVars == <<approval, requestedBy, timesExecuted, contendedApprovals>>
deviceVars == <<ownerOf, lastWord, crossedDevices>>
saveVars == <<service, held, keyVars, rotationVars, approvalVars, deviceVars>>

Loose == [on |-> NoKey, for |-> "none", owner |-> NoKey]
Hold(x, purpose) == [Loose EXCEPT !.on = x, !.for = purpose]

SavesInit ==
    /\ service \in {"keys", "devices", "rotation", "approvals"}
    /\ keyState = [k \in ApiKeys |-> "none"]
    /\ keyExpired = {} /\ creating = {} /\ revoked = {} /\ overlapped = {}
    /\ held = [c \in Savers |-> Loose]
    /\ wallet = [w \in RotatedWallets |-> [balance |-> 0, current |-> FALSE]]
    /\ creditedTo = [w \in RotatedWallets |-> 0]
    /\ loadedWallets = wallet /\ toRotate = {} /\ overtaken = {}
    /\ approval = [a \in Approvals |-> "none"]
    /\ requestedBy \in [Approvals -> Savers]
    /\ timesExecuted = [a \in Approvals |-> 0] /\ contendedApprovals = {}
    /\ ownerOf = [d \in Devices |-> NoKey] /\ lastWord = ownerOf /\ crossedDevices = {}

Holders(x) == {c \in Savers : held[c].on = x}
----------------------------------------------------------------------------
(* ApiKeysService and ApiKeyGuard. *)

OtherThanKeys == UNCHANGED <<service, rotationVars, approvalVars, deviceVars>>

findSameName(k) ==
    /\ keyState[k] = "none" /\ k \notin creating
    /\ \A other \in ApiKeys : keyState[other] # "active"
    /\ creating' = creating \cup {k}
    /\ UNCHANGED <<keyState, keyExpired, revoked, overlapped, held>> /\ OtherThanKeys

createApiKey(k) ==
    /\ k \in creating
    /\ creating' = creating \ {k}
    /\ keyState' = [keyState EXCEPT ![k] = "active"]
    /\ UNCHANGED <<keyExpired, revoked, overlapped, held>> /\ OtherThanKeys

loadKey(c, k, purpose) ==
    /\ held[c] = Loose
    /\ \/ purpose = "validate" /\ keyState[k] = "active" /\ k \notin keyExpired
       \/ purpose = "revoke" /\ keyState[k] # "none"
    /\ held' = [held EXCEPT ![c] = Hold(k, purpose)]
    /\ UNCHANGED keyVars /\ OtherThanKeys

(* validateApiKey sets lastUsedAt: it saves the active key that it loaded. *)
validateApiKey(c) ==
    /\ held[c].for = "validate"
    /\ keyState' = [keyState EXCEPT ![held[c].on] = "active"]
    /\ held' = [held EXCEPT ![c] = Loose]
    /\ UNCHANGED <<keyExpired, creating, revoked, overlapped>> /\ OtherThanKeys

(* Mutant: isActive is not cleared before the save. *)
revokeSavesCopy(c) ==
    /\ held[c].for = "revoke"
    /\ revoked' = revoked \cup {held[c].on}
    /\ held' = [held EXCEPT ![c] = Loose]
    /\ UNCHANGED <<keyState, keyExpired, creating, overlapped>> /\ OtherThanKeys

revokeApiKey(c) ==
    LET k == held[c].on
    IN /\ held[c].for = "revoke"
       /\ keyState' = [keyState EXCEPT ![k] = "revoked"]
       /\ revoked' = revoked \cup {k}
       /\ overlapped' = IF \E d \in Holders(k) : held[d].for = "validate"
                        THEN overlapped \cup {k} ELSE overlapped
       /\ held' = [held EXCEPT ![c] = Loose]
       /\ UNCHANGED <<keyExpired, creating>> /\ OtherThanKeys

keyExpires(k) ==
    /\ keyState[k] # "none"
    /\ keyExpired' = keyExpired \cup {k}
    /\ UNCHANGED <<keyState, creating, revoked, overlapped, held>> /\ OtherThanKeys
----------------------------------------------------------------------------
(* PushNotificationService.  A registration finds the token, or not, and   *)
(* saves; a message is sent to a token that was found, then saved, too.    *)

OtherThanDevices == UNCHANGED <<service, keyVars, rotationVars, approvalVars>>

findToken(c, d, purpose, owner) ==
    /\ held[c] = Loose
    /\ \/ purpose = "register" /\ ownerOf[d] # NoKey
       \/ purpose = "insert" /\ ownerOf[d] = NoKey
       \/ purpose = "send" /\ ownerOf[d] = owner
    /\ held' = [held EXCEPT ![c] = [on |-> d, for |-> purpose, owner |-> owner]]
    /\ UNCHANGED deviceVars /\ OtherThanDevices

(* A change of the row of d by caller c, which then lets go of it. *)
Settle(c, d, owner) ==
    /\ ownerOf' = [ownerOf EXCEPT ![d] = owner]
    /\ lastWord' = [lastWord EXCEPT ![d] = owner]
    /\ crossedDevices' = IF Holders(d) \ {c} # {} THEN crossedDevices \cup {d} ELSE crossedDevices
    /\ held' = [held EXCEPT ![c] = Loose]
    /\ OtherThanDevices

(* Mutant: a known token keeps its owner. *)
registerKeepsOwner(c) ==
    /\ held[c].for = "register"
    /\ lastWord' = [lastWord EXCEPT ![held[c].on] = held[c].owner]
    /\ held' = [held EXCEPT ![c] = Loose]
    /\ UNCHANGED <<ownerOf, crossedDevices>> /\ OtherThanDevices

registerKnown(c) == held[c].for = "register" /\ Settle(c, held[c].on, held[c].owner)

(* A user at the limit loses the token used longest ago. *)
TokensOf(u) == {d \in Devices : ownerOf[d] = u}
evictOldest(c, oldest) ==
    /\ held[c].for = "insert" /\ oldest \in TokensOf(held[c].owner)
    /\ Cardinality(TokensOf(held[c].owner)) >= MAX_TOKENS_PER_USER
    /\ ownerOf' = [ownerOf EXCEPT ![oldest] = NoKey]
    /\ lastWord' = [lastWord EXCEPT ![oldest] = NoKey]
    /\ crossedDevices' = IF Holders(oldest) # {} THEN crossedDevices \cup {oldest} ELSE crossedDevices
    /\ held' = [held EXCEPT ![c].for = "create"]
    /\ OtherThanDevices

(* The unique index refuses a token that was inserted meanwhile. *)
registerNew(c) ==
    /\ \/ held[c].for = "create"
       \/ held[c].for = "insert"
          /\ Cardinality(TokensOf(held[c].owner)) < MAX_TOKENS_PER_USER
    /\ IF ownerOf[held[c].on] = NoKey
       THEN Settle(c, held[c].on, held[c].owner)
       ELSE held' = [held EXCEPT ![c] = Loose] /\ UNCHANGED deviceVars /\ OtherThanDevices

deregisterToken(c, d) == held[c] = Loose /\ Settle(c, d, NoKey)

(* The message was accepted: lastUsedAt is set and the token saved. *)
sendAccepted(c) ==
    /\ held[c].for = "send"
    /\ ownerOf' = [ownerOf EXCEPT ![held[c].on] = held[c].owner]
    /\ held' = [held EXCEPT ![c] = Loose]
    /\ UNCHANGED <<lastWord, crossedDevices>> /\ OtherThanDevices

sendNotRegistered(c) == held[c].for = "send" /\ Settle(c, held[c].on, NoKey)

sendFails(c) ==
    /\ held[c].for = "send"
    /\ held' = [held EXCEPT ![c] = Loose]
    /\ UNCHANGED deviceVars /\ OtherThanDevices
----------------------------------------------------------------------------
(* KeyRotationService, and the crediting of a wallet (Wallets). *)

OtherThanRotation == UNCHANGED <<service, held, keyVars, approvalVars, deviceVars>>

creditWallet(w) ==
    /\ creditedTo[w] < MaxWalletCredits
    /\ wallet' = [wallet EXCEPT ![w].balance = @ + 1]
    /\ creditedTo' = [creditedTo EXCEPT ![w] = @ + 1]
    /\ overtaken' = IF w \in toRotate /\ ~loadedWallets[w].current THEN overtaken \cup {w}
                    ELSE overtaken
    /\ UNCHANGED <<loadedWallets, toRotate>> /\ OtherThanRotation

rotate ==
    /\ toRotate = {}
    /\ loadedWallets' = wallet
    /\ toRotate' = RotatedWallets
    /\ UNCHANGED <<wallet, creditedTo, overtaken>> /\ OtherThanRotation

(* Mutant: every wallet is saved, on the current key or not. *)
NeedsKeyAlways(w) == TRUE
NeedsKey(w) == ~loadedWallets[w].current

rotateWallet(w) ==
    /\ w \in toRotate
    /\ toRotate' = toRotate \ {w}
    /\ wallet' = IF NeedsKey(w)
                 THEN [wallet EXCEPT ![w] = [balance |-> loadedWallets[w].balance, current |-> TRUE]]
                 ELSE wallet
    /\ UNCHANGED <<creditedTo, loadedWallets, overtaken>> /\ OtherThanRotation

(* The process stops, or a save fails and the request with it. *)
rotationStops ==
    /\ toRotate # {} /\ toRotate' = {}
    /\ UNCHANGED <<wallet, creditedTo, loadedWallets, overtaken>> /\ OtherThanRotation
----------------------------------------------------------------------------
(* AdminService: requests that another administrator approves. *)

OtherThanApprovals == UNCHANGED <<service, keyVars, rotationVars, deviceVars>>

requestAdminApproval(a) ==
    /\ approval[a] = "none"
    /\ approval' = [approval EXCEPT ![a] = "pending"]
    /\ UNCHANGED <<held, requestedBy, timesExecuted, contendedApprovals>> /\ OtherThanApprovals

MayApprove(c, a) == approval[a] = "pending" /\ requestedBy[a] # c

loadApproval(c, a) ==
    /\ held[c] = Loose /\ MayApprove(c, a)
    /\ held' = [held EXCEPT ![c] = Hold(a, "approve")]
    /\ contendedApprovals' = IF Holders(a) # {} THEN contendedApprovals \cup {a} ELSE contendedApprovals
    /\ UNCHANGED <<approval, requestedBy, timesExecuted>> /\ OtherThanApprovals

approveAdminRequest(c) ==
    /\ held[c].for = "approve"
    /\ approval' = [approval EXCEPT ![held[c].on] = "approved"]
    /\ held' = [held EXCEPT ![c].for = "execute"]
    /\ UNCHANGED <<requestedBy, timesExecuted, contendedApprovals>> /\ OtherThanApprovals

(* The action follows the save of the approval. *)
executeAction(c) ==
    /\ held[c].for = "execute"
    /\ timesExecuted' = [timesExecuted EXCEPT ![held[c].on] = @ + 1]
    /\ held' = [held EXCEPT ![c] = Loose]
    /\ UNCHANGED <<approval, requestedBy, contendedApprovals>> /\ OtherThanApprovals

(* A stop, or an error of the action: the approval stays approved. *)
approverStops(c) ==
    /\ held[c].for \in {"approve", "execute"}
    /\ held' = [held EXCEPT ![c] = Loose]
    /\ UNCHANGED <<approval, requestedBy, timesExecuted, contendedApprovals>> /\ OtherThanApprovals

SavesNext ==
    \/ /\ service = "keys"
       /\ \/ \E k \in ApiKeys :
                \/ findSameName(k) \/ createApiKey(k) \/ keyExpires(k)
                \/ \E c \in Savers, p \in {"validate", "revoke"} : loadKey(c, k, p)
          \/ \E c \in Savers : validateApiKey(c) \/ revokeApiKey(c)
    \/ /\ service = "devices"
       /\ \E c \in Savers :
            \/ registerKnown(c) \/ registerNew(c)
            \/ sendAccepted(c) \/ sendNotRegistered(c) \/ sendFails(c)
            \/ \E d \in Devices :
                \/ deregisterToken(c, d) \/ evictOldest(c, d)
                \/ \E p \in {"register", "insert", "send"}, u \in DeviceOwners : findToken(c, d, p, u)
    \/ /\ service = "rotation"
       /\ \/ \E w \in RotatedWallets : creditWallet(w) \/ rotateWallet(w)
          \/ rotate \/ rotationStops
    \/ /\ service = "approvals"
       /\ \/ \E a \in Approvals : \/ requestAdminApproval(a)
                                  \/ \E c \in Savers : loadApproval(c, a)
          \/ \E c \in Savers : \/ approveAdminRequest(c) \/ executeAction(c)
                                \/ approverStops(c)

SavesSpec == SavesInit /\ [][SavesNext]_saveVars

----------------------------------------------------------------------------
(* Type invariant. *)
SavesTypeOK ==
    /\ keyState \in [ApiKeys -> {"none", "active", "revoked"}]
    /\ keyExpired \subseteq ApiKeys /\ creating \subseteq ApiKeys
    /\ revoked \subseteq ApiKeys /\ overlapped \subseteq ApiKeys
    /\ held \in [Savers -> [on : ApiKeys \cup Approvals \cup Devices \cup {NoKey},
                             for : {"none", "validate", "revoke", "approve", "execute",
                                    "register", "insert", "create", "send"},
                             owner : DeviceOwners \cup {NoKey}]]
    /\ ownerOf \in [Devices -> DeviceOwners \cup {NoKey}]
    /\ lastWord \in [Devices -> DeviceOwners \cup {NoKey}] /\ crossedDevices \subseteq Devices
    /\ wallet \in [RotatedWallets -> [balance : 0..MaxWalletCredits, current : BOOLEAN]]
    /\ loadedWallets \in [RotatedWallets -> [balance : 0..MaxWalletCredits, current : BOOLEAN]]
    /\ creditedTo \in [RotatedWallets -> 0..MaxWalletCredits]
    /\ toRotate \subseteq RotatedWallets /\ overtaken \subseteq RotatedWallets
    /\ approval \in [Approvals -> {"none", "pending", "approved"}]
    /\ timesExecuted \in [Approvals -> Nat] /\ contendedApprovals \subseteq Approvals

(* A revoked key stays revoked, unless a validation had loaded it before   *)
(* the revocation was saved.                                               *)
RevokedUnlessInUse == \A k \in revoked \ overlapped : keyState[k] = "revoked"

(* The rotation loses a credit only of a wallet that it loaded on an old   *)
(* key and that was credited before its turn came; wallets already on the  *)
(* current key are safe however often it runs or stops half way.           *)
RotationLosesOnlyOvertaken ==
    \A w \in RotatedWallets \ overtaken : wallet[w].balance = creditedTo[w]

(* An approved action is carried out once, unless two administrators had   *)
(* loaded the request while it was pending.                                *)
ActionsOnceUnlessContended == \A a \in Approvals \ contendedApprovals : timesExecuted[a] <= 1

(* A device belongs to whom it was registered for last, and to nobody once *)
(* it was removed, unless another request held its row at that moment.     *)
DevicesFollowLastWord == \A d \in Devices \ crossedDevices : ownerOf[d] = lastWord[d]

(* What the saves of the four services may undo: only what overlaps them.  *)
SavesUndoOnlyOverlaps == /\ RevokedUnlessInUse
                         /\ RotationLosesOnlyOvertaken
                         /\ ActionsOnceUnlessContended
                         /\ DevicesFollowLastWord
============================================================================
