--------------------------- MODULE RatesGateway ----------------------------
(***************************************************************************)
(* The websocket gateway of rates (src/rates) and one of its clients.  An  *)
(* update is kept in a bounded buffer and sent to the connected clients; a *)
(* client that comes back asks for what it missed after the time stamp of  *)
(* the last update it received.                                            *)
(***************************************************************************)
EXTENDS Integers, Sequences, FiniteSets, SequencesExt

CONSTANTS maxBufferSize, replayWindowMs,
          MaxUpdates,       \* bound
          LastInstant       \* bound of the clock

ASSUME GatewayAssumption ==
    /\ maxBufferSize \in Nat \ {0} /\ replayWindowMs \in Nat \ {0}
    /\ MaxUpdates \in Nat /\ LastInstant \in Nat \ {0}

VARIABLES eventBuffer,      \* updates, by number
          stampOf,          \* per update so far: its time stamp
          instant,          \* the clock
          connected,
          received,         \* the updates the client has
          lastReceivedAt,   \* the time stamp of the last of them; 0 before
          missing,          \* history: updates it missed since it first connected
          asked             \* since it came back, the client has asked for a replay

gatewayVars == <<eventBuffer, stampOf, instant, connected, received, lastReceivedAt, missing,
                 asked>>

GatewayInit ==
    /\ eventBuffer = <<>>
    /\ stampOf = <<>>
    /\ instant = 1
    /\ connected = FALSE
    /\ received = {}
    /\ lastReceivedAt = 0
    /\ missing = {}
    /\ asked = FALSE

(* Mutant: the newest updates are dropped. *)
TrimmedOldest(s) == IF Len(s) > maxBufferSize THEN SubSeq(s, 1, maxBufferSize) ELSE s

(* slice(-maxBufferSize) *)
Trimmed(s) == IF Len(s) > maxBufferSize THEN Tail(s) ELSE s

broadcastRateUpdate ==
    LET n == Len(stampOf) + 1 IN
    /\ n <= MaxUpdates
    /\ stampOf' = Append(stampOf, instant)
    /\ eventBuffer' = Trimmed(Append(eventBuffer, n))
    /\ received' = IF connected THEN received \cup {n} ELSE received
    /\ lastReceivedAt' = IF connected THEN instant ELSE lastReceivedAt
    /\ missing' = IF connected THEN missing ELSE missing \cup {n}
    /\ UNCHANGED <<instant, connected, asked>>

(* The current rates are sent, no updates. *)
handleConnection ==
    /\ ~connected
    /\ connected' = TRUE
    /\ asked' = FALSE
    /\ missing' = IF lastReceivedAt = 0 /\ received = {} THEN {} ELSE missing
    /\ UNCHANGED <<eventBuffer, stampOf, instant, received, lastReceivedAt>>

handleDisconnect ==
    /\ connected
    /\ connected' = FALSE
    /\ UNCHANGED <<eventBuffer, stampOf, instant, received, lastReceivedAt, missing, asked>>

Since == IF instant - replayWindowMs > lastReceivedAt THEN instant - replayWindowMs
         ELSE lastReceivedAt

(* A client asks once after it came back, perhaps after newer updates. *)
handleReplay ==
    LET missed == {n \in ToSet(eventBuffer) : stampOf[n] > Since} IN
    /\ connected /\ ~asked
    /\ asked' = TRUE
    /\ received' = received \cup missed
    /\ missing' = missing \ missed
    /\ lastReceivedAt' = IF missed = {} THEN lastReceivedAt
                         ELSE stampOf[CHOOSE n \in missed : \A m \in missed : m <= n]
    /\ UNCHANGED <<eventBuffer, stampOf, instant, connected>>

GatewayTick ==
    /\ instant < LastInstant
    /\ instant' = instant + 1
    /\ UNCHANGED <<eventBuffer, stampOf, connected, received, lastReceivedAt, missing, asked>>

GatewayNext == \/ broadcastRateUpdate \/ handleConnection \/ handleDisconnect
               \/ handleReplay \/ GatewayTick

GatewaySpec == GatewayInit /\ [][GatewayNext]_gatewayVars

----------------------------------------------------------------------------
(* Type invariant. *)
GatewayTypeOK ==
    /\ stampOf \in BoundedSeq(1..LastInstant, MaxUpdates)
    /\ eventBuffer \in BoundedSeq(1..MaxUpdates, maxBufferSize)
    /\ instant \in 1..LastInstant
    /\ connected \in BOOLEAN /\ asked \in BOOLEAN
    /\ received \subseteq DOMAIN stampOf
    /\ lastReceivedAt \in 0..LastInstant
    /\ missing \subseteq DOMAIN stampOf

(* What a replay cannot bring back: an update that maxBufferSize newer     *)
(* ones pushed out, one as old as the window, and one no newer than an     *)
(* update the client has: of the same instant, or sent to it after it came *)
(* back and before it asked.                                               *)
Excusable(n) ==
    \/ n + maxBufferSize <= Len(stampOf)
    \/ stampOf[n] <= instant - replayWindowMs
    \/ \E m \in received : m # n /\ stampOf[m] >= stampOf[n]

(* After the replay a client lacks only updates that cannot be replayed.   *)
ReplayIsComplete ==
    connected /\ asked => \A n \in missing : Excusable(n)
============================================================================
