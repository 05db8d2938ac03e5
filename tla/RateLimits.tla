---------------------------- MODULE RateLimits -----------------------------
(***************************************************************************)
(* Four limiters of requests or messages.  EndpointRateLimitService and    *)
(* its guard (src/modules/endpoint-rate-limit) keep the times of the last  *)
(* requests in memory.  The other three count in a fixed window that the   *)
(* first request opens: PerUserRateLimitService (src/modules/rate-limit,   *)
(* in a table), OtpThrottleGuard (src/otp, in memory, without an await)    *)
(* and the flag of AdminAlertService (src/admin, in the cache, a limit of  *)
(* one).  A behaviour is about one limiter, one endpoint and user, one     *)
(* address and e-mail, or one type of alert.                               *)
(***************************************************************************)
EXTENDS Integers, FiniteSets

CONSTANTS Hits,             \* requests, each made once
          Limiters,         \* the limiters a behaviour may be about
          DEFAULT_LIMITS,   \* per category "read" and "write"
          IpLimit, EmailLimit,
          maxRequestsSet,   \* values of maxRequests
          WindowMs,         \* length of the windows; an e-mail's is longer
          EmailWindowMs,
          LastTick          \* bound of the clock

ASSUME RateLimitsAssumption ==
    /\ IsFiniteSet(Hits)
    /\ DEFAULT_LIMITS \in [{"read", "write"} -> Nat \ {0}]
    /\ DEFAULT_LIMITS["write"] <= DEFAULT_LIMITS["read"]
    /\ IpLimit \in Nat \ {0} /\ EmailLimit \in Nat \ {0}
    /\ maxRequestsSet \subseteq Nat
    /\ WindowMs \in Nat \ {0} /\ EmailWindowMs \in Nat \ {0} /\ LastTick \in Nat

VARIABLES limiter, tick,
          config,       \* of the endpoint: maxRequests, windowMs, isActive
          timestamps,   \* of the endpoint: the requests in its entry
          counter,      \* per key of a fixed window: its count and its start
          hit,          \* per request: its step
          seen,         \* per request: the configuration or the record it read
          passedAt,     \* history: per request, when it was allowed; -1: never
          overlap,      \* history: two requests worked on one record at once
          reshaped      \* history: the largest maxRequests so far; -1 when
                        \* windowMs was changed or the check was switched off

limitVars == <<limiter, tick, config, timestamps, counter, hit, seen, passedAt, overlap, reshaped>>

AllLimiters == {"endpoint", "user", "otp", "alert"}
Ticks == 0..LastTick
Keys == {"ip", "email"}     \* the user's record and the alert's flag are under "ip"
Category == {"read", "write"}

EndpointRateLimitConfig == [maxRequests : maxRequestsSet, windowMs : {WindowMs, EmailWindowMs},
                            isActive : BOOLEAN]
NoRecord == [count |-> 0, start |-> -1]
RateLimitRecord == [count : Nat, start : Ticks \cup {-1}]

LimitsInit ==
    /\ limiter \in Limiters
    /\ tick = 0
    /\ config \in [maxRequests : maxRequestsSet, windowMs : {WindowMs}, isActive : {TRUE}]
    /\ limiter # "endpoint" => \A n \in maxRequestsSet : config.maxRequests <= n
    /\ timestamps = {}
    /\ counter = [k \in Keys |-> NoRecord]
    /\ hit = [h \in Hits |-> "idle"]
    /\ seen = [h \in Hits |-> NoRecord]
    /\ passedAt = [h \in Hits |-> -1]
    /\ overlap = FALSE
    /\ reshaped = config.maxRequests

Allowed(h) == passedAt' = [passedAt EXCEPT ![h] = tick]
Over(h) == /\ hit' = [hit EXCEPT ![h] = "over"]
           /\ seen' = [seen EXCEPT ![h] = NoRecord]

----------------------------------------------------------------------------
(* The sliding window.  The configuration is read first; the rest of       *)
(* checkRateLimit runs without an await.                                   *)

readConfig(h) ==
    /\ limiter = "endpoint" /\ hit[h] = "idle"
    /\ seen' = [seen EXCEPT ![h] = config]
    /\ hit' = [hit EXCEPT ![h] = "check"]
    /\ UNCHANGED <<limiter, tick, config, timestamps, counter, passedAt, overlap, reshaped>>

(* Mutant: the boundary of the window is still in the window. *)
RoomInShortWindow(c) ==
    Cardinality({h \in timestamps : passedAt[h] > tick - c.windowMs + 1}) < c.maxRequests

InWindow(c) == {h \in timestamps : passedAt[h] > tick - c.windowMs}
RoomInWindow(c) == Cardinality(InWindow(c)) < c.maxRequests

checkRateLimit(h) ==
    /\ limiter = "endpoint" /\ hit[h] = "check"
    /\ \/ ~seen[h].isActive /\ UNCHANGED <<timestamps, passedAt>>      \* not limited
       \/ /\ seen[h].isActive /\ RoomInWindow(seen[h])
          /\ timestamps' = InWindow(seen[h]) \cup {h}
          /\ Allowed(h)
       \/ /\ seen[h].isActive /\ ~RoomInWindow(seen[h])
          /\ timestamps' = InWindow(seen[h])
          /\ UNCHANGED passedAt
    /\ Over(h)
    /\ UNCHANGED <<limiter, tick, config, counter, overlap, reshaped>>

(* The guard lets the request pass when the query fails. *)
failOpen(h) ==
    /\ limiter = "endpoint" /\ hit[h] = "check"
    /\ Over(h)
    /\ UNCHANGED <<limiter, tick, config, timestamps, counter, passedAt, overlap, reshaped>>

updateConfig(c) ==
    /\ limiter = "endpoint" /\ c # config
    /\ config' = c
    /\ reshaped' = IF c.windowMs # config.windowMs \/ reshaped = -1 THEN -1
                   ELSE IF c.maxRequests > reshaped THEN c.maxRequests ELSE reshaped
    /\ UNCHANGED <<limiter, tick, timestamps, counter, hit, seen, passedAt, overlap>>

----------------------------------------------------------------------------
(* The fixed windows. *)

(* Mutant: a request at the end of the window opens the next one. *)
UserWindowExpiredEarly(r, now) == r.start <= now - WindowMs + 1

UserWindowExpired(r, now) == r.start < now - WindowMs

Working == {"find", "insert", "count", "reset"}
Busy == {h \in Hits : hit[h] \in Working \cup {"flag"}}

(* PerUserRateLimitService.check: now is taken ... *)
checkUser(h) ==
    /\ limiter = "user" /\ hit[h] = "idle"
    /\ overlap' = (overlap \/ Busy # {})
    /\ seen' = [seen EXCEPT ![h] = [count |-> 0, start |-> tick]]
    /\ hit' = [hit EXCEPT ![h] = "find"]
    /\ UNCHANGED <<limiter, tick, config, timestamps, counter, passedAt, reshaped>>

(* ... then the record is found and judged by that now ... *)
findRecord(h, category) ==
    LET r == counter["ip"]
        now == seen[h].start
        Pass(write) == /\ hit' = [hit EXCEPT ![h] = write]
                       /\ seen' = [seen EXCEPT ![h] = [count |-> r.count + 1, start |-> now]] IN
    /\ hit[h] = "find"
    /\ \/ r = NoRecord /\ Pass("insert")
       \/ r # NoRecord /\ UserWindowExpired(r, now) /\ Pass("reset")
       \/ r # NoRecord /\ ~UserWindowExpired(r, now) /\ r.count < DEFAULT_LIMITS[category]
          /\ Pass("count")
       \/ r # NoRecord /\ ~UserWindowExpired(r, now) /\ r.count >= DEFAULT_LIMITS[category]
          /\ Over(h)
    /\ UNCHANGED <<limiter, tick, config, timestamps, counter, passedAt, overlap, reshaped>>

(* ... and stored, after which the request passes, unless the connection   *)
(* is lost after the write.  The index admits one record: a second         *)
(* insertion fails.                                                        *)
storeRecord(h) ==
    /\ hit[h] \in {"insert", "count", "reset"}
    /\ hit[h] = "insert" => counter["ip"] = NoRecord
    /\ counter' = [counter EXCEPT !["ip"] =
            IF hit[h] = "count" THEN [@ EXCEPT !.count = seen[h].count]
            ELSE [count |-> 1, start |-> seen[h].start]]
    /\ Allowed(h) \/ UNCHANGED passedAt
    /\ Over(h)
    /\ UNCHANGED <<limiter, tick, config, timestamps, overlap, reshaped>>

(* A query fails, and with it the request. *)
failUser(h) ==
    /\ hit[h] \in Working
    /\ Over(h)
    /\ UNCHANGED <<limiter, tick, config, timestamps, counter, passedAt, overlap, reshaped>>

(* OtpThrottleGuard: the address is counted, then the e-mail. *)
Bumped(r, w) == IF r # NoRecord /\ tick < r.start + w THEN [r EXCEPT !.count = @ + 1]
                ELSE [count |-> 1, start |-> tick]
Full(r, limit, w) == r # NoRecord /\ tick < r.start + w /\ r.count >= limit

canActivateOtp(h) ==
    /\ limiter = "otp" /\ hit[h] = "idle"
    /\ \/ Full(counter["ip"], IpLimit, WindowMs) /\ UNCHANGED <<counter, passedAt>>
       \/ /\ ~Full(counter["ip"], IpLimit, WindowMs)
          /\ Full(counter["email"], EmailLimit, EmailWindowMs)
          /\ counter' = [counter EXCEPT !["ip"] = Bumped(@, WindowMs)]
          /\ UNCHANGED passedAt
       \/ /\ ~Full(counter["ip"], IpLimit, WindowMs)
          /\ ~Full(counter["email"], EmailLimit, EmailWindowMs)
          /\ counter' = [ip |-> Bumped(counter["ip"], WindowMs),
                         email |-> Bumped(counter["email"], EmailWindowMs)]
          /\ Allowed(h)
    /\ Over(h)
    /\ UNCHANGED <<limiter, tick, config, timestamps, overlap, reshaped>>

(* AdminAlertService.isRateLimited: get, then set with a time to live.     *)
(* The alert goes out (by mail and Slack, failures caught) after the set.  *)
isRateLimited(h) ==
    LET r == counter["ip"] IN
    /\ limiter = "alert" /\ hit[h] = "idle"
    /\ overlap' = (overlap \/ Busy # {})
    /\ hit' = [hit EXCEPT ![h] =
            IF r # NoRecord /\ tick < r.start + WindowMs THEN "over" ELSE "flag"]
    /\ UNCHANGED <<limiter, tick, config, timestamps, counter, seen, passedAt, reshaped>>

sendAlert(h) ==
    /\ hit[h] = "flag"
    /\ counter' = [counter EXCEPT !["ip"] = [count |-> 1, start |-> tick]]
    /\ Allowed(h)
    /\ Over(h)
    /\ UNCHANGED <<limiter, tick, config, timestamps, overlap, reshaped>>

LimitTick ==
    /\ tick < LastTick
    /\ tick' = tick + 1
    /\ UNCHANGED <<limiter, config, timestamps, counter, hit, seen, passedAt, overlap, reshaped>>

LimitsNext ==
    \/ \E h \in Hits :
        \/ readConfig(h) \/ checkRateLimit(h) \/ failOpen(h) \/ storeRecord(h)
        \/ canActivateOtp(h) \/ isRateLimited(h) \/ sendAlert(h)
        \/ checkUser(h) \/ failUser(h)
        \/ \E category \in Category : findRecord(h, category)
    \/ \E c \in EndpointRateLimitConfig : updateConfig(c)
    \/ LimitTick

LimitsSpec == LimitsInit /\ [][LimitsNext]_limitVars

----------------------------------------------------------------------------
(* Type invariant. *)
LimitsTypeOK ==
    /\ limiter \in Limiters
    /\ tick \in Ticks
    /\ config \in EndpointRateLimitConfig
    /\ timestamps \subseteq Hits
    /\ counter \in [Keys -> RateLimitRecord]
    /\ hit \in [Hits -> {"idle", "check", "flag", "over"} \cup Working]
    /\ seen \in [Hits -> RateLimitRecord \cup EndpointRateLimitConfig]
    /\ passedAt \in [Hits -> Ticks \cup {-1}]
    /\ overlap \in BOOLEAN
    /\ reshaped \in maxRequestsSet \cup {-1}

(* The requests allowed at t or later, but before t + w. *)
PassedWithin(t, w) == {h \in Hits : passedAt[h] \in t..(t + w - 1)}

(* Every interval of windowMs holds at most maxRequests of the requests    *)
(* that the endpoint's limiter allowed (the largest maxRequests, when it   *)
(* was changed), however late they were decided after the configuration    *)
(* was read; a change of windowMs starts anew.                             *)
SlidingWindowHolds ==
    limiter = "endpoint" /\ reshaped # -1 =>
        \A t \in Ticks : Cardinality(PassedWithin(t, WindowMs)) <= reshaped

(* A fixed window with a limit lets fewer than twice that many pass in any *)
(* interval of its length, even across the end of a window, because a full *)
(* window spends its first place when it is opened.  In the user's it may  *)
(* be just twice as many: the window starts when the request that opens it *)
(* took its time, and the request passes after two queries, perhaps late   *)
(* in the window.  The table and the cache guarantee it unless two         *)
(* requests overlapped.                                                    *)
FixedWindowHolds ==
    \A t \in Ticks :
        LET Passed(w) == Cardinality(PassedWithin(t, w)) IN
        /\ limiter = "user" /\ ~overlap => Passed(WindowMs) <= 2 * DEFAULT_LIMITS["read"]
        /\ limiter = "otp" => /\ Passed(WindowMs) <= 2 * IpLimit - 1
                              /\ Passed(EmailWindowMs) <= 2 * EmailLimit - 1
        /\ limiter = "alert" /\ ~overlap => Passed(WindowMs) <= 1

(* What a limiter lets pass, whichever of the four it is. *)
WindowsHold == SlidingWindowHolds /\ FixedWindowHolds
============================================================================
