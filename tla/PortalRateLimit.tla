-------------------------- MODULE PortalRateLimit --------------------------
(***************************************************************************)
(* The legacy scraper service of one portal and its client: a limiter      *)
(* whose state is a file, a lock that lets one request through at a time,  *)
(* a wait inside the lock, and a client that turns to the fallback service *)
(* (another host, with a limiter of its own) when it gets no answer.       *)
(*                                                                         *)
(* Code: src/homefinder/scraper/rate_limit.py, scraper/app.py,             *)
(* sources/remote_scraper.py.                                              *)
(***************************************************************************)
EXTENDS Naturals

CONSTANTS
    Interval,           \* minimum_interval_seconds
    Jitter,             \* jitter_seconds
    InlineWait,         \* maximum_inline_wait_seconds
    DailyLimit,         \* daily_limit
    DayLength,
    DeniedDelay,        \* first delay after 403 or 429, doubled each time
    ErrorDelay,         \* first delay after a server error
    MaxDelayDenied,     \* cap of the former, and of what a portal asks for
    MaxDelayError,      \* cap of the latter
    RetryAfter,         \* delays a portal may ask for; 0: none
    RateHorizon,        \* bound: clock
    MaxWaiting          \* bound: requests waiting for the lock

ASSUME RateAssumption ==
    /\ {Interval, DailyLimit, DayLength, DeniedDelay, ErrorDelay, MaxDelayDenied}
          \subseteq Nat \ {0}
    /\ {Jitter, InlineWait, RateHorizon, MaxWaiting} \subseteq Nat
    /\ MaxDelayError \in 1..MaxDelayDenied
    /\ RetryAfter \subseteq Nat

VARIABLES
    rateClock,
    limiterFile,        \* the state file
    serving,            \* the request that holds the lock
    lockQueue,          \* requests waiting for it
    visits,             \* last visit to the portal, visits on that day (history)
    denial,             \* end of the delay of the last failure noted (history)
    asking              \* the service the client waits for

rateVars == <<rateClock, limiterFile, serving, lockQueue, visits, denial, asking>>

DayOf(t) == t \div DayLength
NotServing == [phase |-> "free"]
Lower(x, y) == IF x < y THEN x ELSE y

-----------------------------------------------------------------------------
(* The client: scrape sends a request to the service.                      *)
Ask ==
    /\ asking = "none"
    /\ lockQueue < MaxWaiting
    /\ asking' = "endpoint"
    /\ lockQueue' = lockQueue + 1
    /\ UNCHANGED <<rateClock, limiterFile, serving, visits, denial>>

(* _request: no answer in time, while the service may go on, or a stopped  *)
(* service: the fallback is next, and after it the call fails.             *)
AskFallback ==
    /\ asking = "endpoint"
    /\ asking' = "fallback"
    /\ UNCHANGED <<rateClock, limiterFile, serving, lockQueue, visits, denial>>

FallbackEnds ==
    /\ asking = "fallback"
    /\ asking' = "none"
    /\ UNCHANGED <<rateClock, limiterFile, serving, lockQueue, visits, denial>>

(* The service answers with a result, a deferral (429) or an error (422),  *)
(* which may be the answer of a call the client has given up.              *)
Answer == asking' \in {asking} \cup (IF asking = "endpoint" THEN {"none"} ELSE {})

-----------------------------------------------------------------------------
(* _load, with the counter of a new day.                                   *)
Rolled ==
    IF limiterFile.day = DayOf(rateClock) THEN limiterFile
      ELSE [limiterFile EXCEPT !.day = DayOf(rateClock), !.used = 0]

DayUsedUp(state) == state.used >= DailyLimit

BlockedNow(state) == state.blockedUntil > rateClock

(* before_request raises ScrapeDeferred.                                   *)
MustDefer(state) ==
    \/ BlockedNow(state)
    \/ DayUsedUp(state)
    \/ state.nextAt > rateClock + InlineWait

(* locked_scrape takes the lock; before_request defers, or waits with the  *)
(* state it has loaded in memory.                                          *)
TakeLock ==
    /\ serving = NotServing
    /\ lockQueue > 0
    /\ lockQueue' = lockQueue - 1
    /\ IF MustDefer(Rolled)
         THEN Answer /\ UNCHANGED serving
         ELSE /\ serving' = [phase |-> "wait", state |-> Rolled, since |-> rateClock]
              /\ UNCHANGED asking
    /\ UNCHANGED <<rateClock, limiterFile, visits, denial>>

PacedFromArrival == serving.since

PacedFrom == rateClock

(* The wait is over: count, save with a fresh jitter, and go to the        *)
(* portal.  The day is the one of the state in memory.                     *)
GoToPortal ==
    /\ serving.phase = "wait"
    /\ serving.state.nextAt <= rateClock
    /\ \E jitter \in 0..Jitter :
          limiterFile' = [serving.state EXCEPT
                              !.used = @ + 1, !.nextAt = PacedFrom + Interval + jitter]
    /\ serving' = [phase |-> "fetch"]
    /\ visits' = [last |-> rateClock,
                  today |-> IF DayOf(visits.last) = DayOf(rateClock)
                              THEN visits.today + 1 ELSE 1]
    /\ UNCHANGED <<rateClock, lockQueue, denial, asking>>

Fetching == serving.phase = "fetch"
ReleaseLock == serving' = NotServing

(* after_success.                                                          *)
AfterSuccess ==
    /\ Fetching
    /\ limiterFile' = [limiterFile EXCEPT !.failures = 0, !.blockedUntil = 0]
    /\ ReleaseLock
    /\ Answer
    /\ UNCHANGED <<rateClock, lockQueue, visits, denial>>

(* 2 ** min(failures - 1, 8).                                              *)
Doubling(failures) == <<1, 2, 4, 8, 16, 32, 64, 128, 256>>[Lower(failures, 9)]

(* The delay of after_failure: what the portal asks for, else doubled with *)
(* every failure in a row, within the caps.                                *)
FailureDelay(denied, failures, retryAfter) ==
    LET first == IF denied THEN DeniedDelay ELSE ErrorDelay
        cap == IF denied THEN MaxDelayDenied ELSE MaxDelayError
        own == Lower(cap, first * Doubling(failures))
    IN  Lower(IF retryAfter # 0 THEN retryAfter ELSE own, MaxDelayDenied)

(* after_failure, for 403, 429 and server errors.                          *)
AfterFailure(denied, retryAfter) ==
    /\ Fetching
    /\ LET failures == limiterFile.failures + 1
           until == rateClock + FailureDelay(denied, failures, retryAfter)
       IN  /\ limiterFile' = [limiterFile EXCEPT !.failures = failures,
                                                 !.blockedUntil = until]
           /\ denial' = until
    /\ ReleaseLock
    /\ Answer
    /\ UNCHANGED <<rateClock, lockQueue, visits>>

(* Any other error of the page leaves the limiter as it is.                *)
PageError ==
    /\ Fetching
    /\ ReleaseLock
    /\ Answer
    /\ UNCHANGED <<rateClock, limiterFile, lockQueue, visits, denial>>

(* The service stops and comes back with its file.                         *)
ServiceRestarts ==
    /\ serving # NotServing
    /\ ReleaseLock
    /\ lockQueue' = 0
    /\ UNCHANGED <<rateClock, limiterFile, visits, denial, asking>>

RateTick ==
    /\ rateClock < RateHorizon
    /\ rateClock' = rateClock + 1
    /\ UNCHANGED <<limiterFile, serving, lockQueue, visits, denial, asking>>

RateInit ==
    /\ rateClock = 0
    /\ limiterFile = [day |-> 0, used |-> 0, nextAt |-> 0, blockedUntil |-> 0,
                      failures |-> 0]
    /\ serving = NotServing
    /\ lockQueue = 0
    /\ visits = [last |-> 0, today |-> 0]
    /\ denial = 0
    /\ asking = "none"

RateNext ==
    \/ Ask \/ AskFallback \/ FallbackEnds
    \/ TakeLock \/ GoToPortal \/ AfterSuccess \/ PageError \/ ServiceRestarts
    \/ \E denied \in BOOLEAN, after \in RetryAfter : AfterFailure(denied, after)
    \/ RateTick

RateSpec == RateInit /\ [][RateNext]_rateVars

-----------------------------------------------------------------------------
(* Two visits to the portal are at least the minimum interval apart, also  *)
(* across a restart, an abandoned call and a wait inside the lock          *)
(* (before_request saves before the request is made).                      *)
VisitsSpaced ==
    [][visits' # visits /\ visits.today > 0
          => rateClock >= visits.last + Interval]_rateVars

(* The visits of one calendar day stay within the daily limit plus one: a  *)
(* request that waited over midnight is counted on the day before          *)
(* (before_request does not look at the day again after its wait).         *)
DayWithinLimit == visits.today <= DailyLimit + 1

(* A noted failure keeps the service away from the portal for the whole    *)
(* delay, whatever restarts or new requests come meanwhile.                *)
DenialKeepsAway == [][visits' # visits => rateClock >= denial]_rateVars

(* The portal is spared: visits are spaced, bounded by the day and kept    *)
(* away by a denial, although the state is a file that is read before a    *)
(* wait and the clients give up and come back.                             *)
PortalSpared == []DayWithinLimit /\ VisitsSpaced /\ DenialKeepsAway

=============================================================================
