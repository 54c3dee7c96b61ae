------------------------------ MODULE RateLimiter ------------------------------
(***************************************************************************)
(* rateLimit() of apps/api/src/cache.ts: a fixed window per player, kept   *)
(* by INCR and, in a second call to Redis, EXPIRE.                         *)
(***************************************************************************)
EXTENDS Integers

CONSTANTS
  Caller,   \* the players who call what is limited
  Limit     \* calls a window admits (SHARE_LIMIT; in the code: 10)

ASSUME LimitAssumption == Limit \in Nat \ {0}

VARIABLES
  window,     \* Redis: ratelimit:share:<fid>; count 0 means no key
  admitted,   \* history: calls the window has admitted since its key was created
  orphaned    \* history: players whose key was left without an expiry

limiterVars == <<window, admitted, orphaned>>

NoWindow == [count |-> 0, expires |-> FALSE]

LimiterInit ==
  /\ window = [p \in Caller |-> NoWindow]
  /\ admitted = [p \in Caller |-> 0]
  /\ orphaned = {}

OpensWindowAtZero(count) == count = 0
OpensWindow(count) == count = 1

WithinLimitOffByOne(count) == count <= Limit + 1
WithinLimit(count) == count <= Limit

(* INCR.  Counts above the limit are all alike, so they stop at the first. *)
Counted(p) == IF window[p].count > Limit THEN window[p].count ELSE window[p].count + 1

Incr(p) ==
  /\ window' = [window EXCEPT ![p].count = Counted(p)]
  /\ admitted' = IF WithinLimit(Counted(p)) THEN [admitted EXCEPT ![p] = @ + 1] ELSE admitted
  /\ UNCHANGED orphaned

(* INCR is carried out and its reply lost: no EXPIRE follows, and the call *)
(* is let through whatever the count.                                      *)
IncrUnnoticed(p) ==
  /\ window' = [window EXCEPT ![p].count = Counted(p)]
  /\ orphaned' = IF OpensWindow(Counted(p)) THEN orphaned \cup {p} ELSE orphaned
  /\ UNCHANGED admitted

Expire(p) ==
  /\ window' = [window EXCEPT ![p].expires = TRUE]
  /\ UNCHANGED <<admitted, orphaned>>

(* The call that opened the window ends, by an error or with the process,  *)
(* before its EXPIRE.                                                      *)
Orphan(p) ==
  /\ orphaned' = orphaned \cup {p}
  /\ UNCHANGED <<window, admitted>>

(* Redis drops the key when its time is up.                                *)
WindowEnds(p) ==
  /\ window[p].expires
  /\ window' = [window EXCEPT ![p] = NoWindow]
  /\ admitted' = [admitted EXCEPT ![p] = 0]
  /\ UNCHANGED orphaned

LimiterTypeOK ==
  /\ window \in [Caller -> [count : 0 .. Limit + 1, expires : BOOLEAN]]
  /\ admitted \in [Caller -> Nat]
  /\ orphaned \subseteq Caller

(* However calls overlap, one window admits no more of them than its limit *)
(* (cache.ts, rateLimit), except those let through because Redis failed.   *)
AtMostLimit == \A p \in Caller : admitted[p] <= Limit

(* A player who has used the window up is admitted again, because the key  *)
(* expires (cache.ts, rateLimit), unless it was left without an expiry.    *)
RefusedOnlyForAWhile ==
  \A p \in Caller : window[p].count >= Limit ~> window[p].count = 0 \/ p \in orphaned
================================================================================
