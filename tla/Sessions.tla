------------------------------ MODULE Sessions ------------------------------
(***************************************************************************)
(* The requests of one user as the API authenticates them: bearer tokens,   *)
(* their blacklist, the cached copy of the user that safe requests are      *)
(* served from.  Both are in Redis; what fails there is let through.        *)
(***************************************************************************)
EXTENDS Integers

CONSTANTS
    Tokens,      \* tokens that may be issued, numbered in that order
    Requests,    \* requests under way at once
    MaxUpdates   \* bound: changes of the users row

SessionAssumption == Tokens \subseteq Nat /\ Tokens # {} /\ MaxUpdates \in Nat

VARIABLES
    redisUp,     \* BOOLEAN
    life,        \* the life of every token; the last second is a state of its own
    blacklist,   \* tokens with a key "bl:<jti>"
    userRow,     \* the users row: how often its profile changed, and its account
    cache,       \* the row that "cache:current_user" shows, or NoEntry
    request,     \* where each request is and what it holds
    overtaken    \* ghost: the cache holds what a slow reader or a failed delete left

vars == <<redisUp, life, blacklist, userRow, cache, request, overtaken>>

(* The profile: what the user edits.  The account: the balance of credits,   *)
(* the membership and what a login brings, the telephone number.             *)
UserType == [profile : 0..MaxUpdates, account : 0..MaxUpdates]
NoEntry == [profile |-> -1, account |-> -1]

Kinds == {"me", "profile", "logout", "refresh"}

\* late: the token was on the blacklist before the request came, and Redis answered the
\* check.
RequestState == [pc : {"idle", "checked", "reading", "caching", "known", "changed"},
                 kind : Kinds, token : Tokens, user : UserType,
                 late : BOOLEAN]

\* The type invariant.
TypeOK ==
    /\ redisUp \in BOOLEAN
    /\ life \in [Tokens -> {"none", "live", "last second", "expired"}]
    /\ blacklist \in SUBSET Tokens
    /\ userRow \in UserType
    /\ cache \in UserType \cup {NoEntry}
    /\ request \in [Requests -> RequestState]
    /\ overtaken \in BOOLEAN

First == CHOOSE t \in Tokens : \A u \in Tokens : t <= u
Unchanged == [profile |-> 0, account |-> 0]
Idle == [pc |-> "idle", kind |-> "me", token |-> First, user |-> Unchanged, late |-> FALSE]

\* The user has logged in once.
Init ==
    /\ redisUp = TRUE
    /\ life = [t \in Tokens |-> IF t = First THEN "live" ELSE "none"]
    /\ blacklist = {}
    /\ userRow = Unchanged
    /\ cache = NoEntry
    /\ request = [r \in Requests |-> Idle]
    /\ overtaken = FALSE

TokenState == <<life, blacklist>>
CacheState == <<userRow, cache, overtaken>>

Move(r, s) == request' = [request EXCEPT ![r] = s]
At(r, pc) == request[r].pc = pc
End(r) == Move(r, Idle)

-----------------------------------------------------------------------------
(* get_current_user                                                         *)

\* The JWT is decoded: an expired one is refused.
Arrive(r, kind, t) ==
    /\ At(r, "idle")
    /\ life[t] \in {"live", "last second"}
    /\ Move(r, [Idle EXCEPT !.pc = "checked", !.kind = kind, !.token = t,
                            !.late = t \in blacklist])
    /\ UNCHANGED <<redisUp, TokenState, CacheState>>

\* is_blacklisted, FALSE when Redis fails.
Passes(r) == redisUp => request[r].token \notin blacklist

\* A request that is not safe reads the row and never the cache.
CheckToken(r) ==
    /\ At(r, "checked")
    /\ IF Passes(r)
       THEN Move(r, [request[r] EXCEPT !.pc = IF request[r].kind = "me" THEN "reading" ELSE "known",
                                       !.late = @ /\ redisUp])
       ELSE End(r)
    /\ UNCHANGED <<redisUp, TokenState, CacheState>>

\* A safe request is served the cached user, which is not looked up again.
CacheHit(r) ==
    /\ At(r, "reading")
    /\ redisUp /\ cache # NoEntry
    /\ Move(r, [request[r] EXCEPT !.pc = "known", !.user = cache])
    /\ UNCHANGED <<redisUp, TokenState, CacheState>>

\* Or the row is read and then cached.
ReadUser(r) ==
    /\ At(r, "reading")
    /\ ~redisUp \/ cache = NoEntry
    /\ Move(r, [request[r] EXCEPT !.pc = "caching", !.user = userRow])
    /\ UNCHANGED <<redisUp, TokenState, CacheState>>

SetCache(r) ==
    /\ At(r, "caching")
    /\ Move(r, [request[r] EXCEPT !.pc = "known"])
    /\ cache' = IF redisUp THEN request[r].user ELSE cache
    /\ overtaken' = IF redisUp THEN request[r].user.profile # userRow.profile ELSE overtaken
    /\ UNCHANGED <<redisUp, TokenState, userRow>>

-----------------------------------------------------------------------------
(* The handlers                                                             *)

\* GET /auth/me.
ReturnMe(r) ==
    /\ At(r, "known") /\ request[r].kind = "me"
    /\ End(r)
    /\ UNCHANGED <<redisUp, TokenState, CacheState>>

Changed(part) == /\ userRow.profile + userRow.account < MaxUpdates
                 /\ userRow' = [userRow EXCEPT ![part] = @ + 1]

\* Seeded bug: the cached user is dropped before the change is committed.
DropThenChange(r) ==
    /\ \/ /\ At(r, "known") /\ request[r].kind = "profile" /\ redisUp
          /\ Move(r, [request[r] EXCEPT !.pc = "changed"])
          /\ cache' = NoEntry /\ overtaken' = FALSE
          /\ UNCHANGED userRow
       \/ /\ At(r, "changed")
          /\ Changed("profile")
          /\ End(r)
          /\ UNCHANGED <<cache, overtaken>>
    /\ UNCHANGED <<redisUp, TokenState>>

\* PATCH /auth/profile and POST /auth/avatar: the change is committed, then the cached
\* user is dropped.  A delete that fails leaves it.
UpdateProfile(r) ==
    /\ \/ /\ At(r, "known") /\ request[r].kind = "profile"
          /\ Move(r, [request[r] EXCEPT !.pc = "changed"])
          /\ Changed("profile")
          /\ UNCHANGED <<cache, overtaken>>
       \/ /\ At(r, "changed")
          /\ End(r)
          /\ cache' = IF redisUp THEN NoEntry ELSE cache
          /\ overtaken' = IF redisUp THEN FALSE ELSE overtaken \/ cache # NoEntry
          /\ UNCHANGED userRow
    /\ UNCHANGED <<redisUp, TokenState>>

\* A login with a new telephone number, an award, a run that is charged or refunded, a
\* payment: each commits its change of the row, and none drops the cached user.
ChangeAccount == /\ Changed("account")
                 /\ UNCHANGED <<redisUp, TokenState, cache, overtaken, request>>

\* POST /auth/logout: for the whole seconds that are left.
Logout(r) ==
    /\ At(r, "known") /\ request[r].kind = "logout"
    /\ blacklist' = IF redisUp /\ life[request[r].token] = "live"
                    THEN blacklist \cup {request[r].token} ELSE blacklist
    /\ End(r)
    /\ UNCHANGED <<redisUp, life, CacheState>>

\* POST /auth/refresh: the old token stays good.
Refresh(r) ==
    /\ At(r, "known") /\ request[r].kind = "refresh"
    /\ \E t \in Tokens : /\ life[t] = "none"
                         /\ \A u \in Tokens : u < t => life[u] # "none"
                         /\ life' = [life EXCEPT ![t] = "live"]
    /\ End(r)
    /\ UNCHANGED <<redisUp, blacklist, CacheState>>

-----------------------------------------------------------------------------
(* Time and Redis                                                           *)

\* A token grows old; its blacklist key, which lives for whole seconds, goes in the last
\* second of the token.
Age(t) ==
    /\ \/ /\ life[t] = "live"
          /\ life' = [life EXCEPT ![t] = "last second"]
          /\ UNCHANGED blacklist
       \/ /\ life[t] = "last second" /\ t \in blacklist
          /\ blacklist' = blacklist \ {t}
          /\ UNCHANGED life
       \/ /\ life[t] = "last second" /\ t \notin blacklist
          /\ life' = [life EXCEPT ![t] = "expired"]
          /\ UNCHANGED blacklist
    /\ UNCHANGED <<redisUp, CacheState, request>>

CacheExpires == /\ cache # NoEntry
                /\ cache' = NoEntry /\ overtaken' = FALSE
                /\ UNCHANGED <<redisUp, TokenState, userRow, request>>

RedisFails == /\ redisUp' = ~redisUp
              /\ UNCHANGED <<TokenState, CacheState, request>>

Next ==
    \/ \E r \in Requests :
          \/ \E kind \in Kinds, t \in Tokens : Arrive(r, kind, t)
          \/ CheckToken(r) \/ CacheHit(r) \/ ReadUser(r) \/ SetCache(r)
          \/ ReturnMe(r) \/ UpdateProfile(r) \/ Logout(r) \/ Refresh(r)
    \/ \E t \in Tokens : Age(t)
    \/ ChangeAccount
    \/ CacheExpires
    \/ RedisFails

Spec == Init /\ [][Next]_vars

-----------------------------------------------------------------------------
(* Properties                                                               *)

\* A request that came when its token was on the blacklist goes no further than the check,
\* unless Redis failed at it or the token was in its last second.
RevokedStaysOut ==
    \A r \in Requests :
        request[r].late /\ request[r].pc \notin {"idle", "checked"} => life[request[r].token] # "live"

Changing == \E r \in Requests : request[r].pc = "changed"

\* The profile of the cached user is the one of the users row while no change of it is on
\* its way, unless a reader was overtaken by a change or the delete failed.
CachedProfileIsCurrent ==
    cache # NoEntry /\ ~Changing /\ ~overtaken => cache.profile = userRow.profile

\* security.py, invalidate_current_user_cache: "Drop a cached auth user after profile or
\* balance changes."  So with nothing under way the cached balance is that of the row.
CachedBalanceIsCurrent ==
    cache # NoEntry /\ ~overtaken /\ (\A r \in Requests : At(r, "idle"))
        => cache.account = userRow.account

=============================================================================
