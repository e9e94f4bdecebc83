--------------------------- MODULE TokenLifetime ---------------------------
(***************************************************************************)
(* JSON web tokens against the clock: JWTHandler of core/security.py,      *)
(* logout() of services/auth.py and get_user_id_from_access_token() of     *)
(* api/deps.py.                                                            *)
(*                                                                         *)
(* A token carries the instant it expires, which PyJWT rounds down to a    *)
(* whole second when it checks it.  Logging out stores the token's text in *)
(* Redis for as long as the token would have lived, and redis-py rounds    *)
(* that down to whole seconds too, zero included, which Redis refuses.     *)
(* Decoding and looking the text up are separate: an await lies between.   *)
(*                                                                         *)
(* Time passes in ticks, TicksPerSecond to the second; the workers and     *)
(* Redis read one clock.                                                   *)
(***************************************************************************)
EXTENDS Integers

CONSTANTS
    Logins,         \* logins, each with an access and a refresh token
    Requests,       \* requests that may be in progress together
    Logouts,        \* logout() calls that may be in progress together
    TicksPerSecond,
    AccessLifetime, \* ACCESS_TOKEN_EXPIRE_MINUTES, in ticks
    MaxTime,        \* bound on the clock
    None            \* not yet, idle

ASSUME TokenLifetimeAssumption ==
    /\ TicksPerSecond \in Nat \ {0}
    /\ AccessLifetime \in Nat
    /\ MaxTime \in Nat
    /\ None \notin Int

VARIABLES
    clock,
    issued,     \* [s]: when the login issued its tokens
    blacklist,  \* Redis: [s]: until when the access token's text is stored
    requests,   \* [r]: token decoded and not yet looked up
    logouts,    \* [l]: the call's token and the seconds it computed
    loggedOut,  \* logins whose logout() has returned
    admitted    \* the last request that was let in, and when it was looked up

vars == <<clock, issued, blacklist, requests, logouts, loggedOut, admitted>>

Time == 0..MaxTime
TokenKinds == {"access", "refresh"}

Init ==
    /\ clock = 0
    /\ issued = [s \in Logins |-> None]
    /\ blacklist = [s \in Logins |-> None]
    /\ requests = [r \in Requests |-> None]
    /\ logouts = [l \in Logouts |-> None]
    /\ loggedOut = {}
    /\ admitted = None

-----------------------------------------------------------------------------
Seconds(ticks) == ticks \div TicksPerSecond

\* encode() puts access_token_expire into every token, refresh tokens too, so
\* both tokens of a login expire together; decode() rounds the instant down.
Expiry(s) == Seconds(issued[s] + AccessLifetime) * TicksPerSecond

Live(s) == issued[s] # None /\ clock < Expiry(s)

Tick ==
    /\ clock < MaxTime
    /\ clock' = clock + 1
    /\ UNCHANGED <<issued, blacklist, requests, logouts, loggedOut, admitted>>

\* login(), login_with_otp()
Login(s) ==
    /\ issued[s] = None
    /\ issued' = [issued EXCEPT ![s] = clock]
    /\ UNCHANGED <<clock, blacklist, requests, logouts, loggedOut, admitted>>

-----------------------------------------------------------------------------
\* get_user_id_from_access_token(): decode() accepts the token.
Decode(r, s, kind) ==
    /\ requests[r] = None
    /\ Live(s)
    /\ requests' = [requests EXCEPT ![r] =
                       [login |-> s, kind |-> kind, late |-> s \in loggedOut]]
    /\ UNCHANGED <<clock, issued, blacklist, logouts, loggedOut, admitted>>

\* decode() or verify_token() finds the token expired: 401.
DecodeExpired(s) == issued[s] # None /\ ~Live(s) /\ UNCHANGED vars

\* Redis drops a key once its time is over.
Blacklisted(s) == blacklist[s] # None /\ clock <= blacklist[s]

\* Mutant: the blacklist is not looked up.
MayPassAnyway(q) == q.kind = "access"

MayPass(q) == q.kind = "access" /\ ~Blacklisted(q.login)

EndRequest(r) ==
    /\ requests' = [requests EXCEPT ![r] = None]
    /\ UNCHANGED <<clock, issued, blacklist, logouts, loggedOut>>

\* The text is looked up and not found, and the token is an access token.
Admit(r) ==
    /\ requests[r] # None
    /\ MayPass(requests[r])
    /\ admitted' = [login |-> requests[r].login, kind |-> requests[r].kind,
                    late |-> requests[r].late, at |-> clock]
    /\ EndRequest(r)

\* expired_token, invalid_token, or Redis does not answer.
Refuse(r) == requests[r] # None /\ UNCHANGED admitted /\ EndRequest(r)

-----------------------------------------------------------------------------
\* Mutant: off by one.
SecondsLeftLess(s) == Seconds(Expiry(s) - clock) - 1

\* token_expiration(), as redis-py sends it: int(timedelta.total_seconds())
SecondsLeft(s) == Seconds(Expiry(s) - clock)

\* logout(): verify_token() and token_expiration(), then SET is awaited.
ComputeExpiry(l, s) ==
    /\ logouts[l] = None
    /\ Live(s)
    /\ logouts' = [logouts EXCEPT ![l] = [login |-> s, seconds |-> SecondsLeft(s)]]
    /\ UNCHANGED <<clock, issued, blacklist, requests, loggedOut, admitted>>

EndLogout(l) ==
    /\ logouts' = [logouts EXCEPT ![l] = None]
    /\ UNCHANGED <<clock, issued, requests, admitted>>

\* SET ... EX, which Redis accepts for a positive number only.
StoreToken(l) ==
    LET s == logouts[l].login IN
    /\ logouts[l] # None
    /\ logouts[l].seconds > 0
    /\ blacklist' = [blacklist EXCEPT ![s] = clock + logouts[l].seconds * TicksPerSecond]
    /\ loggedOut' = loggedOut \cup {s}
    /\ EndLogout(l)

\* Zero seconds, or Redis does not answer: the client is told 500.
FailLogout(l) ==
    /\ logouts[l] # None
    /\ UNCHANGED <<blacklist, loggedOut>>
    /\ EndLogout(l)

Next ==
    \/ Tick
    \/ \E s \in Logins : Login(s) \/ DecodeExpired(s)
    \/ \E r \in Requests : \/ \E s \in Logins, kind \in TokenKinds : Decode(r, s, kind)
                           \/ Admit(r)
                           \/ Refuse(r)
    \/ \E l \in Logouts : \/ \E s \in Logins : ComputeExpiry(l, s)
                          \/ StoreToken(l)
                          \/ FailLogout(l)

Spec == Init /\ [][Next]_vars

-----------------------------------------------------------------------------
\* Each variable has its type.
TypeOK ==
    /\ clock \in Time
    /\ issued \in [Logins -> Time \cup {None}]
    /\ blacklist \in [Logins -> Nat \cup {None}]
    /\ requests \in [Requests ->
           [login : Logins, kind : TokenKinds, late : BOOLEAN] \cup {None}]
    /\ logouts \in [Logouts -> [login : Logins, seconds : Nat] \cup {None}]
    /\ loggedOut \subseteq Logins
    /\ admitted \in {None} \cup
           [login : Logins, kind : TokenKinds, late : BOOLEAN, at : Time]

\* A blacklist entry outlives its token up to the last second, whatever the
\* two roundings and however late Redis executes the SET.
BlacklistCoversToken ==
    \A s \in Logins : blacklist[s] # None =>
        issued[s] # None /\ blacklist[s] + TicksPerSecond > Expiry(s)

\* A request that begins after its user has logged out gets in, if at all,
\* when the token has less than a second to live: tests/api/api_v1/test_auth.py:66
\* "Verify token is no longer valid" holds up to the two roundings.
LateOnlyInLastSecond ==
    (admitted # None /\ admitted.late) =>
        admitted.at + TicksPerSecond > Expiry(admitted.login)
=============================================================================
