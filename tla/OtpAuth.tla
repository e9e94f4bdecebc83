------------------------------- MODULE OtpAuth -------------------------------
(***************************************************************************)
(* Phone registration and login of services/ecommerce.py: one-time codes,  *)
(* refresh tokens and account activation over the tables user and          *)
(* authtoken, with the two calls by which an administrator changes the     *)
(* same user rows.  Calls overlap at every await; none takes a row lock,   *)
(* so "is_used is false" is checked in one step and written in another.    *)
(*                                                                         *)
(* A code is drawn at random; the row text "kind:phone:code" is unique for *)
(* ever, since rows are neither deleted nor expired.  It names the number, *)
(* the row's user_id the user, whose number may have changed since.        *)
(* Access tokens and the expiry of JWTs are left out.                      *)
(***************************************************************************)
EXTENDS Integers, FiniteSets

CONSTANTS
    Calls,          \* calls that may be in progress together
    Users,          \* ids of user rows: bounds the users ever registered
    Phones,
    Codes,          \* secrets.randbelow(900000) + 100000
    MaxSessions,    \* bound on the refresh tokens ever issued
    Seeded,         \* users that are there and active from the start (init_db)
    AdminsAdmitted, \* whether check_user_role() lets administrators through
    Null

Kinds == {"register", "login"}
Otps == [kind : Kinds, phone : Phones, code : Codes]
Sessions == 1..MaxSessions
RefreshTokens == [session : Sessions]
Rows == [phone : Phones, active : BOOLEAN]
Loads == [user : Users, phone : Phones, active : BOOLEAN]

\* What a client may call: the two requests for a code, their redemption, the
\* exchange of a refresh token, set_user_activation() and update_user(), which
\* writes is_active TRUE unless it is told otherwise (schemas/user.py).
Requests ==
         [op : {"request"}, kind : Kinds, phone : Phones]
    \cup [op : {"redeem"}, otp : Otps]
    \cup [op : {"refresh"}, token : RefreshTokens]
    \cup [op : {"activation"}, user : Users, active : BOOLEAN]
    \cup [op : {"update"}, user : Users, phone : Phones, active : BOOLEAN]

ASSUME OtpAuthAssumption ==
    /\ MaxSessions \in Nat
    /\ Seeded \subseteq Users
    /\ AdminsAdmitted \in BOOLEAN
    /\ Null \notin Calls \cup Users \cup Rows \cup Loads

VARIABLES
    users,      \* rows of user: phone_number and is_active, Null: no such row
    otps,       \* rows of authtoken for one-time codes: user_id, Null: no such row
    sessions,   \* rows for refresh tokens: [n]: [user, source], or Null
    used,       \* one-time codes and refresh tokens with is_used
    vouched,    \* users an administrator's call has ever set active
    shared,     \* tokens two calls were past the check of together
    calls,      \* the request each call serves, Null: idle
    step,       \* [c]: how far it is
    saw         \* [c]: the user as the session loaded or flushed it

tables == <<users, otps, sessions, used, vouched>>
vars == <<users, otps, sessions, used, vouched, shared, calls, step, saw>>

Stored(u) == users[u] # Null
Holders(p) == {u \in Users : Stored(u) /\ users[u].phone = p}
Loaded(u) == [user |-> u, phone |-> users[u].phone, active |-> users[u].active]

Init ==
    /\ users \in [Users -> Rows \cup {Null}]
    /\ \A u \in Users : IF u \in Seeded THEN Stored(u) /\ users[u].active
                                        ELSE ~Stored(u)
    /\ \A p \in Phones : \A u, v \in Holders(p) : u = v
    /\ otps = [otp \in Otps |-> Null]
    /\ sessions = [n \in Sessions |-> Null]
    /\ used = {}
    /\ vouched = {}
    /\ shared = {}
    /\ calls = [c \in Calls |-> Null]
    /\ step = [c \in Calls |-> "start"]
    /\ saw = [c \in Calls |-> Null]

-----------------------------------------------------------------------------
Serves(c, op) == calls[c] # Null /\ calls[c].op = op
At(c, op, s) == Serves(c, op) /\ step[c] = s
Advance(c, s) == step' = [step EXCEPT ![c] = s]

\* What a load leaves behind: the row, and how far the call is.
Sees(c, row, s) == /\ saw' = [saw EXCEPT ![c] = row]
                   /\ Advance(c, s)
                   /\ UNCHANGED <<tables, shared, calls>>

Start(c, request) ==
    /\ calls[c] = Null
    /\ request.op \in {"activation", "update"} => AdminsAdmitted
    /\ calls' = [calls EXCEPT ![c] = request]
    /\ UNCHANGED <<tables, shared, step, saw>>

\* Mutant: the session keeps what it has loaded for the next call.
LeaveOpen(c) ==
    /\ calls' = [calls EXCEPT ![c] = Null]
    /\ step' = [step EXCEPT ![c] = "start"]
    /\ UNCHANGED <<shared, saw>>

\* The call is over, its transaction committed or rolled back.
Leave(c) ==
    /\ calls' = [calls EXCEPT ![c] = Null]
    /\ step' = [step EXCEPT ![c] = "start"]
    /\ saw' = [saw EXCEPT ![c] = Null]
    /\ UNCHANGED shared

Refuse(c) == Leave(c) /\ UNCHANGED tables

\* A column keeps its value at COMMIT when the value assigned is the one loaded.
Flushed(column, loaded, assigned) == IF assigned = loaded THEN column ELSE assigned

-----------------------------------------------------------------------------
\* request_register_otp() and request_login_otp(): the user is selected.
LookUp(p) == IF Holders(p) = {} THEN Null
                                ELSE Loaded(CHOOSE u \in Holders(p) : TRUE)

\* Mutant: an inactive user may request a login code.
MayRequestInactive(kind, row) == IF kind = "register" THEN row # Null => ~row.active
                                                      ELSE row # Null

MayRequest(kind, row) == IF kind = "register" THEN row # Null => ~row.active
                                              ELSE row # Null /\ row.active

ReadAccount(c) ==
    /\ At(c, "request", "start")
    /\ MayRequest(calls[c].kind, LookUp(calls[c].phone))
    /\ Sees(c, LookUp(calls[c].phone), "checked")

\* A number whose user row is flushed and not committed.
Inserting(p) == \E d \in Calls : At(d, "request", "flushed") /\ calls[d].phone = p

\* The insert of a new user waits for an uncommitted one of the same phone.
InsertsUser(c) == /\ At(c, "request", "checked") /\ saw[c] = Null
                  /\ ~Inserting(calls[c].phone)

Unassigned(u) == /\ ~Stored(u)
                 /\ \A d \in Calls : At(d, "request", "flushed") => saw[d].user # u

NewUser(u, p) == [user |-> u, phone |-> p, active |-> FALSE]

\* Mutant: the new user is committed before the code is stored.
FlushUserForGood(c) ==
    /\ InsertsUser(c) /\ Holders(calls[c].phone) = {}
    /\ \E u \in Users :
          /\ Unassigned(u)
          /\ users' = [users EXCEPT ![u] = [phone |-> calls[c].phone, active |-> FALSE]]
          /\ saw' = [saw EXCEPT ![c] = NewUser(u, calls[c].phone)]
    /\ UNCHANGED <<otps, sessions, used, vouched, shared, calls, step>>

\* A new inactive user is flushed.
FlushUser(c) ==
    /\ InsertsUser(c) /\ Holders(calls[c].phone) = {}
    /\ \E u \in Users : Unassigned(u) /\ Sees(c, NewUser(u, calls[c].phone), "flushed")

DrawsCode(c) == \/ At(c, "request", "flushed")
                \/ At(c, "request", "checked") /\ saw[c] # Null

OtpOf(r, code) == [kind |-> r.kind, phone |-> r.phone, code |-> code]

\* The code is stored, together with the new user if one was flushed.
CommitOtp(c, code) ==
    LET otp == OtpOf(calls[c], code) IN
    /\ DrawsCode(c)
    /\ otps[otp] = Null
    /\ otps' = [otps EXCEPT ![otp] = saw[c].user]
    /\ users' = IF step[c] = "flushed"
                THEN [users EXCEPT ![saw[c].user] = [phone |-> saw[c].phone, active |-> FALSE]]
                ELSE users
    /\ UNCHANGED <<sessions, used, vouched>>
    /\ Leave(c)

\* The same text was stored before, redeemed or not: IntegrityError.
CodeCollides(c, code) ==
    /\ DrawsCode(c)
    /\ otps[OtpOf(calls[c], code)] # Null
    /\ Refuse(c)

-----------------------------------------------------------------------------
\* Mutant: is_used is not checked.
RedeemableUsed(otp) == otps[otp] # Null

Redeemable(otp) == otps[otp] # Null /\ otp \notin used

\* The calls that have found the token unused and may still spend it.
UsesToken(c, token) == \/ Serves(c, "redeem") /\ calls[c].otp = token
                       \/ Serves(c, "refresh") /\ calls[c].token = token
PastCheck(token) == {c \in Calls : step[c] # "start" /\ UsesToken(c, token)}

Passes(c, token) ==
    /\ Advance(c, "checked")
    /\ shared' = IF PastCheck(token) # {} THEN shared \cup {token} ELSE shared
    /\ UNCHANGED <<tables, calls, saw>>

\* register_user() and login_with_otp(): the row, with is_used false.
ReadOtp(c) ==
    /\ At(c, "redeem", "start")
    /\ Redeemable(calls[c].otp)
    /\ Passes(c, calls[c].otp)

\* Mutant: the number is not compared.
MatchesUserOnly(otp) == Stored(otps[otp])

\* The user of the code's row.  Only register_user() compares the number the
\* code was sent to with the user's; neither function looks at is_active.
Matches(otp) == /\ Stored(otps[otp])
                /\ otp.kind = "register" => users[otps[otp]].phone = otp.phone

LoadAccount(c) ==
    /\ At(c, "redeem", "checked")
    /\ Matches(calls[c].otp)
    /\ Sees(c, Loaded(otps[calls[c].otp]), "loaded")

\* Mutant: is_used is not set.
SpendNothing(token) == used' = used

\* is_used = True
Spend(token) == used' = used \cup {token}

NextSession(n) == sessions[n] = Null /\ \A m \in 1..(n - 1) : sessions[m] # Null

CommitRegister(c) ==
    /\ At(c, "redeem", "loaded") /\ calls[c].otp.kind = "register"
    /\ Spend(calls[c].otp)
    /\ users' = [users EXCEPT ![saw[c].user].active = Flushed(@, saw[c].active, TRUE)]
    /\ UNCHANGED <<otps, sessions, vouched>>
    /\ Leave(c)

CommitLogin(c) ==
    /\ At(c, "redeem", "loaded") /\ calls[c].otp.kind = "login"
    /\ \E n \in Sessions :
          /\ NextSession(n)
          /\ sessions' = [sessions EXCEPT ![n] = [user |-> saw[c].user,
                                                  source |-> calls[c].otp]]
    /\ Spend(calls[c].otp)
    /\ UNCHANGED <<users, otps, vouched>>
    /\ Leave(c)

\* Mutant: is_used is not checked.
ExchangeableUsed(token) == sessions[token.session] # Null

Exchangeable(token) == sessions[token.session] # Null /\ token \notin used

\* refresh_access_token(): the row, with is_used false; else "revoked".
ReadRefresh(c) ==
    /\ At(c, "refresh", "start")
    /\ Exchangeable(calls[c].token)
    /\ Passes(c, calls[c].token)

CommitRefresh(c) ==
    LET token == calls[c].token IN
    /\ At(c, "refresh", "checked")
    /\ \E m \in Sessions :
          /\ NextSession(m)
          /\ sessions' = [sessions EXCEPT ![m] = [user |-> sessions[token.session].user,
                                                  source |-> token]]
    /\ Spend(token)
    /\ UNCHANGED <<users, otps, vouched>>
    /\ Leave(c)

-----------------------------------------------------------------------------
\* set_user_activation() and update_user(): the row is loaded, assigned to, and
\* the columns that differ from what was loaded are written.
Administers(c) == Serves(c, "activation") \/ Serves(c, "update")

LoadUser(c) ==
    /\ Administers(c) /\ step[c] = "start"
    /\ Stored(calls[c].user)
    /\ Sees(c, Loaded(calls[c].user), "loaded")

Assign(c, phone, active) ==
    /\ users' = [users EXCEPT ![saw[c].user] =
                    [phone |-> Flushed(@.phone, saw[c].phone, phone),
                     active |-> Flushed(@.active, saw[c].active, active)]]
    /\ vouched' = IF active /\ ~saw[c].active THEN vouched \cup {saw[c].user} ELSE vouched
    /\ UNCHANGED <<otps, sessions, used>>
    /\ Leave(c)

CommitActivation(c) == /\ At(c, "activation", "loaded")
                       /\ Assign(c, saw[c].phone, calls[c].active)

\* The phone number is unique.
Taken(c) == /\ calls[c].phone # saw[c].phone
            /\ Holders(calls[c].phone) \ {saw[c].user} # {}

CommitUpdate(c) ==
    /\ At(c, "update", "loaded")
    /\ ~Taken(c)
    /\ calls[c].phone # saw[c].phone => ~Inserting(calls[c].phone)
    /\ Assign(c, calls[c].phone, calls[c].active)

-----------------------------------------------------------------------------
\* The exceptions the functions raise, and the unique phone number.
Fails(c) ==
    /\ \/ /\ At(c, "request", "start")
          /\ ~MayRequest(calls[c].kind, LookUp(calls[c].phone))
       \/ InsertsUser(c) /\ Holders(calls[c].phone) # {}
       \/ At(c, "redeem", "start") /\ ~Redeemable(calls[c].otp)
       \/ At(c, "redeem", "checked") /\ ~Matches(calls[c].otp)
       \/ At(c, "refresh", "start") /\ ~Exchangeable(calls[c].token)
       \/ Administers(c) /\ step[c] = "start" /\ ~Stored(calls[c].user)
       \/ At(c, "update", "loaded") /\ Taken(c)
    /\ Refuse(c)

\* Any failure at an await, an email that is taken included: rolled back.
Abandon(c) == calls[c] # Null /\ Refuse(c)

Next == \E c \in Calls :
            \/ \E request \in Requests : Start(c, request)
            \/ ReadAccount(c) \/ FlushUser(c)
            \/ \E code \in Codes : CommitOtp(c, code) \/ CodeCollides(c, code)
            \/ ReadOtp(c) \/ LoadAccount(c)
            \/ CommitRegister(c) \/ CommitLogin(c)
            \/ ReadRefresh(c) \/ CommitRefresh(c)
            \/ LoadUser(c) \/ CommitActivation(c) \/ CommitUpdate(c)
            \/ Fails(c) \/ Abandon(c)

Spec == Init /\ [][Next]_vars

-----------------------------------------------------------------------------
\* Each variable has its type, every spent code is stored, and a call that is
\* over has left nothing behind.
TypeOK ==
    /\ users \in [Users -> Rows \cup {Null}]
    /\ otps \in [Otps -> Users \cup {Null}]
    /\ sessions \in [Sessions -> [user : Users, source : Otps \cup RefreshTokens]
                                 \cup {Null}]
    /\ used \subseteq {otp \in Otps : otps[otp] # Null} \cup RefreshTokens
    /\ vouched \subseteq Users
    /\ shared \subseteq Otps \cup RefreshTokens
    /\ calls \in [Calls -> Requests \cup {Null}]
    /\ step \in [Calls -> {"start", "checked", "flushed", "loaded"}]
    /\ saw \in [Calls -> Loads \cup {Null}]
    /\ \A c \in Calls : calls[c] = Null => step[c] = "start" /\ saw[c] = Null

\* The user redeemed a registration code, or somebody vouched.
Proven(u) == \/ u \in Seeded \cup vouched
             \/ \E otp \in used \cap Otps : otp.kind = "register" /\ otps[otp] = u

\* Nobody is active, and no login code and no session exists, for a user who
\* never redeemed a registration code of his own (unless seeded, or set active
\* by an administrator's set_user_activation() or update_user()).
AccountsAreProven ==
    /\ \A u \in Users : Stored(u) /\ users[u].active => Proven(u)
    /\ \A otp \in Otps : otps[otp] # Null /\ otp.kind = "login" => Proven(otps[otp])
    /\ \A n \in Sessions : sessions[n] # Null => Proven(sessions[n].user)

\* No number is taken by a user who cannot finish the registration: whoever has
\* a row was seeded or has a registration code stored.  A code that collides
\* rolls its new user back, and of two overlapping registrations of one number
\* the one that comes second finds the user of the first with his code.
UsersHaveCodes ==
    \A u \in Users \ Seeded : Stored(u) =>
        \E otp \in Otps : otp.kind = "register" /\ otps[otp] = u

\* A registration code sent to a number its user has given up does not register
\* the user, unless the number changed after register_user() had compared it
\* (services/ecommerce.py line 78): redeemed, the code names the user's number.
OldNumberCannotRegister ==
    [][\A c \in Calls :
          At(c, "redeem", "loaded") /\ calls[c].otp \in used' \ used
                                    /\ calls[c].otp.kind = "register" =>
              \/ users[otps[calls[c].otp]].phone = calls[c].otp.phone
              \/ users[otps[calls[c].otp]].phone # saw[c].phone]_vars

\* Every session stems from a redeemed login code of its user, or from an
\* exchanged session of the same user that came before it.
SessionsHaveSource ==
    \A n \in Sessions : sessions[n] # Null =>
        LET source == sessions[n].source IN
        /\ source \in used
        /\ IF source \in RefreshTokens
           THEN /\ source.session < n
                /\ sessions[source.session].user = sessions[n].user
           ELSE source.kind = "login" /\ otps[source] = sessions[n].user

\* A login code or refresh token yields one session (services/ecommerce.py line
\* 160 calls a second use "revoked") as long as no two calls were past the check
\* of it together.
SingleUseUnlessShared ==
    \A m, n \in Sessions :
        /\ m # n /\ sessions[m] # Null /\ sessions[n] # Null
        /\ sessions[m].source = sessions[n].source
        => sessions[m].source \in shared

\* The sessions drawn from a token.
Yield(token) == {n \in Sessions : sessions[n] # Null /\ sessions[n].source = token}

\* However the uses of one login code or refresh token overlap, the sessions it
\* has yielded and the calls that may still draw one are together no more than
\* the calls that can be in progress together (services/ecommerce.py lines 127
\* and 159): the double redemption is bounded by the overlap, never repeated.
UsesWithinCalls ==
    \A token \in Otps \cup RefreshTokens :
        Cardinality(Yield(token)) + Cardinality(PastCheck(token)) <= Cardinality(Calls)
=============================================================================
