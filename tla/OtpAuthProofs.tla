---------------------------- MODULE OtpAuthProofs ----------------------------
(***************************************************************************)
(* Theorems about OtpAuth, for any calls, users, phones, codes and number  *)
(* of sessions.                                                            *)
(*                                                                         *)
(* No call holds a lock, so what it has checked may have changed when it   *)
(* commits.  What saves most promises is that the tables only grow         *)
(* (TablesGrow): a code, a user, a session, once there, stays, and so does *)
(* the proof that an account is its user's.                                *)
(***************************************************************************)
EXTENDS OtpAuth, FiniteSetTheorems, TLAPS

SessionRows == [user : Users, source : Otps \cup RefreshTokens]

\* What a request carries.
LEMMA Shape ==
    ASSUME NEW r \in Requests
    PROVE  /\ r.op = "request" => r.kind \in Kinds /\ r.phone \in Phones
           /\ r.op = "redeem" => /\ r.otp \in Otps /\ r.otp.kind \in Kinds
                                 /\ r.otp.phone \in Phones
           /\ r.op = "refresh" => r.token \in RefreshTokens /\ r.token.session \in Sessions
           /\ r.op = "activation" => r.user \in Users /\ r.active \in BOOLEAN
           /\ r.op = "update" => /\ r.user \in Users /\ r.phone \in Phones
                                 /\ r.active \in BOOLEAN
  BY DEF Requests, Otps, RefreshTokens

LEMMA OtpsAreNoRefreshTokens ==
    ASSUME NEW otp \in Otps, NEW token \in RefreshTokens
    PROVE  otp # token
  <1>1. DOMAIN otp = {"kind", "phone", "code"}
    BY DEF Otps
  <1>2. DOMAIN token = {"session"}
    BY DEF RefreshTokens
  <1> QED BY <1>1, <1>2

\* The request a call serves, by kind of request.
LEMMA Served ==
    ASSUME TypeOK, NEW c \in Calls
    PROVE  /\ Serves(c, "request") => calls[c].kind \in Kinds /\ calls[c].phone \in Phones
           /\ Serves(c, "redeem") => /\ calls[c].otp \in Otps
                                     /\ calls[c].otp.kind \in Kinds
                                     /\ calls[c].otp.phone \in Phones
           /\ Serves(c, "refresh") => /\ calls[c].token \in RefreshTokens
                                      /\ calls[c].token.session \in Sessions
           /\ Serves(c, "activation") => /\ calls[c].user \in Users
                                         /\ calls[c].active \in BOOLEAN
           /\ Serves(c, "update") => /\ calls[c].user \in Users /\ calls[c].phone \in Phones
                                     /\ calls[c].active \in BOOLEAN
  <1>1. calls[c] # Null => calls[c] \in Requests
    BY DEF TypeOK
  <1> QED BY <1>1, Shape DEF Serves

\* What a call has seen, and what a load of a row brings.
LEMMA Seen ==
    ASSUME TypeOK, NEW c \in Calls, saw[c] # Null
    PROVE  saw[c].user \in Users /\ saw[c].phone \in Phones /\ saw[c].active \in BOOLEAN
  BY DEF TypeOK, Loads

LEMMA RowLoaded ==
    ASSUME TypeOK, NEW u \in Users, Stored(u)
    PROVE  /\ Loaded(u) \in Loads /\ Loaded(u) # Null
           /\ Loaded(u).user = u /\ Loaded(u).phone = users[u].phone
           /\ Loaded(u).active = users[u].active
  <1>1. users[u] \in Rows
    BY DEF TypeOK, Stored
  <1>2. Loaded(u) \in Loads
    BY <1>1 DEF Rows, Loads, Loaded
  <1> QED BY <1>2, OtpAuthAssumption DEF Loaded

LEMMA RowLookedUp ==
    ASSUME TypeOK, NEW p, LookUp(p) # Null
    PROVE  /\ LookUp(p) \in Loads
           /\ LookUp(p).user \in Users /\ Stored(LookUp(p).user)
           /\ LookUp(p).active = users[LookUp(p).user].active
  <1>1. PICK u : u \in Holders(p) /\ LookUp(p) = Loaded(u)
    BY DEF LookUp
  <1>2. u \in Users /\ Stored(u)
    BY <1>1 DEF Holders
  <1> QED BY <1>1, <1>2, RowLoaded

LEMMA LookUpType == ASSUME TypeOK, NEW p PROVE LookUp(p) \in Loads \cup {Null}
  BY RowLookedUp

-----------------------------------------------------------------------------
\* How far a call is, and what it still knows to be so.
InOrder(c) ==
    /\ Serves(c, "request") =>
          /\ step[c] # "loaded"
          /\ step[c] = "checked" /\ saw[c] # Null => Stored(saw[c].user)
          /\ step[c] = "flushed" => saw[c] # Null /\ calls[c].kind = "register"
          /\ step[c] # "start" /\ calls[c].kind = "login" =>
                saw[c] # Null /\ Proven(saw[c].user)
    /\ Serves(c, "redeem") =>
          /\ step[c] # "start" => otps[calls[c].otp] # Null
          /\ step[c] = "loaded" =>
                /\ saw[c] # Null /\ saw[c].user = otps[calls[c].otp]
                /\ Stored(saw[c].user)
                /\ calls[c].otp.kind = "register" => saw[c].phone = calls[c].otp.phone
    /\ Serves(c, "refresh") /\ step[c] # "start" =>
          sessions[calls[c].token.session] # Null
    /\ Administers(c) /\ step[c] = "loaded" => saw[c] # Null /\ Stored(saw[c].user)

\* Refresh tokens are issued one after the other.
NoGaps == \A n \in Sessions : sessions[n] # Null => \A m \in 1..(n - 1) : sessions[m] # Null

OtpInv == /\ TypeOK
          /\ \A c \in Calls : InOrder(c)
          /\ NoGaps
          /\ AccountsAreProven
          /\ UsersHaveCodes
          /\ SessionsHaveSource

LEMMA OtpInvInit == Init => OtpInv
  <1> SUFFICES ASSUME Init PROVE OtpInv
    OBVIOUS
  <1> USE OtpAuthAssumption DEF Init
  <1>1. TypeOK
    BY DEF TypeOK
  <1>2. \A c \in Calls : InOrder(c)
    BY DEF InOrder, Serves, Administers
  <1>3. NoGaps
    BY DEF NoGaps
  <1>4. AccountsAreProven /\ UsersHaveCodes /\ SessionsHaveSource
    BY DEF AccountsAreProven, UsersHaveCodes, SessionsHaveSource, Proven
  <1> QED BY <1>1, <1>2, <1>3, <1>4 DEF OtpInv

-----------------------------------------------------------------------------
\* The first free number, and what storing there does.
LEMMA StoreSession ==
    ASSUME TypeOK, NoGaps, NEW n \in Sessions, NextSession(n),
           NEW row \in SessionRows,
           sessions' = [sessions EXCEPT ![n] = row]
    PROVE  /\ sessions' \in [Sessions -> SessionRows \cup {Null}]
           /\ \A m \in Sessions : sessions[m] # Null => m < n /\ sessions'[m] = sessions[m]
           /\ NoGaps'
  <1>1. Sessions \subseteq Nat
    BY OtpAuthAssumption DEF Sessions
  <1>2. ASSUME NEW m \in Sessions, sessions[m] # Null PROVE m < n
    <2>1. m = n => FALSE
      BY <1>2 DEF NextSession
    <2>2. n < m => n \in 1..(m - 1)
      BY <1>1, OtpAuthAssumption DEF Sessions
    <2> QED BY <1>1, <1>2, <2>1, <2>2 DEF NextSession, NoGaps
  <1>3. \A m \in Sessions : sessions[m] # Null => sessions'[m] = sessions[m]
    BY <1>1, <1>2 DEF TypeOK
  <1>4. ASSUME NEW m \in Sessions, sessions'[m] # Null, NEW i \in 1..(m - 1)
        PROVE  sessions'[i] # Null
    <2>1. i \in Sessions /\ i < m
      BY <1>1, OtpAuthAssumption DEF Sessions
    <2>2. sessions[i] # Null
      BY <1>4 DEF TypeOK, NextSession, NoGaps
    <2> QED BY <1>3, <2>1, <2>2
  <1> QED BY <1>2, <1>3, <1>4 DEF TypeOK, NoGaps, SessionRows

\* Rows are never removed, and nothing is unspent.
TablesGrow ==
    /\ \A u \in Users : Stored(u) => Stored(u)'
    /\ \A otp \in Otps : otps[otp] # Null => otps'[otp] = otps[otp]
    /\ used \subseteq used' /\ vouched \subseteq vouched' /\ shared \subseteq shared'
    /\ \A n \in Sessions : sessions[n] # Null => sessions'[n] = sessions[n]

\* What a call leaves of the other calls.
OthersStay(c) ==
    \A d \in Calls \ {c} : calls'[d] = calls[d] /\ step'[d] = step[d] /\ saw'[d] = saw[d]

\* The actions by what they do to the tables.
Reads(c) == \/ ReadAccount(c) \/ FlushUser(c) \/ ReadOtp(c) \/ LoadAccount(c)
            \/ ReadRefresh(c) \/ LoadUser(c)
Refuses(c) == Fails(c) \/ Abandon(c) \/ \E code \in Codes : CodeCollides(c, code)
Commits(c) == \/ \E code \in Codes : CommitOtp(c, code)
              \/ CommitRegister(c) \/ CommitLogin(c) \/ CommitRefresh(c)
              \/ CommitActivation(c) \/ CommitUpdate(c)

LEMMA ByKind ==
    ASSUME [Next]_vars
    PROVE  \/ UNCHANGED vars
           \/ \E c \in Calls : \/ \E request \in Requests : Start(c, request)
                               \/ Reads(c) \/ Refuses(c) \/ Commits(c)
  BY DEF Next, Reads, Refuses, Commits

LEMMA RefusesLeaves ==
    ASSUME NEW c \in Calls, Refuses(c)
    PROVE  Leave(c) /\ UNCHANGED tables
  BY DEF Refuses, Fails, Abandon, CodeCollides, Refuse

LEMMA CommitsLeaves ==
    ASSUME NEW c \in Calls, Commits(c)
    PROVE  Leave(c)
  BY DEF Commits, CommitOtp, CommitRegister, CommitLogin, CommitRefresh, CommitActivation,
         CommitUpdate, Assign

LEMMA LeaveEffect ==
    ASSUME TypeOK, NEW c \in Calls, Leave(c)
    PROVE  /\ OthersStay(c)
           /\ calls'[c] = Null /\ step'[c] = "start" /\ saw'[c] = Null
           /\ calls' \in [Calls -> Requests \cup {Null}]
           /\ step' \in [Calls -> {"start", "checked", "flushed", "loaded"}]
           /\ saw' \in [Calls -> Loads \cup {Null}]
           /\ shared' = shared
           /\ \A d \in Calls : calls'[d] = Null => step'[d] = "start" /\ saw'[d] = Null
  BY DEF TypeOK, Leave, OthersStay

LEMMA ReadsKeepTables ==
    ASSUME NEW c \in Calls, Reads(c)
    PROVE  UNCHANGED tables /\ calls' = calls
  BY DEF Reads, ReadAccount, FlushUser, ReadOtp, LoadAccount, ReadRefresh, LoadUser, Sees, Passes

\* What a load leaves behind.
LEMMA SeesEffect ==
    ASSUME TypeOK, NEW c \in Calls, NEW row \in Loads \cup {Null},
           NEW s \in {"checked", "flushed", "loaded"}, Sees(c, row, s)
    PROVE  /\ OthersStay(c) /\ UNCHANGED <<tables, shared, calls>>
           /\ saw'[c] = row /\ step'[c] = s
           /\ step' \in [Calls -> {"start", "checked", "flushed", "loaded"}]
           /\ saw' \in [Calls -> Loads \cup {Null}]
  BY DEF TypeOK, Sees, Advance, OthersStay

LEMMA PassesEffect ==
    ASSUME TypeOK, NEW c \in Calls, NEW token, Passes(c, token)
    PROVE  /\ OthersStay(c) /\ UNCHANGED <<tables, calls, saw>>
           /\ step'[c] = "checked"
           /\ step' \in [Calls -> {"start", "checked", "flushed", "loaded"}]
           /\ shared' = IF PastCheck(token) # {} THEN shared \cup {token} ELSE shared
  BY DEF TypeOK, Passes, Advance, OthersStay

\* What each load brings.
LEMMA ReadsEffect ==
    ASSUME OtpInv, NEW c \in Calls, Reads(c)
    PROVE  /\ OthersStay(c) /\ UNCHANGED <<tables, calls>>
           /\ calls[c] # Null
           /\ step' \in [Calls -> {"start", "checked", "flushed", "loaded"}]
           /\ saw' \in [Calls -> Loads \cup {Null}]
           /\ \/ /\ At(c, "request", "start") /\ step'[c] = "checked" /\ shared' = shared
                 /\ saw'[c] # Null => /\ Stored(saw'[c].user)
                                      /\ saw'[c].active = users[saw'[c].user].active
                 /\ saw'[c] # Null => saw'[c].user \in Users
                 /\ MayRequest(calls[c].kind, saw'[c])
              \/ /\ At(c, "request", "checked") /\ saw[c] = Null
                 /\ step'[c] = "flushed" /\ saw'[c] # Null /\ shared' = shared
              \/ /\ At(c, "redeem", "start") /\ Redeemable(calls[c].otp)
                 /\ Passes(c, calls[c].otp)
              \/ /\ At(c, "redeem", "checked") /\ step'[c] = "loaded" /\ shared' = shared
                 /\ saw'[c] # Null /\ saw'[c].user = otps[calls[c].otp]
                 /\ Stored(otps[calls[c].otp])
                 /\ calls[c].otp.kind = "register" => saw'[c].phone = calls[c].otp.phone
              \/ /\ At(c, "refresh", "start") /\ Exchangeable(calls[c].token)
                 /\ Passes(c, calls[c].token)
              \/ /\ Administers(c) /\ step[c] = "start" /\ step'[c] = "loaded"
                 /\ saw'[c] # Null /\ Stored(saw'[c].user) /\ shared' = shared
  <1>0. TypeOK /\ InOrder(c)
    BY DEF OtpInv
  <1>1. CASE ReadAccount(c)
    <2>1. /\ LookUp(calls[c].phone) \in Loads \cup {Null}
          /\ Sees(c, LookUp(calls[c].phone), "checked")
      BY <1>0, <1>1, LookUpType DEF ReadAccount
    <2>2. saw'[c] = LookUp(calls[c].phone)
      BY <1>0, <2>1, SeesEffect
    <2>3. saw'[c] # Null => /\ Stored(saw'[c].user)
                            /\ saw'[c].active = users[saw'[c].user].active
                            /\ saw'[c].user \in Users
      BY <1>0, <2>2, RowLookedUp
    <2> QED BY <1>0, <1>1, <2>1, <2>2, <2>3, SeesEffect DEF ReadAccount, At, Serves
  <1>2. CASE FlushUser(c)
    <2>1. PICK u \in Users : Sees(c, NewUser(u, calls[c].phone), "flushed")
      BY <1>2 DEF FlushUser
    <2>2. calls[c].phone \in Phones
      BY <1>0, <1>2, Served DEF FlushUser, InsertsUser, At
    <2>3. NewUser(u, calls[c].phone) \in Loads
      BY <2>2 DEF NewUser, Loads
    <2>4. NewUser(u, calls[c].phone) # Null
      BY <2>3, OtpAuthAssumption
    <2> QED BY <1>0, <1>2, <2>1, <2>3, <2>4, SeesEffect DEF FlushUser, InsertsUser, At, Serves
  <1>3. CASE ReadOtp(c)
    BY <1>0, <1>3, PassesEffect DEF ReadOtp, At, Serves, TypeOK
  <1>4. CASE ReadRefresh(c)
    BY <1>0, <1>4, PassesEffect DEF ReadRefresh, At, Serves, TypeOK
  <1>5. CASE LoadAccount(c)
    <2> DEFINE u == otps[calls[c].otp]
    <2>1. u \in Users /\ Stored(u)
      <3>1. calls[c].otp \in Otps /\ u # Null
        BY <1>0, <1>5, Served DEF LoadAccount, At, InOrder
      <3> QED BY <1>0, <1>5, <3>1 DEF LoadAccount, Matches, TypeOK
    <2>2. Loaded(u) \in Loads /\ Loaded(u) # Null /\ Loaded(u).user = u
          /\ Loaded(u).phone = users[u].phone
      BY <1>0, <2>1, RowLoaded
    <2>3. Sees(c, Loaded(u), "loaded") /\ Matches(calls[c].otp)
      BY <1>5 DEF LoadAccount
    <2> HIDE DEF u
    <2>4. saw'[c] = Loaded(u)
      BY <1>0, <2>2, <2>3, SeesEffect
    <2> QED BY <1>0, <1>5, <2>1, <2>2, <2>3, <2>4, SeesEffect
            DEF LoadAccount, Matches, At, Serves, u
  <1>6. CASE LoadUser(c)
    <2> DEFINE u == calls[c].user
    <2>1. u \in Users /\ Stored(u)
      BY <1>0, <1>6, Served DEF LoadUser, Administers
    <2>2. Loaded(u) \in Loads /\ Loaded(u) # Null /\ Loaded(u).user = u
      BY <1>0, <2>1, RowLoaded
    <2>3. Sees(c, Loaded(u), "loaded")
      BY <1>6 DEF LoadUser
    <2> HIDE DEF u
    <2> QED BY <1>0, <1>6, <2>1, <2>2, <2>3, SeesEffect DEF LoadUser, Administers, Serves
  <1> QED BY <1>1, <1>2, <1>3, <1>4, <1>5, <1>6 DEF Reads

-----------------------------------------------------------------------------
\* What each COMMIT does to the tables.
LEMMA CommitOtpEffect ==
    ASSUME OtpInv, NEW c \in Calls, NEW code \in Codes, CommitOtp(c, code)
    PROVE  /\ OtpOf(calls[c], code) \in Otps
           /\ OtpOf(calls[c], code).kind = calls[c].kind
           /\ saw[c].user \in Users
           /\ otps[OtpOf(calls[c], code)] = Null
           /\ otps' = [otps EXCEPT ![OtpOf(calls[c], code)] = saw[c].user]
           /\ users' \in [Users -> Rows \cup {Null}]
           /\ \A u \in Users : users'[u] # users[u] =>
                 u = saw[c].user /\ ~users'[u].active /\ calls[c].kind = "register"
           /\ \A u \in Users : Stored(u) => Stored(u)'
           /\ calls[c].kind = "login" => Proven(saw[c].user)
           /\ sessions' = sessions /\ used' = used /\ vouched' = vouched
  <1>0. TypeOK /\ InOrder(c)
    BY DEF OtpInv
  <1>1. /\ Serves(c, "request") /\ calls[c].kind \in Kinds /\ calls[c].phone \in Phones
        /\ step[c] # "start"
    BY <1>0, Served DEF CommitOtp, DrawsCode, At
  <1>2. OtpOf(calls[c], code) \in Otps /\ OtpOf(calls[c], code).kind = calls[c].kind
    BY <1>1 DEF OtpOf, Otps
  <1>3. saw[c] # Null
    BY <1>0, <1>1 DEF InOrder, CommitOtp, DrawsCode, At
  <1>4. saw[c].user \in Users /\ saw[c].phone \in Phones
    BY <1>0, <1>3, Seen
  <1> DEFINE row == [phone |-> saw[c].phone, active |-> FALSE]
  <1>5. row \in Rows /\ row # Null /\ ~row.active
    <2>1. row \in Rows
      BY <1>4 DEF Rows
    <2> QED BY <2>1, OtpAuthAssumption
  <1>6. users' = IF step[c] = "flushed" THEN [users EXCEPT ![saw[c].user] = row] ELSE users
    BY DEF CommitOtp
  <1> HIDE DEF row
  <1>7. users' \in [Users -> Rows \cup {Null}]
    BY <1>0, <1>5, <1>6 DEF TypeOK
  <1>8. \A u \in Users : users'[u] # users[u] =>
           u = saw[c].user /\ users'[u] = row /\ step[c] = "flushed"
    BY <1>0, <1>4, <1>6 DEF TypeOK
  <1>9. step[c] = "flushed" => calls[c].kind = "register"
    BY <1>0, <1>1 DEF InOrder
  <1>10. calls[c].kind = "login" => Proven(saw[c].user)
    BY <1>0, <1>1 DEF InOrder
  <1>11. \A u \in Users : Stored(u) => Stored(u)'
    BY <1>5, <1>8 DEF Stored
  <1> QED BY <1>2, <1>4, <1>5, <1>7, <1>8, <1>9, <1>10, <1>11 DEF CommitOtp

LEMMA CommitRegisterEffect ==
    ASSUME OtpInv, NEW c \in Calls, CommitRegister(c)
    PROVE  /\ Serves(c, "redeem") /\ calls[c].otp \in Otps
           /\ calls[c].otp.kind = "register"
           /\ otps[calls[c].otp] # Null
           /\ used' = used \cup {calls[c].otp}
           /\ users' \in [Users -> Rows \cup {Null}]
           /\ \A u \in Users : users'[u] # users[u] => u = otps[calls[c].otp]
           /\ \A u \in Users : Stored(u) <=> Stored(u)'
           /\ otps' = otps /\ sessions' = sessions /\ vouched' = vouched
  <1>0. TypeOK /\ InOrder(c)
    BY DEF OtpInv
  <1>1. Serves(c, "redeem") /\ calls[c].otp \in Otps
    BY <1>0, Served DEF CommitRegister, At
  <1> DEFINE u == saw[c].user
  <1>2. /\ otps[calls[c].otp] # Null
        /\ saw[c] # Null /\ u = otps[calls[c].otp] /\ Stored(u)
    BY <1>0, <1>1 DEF CommitRegister, At, InOrder
  <1>3. u \in Users
    BY <1>0, <1>2, Seen
  <1> DEFINE row == [users[u] EXCEPT !.active = Flushed(users[u].active, saw[c].active, TRUE)]
  <1>4. users' = [users EXCEPT ![u] = row]
    BY DEF CommitRegister
  <1>5. row \in Rows /\ row # Null
    <2>1. users[u] \in Rows
      BY <1>0, <1>2, <1>3 DEF TypeOK, Stored
    <2>2. Flushed(users[u].active, saw[c].active, TRUE) \in BOOLEAN
      BY <2>1 DEF Flushed, Rows
    <2>3. row \in Rows
      BY <2>1, <2>2 DEF Rows
    <2> QED BY <2>3, OtpAuthAssumption
  <1> HIDE DEF row, u
  <1>6. users' \in [Users -> Rows \cup {Null}]
    BY <1>0, <1>3, <1>4, <1>5 DEF TypeOK
  <1>7. \A v \in Users : users'[v] # users[v] => v = u
    BY <1>0, <1>4 DEF TypeOK
  <1>8. \A v \in Users : Stored(v) <=> Stored(v)'
    BY <1>0, <1>2, <1>3, <1>4, <1>5, <1>7 DEF Stored, TypeOK
  <1> QED BY <1>1, <1>2, <1>6, <1>7, <1>8 DEF CommitRegister, Spend

\* set_user_activation() and update_user() keep the row and vouch for whom they
\* set active.
LEMMA AssignEffect ==
    ASSUME TypeOK, NEW c \in Calls, saw[c] # Null, Stored(saw[c].user),
           NEW phone \in Phones, NEW active \in BOOLEAN, Assign(c, phone, active)
    PROVE  /\ users' \in [Users -> Rows \cup {Null}]
           /\ \A u \in Users : Stored(u) <=> Stored(u)'
           /\ \A u \in Users : Stored(u) /\ users'[u].active /\ ~users[u].active =>
                 u \in vouched'
           /\ vouched \subseteq vouched' /\ vouched' \subseteq Users
           /\ otps' = otps /\ sessions' = sessions /\ used' = used
  <1> DEFINE u == saw[c].user
             row == [phone |-> Flushed(users[u].phone, saw[c].phone, phone),
                     active |-> Flushed(users[u].active, saw[c].active, active)]
  <1>1. /\ u \in Users /\ saw[c].phone \in Phones /\ saw[c].active \in BOOLEAN
        /\ users[u] \in Rows
    BY Seen DEF TypeOK, Stored
  <1>2. users' = [users EXCEPT ![u] = row]
    BY DEF Assign
  <1>3. row \in Rows /\ row # Null
    <2>1. /\ Flushed(users[u].phone, saw[c].phone, phone) \in Phones
          /\ Flushed(users[u].active, saw[c].active, active) \in BOOLEAN
      BY <1>1 DEF Rows, Flushed
    <2>2. row \in Rows
      BY <2>1 DEF Rows
    <2> QED BY <2>2, OtpAuthAssumption
  <1>4. row.active /\ ~users[u].active => u \in vouched'
    BY <1>1 DEF Flushed, Assign
  <1>5. vouched \subseteq vouched' /\ vouched' \subseteq Users
    BY <1>1 DEF Assign, TypeOK
  <1> HIDE DEF row, u
  <1>6. Stored(u)
    BY DEF u
  <1>7. /\ users'[u] = row
        /\ \A v \in Users \ {u} : users'[v] = users[v]
    BY <1>1, <1>2 DEF TypeOK
  <1>8. \A v \in Users : Stored(v) <=> Stored(v)'
    BY <1>3, <1>6, <1>7 DEF Stored
  <1>9. users' \in [Users -> Rows \cup {Null}]
    BY <1>2, <1>3 DEF TypeOK
  <1> QED BY <1>4, <1>5, <1>7, <1>8, <1>9 DEF Assign

LEMMA AdministersEffect ==
    ASSUME OtpInv, NEW c \in Calls, CommitActivation(c) \/ CommitUpdate(c)
    PROVE  /\ users' \in [Users -> Rows \cup {Null}]
           /\ \A u \in Users : Stored(u) <=> Stored(u)'
           /\ \A u \in Users : Stored(u) /\ users'[u].active /\ ~users[u].active =>
                 u \in vouched'
           /\ vouched \subseteq vouched' /\ vouched' \subseteq Users
           /\ otps' = otps /\ sessions' = sessions /\ used' = used
  <1>0. TypeOK /\ InOrder(c)
    BY DEF OtpInv
  <1>1. Administers(c) /\ step[c] = "loaded"
    BY DEF CommitActivation, CommitUpdate, Administers, At
  <1>2. saw[c] # Null /\ Stored(saw[c].user)
    BY <1>0, <1>1 DEF InOrder
  <1>3. saw[c].phone \in Phones
    BY <1>0, <1>2, Seen
  <1>4. CASE CommitActivation(c)
    <2>1. calls[c].active \in BOOLEAN /\ Assign(c, saw[c].phone, calls[c].active)
      BY <1>0, <1>4, Served DEF CommitActivation, At
    <2> QED BY <1>0, <1>2, <1>3, <2>1, AssignEffect
  <1>5. CASE CommitUpdate(c)
    <2>1. /\ calls[c].active \in BOOLEAN /\ calls[c].phone \in Phones
          /\ Assign(c, calls[c].phone, calls[c].active)
      BY <1>0, <1>5, Served DEF CommitUpdate, At
    <2> QED BY <1>0, <1>2, <2>1, AssignEffect
  <1> QED BY <1>4, <1>5

\* Logins and exchanges store a session and spend its source.
LEMMA IssueEffect ==
    ASSUME OtpInv, NEW c \in Calls, CommitLogin(c) \/ CommitRefresh(c)
    PROVE  \E n \in Sessions, row \in SessionRows :
              /\ sessions' = [sessions EXCEPT ![n] = row]
              /\ NextSession(n)
              /\ used' = used \cup {row.source}
              /\ \/ /\ Serves(c, "redeem") /\ row.source = calls[c].otp
                    /\ row.source \in Otps /\ otps[row.source] = row.user
                    /\ otps[row.source] # Null /\ row.source.kind = "login"
                 \/ /\ Serves(c, "refresh") /\ row.source = calls[c].token
                    /\ row.source \in RefreshTokens /\ row.source.session \in Sessions
                    /\ sessions[row.source.session] # Null
                    /\ sessions[row.source.session].user = row.user
              /\ users' = users /\ otps' = otps /\ vouched' = vouched
  <1>0. TypeOK /\ InOrder(c)
    BY DEF OtpInv
  <1>1. CASE CommitLogin(c)
    <2>1. /\ Serves(c, "redeem") /\ calls[c].otp \in Otps /\ calls[c].otp.kind = "login"
      BY <1>0, <1>1, Served DEF CommitLogin, At
    <2>2. /\ otps[calls[c].otp] # Null /\ saw[c] # Null
          /\ saw[c].user = otps[calls[c].otp]
      BY <1>0, <1>1, <2>1 DEF CommitLogin, At, InOrder
    <2> DEFINE row == [user |-> saw[c].user, source |-> calls[c].otp]
    <2>3. row \in SessionRows
      BY <1>0, <2>1, <2>2, Seen DEF SessionRows
    <2>4. PICK n \in Sessions : NextSession(n) /\ sessions' = [sessions EXCEPT ![n] = row]
      BY <1>1 DEF CommitLogin
    <2> QED BY <1>1, <2>1, <2>2, <2>3, <2>4 DEF CommitLogin, Spend
  <1>2. CASE CommitRefresh(c)
    <2> DEFINE token == calls[c].token
               row == [user |-> sessions[token.session].user, source |-> token]
    <2>1. Serves(c, "refresh") /\ token \in RefreshTokens /\ token.session \in Sessions
      BY <1>0, <1>2, Served DEF CommitRefresh, At
    <2>2. sessions[token.session] # Null
      BY <1>0, <1>2, <2>1 DEF CommitRefresh, At, InOrder
    <2>3. sessions[token.session].user \in Users
      BY <1>0, <2>1, <2>2 DEF TypeOK
    <2>4. row \in SessionRows
      BY <2>1, <2>3 DEF SessionRows
    <2>5. PICK n \in Sessions : NextSession(n) /\ sessions' = [sessions EXCEPT ![n] = row]
      BY <1>2 DEF CommitRefresh
    <2> QED BY <1>2, <2>1, <2>2, <2>4, <2>5 DEF CommitRefresh, Spend
  <1> QED BY <1>1, <1>2

\* A login or an exchange adds one session at the end and spends its source.
LEMMA Issued ==
    ASSUME OtpInv, NEW c \in Calls, CommitLogin(c) \/ CommitRefresh(c)
    PROVE  \E n \in Sessions, row \in SessionRows :
              /\ sessions' \in [Sessions -> SessionRows \cup {Null}]
              /\ sessions'[n] = row /\ sessions[n] = Null
              /\ \A m \in Sessions \ {n} : sessions'[m] = sessions[m]
              /\ \A m \in Sessions : sessions[m] # Null => m < n
              /\ NoGaps'
              /\ used' = used \cup {row.source}
              /\ \/ /\ Serves(c, "redeem") /\ row.source = calls[c].otp
                    /\ row.source \in Otps /\ otps[row.source] = row.user
                    /\ otps[row.source] # Null /\ row.source.kind = "login"
                 \/ /\ Serves(c, "refresh") /\ row.source = calls[c].token
                    /\ row.source \in RefreshTokens /\ row.source.session \in Sessions
                    /\ sessions[row.source.session] # Null
                    /\ sessions[row.source.session].user = row.user
              /\ users' = users /\ otps' = otps /\ vouched' = vouched
  <1>1. TypeOK /\ NoGaps
    BY DEF OtpInv
  <1>2. PICK n \in Sessions, row \in SessionRows :
              /\ sessions' = [sessions EXCEPT ![n] = row]
              /\ NextSession(n)
              /\ used' = used \cup {row.source}
              /\ \/ /\ Serves(c, "redeem") /\ row.source = calls[c].otp
                    /\ row.source \in Otps /\ otps[row.source] = row.user
                    /\ otps[row.source] # Null /\ row.source.kind = "login"
                 \/ /\ Serves(c, "refresh") /\ row.source = calls[c].token
                    /\ row.source \in RefreshTokens /\ row.source.session \in Sessions
                    /\ sessions[row.source.session] # Null
                    /\ sessions[row.source.session].user = row.user
              /\ users' = users /\ otps' = otps /\ vouched' = vouched
    BY IssueEffect
  <1>3. /\ sessions' \in [Sessions -> SessionRows \cup {Null}]
        /\ \A m \in Sessions : sessions[m] # Null => m < n
        /\ NoGaps'
    BY <1>1, <1>2, StoreSession
  <1>4. /\ sessions'[n] = row /\ sessions[n] = Null
        /\ \A m \in Sessions \ {n} : sessions'[m] = sessions[m]
    BY <1>1, <1>2 DEF TypeOK, NextSession
  <1> QED BY <1>2, <1>3, <1>4

-----------------------------------------------------------------------------
LEMMA TypeOKNext == OtpInv /\ [Next]_vars => TypeOK'
  <1> SUFFICES ASSUME OtpInv, [Next]_vars PROVE TypeOK'
    OBVIOUS
  <1>0. TypeOK
    BY DEF OtpInv
  <1>1. ASSUME NEW c \in Calls, NEW request \in Requests, Start(c, request) PROVE TypeOK'
    <2>1. calls' = [calls EXCEPT ![c] = request] /\ UNCHANGED <<tables, shared, step, saw>>
      BY <1>1 DEF Start
    <2>2. \A d \in Calls : calls'[d] = Null => calls[d] = Null
      BY <1>0, <1>1, <2>1 DEF TypeOK, Start
    <2> QED BY <1>0, <2>1, <2>2 DEF tables, TypeOK
  <1>2. ASSUME NEW c \in Calls, Reads(c) PROVE TypeOK'
    <2>1. /\ OthersStay(c) /\ UNCHANGED <<tables, calls>> /\ calls[c] # Null
          /\ step' \in [Calls -> {"start", "checked", "flushed", "loaded"}]
          /\ saw' \in [Calls -> Loads \cup {Null}]
      BY <1>2, ReadsEffect
    <2>2. \A d \in Calls : calls'[d] = Null => step'[d] = "start" /\ saw'[d] = Null
      BY <1>0, <2>1 DEF TypeOK, OthersStay
    <2>3. shared' \subseteq Otps \cup RefreshTokens
      <3>1. CASE shared' = shared
        BY <1>0, <3>1 DEF TypeOK
      <3>2. CASE At(c, "redeem", "start") /\ Passes(c, calls[c].otp)
        BY <1>0, <3>2, Served DEF TypeOK, Passes, At
      <3>3. CASE At(c, "refresh", "start") /\ Passes(c, calls[c].token)
        BY <1>0, <3>3, Served DEF TypeOK, Passes, At
      <3> QED BY <1>2, <3>1, <3>2, <3>3, ReadsEffect
    <2> QED BY <1>0, <2>1, <2>2, <2>3 DEF TypeOK, tables
  <1>3. ASSUME NEW c \in Calls, Refuses(c) PROVE TypeOK'
    BY <1>0, <1>3, RefusesLeaves, LeaveEffect DEF TypeOK, tables
  <1>4. ASSUME NEW c \in Calls, Commits(c) PROVE TypeOK'
    <2>1. /\ calls' \in [Calls -> Requests \cup {Null}]
          /\ step' \in [Calls -> {"start", "checked", "flushed", "loaded"}]
          /\ saw' \in [Calls -> Loads \cup {Null}]
          /\ shared' = shared
          /\ \A d \in Calls : calls'[d] = Null => step'[d] = "start" /\ saw'[d] = Null
      BY <1>0, <1>4, CommitsLeaves, LeaveEffect
    <2>2. ASSUME NEW code \in Codes, CommitOtp(c, code) PROVE TypeOK'
      <3> DEFINE otp == OtpOf(calls[c], code)
      <3>1. /\ otp \in Otps /\ saw[c].user \in Users
            /\ otps' = [otps EXCEPT ![otp] = saw[c].user]
            /\ users' \in [Users -> Rows \cup {Null}]
            /\ sessions' = sessions /\ used' = used /\ vouched' = vouched
        BY <2>2, CommitOtpEffect
      <3> HIDE DEF otp
      <3>2. otps' \in [Otps -> Users \cup {Null}]
        BY <1>0, <3>1 DEF TypeOK
      <3>3. \A o \in Otps : otps[o] # Null => otps'[o] # Null
        BY <1>0, <3>1, OtpAuthAssumption DEF TypeOK
      <3> QED BY <1>0, <2>1, <3>1, <3>2, <3>3 DEF TypeOK
    <2>3. CASE CommitRegister(c)
      BY <1>0, <2>1, <2>3, CommitRegisterEffect DEF TypeOK
    <2>4. CASE CommitLogin(c) \/ CommitRefresh(c)
      BY <1>0, <2>1, <2>4, Issued DEF TypeOK, SessionRows
    <2>5. CASE CommitActivation(c) \/ CommitUpdate(c)
      BY <1>0, <2>1, <2>5, AdministersEffect DEF TypeOK
    <2> QED BY <1>4, <2>2, <2>3, <2>4, <2>5 DEF Commits
  <1>5. CASE UNCHANGED vars
    BY <1>0, <1>5 DEF vars, tables, TypeOK
  <1> QED BY <1>1, <1>2, <1>3, <1>4, <1>5, ByKind

LEMMA CommitsGrow ==
    ASSUME OtpInv, NEW c \in Calls, Commits(c)
    PROVE  TablesGrow
  <1>0. TypeOK
    BY DEF OtpInv
  <1>1. shared' = shared
    BY <1>0, CommitsLeaves, LeaveEffect
  <1>2. ASSUME NEW code \in Codes, CommitOtp(c, code) PROVE TablesGrow
    <2>1. \A otp \in Otps : otps[otp] # Null => otps'[otp] = otps[otp]
      BY <1>0, <1>2, CommitOtpEffect DEF TypeOK
    <2> QED BY <1>1, <1>2, <2>1, CommitOtpEffect DEF TablesGrow
  <1>3. CASE CommitRegister(c)
    BY <1>1, <1>3, CommitRegisterEffect DEF TablesGrow
  <1>4. CASE CommitLogin(c) \/ CommitRefresh(c)
    BY <1>1, <1>4, Issued DEF TablesGrow, Stored
  <1>5. CASE CommitActivation(c) \/ CommitUpdate(c)
    BY <1>1, <1>5, AdministersEffect DEF TablesGrow
  <1> QED BY <1>2, <1>3, <1>4, <1>5 DEF Commits

LEMMA Grows == OtpInv /\ [Next]_vars => TablesGrow
  <1> SUFFICES ASSUME OtpInv, [Next]_vars PROVE TablesGrow
    OBVIOUS
  <1>1. CASE UNCHANGED tables /\ shared \subseteq shared'
    BY <1>1 DEF tables, TablesGrow, Stored
  <1>2. ASSUME NEW c \in Calls, NEW request \in Requests, Start(c, request)
        PROVE  UNCHANGED tables /\ shared' = shared
    BY <1>2 DEF Start
  <1>3. ASSUME NEW c \in Calls, Reads(c)
        PROVE  UNCHANGED tables /\ shared \subseteq shared'
    BY <1>3, ReadsEffect DEF Passes
  <1>4. ASSUME NEW c \in Calls, Refuses(c)
        PROVE  UNCHANGED tables /\ shared' = shared
    BY <1>4, RefusesLeaves DEF Leave
  <1> QED BY <1>1, <1>2, <1>3, <1>4, ByKind, CommitsGrow DEF vars, tables

\* What is proven of a user stays proven.
LEMMA ProvenStays ==
    ASSUME TablesGrow, NEW u \in Users, Proven(u)
    PROVE  Proven(u)'
  <1>1. CASE u \in Seeded \cup vouched
    BY <1>1 DEF TablesGrow, Proven
  <1>2. ASSUME NEW otp \in used \cap Otps, otp.kind = "register", otps[otp] = u
        PROVE  Proven(u)'
    <2>1. otps'[otp] = u /\ otp \in used'
      BY <1>2, OtpAuthAssumption DEF TablesGrow
    <2> QED BY <1>2, <2>1 DEF Proven
  <1> QED BY <1>1, <1>2 DEF Proven

\* The same where the user is the one a call has seen.
LEMMA SeenStaysProven ==
    ASSUME TablesGrow, NEW d \in Calls, saw'[d] = saw[d], saw[d].user \in Users,
           Proven(saw[d].user)
    PROVE  Proven(saw[d].user)'
  <1>1. PICK u \in Users : u = saw[d].user
    OBVIOUS
  <1>2. Proven(u)'
    BY <1>1, ProvenStays
  <1> QED BY <1>1, <1>2

-----------------------------------------------------------------------------
\* What one call does leaves the others in order.
LEMMA OthersKeepOrder ==
    ASSUME OtpInv, TablesGrow, NEW c \in Calls, OthersStay(c), NEW d \in Calls \ {c}
    PROVE  InOrder(d)'
  <1>1. InOrder(d) /\ TypeOK
    BY DEF OtpInv
  <1>2. calls'[d] = calls[d] /\ step'[d] = step[d] /\ saw'[d] = saw[d]
    BY DEF OthersStay
  <1>3. saw[d] # Null => saw[d].user \in Users
    BY <1>1, Seen
  <1>4. saw[d] # Null /\ Stored(saw[d].user) => Stored(saw[d].user)'
    BY <1>2, <1>3 DEF TablesGrow, Stored
  <1>5. saw[d] # Null /\ Proven(saw[d].user) => Proven(saw[d].user)'
    BY <1>2, <1>3, SeenStaysProven
  <1>6. Serves(d, "redeem") /\ step[d] # "start" =>
           otps'[calls[d].otp] = otps[calls[d].otp]
    BY <1>1, Served DEF InOrder, TablesGrow
  <1>7. Serves(d, "refresh") /\ step[d] # "start" =>
           sessions'[calls[d].token.session] # Null
    BY <1>1, Served DEF InOrder, TablesGrow
  <1>8. (\A op : Serves(d, op)' <=> Serves(d, op)) /\ (Administers(d)' <=> Administers(d))
    BY <1>2 DEF Serves, Administers
  <1> QED BY <1>1, <1>2, <1>4, <1>5, <1>6, <1>7, <1>8 DEF InOrder

\* What a load brings is in order.
LEMMA ReadsKeepOrder ==
    ASSUME OtpInv, NEW c \in Calls, Reads(c)
    PROVE  InOrder(c)'
  <1>1. /\ TypeOK /\ InOrder(c) /\ AccountsAreProven
        /\ UNCHANGED <<tables, calls>> /\ calls[c] # Null
    BY ReadsEffect DEF OtpInv
  <1>2. (\A op : Serves(c, op)' <=> Serves(c, op)) /\ (Administers(c)' <=> Administers(c))
    BY <1>1 DEF Serves, Administers
  <1>3. \A op1, op2 : Serves(c, op1) /\ Serves(c, op2) => op1 = op2
    BY DEF Serves
  <1>4. \A u : (Stored(u)' <=> Stored(u)) /\ (Proven(u)' <=> Proven(u))
    BY <1>1 DEF tables, Stored, Proven
  <1>5. (Stored(saw[c].user)' <=> users[saw'[c].user] # Null)
    BY <1>1 DEF tables, Stored
  <1>6. ASSUME At(c, "request", "start"), step'[c] = "checked",
               saw'[c] # Null => /\ Stored(saw'[c].user) /\ saw'[c].user \in Users
                                 /\ saw'[c].active = users[saw'[c].user].active,
               MayRequest(calls[c].kind, saw'[c])
        PROVE  InOrder(c)'
    <2>1. ASSUME calls[c].kind = "login" PROVE saw'[c] # Null /\ Proven(saw'[c].user)
      <3>1. saw'[c] # Null /\ saw'[c].active
        BY <2>1, <1>6 DEF MayRequest
      <3> QED BY <1>1, <1>6, <3>1 DEF AccountsAreProven
    <2>2. calls[c].kind = "login" => saw'[c] # Null /\ Proven(saw[c].user)'
      BY <1>1, <2>1 DEF Proven, tables
    <2>3. saw'[c] # Null => Stored(saw[c].user)'
      BY <1>5, <1>6 DEF Stored
    <2> QED BY <1>1, <1>2, <1>3, <1>6, <2>2, <2>3 DEF InOrder, At, Administers
  <1>7. ASSUME At(c, "request", "checked"), saw[c] = Null, step'[c] = "flushed",
               saw'[c] # Null
        PROVE  InOrder(c)'
    <2>1. calls[c].kind = "register"
      BY <1>1, <1>7, Served DEF InOrder, At, Kinds
    <2> QED BY <1>1, <1>2, <1>3, <1>7, <2>1 DEF InOrder, At, Administers
  <1>8. ASSUME At(c, "redeem", "start"), Redeemable(calls[c].otp), step'[c] = "checked"
        PROVE  InOrder(c)'
    BY <1>1, <1>2, <1>3, <1>8 DEF InOrder, At, Administers, Redeemable, tables
  <1>9. ASSUME At(c, "redeem", "checked"), step'[c] = "loaded",
               saw'[c] # Null, saw'[c].user = otps[calls[c].otp],
               Stored(otps[calls[c].otp]),
               calls[c].otp.kind = "register" => saw'[c].phone = calls[c].otp.phone
        PROVE  InOrder(c)'
    <2>1. Stored(saw[c].user)'
      BY <1>5, <1>9 DEF Stored
    <2> QED BY <1>1, <1>2, <1>3, <1>9, <2>1 DEF InOrder, At, Administers, tables
  <1>10. ASSUME At(c, "refresh", "start"), Exchangeable(calls[c].token), step'[c] = "checked"
         PROVE  InOrder(c)'
    BY <1>1, <1>2, <1>3, <1>10 DEF InOrder, At, Administers, Exchangeable, tables
  <1>11. ASSUME Administers(c), step'[c] = "loaded", saw'[c] # Null, Stored(saw'[c].user)
         PROVE  InOrder(c)'
    <2>1. Stored(saw[c].user)'
      BY <1>5, <1>11 DEF Stored
    <2> QED BY <1>1, <1>2, <1>3, <1>11, <2>1 DEF InOrder, Administers
  <1>12. \A token : Passes(c, token) => step'[c] = "checked"
    BY <1>1, PassesEffect
  <1> QED BY <1>6, <1>7, <1>8, <1>9, <1>10, <1>11, <1>12, ReadsEffect

LEMMA OrderNext == OtpInv /\ [Next]_vars => \A c \in Calls : InOrder(c)'
  <1> SUFFICES ASSUME OtpInv, [Next]_vars PROVE \A c \in Calls : InOrder(c)'
    OBVIOUS
  <1>0. TypeOK /\ TablesGrow
    BY Grows DEF OtpInv
  <1>1. ASSUME NEW c \in Calls, NEW request \in Requests, Start(c, request)
        PROVE  \A d \in Calls : InOrder(d)'
    <2>1. OthersStay(c) /\ step'[c] = "start"
      BY <1>0, <1>1 DEF Start, OthersStay, TypeOK
    <2>2. InOrder(c)'
      BY <2>1 DEF InOrder
    <2> QED BY <1>0, <2>1, <2>2, OthersKeepOrder
  <1>2. ASSUME NEW c \in Calls, Reads(c) PROVE \A d \in Calls : InOrder(d)'
    BY <1>0, <1>2, ReadsEffect, ReadsKeepOrder, OthersKeepOrder
  <1>3. ASSUME NEW c \in Calls, Leave(c) PROVE \A d \in Calls : InOrder(d)'
    <2>1. OthersStay(c) /\ calls'[c] = Null
      BY <1>0, <1>3, LeaveEffect
    <2>2. InOrder(c)'
      BY <2>1 DEF InOrder, Serves, Administers
    <2> QED BY <1>0, <2>1, <2>2, OthersKeepOrder
  <1>4. ASSUME UNCHANGED vars, NEW c \in Calls PROVE InOrder(c)'
    <2>1. InOrder(c)
      BY DEF OtpInv
    <2> QED BY <1>4, <2>1 DEF vars, tables, InOrder, Serves, Administers, Stored, Proven
  <1> QED BY <1>1, <1>2, <1>3, <1>4, ByKind, RefusesLeaves, CommitsLeaves

-----------------------------------------------------------------------------
\* No step but a COMMIT touches the tables.
LEMMA OnlyCommitsWrite ==
    ASSUME [Next]_vars
    PROVE  UNCHANGED tables \/ \E c \in Calls : Commits(c)
  <1>1. ASSUME NEW c \in Calls, NEW request \in Requests, Start(c, request)
        PROVE  UNCHANGED tables
    BY <1>1 DEF Start
  <1> QED BY <1>1, ByKind, ReadsKeepTables, RefusesLeaves DEF vars, tables

\* A login code is drawn for an active account, and an account becomes active by
\* a registration code or an administrator.
LEMMA AccountsNext == OtpInv /\ [Next]_vars => AccountsAreProven'
  <1> SUFFICES ASSUME OtpInv, [Next]_vars PROVE AccountsAreProven'
    OBVIOUS
  <1>0. TypeOK /\ TablesGrow /\ AccountsAreProven
    BY Grows DEF OtpInv
  <1>1. \A u \in Users : Stored(u) /\ users[u].active => Proven(u)'
    BY <1>0, ProvenStays DEF AccountsAreProven
  <1>2. \A otp \in Otps : otps[otp] # Null /\ otp.kind = "login" => Proven(otps[otp])'
    <2> SUFFICES ASSUME NEW otp \in Otps, otps[otp] # Null, otp.kind = "login",
                        NEW u, u = otps[otp]
                 PROVE  Proven(u)'
      BY <1>0 DEF TablesGrow
    <2> QED BY <1>0, ProvenStays DEF AccountsAreProven, TypeOK
  <1>3. \A n \in Sessions : sessions[n] # Null => Proven(sessions[n].user)'
    <2> SUFFICES ASSUME NEW n \in Sessions, sessions[n] # Null, NEW u, u = sessions[n].user
                 PROVE  Proven(u)'
      BY <1>0 DEF TablesGrow
    <2>1. u \in Users
      BY <1>0 DEF TypeOK
    <2> QED BY <1>0, <2>1, ProvenStays DEF AccountsAreProven
  <1>4. CASE UNCHANGED tables
    BY <1>1, <1>2, <1>3, <1>4 DEF tables, AccountsAreProven, Stored
  <1>5. ASSUME NEW c \in Calls, NEW code \in Codes, CommitOtp(c, code)
        PROVE  AccountsAreProven'
    <2> DEFINE otp == OtpOf(calls[c], code)
    <2>1. PICK u \in Users :
             /\ u = saw[c].user /\ otp \in Otps /\ otp.kind = calls[c].kind
             /\ otps' = [otps EXCEPT ![otp] = u]
             /\ \A v \in Users : users'[v] # users[v] => ~users'[v].active
             /\ calls[c].kind = "login" => Proven(u)
             /\ sessions' = sessions
      BY <1>5, CommitOtpEffect
    <2> HIDE DEF otp
    <2>2. otp.kind = "login" => Proven(u)'
      BY <1>0, <2>1, ProvenStays
    <2>3. \A o \in Otps : otps'[o] # Null /\ o.kind = "login" => Proven(otps[o])'
      <3> SUFFICES ASSUME NEW o \in Otps, otps'[o] # Null, o.kind = "login"
                   PROVE  Proven(otps[o])'
        OBVIOUS
      <3>1. CASE o = otp
        <4>1. otps'[o] = u
          BY <1>0, <2>1, <3>1 DEF TypeOK
        <4> QED BY <2>2, <3>1, <4>1
      <3>2. CASE o # otp
        <4>1. otps'[o] = otps[o]
          BY <1>0, <2>1, <3>2 DEF TypeOK
        <4> QED BY <1>2, <4>1
      <3> QED BY <3>1, <3>2
    <2>4. \A v \in Users : Stored(v)' /\ users'[v].active => Proven(v)'
      BY <1>1, <2>1 DEF Stored
    <2> QED BY <1>3, <2>1, <2>3, <2>4 DEF AccountsAreProven
  <1>6. ASSUME NEW c \in Calls, CommitRegister(c) PROVE AccountsAreProven'
    <2>1. /\ calls[c].otp \in Otps \cap used' /\ calls[c].otp.kind = "register"
          /\ \A u \in Users : users'[u] # users[u] => u = otps[calls[c].otp]
          /\ otps' = otps /\ sessions' = sessions
      BY <1>6, CommitRegisterEffect
    <2>2. \A u \in Users : u = otps[calls[c].otp] => Proven(u)'
      BY <2>1 DEF Proven
    <2>3. \A u \in Users : Stored(u)' /\ users'[u].active => Proven(u)'
      BY <1>1, <2>1, <2>2 DEF Stored
    <2> QED BY <1>2, <1>3, <2>1, <2>3 DEF AccountsAreProven
  <1>7. ASSUME NEW c \in Calls, CommitLogin(c) \/ CommitRefresh(c)
        PROVE  AccountsAreProven'
    <2>1. PICK n \in Sessions, row \in SessionRows :
             /\ sessions'[n] = row
             /\ \A m \in Sessions \ {n} : sessions'[m] = sessions[m]
             /\ \/ /\ row.source \in Otps /\ otps[row.source] = row.user
                   /\ otps[row.source] # Null /\ row.source.kind = "login"
                \/ /\ row.source.session \in Sessions
                   /\ sessions[row.source.session] # Null
                   /\ sessions[row.source.session].user = row.user
             /\ users' = users /\ otps' = otps
      BY <1>7, Issued
    <2>2. Proven(row.user)'
      <3>1. Proven(row.user) /\ row.user \in Users
        BY <1>0, <2>1 DEF AccountsAreProven, SessionRows
      <3> QED BY <1>0, <3>1, ProvenStays
    <2>3. \A m \in Sessions : sessions'[m] # Null => Proven(sessions[m].user)'
      BY <1>3, <2>1, <2>2
    <2> QED BY <1>1, <1>2, <2>1, <2>3 DEF AccountsAreProven, Stored
  <1>8. ASSUME NEW c \in Calls, CommitActivation(c) \/ CommitUpdate(c)
        PROVE  AccountsAreProven'
    <2>1. /\ \A u \in Users : Stored(u) /\ users'[u].active /\ ~users[u].active =>
                 u \in vouched'
          /\ \A u \in Users : Stored(u) <=> Stored(u)'
          /\ otps' = otps /\ sessions' = sessions
      BY <1>8, AdministersEffect
    <2>2. \A u \in Users : u \in vouched' => Proven(u)'
      BY DEF Proven
    <2>3. \A u \in Users : Stored(u)' /\ users'[u].active => Proven(u)'
      BY <1>1, <2>1, <2>2
    <2> QED BY <1>2, <1>3, <2>1, <2>3 DEF AccountsAreProven
  <1> QED BY <1>4, <1>5, <1>6, <1>7, <1>8, OnlyCommitsWrite DEF Commits

\* A user is stored together with his first code, and the code stays his.
LEMMA UsersHaveCodesNext == OtpInv /\ [Next]_vars => UsersHaveCodes'
  <1> SUFFICES ASSUME OtpInv, [Next]_vars, NEW u \in Users \ Seeded, Stored(u)'
               PROVE  \E otp \in Otps : otp.kind = "register" /\ otps'[otp] = u
    BY DEF UsersHaveCodes
  <1>0. TypeOK /\ TablesGrow /\ UsersHaveCodes
    BY Grows DEF OtpInv
  <1>1. CASE Stored(u)
    <2>1. PICK otp \in Otps : otp.kind = "register" /\ otps[otp] = u
      BY <1>0, <1>1 DEF UsersHaveCodes
    <2>2. otps'[otp] = u
      BY <1>0, <2>1, OtpAuthAssumption DEF TablesGrow
    <2> QED BY <2>1, <2>2
  <1>2. ASSUME NEW c \in Calls, NEW code \in Codes, CommitOtp(c, code), ~Stored(u)
        PROVE  \E otp \in Otps : otp.kind = "register" /\ otps'[otp] = u
    <2> DEFINE otp == OtpOf(calls[c], code)
    <2>1. /\ otp \in Otps /\ otp.kind = calls[c].kind
          /\ otps' = [otps EXCEPT ![otp] = saw[c].user]
          /\ \A v \in Users : users'[v] # users[v] =>
                v = saw[c].user /\ calls[c].kind = "register"
      BY <1>2, CommitOtpEffect
    <2> HIDE DEF otp
    <2>2. u = saw[c].user /\ calls[c].kind = "register"
      BY <1>2, <2>1 DEF Stored
    <2>3. otps'[otp] = u
      BY <1>0, <2>1, <2>2 DEF TypeOK
    <2> QED BY <2>1, <2>2, <2>3
  <1>3. ASSUME NEW c \in Calls, CommitRegister(c) PROVE Stored(u)
    BY <1>3, CommitRegisterEffect
  <1>4. ASSUME NEW c \in Calls, CommitLogin(c) \/ CommitRefresh(c) PROVE Stored(u)
    BY <1>4, Issued DEF Stored
  <1>5. ASSUME NEW c \in Calls, CommitActivation(c) \/ CommitUpdate(c) PROVE Stored(u)
    BY <1>5, AdministersEffect
  <1>6. CASE UNCHANGED tables
    BY <1>1, <1>6 DEF tables, Stored
  <1> QED BY <1>1, <1>2, <1>3, <1>4, <1>5, <1>6, OnlyCommitsWrite DEF Commits

\* What it takes for a session to have its source.
HasSource(n) ==
    /\ sessions[n].source \in used
    /\ IF sessions[n].source \in RefreshTokens
       THEN /\ sessions[n].source.session < n
            /\ sessions[sessions[n].source.session].user = sessions[n].user
       ELSE /\ sessions[n].source.kind = "login"
            /\ otps[sessions[n].source] = sessions[n].user

\* A stored session keeps its source.
LEMMA SourceStays ==
    ASSUME OtpInv, TablesGrow, NEW m \in Sessions, sessions[m] # Null
    PROVE  HasSource(m)'
  <1>1. TypeOK /\ NoGaps /\ HasSource(m) /\ sessions'[m] = sessions[m]
    BY DEF OtpInv, SessionsHaveSource, HasSource, TablesGrow
  <1>2. sessions[m].source \in used'
    BY <1>1 DEF HasSource, TablesGrow
  <1>3. CASE sessions[m].source \in RefreshTokens
    <2>1. sessions[m].source.session \in Sessions
      BY <1>3 DEF RefreshTokens
    <2>2. sessions[m].source.session \in 1..(m - 1)
      BY <1>1, <1>3, <2>1 DEF Sessions, HasSource
    <2>3. sessions[sessions[m].source.session] # Null
      BY <1>1, <2>2 DEF NoGaps
    <2>4. sessions'[sessions[m].source.session] = sessions[sessions[m].source.session]
      BY <2>1, <2>3 DEF TablesGrow
    <2> QED BY <1>1, <1>2, <1>3, <2>4 DEF HasSource
  <1>4. CASE sessions[m].source \notin RefreshTokens
    <2>1. sessions[m].source \in Otps /\ sessions[m].user \in Users
      BY <1>1, <1>4 DEF TypeOK
    <2>2. otps[sessions[m].source] # Null
      BY <1>1, <1>4, <2>1, OtpAuthAssumption DEF HasSource
    <2>3. otps'[sessions[m].source] = otps[sessions[m].source]
      BY <2>1, <2>2 DEF TablesGrow
    <2> QED BY <1>1, <1>2, <1>4, <2>3 DEF HasSource
  <1> QED BY <1>3, <1>4

\* A session is stored behind its source, together with the mark that spends it.
LEMMA SourcesNext == OtpInv /\ [Next]_vars => SessionsHaveSource' /\ NoGaps'
  <1> SUFFICES ASSUME OtpInv, [Next]_vars PROVE SessionsHaveSource' /\ NoGaps'
    OBVIOUS
  <1>0. TypeOK /\ SessionsHaveSource /\ NoGaps /\ TablesGrow
    BY Grows DEF OtpInv
  <1>1. ASSUME sessions' = sessions PROVE SessionsHaveSource' /\ NoGaps'
    <2>1. \A n \in Sessions : sessions'[n] # Null => HasSource(n)'
      BY <1>0, <1>1, SourceStays
    <2> QED BY <1>0, <1>1, <2>1 DEF SessionsHaveSource, HasSource, NoGaps
  <1>2. ASSUME NEW c \in Calls, CommitLogin(c) \/ CommitRefresh(c)
        PROVE  SessionsHaveSource' /\ NoGaps'
    <2>1. PICK n \in Sessions, row \in SessionRows :
             /\ sessions'[n] = row /\ sessions[n] = Null
             /\ \A m \in Sessions \ {n} : sessions'[m] = sessions[m]
             /\ \A m \in Sessions : sessions[m] # Null => m < n
             /\ NoGaps'
             /\ used' = used \cup {row.source}
             /\ \/ /\ row.source \in Otps /\ otps[row.source] = row.user
                   /\ row.source.kind = "login"
                \/ /\ row.source \in RefreshTokens /\ row.source.session \in Sessions
                   /\ sessions[row.source.session] # Null
                   /\ sessions[row.source.session].user = row.user
             /\ otps' = otps
      BY <1>2, Issued
    <2>2. HasSource(n)'
      <3>1. CASE row.source \in RefreshTokens
        <4>1. row.source \notin Otps
          BY <3>1, OtpsAreNoRefreshTokens
        <4>2. /\ row.source.session < n
              /\ sessions'[row.source.session].user = row.user
          BY <2>1, <4>1
        <4> QED BY <2>1, <3>1, <4>2 DEF HasSource
      <3>2. CASE row.source \notin RefreshTokens
        BY <2>1, <3>2 DEF HasSource
      <3> QED BY <3>1, <3>2
    <2>3. \A m \in Sessions \ {n} : sessions'[m] # Null => HasSource(m)'
      BY <1>0, <2>1, SourceStays
    <2> QED BY <2>1, <2>2, <2>3 DEF SessionsHaveSource, HasSource
  <1>3. ASSUME NEW c \in Calls, CommitRegister(c) PROVE sessions' = sessions
    BY <1>3 DEF CommitRegister
  <1>4. ASSUME NEW c \in Calls, NEW code \in Codes, CommitOtp(c, code)
        PROVE  sessions' = sessions
    BY <1>4 DEF CommitOtp
  <1>5. ASSUME NEW c \in Calls, CommitActivation(c) \/ CommitUpdate(c)
        PROVE  sessions' = sessions
    BY <1>5, AdministersEffect
  <1> QED BY <1>1, <1>2, <1>3, <1>4, <1>5, OnlyCommitsWrite DEF Commits, tables

\* The inductive invariant.
THEOREM Invariance == Spec => []OtpInv
  <1>1. OtpInv /\ [Next]_vars => OtpInv'
    BY TypeOKNext, OrderNext, AccountsNext, UsersHaveCodesNext, SourcesNext DEF OtpInv
  <1> QED BY <1>1, OtpInvInit, PTL DEF Spec

\* Type correctness.
THEOREM TypeCorrect == Spec => []TypeOK
  BY Invariance, PTL DEF OtpInv

\* Nobody is active, can log in or is logged in without a registration code redeemed
\* or an administrator's word (services/ecommerce.py request_login_otp()).
THEOREM OnlyProvenAccounts == Spec => []AccountsAreProven
  BY Invariance, PTL DEF OtpInv

\* Whoever has a row has a registration code stored, although the user is flushed
\* before the code is drawn and the code may collide (services/ecommerce.py lines
\* 36 to 47).
THEOREM NoUserWithoutCode == Spec => []UsersHaveCodes
  BY Invariance, PTL DEF OtpInv

\* Every session goes back, in finitely many exchanges, to a login code of its
\* own user.
THEOREM SessionsStemFromLogins == Spec => []SessionsHaveSource
  BY Invariance, PTL DEF OtpInv

\* A registration code is redeemed for the number its user has, or had when
\* register_user() compared it (services/ecommerce.py line 78).
THEOREM NumberIsCompared == Spec => OldNumberCannotRegister
  <1>1. OtpInv => \A c \in Calls :
            At(c, "redeem", "loaded") /\ calls[c].otp \in used' \ used
                                      /\ calls[c].otp.kind = "register" =>
                \/ users[otps[calls[c].otp]].phone = calls[c].otp.phone
                \/ users[otps[calls[c].otp]].phone # saw[c].phone
    <2> SUFFICES ASSUME OtpInv, NEW c \in Calls, At(c, "redeem", "loaded"),
                        calls[c].otp.kind = "register"
                 PROVE  saw[c].phone = calls[c].otp.phone
      OBVIOUS
    <2> QED BY DEF OtpInv, InOrder, At
  <1> QED BY <1>1, Invariance, PTL DEF OldNumberCannotRegister

\* Whatever overlaps, no commit removes a user, a code, a session or the mark of
\* a spent token: the tables only grow.
THEOREM TablesOnlyGrow == Spec => [][TablesGrow]_vars
  <1>1. OtpInv /\ [Next]_vars => [TablesGrow]_vars
    BY Grows
  <1> QED BY <1>1, Invariance, PTL DEF Spec

-----------------------------------------------------------------------------
\* A token no two calls were past the check of together: at most one call is
\* past it, and then it is unspent.
SpentInTurn ==
    \A token \in (Otps \cup RefreshTokens) \ shared :
        /\ \A c, d \in PastCheck(token) : c = d
        /\ PastCheck(token) # {} => token \notin used

SpentInv == SpentInTurn /\ SingleUseUnlessShared

\* A call uses one token.
LEMMA OneToken ==
    ASSUME TypeOK, NEW c \in Calls, NEW s, NEW t, UsesToken(c, s), UsesToken(c, t)
    PROVE  s = t
  BY DEF UsesToken, Serves

\* Who is past the check changes with c only.
LEMMA OthersPast ==
    ASSUME NEW c \in Calls, OthersStay(c), NEW token
    PROVE  PastCheck(token)' \ {c} = PastCheck(token) \ {c}
  <1>1. \A d \in Calls \ {c} : calls'[d] = calls[d] /\ step'[d] = step[d]
    BY DEF OthersStay
  <1> QED BY <1>1 DEF PastCheck, UsesToken, Serves

\* A step that passes no check and spends no token.
LEMMA SpentWhenNonePasses ==
    ASSUME SpentInv, used' = used, sessions' = sessions, shared' = shared,
           \A token : PastCheck(token)' \subseteq PastCheck(token)
    PROVE  SpentInv'
  <1>1. SpentInTurn'
    BY DEF SpentInv, SpentInTurn
  <1> QED BY <1>1 DEF SpentInv, SingleUseUnlessShared

\* The read that passes a check.
LEMMA SpentWhenPassed ==
    ASSUME TypeOK, SpentInv, NEW c \in Calls, NEW t \in Otps \cup RefreshTokens,
           UsesToken(c, t), step[c] = "start", t \notin used, Passes(c, t)
    PROVE  SpentInv'
  <1>1. /\ OthersStay(c) /\ UNCHANGED <<tables, calls, saw>>
        /\ shared' = IF PastCheck(t) # {} THEN shared \cup {t} ELSE shared
    BY PassesEffect
  <1>2. ASSUME NEW s \in Otps \cup RefreshTokens, s # t
        PROVE  PastCheck(s)' \subseteq PastCheck(s)
    <2>1. ~UsesToken(c, s)'
      <3>1. ~UsesToken(c, s)
        BY <1>2, OneToken
      <3> QED BY <1>1, <3>1 DEF UsesToken, Serves
    <2>2. c \notin PastCheck(s)'
      BY <2>1 DEF PastCheck
    <2> QED BY <1>1, <2>2, OthersPast
  <1>3. PastCheck(t) = {} => PastCheck(t)' \subseteq {c}
    BY <1>1, OthersPast
  <1>4. SpentInTurn'
    <2> SUFFICES ASSUME NEW s \in Otps \cup RefreshTokens, s \notin shared'
                 PROVE  /\ \A d, e \in PastCheck(s)' : d = e
                        /\ PastCheck(s)' # {} => s \notin used'
      BY DEF SpentInTurn
    <2>1. CASE s = t
      <3>1. PastCheck(t) = {}
        BY <1>1, <2>1
      <3> QED BY <1>1, <1>3, <2>1, <3>1 DEF tables
    <2>2. CASE s # t
      BY <1>1, <1>2, <2>2 DEF SpentInv, SpentInTurn, tables
    <2> QED BY <2>1, <2>2
  <1>5. SingleUseUnlessShared'
    BY <1>1 DEF SpentInv, SingleUseUnlessShared, tables
  <1> QED BY <1>4, <1>5 DEF SpentInv

\* The COMMIT that spends the token of a call past its check.
LEMMA SpentWhenSpent ==
    ASSUME SpentInv, TypeOK, NEW c \in Calls, NEW t \in Otps \cup RefreshTokens,
           c \in PastCheck(t), OthersStay(c), step'[c] = "start",
           used' = used \cup {t}, shared' = shared
    PROVE  SpentInTurn'
  <1> SUFFICES ASSUME NEW s \in Otps \cup RefreshTokens, s \notin shared
               PROVE  /\ \A d, e \in PastCheck(s)' : d = e
                      /\ PastCheck(s)' # {} => s \notin used'
    BY DEF SpentInTurn
  <1>1. /\ \A d, e \in PastCheck(s) : d = e
        /\ PastCheck(s) # {} => s \notin used
    BY DEF SpentInv, SpentInTurn
  <1>2. PastCheck(s)' \subseteq PastCheck(s) \ {c}
    BY OthersPast DEF PastCheck
  <1>3. s = t => PastCheck(s)' = {}
    BY <1>1, <1>2
  <1> QED BY <1>1, <1>2, <1>3

LEMMA SpentNext ==
    ASSUME OtpInv, SpentInv, [Next]_vars
    PROVE  SpentInv'
  <1>0. TypeOK /\ SessionsHaveSource
    BY DEF OtpInv
  <1>1. ASSUME NEW c \in Calls, OthersStay(c), step'[c] = "start"
        PROVE  \A token : PastCheck(token)' \subseteq PastCheck(token)
    BY <1>1, OthersPast DEF PastCheck
  <1>2. ASSUME NEW c \in Calls, NEW request \in Requests, Start(c, request)
        PROVE  SpentInv'
    <2>1. /\ OthersStay(c) /\ step'[c] = "start" /\ used' = used
          /\ sessions' = sessions /\ shared' = shared
      BY <1>0, <1>2 DEF Start, OthersStay, TypeOK, tables
    <2> QED BY <1>1, <2>1, SpentWhenNonePasses
  <1>3. ASSUME NEW c \in Calls, Reads(c) PROVE SpentInv'
    <2>1. OthersStay(c) /\ UNCHANGED <<tables, calls>>
      BY <1>3, ReadsEffect
    <2>2. CASE shared' = shared /\ \A token : c \notin PastCheck(token)' \/ c \in PastCheck(token)
      <3>1. \A token : PastCheck(token)' \subseteq PastCheck(token)
        BY <2>1, <2>2, OthersPast
      <3> QED BY <2>1, <2>2, <3>1, SpentWhenNonePasses DEF tables
    <2>3. ASSUME At(c, "redeem", "start"), Redeemable(calls[c].otp), Passes(c, calls[c].otp)
          PROVE  SpentInv'
      BY <1>0, <2>3, Served, SpentWhenPassed DEF At, UsesToken, Redeemable
    <2>4. ASSUME At(c, "refresh", "start"), Exchangeable(calls[c].token),
                 Passes(c, calls[c].token)
          PROVE  SpentInv'
      BY <1>0, <2>4, Served, SpentWhenPassed DEF At, UsesToken, Exchangeable
    <2>5. ASSUME At(c, "redeem", "checked")
          PROVE  \A token : c \notin PastCheck(token)' \/ c \in PastCheck(token)
      BY <2>1, <2>5 DEF PastCheck, UsesToken, Serves, At
    <2>6. ASSUME Serves(c, "request") \/ Administers(c)
          PROVE  \A token : c \notin PastCheck(token)'
      BY <2>1, <2>6 DEF PastCheck, UsesToken, Serves, Administers
    <2> QED BY <1>3, <2>2, <2>3, <2>4, <2>5, <2>6, ReadsEffect DEF At
  <1>4. ASSUME NEW c \in Calls, Leave(c), used' = used, sessions' = sessions PROVE SpentInv'
    BY <1>0, <1>1, <1>4, LeaveEffect, SpentWhenNonePasses
  <1>5. ASSUME NEW c \in Calls, CommitRegister(c) PROVE SpentInv'
    <2>1. OthersStay(c) /\ step'[c] = "start" /\ shared' = shared
      BY <1>0, <1>5, LeaveEffect DEF CommitRegister
    <2>2. /\ Serves(c, "redeem") /\ calls[c].otp \in Otps
          /\ used' = used \cup {calls[c].otp} /\ sessions' = sessions
      BY <1>5, CommitRegisterEffect
    <2>3. c \in PastCheck(calls[c].otp)
      BY <1>5, <2>2 DEF CommitRegister, At, PastCheck, UsesToken
    <2>4. SpentInTurn'
      BY <1>0, <2>1, <2>2, <2>3, SpentWhenSpent
    <2> QED BY <2>1, <2>2, <2>4 DEF SpentInv, SingleUseUnlessShared
  <1>6. ASSUME NEW c \in Calls, CommitLogin(c) \/ CommitRefresh(c) PROVE SpentInv'
    <2>1. OthersStay(c) /\ step'[c] = "start" /\ shared' = shared
      BY <1>0, <1>6, LeaveEffect DEF CommitLogin, CommitRefresh
    <2>2. PICK n \in Sessions, row \in SessionRows :
             /\ sessions'[n] = row
             /\ \A m \in Sessions \ {n} : sessions'[m] = sessions[m]
             /\ used' = used \cup {row.source}
             /\ \/ Serves(c, "redeem") /\ row.source = calls[c].otp
                \/ Serves(c, "refresh") /\ row.source = calls[c].token
      BY <1>6, Issued
    <2>3. row.source \in Otps \cup RefreshTokens /\ c \in PastCheck(row.source)
      BY <1>6, <2>2 DEF CommitLogin, CommitRefresh, At, PastCheck, UsesToken, SessionRows
    <2>4. SpentInTurn'
      BY <1>0, <2>1, <2>2, <2>3, SpentWhenSpent
    <2>5. row.source \notin shared => row.source \notin used
      BY <2>3 DEF SpentInv, SpentInTurn
    <2>6. \A m \in Sessions \ {n} :
             sessions[m] # Null /\ sessions[m].source = row.source => row.source \in shared
      BY <1>0, <2>5 DEF SessionsHaveSource
    <2>7. SingleUseUnlessShared'
      BY <2>1, <2>2, <2>6 DEF SpentInv, SingleUseUnlessShared
    <2> QED BY <2>4, <2>7 DEF SpentInv
  <1>7. ASSUME NEW c \in Calls, CommitActivation(c) \/ CommitUpdate(c) PROVE SpentInv'
    BY <1>4, <1>7, AdministersEffect, CommitsLeaves DEF Commits
  <1>8. ASSUME NEW c \in Calls, NEW code \in Codes, CommitOtp(c, code) PROVE SpentInv'
    BY <1>4, <1>8 DEF CommitOtp
  <1>9. ASSUME NEW c \in Calls, Refuses(c) PROVE SpentInv'
    BY <1>4, <1>9, RefusesLeaves DEF tables
  <1>10. CASE UNCHANGED vars
    BY <1>10 DEF vars, tables, SpentInv, SpentInTurn, SingleUseUnlessShared, PastCheck,
                 UsesToken, Serves
  <1> QED BY <1>2, <1>3, <1>5, <1>6, <1>7, <1>8, <1>9, <1>10, ByKind DEF Commits

\* A code or refresh token whose uses did not overlap behind the check of is_used
\* yields one session (services/ecommerce.py line 160 calls a second use
\* "revoked").
THEOREM SingleUseInTurn == Spec => []SingleUseUnlessShared
  <1>1. Init => SpentInv
    BY DEF Init, SpentInv, SpentInTurn, SingleUseUnlessShared, PastCheck
  <1>2. OtpInv /\ SpentInv /\ [Next]_vars => SpentInv'
    BY SpentNext
  <1>3. SpentInv => SingleUseUnlessShared
    BY DEF SpentInv
  <1> QED BY <1>1, <1>2, <1>3, Invariance, PTL DEF Spec

-----------------------------------------------------------------------------
\* And with overlap: the sessions a token has yielded and the calls past its
\* check, counted.
LEMMA YieldAndPastAreFinite ==
    ASSUME IsFiniteSet(Calls), NEW token
    PROVE  /\ IsFiniteSet(Yield(token)) /\ IsFiniteSet(PastCheck(token))
           /\ Cardinality(Yield(token)) \in Nat /\ Cardinality(PastCheck(token)) \in Nat
           /\ Cardinality(Calls) \in Nat
           /\ Cardinality(PastCheck(token)) <= Cardinality(Calls)
  <1>1. IsFiniteSet(Sessions)
    BY OtpAuthAssumption, FS_Interval DEF Sessions
  <1>2. Yield(token) \subseteq Sessions /\ PastCheck(token) \subseteq Calls
    BY DEF Yield, PastCheck
  <1> QED BY <1>1, <1>2, FS_Subset, FS_CardinalityType

\* An unspent token has yielded nothing.
LEMMA UnspentYieldsNothing ==
    ASSUME SessionsHaveSource, NEW token, token \notin used
    PROVE  Yield(token) = {}
  BY DEF SessionsHaveSource, Yield

\* No session is added, and no call passes the check of this token.
LEMMA UsesWhenNoneAdded ==
    ASSUME IsFiniteSet(Calls), UsesWithinCalls,
           NEW token \in Otps \cup RefreshTokens,
           Yield(token)' = Yield(token), PastCheck(token)' \subseteq PastCheck(token)
    PROVE  Cardinality(Yield(token)') + Cardinality(PastCheck(token)')
              <= Cardinality(Calls)
  <1>1. /\ Cardinality(PastCheck(token)') <= Cardinality(PastCheck(token))
        /\ Cardinality(PastCheck(token)') \in Nat
    BY YieldAndPastAreFinite, FS_Subset, FS_CardinalityType
  <1>2. Cardinality(Yield(token)) + Cardinality(PastCheck(token)) <= Cardinality(Calls)
    BY DEF UsesWithinCalls
  <1> QED BY <1>1, <1>2, YieldAndPastAreFinite

\* One call draws one session: it is not past the check any more.
LEMMA UsesWhenDrawn ==
    ASSUME IsFiniteSet(Calls), UsesWithinCalls,
           NEW token \in Otps \cup RefreshTokens, NEW n, NEW c \in PastCheck(token),
           Yield(token)' \subseteq Yield(token) \cup {n},
           PastCheck(token)' \subseteq PastCheck(token) \ {c}
    PROVE  Cardinality(Yield(token)') + Cardinality(PastCheck(token)')
              <= Cardinality(Calls)
  <1>1. /\ Cardinality(PastCheck(token) \ {c}) = Cardinality(PastCheck(token)) - 1
        /\ IsFiniteSet(PastCheck(token) \ {c})
    BY YieldAndPastAreFinite, FS_RemoveElement
  <1>2. /\ Cardinality(PastCheck(token)') <= Cardinality(PastCheck(token) \ {c})
        /\ Cardinality(PastCheck(token)') \in Nat
    BY <1>1, FS_Subset, FS_CardinalityType
  <1>3. /\ Cardinality(Yield(token)') <= Cardinality(Yield(token)) + 1
        /\ Cardinality(Yield(token)') \in Nat
    <2>1. /\ IsFiniteSet(Yield(token) \cup {n})
          /\ Cardinality(Yield(token) \cup {n}) <= Cardinality(Yield(token)) + 1
      <3>1. IsFiniteSet(Yield(token)) /\ Cardinality(Yield(token)) \in Nat
        BY YieldAndPastAreFinite
      <3>2. /\ IsFiniteSet(Yield(token) \cup {n})
            /\ Cardinality(Yield(token) \cup {n}) =
                  IF n \in Yield(token) THEN Cardinality(Yield(token))
                                        ELSE Cardinality(Yield(token)) + 1
        BY <3>1, FS_AddElement
      <3> QED BY <3>1, <3>2
    <2>2. /\ IsFiniteSet(Yield(token)')
          /\ Cardinality(Yield(token)') <= Cardinality(Yield(token) \cup {n})
      BY <2>1, FS_Subset
    <2>3. Cardinality(Yield(token)') \in Nat /\ Cardinality(Yield(token) \cup {n}) \in Nat
      BY <2>1, <2>2, FS_CardinalityType
    <2> QED BY <2>1, <2>2, <2>3, YieldAndPastAreFinite
  <1>4. Cardinality(Yield(token)) + Cardinality(PastCheck(token)) <= Cardinality(Calls)
    BY DEF UsesWithinCalls
  <1> QED BY <1>1, <1>2, <1>3, <1>4, YieldAndPastAreFinite

LEMMA UsesWithinCallsNext ==
    ASSUME IsFiniteSet(Calls), OtpInv, UsesWithinCalls, [Next]_vars
    PROVE  UsesWithinCalls'
  <1>0. TypeOK /\ SessionsHaveSource
    BY DEF OtpInv
  <1> SUFFICES ASSUME NEW token \in Otps \cup RefreshTokens
               PROVE  Cardinality(Yield(token)') + Cardinality(PastCheck(token)')
                         <= Cardinality(Calls)
    BY DEF UsesWithinCalls
  <1>1. ASSUME sessions' = sessions PROVE Yield(token)' = Yield(token)
    BY <1>1 DEF Yield
  <1>2. ASSUME NEW c \in Calls, OthersStay(c), step'[c] = "start"
        PROVE  PastCheck(token)' \subseteq PastCheck(token) \ {c}
    BY <1>2, OthersPast DEF PastCheck
  <1>3. ASSUME NEW c \in Calls, OthersStay(c), step'[c] = "start", sessions' = sessions
        PROVE  Cardinality(Yield(token)') + Cardinality(PastCheck(token)')
                  <= Cardinality(Calls)
    BY <1>1, <1>2, <1>3, UsesWhenNoneAdded
  <1>4. ASSUME NEW c \in Calls, Reads(c)
        PROVE  Cardinality(Yield(token)') + Cardinality(PastCheck(token)')
                  <= Cardinality(Calls)
    <2>1. OthersStay(c) /\ sessions' = sessions /\ used' = used /\ calls' = calls
      BY <1>4, ReadsEffect DEF tables
    <2>2. CASE c \in PastCheck(token) \/ c \notin PastCheck(token)'
      <3>1. PastCheck(token)' \subseteq PastCheck(token)
        BY <2>1, <2>2, OthersPast
      <3> QED BY <1>1, <2>1, <3>1, UsesWhenNoneAdded
    <2>3. CASE c \notin PastCheck(token) /\ c \in PastCheck(token)'
      <3>1. UsesToken(c, token) /\ step[c] = "start"
        BY <2>1, <2>3 DEF PastCheck, UsesToken, Serves
      <3>2. token \notin used
        BY <1>4, <3>1, ReadsEffect DEF Redeemable, Exchangeable, UsesToken, At, Serves,
                                       Administers
      <3>3. Yield(token)' = {}
        BY <1>0, <1>1, <2>1, <3>2, UnspentYieldsNothing
      <3>4. PastCheck(token)' \subseteq Calls
        BY DEF PastCheck
      <3>5. /\ Cardinality(PastCheck(token)') \in Nat
            /\ Cardinality(PastCheck(token)') <= Cardinality(Calls)
        BY <3>4, FS_Subset, FS_CardinalityType
      <3>6. Cardinality(Yield(token)') = 0
        BY <3>3, FS_EmptySet
      <3> QED BY <3>5, <3>6
    <2> QED BY <2>2, <2>3
  <1>5. ASSUME NEW c \in Calls, CommitLogin(c) \/ CommitRefresh(c)
        PROVE  Cardinality(Yield(token)') + Cardinality(PastCheck(token)')
                  <= Cardinality(Calls)
    <2>1. OthersStay(c) /\ step'[c] = "start"
      BY <1>0, <1>5, LeaveEffect DEF CommitLogin, CommitRefresh
    <2>2. PICK n \in Sessions, row \in SessionRows :
             /\ sessions'[n] = row /\ sessions[n] = Null
             /\ \A m \in Sessions \ {n} : sessions'[m] = sessions[m]
             /\ \/ Serves(c, "redeem") /\ row.source = calls[c].otp
                \/ Serves(c, "refresh") /\ row.source = calls[c].token
      BY <1>5, Issued
    <2>3. step[c] # "start"
      BY <1>5 DEF CommitLogin, CommitRefresh, At
    <2>4. CASE row.source = token
      <3>1. c \in PastCheck(token)
        BY <2>2, <2>3, <2>4 DEF PastCheck, UsesToken
      <3>2. Yield(token)' \subseteq Yield(token) \cup {n}
        BY <2>2 DEF Yield
      <3> QED BY <1>2, <2>1, <3>1, <3>2, UsesWhenDrawn
    <2>5. CASE row.source # token
      <3>1. Yield(token)' = Yield(token)
        BY <2>2, <2>5 DEF Yield
      <3> QED BY <1>2, <2>1, <3>1, UsesWhenNoneAdded
    <2> QED BY <2>4, <2>5
  <1>6. ASSUME NEW c \in Calls, NEW request \in Requests, Start(c, request)
        PROVE  OthersStay(c) /\ step'[c] = "start" /\ sessions' = sessions
    BY <1>0, <1>6 DEF Start, OthersStay, TypeOK, tables
  <1>7. ASSUME NEW c \in Calls, Refuses(c)
        PROVE  OthersStay(c) /\ step'[c] = "start" /\ sessions' = sessions
    BY <1>0, <1>7, RefusesLeaves, LeaveEffect DEF tables
  <1>8. ASSUME NEW c \in Calls, CommitRegister(c) \/ CommitActivation(c) \/ CommitUpdate(c)
        PROVE  OthersStay(c) /\ step'[c] = "start" /\ sessions' = sessions
    BY <1>0, <1>8, CommitsLeaves, LeaveEffect, CommitRegisterEffect, AdministersEffect
       DEF Commits
  <1>9. ASSUME NEW c \in Calls, NEW code \in Codes, CommitOtp(c, code)
        PROVE  OthersStay(c) /\ step'[c] = "start" /\ sessions' = sessions
    BY <1>0, <1>9, LeaveEffect DEF CommitOtp
  <1>10. ASSUME UNCHANGED vars
         PROVE  Yield(token)' = Yield(token) /\ PastCheck(token)' = PastCheck(token)
    BY <1>10 DEF vars, tables, Yield, PastCheck, UsesToken, Serves
  <1>11. CASE UNCHANGED vars
    BY <1>10, <1>11, UsesWhenNoneAdded
  <1> QED BY <1>3, <1>4, <1>5, <1>6, <1>7, <1>8, <1>9, <1>11, ByKind DEF Commits

\* However uses of one token overlap, the sessions it has yielded and the calls
\* that may still draw one are together at most as many as there are calls in
\* progress together: a use that begins after the first is committed is refused
\* (services/ecommerce.py lines 128 and 159).
THEOREM UsesAreBounded ==
    ASSUME IsFiniteSet(Calls)
    PROVE  Spec => []UsesWithinCalls
  <1>1. Init => UsesWithinCalls
    <2> SUFFICES ASSUME Init, NEW token \in Otps \cup RefreshTokens
                 PROVE  Cardinality(Yield(token)) + Cardinality(PastCheck(token))
                           <= Cardinality(Calls)
      BY DEF UsesWithinCalls
    <2>1. Yield(token) = {} /\ PastCheck(token) = {}
      BY DEF Init, Yield, PastCheck
    <2> QED BY <2>1, FS_EmptySet, FS_CardinalityType
  <1>2. OtpInv /\ UsesWithinCalls /\ [Next]_vars => UsesWithinCalls'
    BY UsesWithinCallsNext
  <1> QED BY <1>1, <1>2, Invariance, PTL DEF Spec
=============================================================================
