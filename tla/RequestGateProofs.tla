-------------------------- MODULE RequestGateProofs -------------------------
(***************************************************************************)
(* Theorems about TokenLifetime, for any lifetimes, any resolution of the  *)
(* clock and any number of logins, requests and logouts, and about         *)
(* RequestGate, for any users as well.  The gate projects onto             *)
(* TokenLifetime, whose theorems hold there too.                           *)
(***************************************************************************)
EXTENDS RequestGate, TLAPS

\* Rounding down to whole seconds loses less than a second.
LEMMA SecondsFloor ==
    ASSUME NEW t \in Int
    PROVE  /\ Seconds(t) \in Int
           /\ Seconds(t) * TicksPerSecond <= t
           /\ t < Seconds(t) * TicksPerSecond + TicksPerSecond
  BY TokenLifetimeAssumption DEF Seconds

LEMMA SecondsNat ==
    ASSUME NEW t \in Nat
    PROVE  Seconds(t) \in Nat
  BY TokenLifetimeAssumption DEF Seconds

LEMMA TypeOKNext == TypeOK /\ [Next]_vars => TypeOK'
  <1> SUFFICES ASSUME TypeOK, [Next]_vars PROVE TypeOK'
    OBVIOUS
  <1> USE TokenLifetimeAssumption DEF TypeOK, Time
  <1>1. CASE Tick
    BY <1>1 DEF Tick
  <1>2. ASSUME NEW s \in Logins, Login(s)
        PROVE  TypeOK'
    BY <1>2 DEF Login
  <1>3. ASSUME NEW r \in Requests, NEW s \in Logins, NEW kind \in TokenKinds,
               Decode(r, s, kind)
        PROVE  TypeOK'
    BY <1>3 DEF Decode
  <1>4. ASSUME NEW r \in Requests, Admit(r)
        PROVE  TypeOK'
    BY <1>4 DEF Admit, EndRequest
  <1>5. ASSUME NEW r \in Requests, Refuse(r)
        PROVE  TypeOK'
    BY <1>5 DEF Refuse, EndRequest
  <1>6. ASSUME NEW l \in Logouts, NEW s \in Logins, ComputeExpiry(l, s)
        PROVE  TypeOK'
    <2>1. Expiry(s) \in Int
      BY <1>6, SecondsFloor DEF ComputeExpiry, Live, Expiry
    <2>2. Expiry(s) - clock \in Nat
      BY <1>6, <2>1 DEF ComputeExpiry, Live
    <2>3. SecondsLeft(s) \in Nat
      BY <2>2, SecondsNat DEF SecondsLeft
    <2> QED BY <1>6, <2>3 DEF ComputeExpiry
  <1>7. ASSUME NEW l \in Logouts, StoreToken(l)
        PROVE  TypeOK'
    <2>1. logouts[l].login \in Logins /\ logouts[l].seconds \in Nat
      BY <1>7 DEF StoreToken
    <2>2. clock + logouts[l].seconds * TicksPerSecond \in Nat
      BY <2>1
    <2> QED BY <1>7, <2>1, <2>2 DEF StoreToken, EndLogout
  <1>8. ASSUME NEW l \in Logouts, FailLogout(l)
        PROVE  TypeOK'
    BY <1>8 DEF FailLogout, EndLogout
  <1>9. CASE UNCHANGED vars
    BY <1>9 DEF vars
  <1> QED
    BY <1>1, <1>2, <1>3, <1>4, <1>5, <1>6, <1>7, <1>8, <1>9 DEF Next, DecodeExpired

\* Every state has the declared types; Redis is never given a negative expiry.
THEOREM TypeCorrect == Spec => []TypeOK
  <1>1. Init => TypeOK
    BY TokenLifetimeAssumption DEF Init, TypeOK, Time
  <1> QED BY <1>1, TypeOKNext, PTL DEF Spec

-----------------------------------------------------------------------------
\* A pending SET will cover its token however late it is executed.
PendingCovers ==
    \A l \in Logouts : logouts[l] # None =>
        /\ issued[logouts[l].login] # None
        /\ clock + logouts[l].seconds * TicksPerSecond + TicksPerSecond
               > Expiry(logouts[l].login)

\* Who has logged out is on the blacklist, and requests know about it.
LateIsStored ==
    /\ \A s \in loggedOut : blacklist[s] # None
    /\ \A r \in Requests : (requests[r] # None /\ requests[r].late) =>
           requests[r].login \in loggedOut
    /\ (admitted # None /\ admitted.late) => admitted.login \in loggedOut

LifetimeInv == /\ TypeOK
               /\ PendingCovers
               /\ BlacklistCoversToken
               /\ LateIsStored
               /\ LateOnlyInLastSecond

\* Tokens keep their expiry: a login issues them once.
LEMMA ExpiryKept ==
    ASSUME TypeOK, [Next]_vars, NEW s \in Logins, issued[s] # None
    PROVE  /\ issued'[s] # None
           /\ Expiry(s)' = Expiry(s)
           /\ Expiry(s) \in Int
  <1> USE TokenLifetimeAssumption DEF TypeOK, Time
  <1>1. issued'[s] = issued[s]
    BY DEF Next, vars, Tick, Login, DecodeExpired, Decode, Admit, Refuse, EndRequest,
           ComputeExpiry, StoreToken, FailLogout, EndLogout
  <1>2. Expiry(s) \in Int
    BY SecondsFloor DEF Expiry
  <1> QED BY <1>1, <1>2 DEF Expiry, Seconds

LEMMA InvNext == LifetimeInv /\ [Next]_vars => LifetimeInv'
  <1> SUFFICES ASSUME LifetimeInv, [Next]_vars PROVE LifetimeInv'
    OBVIOUS
  <1> USE TokenLifetimeAssumption DEF LifetimeInv
  <1>1. TypeOK /\ TypeOK'
    BY TypeOKNext
  <1>2. clock' >= clock
    BY <1>1 DEF Next, vars, Tick, Login, DecodeExpired, Decode, Admit, Refuse, EndRequest,
           ComputeExpiry, StoreToken, FailLogout, EndLogout, TypeOK, Time
  <1>3. loggedOut \subseteq loggedOut'
    BY DEF Next, vars, Tick, Login, DecodeExpired, Decode, Admit, Refuse, EndRequest,
           ComputeExpiry, StoreToken, FailLogout, EndLogout
  <1>4. PendingCovers'
    <2> SUFFICES ASSUME NEW l \in Logouts, logouts'[l] # None
                 PROVE  /\ issued'[logouts'[l].login] # None
                        /\ clock' + logouts'[l].seconds * TicksPerSecond + TicksPerSecond
                               > Expiry(logouts[l].login)'
      BY DEF PendingCovers
    <2>1. CASE logouts'[l] = logouts[l]
      <3>1. PICK s \in Logins : s = logouts[l].login
        BY <1>1, <2>1 DEF TypeOK
      <3>2. logouts[l].seconds * TicksPerSecond \in Int
        BY <1>1, <2>1 DEF TypeOK
      <3>3. /\ issued[s] # None
            /\ clock + logouts[l].seconds * TicksPerSecond + TicksPerSecond > Expiry(s)
        BY <2>1, <3>1 DEF PendingCovers
      <3>4. /\ issued'[s] # None
            /\ Expiry(s)' = Expiry(s)
            /\ Expiry(s) \in Int
        BY <1>1, <3>3, ExpiryKept
      <3>5. Expiry(logouts[l].login)' = Expiry(s)'
        BY <2>1, <3>1 DEF Expiry
      <3>6. clock \in Int /\ clock' \in Int
        BY <1>1 DEF TypeOK, Time
      <3> QED BY <1>2, <2>1, <3>1, <3>2, <3>3, <3>4, <3>5, <3>6
    <2>2. ASSUME NEW s \in Logins, ComputeExpiry(l, s)
          PROVE  /\ issued'[logouts'[l].login] # None
                 /\ clock' + logouts'[l].seconds * TicksPerSecond + TicksPerSecond
                        > Expiry(logouts[l].login)'
      <3>1. issued[s] # None /\ clock' = clock /\ clock \in Int
        BY <1>1, <2>2 DEF ComputeExpiry, Live, TypeOK, Time
      <3>2. logouts'[l] = [login |-> s, seconds |-> SecondsLeft(s)]
        BY <1>1, <2>2 DEF ComputeExpiry, TypeOK
      <3>3. /\ issued'[s] # None
            /\ Expiry(s)' = Expiry(s)
            /\ Expiry(s) \in Int
        BY <1>1, <3>1, ExpiryKept
      <3>4. /\ Expiry(s) - clock < SecondsLeft(s) * TicksPerSecond + TicksPerSecond
            /\ SecondsLeft(s) \in Int
        BY <3>1, <3>3, SecondsFloor DEF SecondsLeft
      <3>5. SecondsLeft(s) * TicksPerSecond \in Int
        BY <3>4
      <3>6. Expiry(logouts[l].login)' = Expiry(s)'
        BY <3>2 DEF Expiry
      <3> QED BY <3>1, <3>2, <3>3, <3>4, <3>5, <3>6
    <2>3. logouts'[l] = logouts[l] \/ \E s \in Logins : ComputeExpiry(l, s)
      BY <1>1 DEF Next, vars, Tick, Login, DecodeExpired, Decode, Admit, Refuse, EndRequest,
           ComputeExpiry, StoreToken, FailLogout, EndLogout, TypeOK
    <2> QED BY <2>1, <2>2, <2>3
  <1>5. BlacklistCoversToken'
    <2> SUFFICES ASSUME NEW s \in Logins, blacklist'[s] # None
                 PROVE  issued'[s] # None /\ blacklist'[s] + TicksPerSecond > Expiry(s)'
      BY DEF BlacklistCoversToken
    <2>1. CASE blacklist'[s] = blacklist[s]
      BY <1>1, <2>1, ExpiryKept DEF BlacklistCoversToken
    <2>2. ASSUME NEW l \in Logouts, StoreToken(l), logouts[l].login = s
          PROVE  issued'[s] # None /\ blacklist'[s] + TicksPerSecond > Expiry(s)'
      <3>1. blacklist'[s] = clock + logouts[l].seconds * TicksPerSecond
        BY <1>1, <2>2 DEF StoreToken, TypeOK
      <3>2. /\ issued[s] # None
            /\ clock + logouts[l].seconds * TicksPerSecond + TicksPerSecond > Expiry(s)
        BY <2>2 DEF PendingCovers, StoreToken
      <3> QED BY <1>1, <3>1, <3>2, ExpiryKept
    <2>3. \/ blacklist'[s] = blacklist[s]
          \/ \E l \in Logouts : StoreToken(l) /\ logouts[l].login = s
      BY <1>1 DEF Next, vars, Tick, Login, DecodeExpired, Decode, Admit, Refuse, EndRequest,
           ComputeExpiry, StoreToken, FailLogout, EndLogout, TypeOK
    <2> QED BY <2>1, <2>2, <2>3
  <1>6. LateIsStored'
    <2>1. \A s \in Logins : blacklist[s] # None => blacklist'[s] # None
      BY <1>1 DEF Next, vars, Tick, Login, DecodeExpired, Decode, Admit, Refuse, EndRequest,
           ComputeExpiry, StoreToken, FailLogout, EndLogout, TypeOK, Time
    <2>2. \A s \in loggedOut' : blacklist'[s] # None
      BY <1>1, <2>1 DEF LateIsStored, Next, vars, Tick, Login, DecodeExpired, Decode, Admit,
           Refuse, EndRequest, ComputeExpiry, StoreToken, FailLogout, EndLogout, TypeOK, Time
    <2>3. \A r \in Requests : (requests'[r] # None /\ requests'[r].late) =>
              requests'[r].login \in loggedOut'
      BY <1>1, <1>3 DEF LateIsStored, Next, vars, Tick, Login, DecodeExpired, Decode, Admit,
           Refuse, EndRequest, ComputeExpiry, StoreToken, FailLogout, EndLogout, TypeOK
    <2>4. (admitted' # None /\ admitted'.late) => admitted'.login \in loggedOut'
      BY <1>1, <1>3 DEF LateIsStored, Next, vars, Tick, Login, DecodeExpired, Decode, Admit,
           Refuse, EndRequest, ComputeExpiry, StoreToken, FailLogout, EndLogout, TypeOK
    <2> QED BY <2>2, <2>3, <2>4 DEF LateIsStored
  <1>7. LateOnlyInLastSecond'
    <2> SUFFICES ASSUME admitted' # None, admitted'.late
                 PROVE  admitted'.at + TicksPerSecond > Expiry(admitted.login)'
      BY DEF LateOnlyInLastSecond
    <2>1. CASE admitted' = admitted
      <3>1. PICK s \in Logins : s = admitted.login
        BY <1>1, <2>1 DEF TypeOK
      <3>2. issued[s] # None /\ admitted.at + TicksPerSecond > Expiry(s)
        BY <2>1, <3>1 DEF LateIsStored, BlacklistCoversToken, LateOnlyInLastSecond
      <3>3. Expiry(s)' = Expiry(s)
        BY <1>1, <3>2, ExpiryKept
      <3>4. Expiry(admitted.login)' = Expiry(s)'
        BY <2>1, <3>1 DEF Expiry
      <3> QED BY <2>1, <3>2, <3>3, <3>4
    <2>2. ASSUME NEW r \in Requests, Admit(r)
          PROVE  admitted'.at + TicksPerSecond > Expiry(admitted.login)'
      <3>0. PICK s \in Logins : s = requests[r].login
        BY <1>1, <2>2 DEF Admit, TypeOK
      <3>1. s \in Logins /\ admitted'.login = s /\ admitted'.at = clock /\ clock \in Int
        BY <1>1, <2>2, <3>0 DEF Admit, TypeOK, Time
      <3>2. requests[r] # None /\ requests[r].late
        BY <2>2 DEF Admit
      <3>3. blacklist[s] # None
        BY <3>0, <3>2 DEF LateIsStored
      <3>4. clock > blacklist[s] /\ blacklist[s] \in Int
        BY <1>1, <2>2, <3>0, <3>3 DEF Admit, MayPass, Blacklisted, TypeOK, Time
      <3>5. issued[s] # None /\ blacklist[s] + TicksPerSecond > Expiry(s)
        BY <3>1, <3>3 DEF BlacklistCoversToken
      <3>6. Expiry(s)' = Expiry(s) /\ Expiry(s) \in Int
        BY <1>1, <3>1, <3>5, ExpiryKept
      <3>7. Expiry(admitted.login)' = Expiry(s)'
        BY <3>1 DEF Expiry
      <3> QED BY <3>1, <3>4, <3>5, <3>6, <3>7
    <2>3. admitted' = admitted \/ \E r \in Requests : Admit(r)
      BY DEF Next, vars, Tick, Login, DecodeExpired, Decode, Refuse, EndRequest,
           ComputeExpiry, StoreToken, FailLogout, EndLogout
    <2> QED BY <2>1, <2>2, <2>3
  <1> QED BY <1>1, <1>4, <1>5, <1>6, <1>7

THEOREM Invariance == Spec => []LifetimeInv
  <1>1. Init => LifetimeInv
    BY TokenLifetimeAssumption
    DEF Init, LifetimeInv, TypeOK, Time, PendingCovers, BlacklistCoversToken,
        LateIsStored, LateOnlyInLastSecond
  <1> QED BY <1>1, InvNext, PTL DEF Spec

\* A blacklist entry outlives its token up to the last second.
THEOREM BlacklistCovers == Spec => []BlacklistCoversToken
  BY Invariance, PTL DEF LifetimeInv

\* A token that was logged out can be used in its last second at most.
THEOREM LateIsBounded == Spec => []LateOnlyInLastSecond
  BY Invariance, PTL DEF LifetimeInv

-----------------------------------------------------------------------------
\* Whatever the gate does, tokens and blacklist take a step of TokenLifetime.
LEMMA GateStep == GateNext => [Next]_vars
  <1> SUFFICES ASSUME GateNext PROVE [Next]_vars
    OBVIOUS
  <1>1. ASSUME NEW r \in Requests, NEW s \in Logins, NEW kind \in TokenKinds,
               BeginBearer(r, s, kind)
        PROVE  [Next]_vars
    BY <1>1 DEF BeginBearer, Next
  <1>2. ASSUME NEW r \in Requests, TokenAccepted(r) \/ TokenRefused(r)
        PROVE  [Next]_vars
    BY <1>2 DEF TokenAccepted, TokenRefused, Next
  <1>3. ASSUME NEW r \in Requests,
               \/ \E user \in Users, known \in BOOLEAN : BeginBasic(r, user, known)
               \/ ReadRow(r)
               \/ EndGate(r)
        PROVE  [Next]_vars
    BY <1>3 DEF BeginBasic, ReadRow, EndGate
  <1>4. CASE Unrecognised
    BY <1>4 DEF Unrecognised, Next
  <1>5. CASE \E user \in Users, row \in Accounts : ChangeAccount(user, row)
    BY <1>5 DEF ChangeAccount
  <1>6. CASE Elsewhere
    BY <1>6 DEF Elsewhere, Next
  <1> QED BY <1>1, <1>2, <1>3, <1>4, <1>5, <1>6 DEF GateNext

\* By the shape of the actions: what the gate does with tokens, blacklist and
\* clock (deps.py lines 74-92 inside lines 141-180) are the actions of
\* TokenLifetime.  It carries the theorems about them over.
LEMMA GateImplementsTokenLifetime == GateSpec => Spec
  <1>1. GateInit => Init
    BY DEF GateInit
  <1>2. [GateNext]_allVars => [Next]_vars
    BY GateStep DEF allVars
  <1> QED BY <1>1, <1>2, PTL DEF GateSpec, Spec

\* No blacklist entry falls short of its token by a second, with the gate in
\* front of the endpoints as well.
THEOREM GateBlacklistCovers == GateSpec => []BlacklistCoversToken
  BY GateImplementsTokenLifetime, BlacklistCovers, PTL

\* A request that begins after the logout passes the blacklist in the last
\* second of its token only.
THEOREM GateLateIsBounded == GateSpec => []LateOnlyInLastSecond
  BY GateImplementsTokenLifetime, LateIsBounded, PTL

-----------------------------------------------------------------------------
\* While a request waits, "always" implies that its user is entitled now, and
\* that in turn implies "ever".
Bracketed == \A r \in Requests : Waits(r) =>
    /\ gate[r].always => Entitled(accounts[gate[r].user])
    /\ Entitled(accounts[gate[r].user]) => gate[r].ever

GateVarsOK ==
    /\ accounts \in [Users -> Accounts]
    /\ gate \in [Requests -> AtGate \cup {None}]
    /\ \A r \in Requests : requests[r] # None =>
           gate[r] # None /\ gate[r].at = "blacklist"

GateInv == /\ GateVarsOK
           /\ Bracketed
           /\ VerdictFitsRequest

LEMMA GateInvInit == GateInit => GateInv
  BY RequestGateAssumption
  DEF GateInit, Init, GateInv, GateVarsOK, Accounts, Bracketed, Waits,
      VerdictFitsRequest, Entitled

\* A request that begins is bracketed at once.
LEMMA BeganOK ==
    ASSUME NEW user \in Users, NEW at \in {"blacklist", "row"}, NEW known \in BOOLEAN,
           accounts \in [Users -> Accounts]
    PROVE  /\ Began(user, at, known) \in AtGate
           /\ Began(user, at, known) # None
           /\ Began(user, at, known).user = user
           /\ Began(user, at, known).at = at
           /\ Began(user, at, known).ever = Entitled(accounts[user])
           /\ Began(user, at, known).always = Entitled(accounts[user])
  <1>1. Entitled(accounts[user]) \in BOOLEAN
    BY DEF Entitled, Accounts
  <1>2. Began(user, at, known) \in AtGate
    BY <1>1 DEF Began, AtGate
  <1> QED BY <1>2, RequestGateAssumption DEF Began

LEMMA GateInvNext == TypeOK /\ GateInv /\ [GateNext]_allVars => GateInv'
  <1> SUFFICES ASSUME TypeOK, GateInv, [GateNext]_allVars PROVE GateInv'
    OBVIOUS
  <1> USE RequestGateAssumption
      DEF GateInv, GateVarsOK, Bracketed, Waits, VerdictFitsRequest
  <1>1. ASSUME NEW r \in Requests, NEW s \in Logins, NEW kind \in TokenKinds,
               BeginBearer(r, s, kind)
        PROVE  GateInv'
    <2>1. UserOf[s] \in Users
      OBVIOUS
    <2>2. requests' = [requests EXCEPT ![r] =
                          [login |-> s, kind |-> kind, late |-> s \in loggedOut]]
      BY <1>1 DEF BeginBearer, Decode
    <2>3. gate' = [gate EXCEPT ![r] = Began(UserOf[s], "blacklist", TRUE)]
          /\ accounts' = accounts
      BY <1>1 DEF BeginBearer
    <2>4. requests \in [Requests -> [login : Logins, kind : TokenKinds, late : BOOLEAN]
                                    \cup {None}]
      BY DEF TypeOK
    <2>5. /\ gate'[r] \in AtGate /\ gate'[r] # None
          /\ gate'[r].user = UserOf[s] /\ gate'[r].at = "blacklist"
          /\ gate'[r].ever = Entitled(accounts[UserOf[s]])
          /\ gate'[r].always = Entitled(accounts[UserOf[s]])
      BY <2>1, <2>3, BeganOK
    <2>6. \A q \in Requests \ {r} : gate'[q] = gate[q] /\ requests'[q] = requests[q]
      BY <2>2, <2>3, <2>4
    <2>7. gate' \in [Requests -> AtGate \cup {None}]
      BY <2>3, <2>5
    <2> QED BY <2>3, <2>5, <2>6, <2>7
  <1>2. ASSUME NEW r \in Requests, NEW user \in Users, NEW known \in BOOLEAN,
               BeginBasic(r, user, known)
        PROVE  GateInv'
    <2>1. requests' = requests /\ accounts' = accounts
          /\ gate' = [gate EXCEPT ![r] = Began(user, "row", known)]
          /\ gate[r] = None
      BY <1>2 DEF BeginBasic, vars
    <2> QED BY <2>1, BeganOK
  <1>3. ASSUME NEW r \in Requests, TokenAccepted(r)
        PROVE  GateInv'
    <2>1. requests' = [requests EXCEPT ![r] = None] /\ requests[r] # None
          /\ accounts' = accounts /\ gate' = [gate EXCEPT ![r].at = "row"]
      BY <1>3 DEF TokenAccepted, Admit, EndRequest
    <2>2. gate[r] \in AtGate /\ gate[r].at = "blacklist"
      BY <2>1
    <2>3. gate'[r] = [gate[r] EXCEPT !.at = "row"] /\ gate'[r] \in AtGate
      BY <2>1, <2>2 DEF AtGate
    <2>4. \A q \in Requests \ {r} : gate'[q] = gate[q] /\ requests'[q] = requests[q]
      BY <2>1 DEF TypeOK
    <2>5. requests'[r] = None
      BY <2>1 DEF TypeOK
    <2> QED BY <2>1, <2>2, <2>3, <2>4, <2>5 DEF AtGate
  <1>4. ASSUME NEW r \in Requests, TokenRefused(r)
        PROVE  GateInv'
    <2>1. requests' = [requests EXCEPT ![r] = None]
          /\ accounts' = accounts /\ gate' = [gate EXCEPT ![r] = None]
      BY <1>4 DEF TokenRefused, Refuse, EndRequest
    <2> QED BY <2>1 DEF TypeOK
  <1>5. ASSUME NEW r \in Requests, ReadRow(r)
        PROVE  GateInv'
    <2>1. requests' = requests /\ accounts' = accounts
          /\ gate[r] # None /\ gate[r].at = "row"
          /\ gate' = [gate EXCEPT ![r].at = Verdict(r)]
      BY <1>5 DEF ReadRow, Answer, vars
    <2>2. gate[r] \in AtGate /\ Verdict(r) \in Verdicts
      BY <2>1 DEF Verdict, Verdicts
    <2>3. gate'[r] = [gate[r] EXCEPT !.at = Verdict(r)] /\ gate'[r] \in AtGate
      BY <2>1, <2>2 DEF AtGate
    <2>4. \A q \in Requests \ {r} : gate'[q] = gate[q]
      BY <2>1
    <2>5. accounts[gate[r].user] \in Accounts
      BY <2>2 DEF AtGate
    <2>6. Verdict(r) = "error" => gate[r].known /\ gate[r].ever
      BY <2>1, <2>2, <2>5
      DEF Verdict, MayEnter, Found, Entitled, Accounts, AtGate
    <2>7. gate[r].known /\ gate[r].always => Verdict(r) = "error"
      BY <2>1, <2>2, <2>5
      DEF Verdict, MayEnter, Found, Entitled, Accounts, AtGate
    <2>8. Verdict(r) \notin {"blacklist", "row"} /\ requests[r] = None
      BY <2>1, <2>2 DEF Verdicts
    <2> QED BY <2>1, <2>2, <2>3, <2>4, <2>6, <2>7, <2>8 DEF AtGate
  <1>6. ASSUME NEW r \in Requests, EndGate(r)
        PROVE  GateInv'
    BY <1>6 DEF EndGate, vars
  <1>7. ASSUME NEW user \in Users, NEW row \in Accounts, ChangeAccount(user, row)
        PROVE  GateInv'
    <2>1. requests' = requests
          /\ accounts' = [accounts EXCEPT ![user] = row]
      BY <1>7 DEF ChangeAccount, vars
    <2>2. ASSUME NEW r \in Requests, Waits(r), gate[r].user = user
          PROVE  /\ gate'[r] = [gate[r] EXCEPT !.ever = @ \/ Entitled(row),
                                               !.always = @ /\ Entitled(row)]
                 /\ gate[r] \in AtGate
      BY <1>7, <2>2 DEF ChangeAccount
    <2>3. ASSUME NEW r \in Requests, ~(Waits(r) /\ gate[r].user = user)
          PROVE  gate'[r] = gate[r]
      BY <1>7, <2>3 DEF ChangeAccount
    <2>4. Entitled(row) \in BOOLEAN
      BY DEF Entitled, Accounts
    <2>5. ASSUME NEW r \in Requests, Waits(r), gate[r].user = user
          PROVE  /\ gate'[r] \in AtGate
                 /\ gate'[r].user = user /\ gate'[r].at = gate[r].at
                 /\ gate'[r].known = gate[r].known
                 /\ gate'[r].ever = (gate[r].ever \/ Entitled(row))
                 /\ gate'[r].always = (gate[r].always /\ Entitled(row))
      <3>1. gate[r] \in AtGate
        BY <2>2, <2>5
      <3>2. /\ (gate[r].ever \/ Entitled(row)) \in BOOLEAN
            /\ (gate[r].always /\ Entitled(row)) \in BOOLEAN
        OBVIOUS
      <3>3. gate'[r] = [gate[r] EXCEPT !.ever = gate[r].ever \/ Entitled(row),
                                       !.always = gate[r].always /\ Entitled(row)]
        BY <2>2, <2>5
      <3> QED BY <2>5, <3>1, <3>2, <3>3 DEF AtGate
    <2>6. GateVarsOK'
      <3>1. DOMAIN gate' = Requests /\ gate' = [r \in Requests |-> gate'[r]]
        BY <1>7 DEF ChangeAccount
      <3>2. \A r \in Requests : gate'[r] \in AtGate \cup {None}
        BY <2>3, <2>5
      <3>3. \A r \in Requests : requests[r] # None => gate'[r] # None /\ gate'[r].at = "blacklist"
        BY <2>3, <2>5
      <3> QED BY <2>1, <3>1, <3>2, <3>3
    <2>7. Bracketed'
      <3> SUFFICES ASSUME NEW r \in Requests, Waits(r)'
                   PROVE  /\ gate'[r].always => Entitled(accounts'[gate'[r].user])
                          /\ Entitled(accounts'[gate'[r].user]) => gate'[r].ever
        OBVIOUS
      <3>1. CASE Waits(r) /\ gate[r].user = user
        BY <2>1, <2>5, <3>1
      <3>2. CASE ~(Waits(r) /\ gate[r].user = user)
        <4>1. gate'[r] = gate[r] /\ gate[r].user # user /\ gate[r] \in AtGate
          BY <2>3, <3>2
        <4>2. accounts'[gate[r].user] = accounts[gate[r].user]
          BY <2>1, <4>1 DEF AtGate
        <4> QED BY <4>1, <4>2
      <3> QED BY <3>1, <3>2
    <2>8. VerdictFitsRequest'
      <3>1. ASSUME NEW r \in Requests
            PROVE  \/ gate'[r] = gate[r]
                   \/ gate'[r] # None /\ gate'[r].at \in {"blacklist", "row"}
        BY <2>3, <2>5, RequestGateAssumption
      <3> QED BY <3>1
    <2> QED BY <2>6, <2>7, <2>8
  <1>8. CASE Unrecognised \/ Elsewhere \/ UNCHANGED allVars
    BY <1>8 DEF Unrecognised, DecodeExpired, Elsewhere, Tick, Login, ComputeExpiry,
                StoreToken, FailLogout, EndLogout, gateVars, allVars, vars
  <1> QED
    BY <1>1, <1>2, <1>3, <1>4, <1>5, <1>6, <1>7, <1>8 DEF GateNext

\* The inductive invariant of the gate, on top of the types of the tokens.
THEOREM GateInvariance == GateSpec => [](TypeOK /\ GateInv)
  <1>1. GateSpec => []TypeOK
    BY GateImplementsTokenLifetime, TypeCorrect, PTL
  <1> QED BY <1>1, GateInvInit, GateInvNext, PTL DEF GateSpec

\* Types of the gate and of the tokens.
THEOREM GateTypeCorrect == GateSpec => []GateTypeOK
  <1>1. TypeOK /\ GateInv => GateTypeOK
    BY DEF GateInv, GateVarsOK, GateTypeOK
  <1> QED BY <1>1, GateInvariance, PTL

\* Nobody gets past the last check (deps.py line 175) whose account was not in
\* order at one moment of the request, nor is turned away whose was all along.
THEOREM VerdictsFit == GateSpec => []VerdictFitsRequest
  <1>1. GateInv => VerdictFitsRequest
    BY DEF GateInv
  <1> QED BY <1>1, GateInvariance, PTL
=============================================================================
