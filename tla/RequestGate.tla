---------------------------- MODULE RequestGate ----------------------------
(***************************************************************************)
(* get_current_user() of api/deps.py, which stands before every endpoint   *)
(* with @allowed_roles, over the tokens of TokenLifetime and accounts that *)
(* administrators change meanwhile.                                        *)
(*                                                                         *)
(* A bearer token names its user by id.  Once it is decoded and not found  *)
(* in the blacklist, the user's row is selected; basic credentials select  *)
(* the row by username.  From the row on there is no await up to the       *)
(* verdict.  One Authorization header carries one scheme, so a request     *)
(* never falls through from a token to basic credentials.                  *)
(*                                                                         *)
(* Whoever passes the last check fails at line 179, which reads an         *)
(* attribute no row has.  The role check behind it is never reached.       *)
(*                                                                         *)
(* Names that repeat are the matter of UserTable: here a name has one row. *)
(***************************************************************************)
EXTENDS TokenLifetime

CONSTANTS
    Users,
    UserOf          \* the user a login's token names

\* "error": past the checks, and AttributeError at line 179.
Verdicts == {"unauthorized", "error"}

\* A request at the gate.  ever, always: whether its user's account was in order
\* at some time, or all the time, between its begin and the verdict; known: there
\* is a token that was accepted so far, or the password is right.
AtGate == [user : Users, at : {"blacklist", "row"} \cup Verdicts,
           known : BOOLEAN, ever : BOOLEAN, always : BOOLEAN]

ASSUME RequestGateAssumption == /\ UserOf \in [Logins -> Users]
                                /\ None \notin AtGate

VARIABLES
    accounts,   \* [u]: the row of user
    gate        \* [r]: what the gate awaits for a request, then its verdict

gateVars == <<accounts, gate>>
allVars == <<vars, gateVars>>

Accounts == [is_active : BOOLEAN, is_deleted : BOOLEAN]

GateInit ==
    /\ Init
    /\ accounts = [u \in Users |-> [is_active |-> TRUE, is_deleted |-> FALSE]]
    /\ gate = [r \in Requests |-> None]

Entitled(row) == row.is_active /\ ~row.is_deleted

-----------------------------------------------------------------------------
Began(user, at, known) ==
    [user |-> user, at |-> at, known |-> known,
     ever |-> Entitled(accounts[user]), always |-> Entitled(accounts[user])]

\* decode() accepts the token, and the blacklist is asked.
BeginBearer(r, s, kind) ==
    /\ gate[r] = None
    /\ Decode(r, s, kind)
    /\ gate' = [gate EXCEPT ![r] = Began(UserOf[s], "blacklist", TRUE)]
    /\ UNCHANGED accounts

\* decode() refuses the token, or there is no header with a known scheme.
Unrecognised == (\E s \in Logins : DecodeExpired(s)) /\ UNCHANGED gateVars

\* authenticate() selects the row by name; known: the password is right.
BeginBasic(r, user, known) ==
    /\ gate[r] = None
    /\ gate' = [gate EXCEPT ![r] = Began(user, "row", known)]
    /\ UNCHANGED <<vars, accounts>>

\* An access token that is not in the blacklist: its user's row is selected.
TokenAccepted(r) ==
    /\ Admit(r)
    /\ gate' = [gate EXCEPT ![r].at = "row"]
    /\ UNCHANGED accounts

\* The verdict stands until the request is over.
Answer(r, verdict) ==
    /\ gate' = [gate EXCEPT ![r].at = verdict]
    /\ UNCHANGED accounts

TokenRefused(r) == /\ Refuse(r)
                   /\ gate' = [gate EXCEPT ![r] = None]
                   /\ UNCHANGED accounts

\* crud.get() and get_by_username() leave removed rows out.
Found(r) == gate[r].known /\ ~accounts[gate[r].user].is_deleted

\* Mutant: a token is enough, the account's state is not looked at.
MayEnterInactive(r) == Found(r)

MayEnter(r) == Found(r) /\ accounts[gate[r].user].is_active

\* Lines 175 to 179: no await lies between.
Verdict(r) == IF MayEnter(r) THEN "error" ELSE "unauthorized"

ReadRow(r) ==
    /\ gate[r] # None
    /\ gate[r].at = "row"
    /\ Answer(r, Verdict(r))
    /\ UNCHANGED vars

\* The request is over; or the database does not answer, which is
\* invalid_token for a bearer and 500 otherwise.
EndGate(r) ==
    /\ gate[r] # None
    /\ gate[r].at # "blacklist"
    /\ gate' = [gate EXCEPT ![r] = None]
    /\ UNCHANGED <<vars, accounts>>

-----------------------------------------------------------------------------
Waits(r) == gate[r] # None /\ gate[r].at \in {"blacklist", "row"}

\* update_user(), set_user_activation(), remove(): a removed user stays so.
ChangeAccount(user, row) ==
    /\ accounts[user].is_deleted => row.is_deleted
    /\ accounts' = [accounts EXCEPT ![user] = row]
    /\ gate' = [r \in Requests |->
           IF Waits(r) /\ gate[r].user = user
           THEN [gate[r] EXCEPT !.ever = @ \/ Entitled(row),
                                !.always = @ /\ Entitled(row)]
           ELSE gate[r]]
    /\ UNCHANGED vars

\* The clock, logins and logouts go on as in TokenLifetime.
Elsewhere ==
    /\ \/ Tick
       \/ \E s \in Logins : Login(s)
       \/ \E l \in Logouts : \/ \E s \in Logins : ComputeExpiry(l, s)
                             \/ StoreToken(l)
                             \/ FailLogout(l)
    /\ UNCHANGED gateVars

GateNext ==
    \/ \E r \in Requests : \/ \E s \in Logins, kind \in TokenKinds : BeginBearer(r, s, kind)
                           \/ \E user \in Users, known \in BOOLEAN : BeginBasic(r, user, known)
                           \/ TokenAccepted(r)
                           \/ TokenRefused(r)
                           \/ ReadRow(r)
                           \/ EndGate(r)
    \/ Unrecognised
    \/ \E user \in Users, row \in Accounts : ChangeAccount(user, row)
    \/ Elsewhere

GateSpec == GateInit /\ [][GateNext]_allVars

-----------------------------------------------------------------------------
\* Each variable has its type, those of TokenLifetime included, and a request
\* whose token is decoded and not looked up is with the blacklist.
GateTypeOK ==
    /\ TypeOK
    /\ accounts \in [Users -> Accounts]
    /\ gate \in [Requests -> AtGate \cup {None}]
    /\ \A r \in Requests : requests[r] # None =>
           gate[r] # None /\ gate[r].at = "blacklist"

\* The verdict fits the request.  Whoever gets past the last check was active
\* and not removed at a moment of the request at which the token or password
\* was good: accounts that change to and fro and tokens issued earlier get nobody
\* in (a login code or a refresh token still yields tokens to a deactivated
\* account, services/ecommerce.py:133).  Whoever is turned away after the row
\* was read was not in order all along.
VerdictFitsRequest ==
    \A r \in Requests : gate[r] # None =>
        /\ gate[r].at = "error" => gate[r].known /\ gate[r].ever
        /\ gate[r].at = "unauthorized" => ~(gate[r].known /\ gate[r].always)

\* Whoever has an accepted token or the right password, and an account that is
\* in order all along, is let in: tests/api/api_v1/test_auth.py:51 "assert
\* response.status_code == 200".
EntitledPass ==
    \A r \in Requests : (gate[r] # None /\ gate[r].known /\ gate[r].always) =>
        gate[r].at \notin Verdicts
=============================================================================
