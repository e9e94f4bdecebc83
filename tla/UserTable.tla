----------------------------- MODULE UserTable -----------------------------
(***************************************************************************)
(* The table user under the functions that write it: register() of         *)
(* services/auth.py, create_super_admin() of db/init_db.py, update_user()  *)
(* of services/users.py, remove() of crud/base.py; request_register_otp(), *)
(* which inserts users, and register_user() and set_user_activation(),     *)
(* which assign is_active, of services/ecommerce.py.                       *)
(*                                                                         *)
(* The phone number is unique among all rows, removed ones included.  The  *)
(* username is not: create looks it up in one statement and inserts in     *)
(* another.  An update writes the columns whose value it changed against   *)
(* the row it loaded.  The e-mail address behaves as the phone number      *)
(* does, the other columns as is_active does, and both are left out.       *)
(***************************************************************************)
EXTENDS Integers, Sequences

CONSTANTS
    Calls,      \* calls that may be in progress together
    Usernames,
    Phones,     \* phone numbers serve as usernames too
    Registered, \* what register() and create_super_admin() are called with
    Updates,    \* what update_user() is called with
    MaxUsers,   \* bound on the rows ever inserted
    Null        \* no value, idle

VARIABLES
    users,  \* the rows by id: is_deleted is never reset, so a Boolean here
    calls   \* [c]: what the call has read and is about to write

vars == <<users, calls>>

Rows == [username : Usernames, phone_number : Phones,
         is_active : BOOLEAN, is_deleted : BOOLEAN]

\* UserCreate, and the one of request_register_otp()
NewUsers == [username : Usernames, phone_number : Phones \cup {Null},
             is_active : BOOLEAN]

\* UserUpdate: what is Null is not changed, is_active is TRUE unless given.
Changes == [username : Usernames \cup {Null}, phone_number : Phones \cup {Null},
            is_active : BOOLEAN]

ASSUME UserTableAssumption == /\ Phones \subseteq Usernames
                              /\ Null \notin Usernames
                              /\ Registered \subseteq NewUsers
                              /\ Updates \subseteq Changes
                              /\ MaxUsers \in Nat

Init == users = <<>> /\ calls = [c \in Calls |-> Null]

-----------------------------------------------------------------------------
Live == {i \in DOMAIN users : ~users[i].is_deleted}

\* get_by_username(): more than one is an exception.
Named(username) == {i \in Live : users[i].username = username}

Serves(c, op) == calls[c] # Null /\ calls[c].op = op
Leave(c) == calls' = [calls EXCEPT ![c] = Null]

\* Mutant: whoever has the username is not looked up.
MayCreateAnyway(new) == TRUE

MayCreate(new) == Named(new.username) = {}

\* register(), create_super_admin(): the username is looked up and not found.
LookUpName(c, new) ==
    /\ calls[c] = Null
    /\ MayCreate(new)
    /\ calls' = [calls EXCEPT ![c] = [op |-> "create", new |-> new]]
    /\ UNCHANGED users

\* request_register_otp(): no row, live or removed, has the phone number.
LookUpPhone(c, phone) ==
    /\ calls[c] = Null
    /\ \A i \in DOMAIN users : users[i].phone_number # phone
    /\ calls' = [calls EXCEPT ![c] = [op |-> "otp",
           new |-> [username |-> phone, phone_number |-> phone, is_active |-> FALSE]]]
    /\ UNCHANGED users

\* Mutant: the phone number may be missing.
InsertableAny(new) == \A i \in DOMAIN users : users[i].phone_number # new.phone_number

\* The constraints of the table: NOT NULL and UNIQUE.
Insertable(new) ==
    /\ new.phone_number # Null
    /\ \A i \in DOMAIN users : users[i].phone_number # new.phone_number

CommitInsert(c) ==
    /\ Serves(c, "create") \/ Serves(c, "otp")
    /\ Insertable(calls[c].new)
    /\ Len(users) < MaxUsers
    /\ users' = Append(users, [username |-> calls[c].new.username,
                               phone_number |-> calls[c].new.phone_number,
                               is_active |-> calls[c].new.is_active,
                               is_deleted |-> FALSE])
    /\ Leave(c)

-----------------------------------------------------------------------------
Load(c, i, change) ==
    /\ calls[c] = Null
    /\ calls' = [calls EXCEPT ![c] =
                    [op |-> "update", id |-> i, loaded |-> users[i], change |-> change]]
    /\ UNCHANGED users

\* update_user() loads a row that is not removed.
LoadUser(c, i, change) == i \in Live /\ Load(c, i, change)

OnlyActive(active) == [username |-> Null, phone_number |-> Null, is_active |-> active]

\* set_user_activation() and, with TRUE, register_user(): db.get() finds removed
\* rows as well.
LoadAnyUser(c, i, active) == i \in DOMAIN users /\ Load(c, i, OnlyActive(active))

Given(value, otherwise) == IF value = Null THEN otherwise ELSE value

\* The object in memory after update() has set the attributes it was given.
Assigned(call) == [call.loaded EXCEPT
    !.username = Given(call.change.username, @),
    !.phone_number = Given(call.change.phone_number, @),
    !.is_active = call.change.is_active]

\* Mutant: every column of the loaded row is written.
WrittenWhole(call) == Assigned(call)

\* COMMIT writes the columns whose value differs from the one loaded.
Written(call) ==
    [column \in DOMAIN call.loaded |->
        IF Assigned(call)[column] = call.loaded[column]
        THEN users[call.id][column] ELSE Assigned(call)[column]]

CommitUpdate(c) ==
    LET row == Written(calls[c]) IN
    /\ Serves(c, "update")
    /\ \A i \in DOMAIN users \ {calls[c].id} : users[i].phone_number # row.phone_number
    /\ users' = [users EXCEPT ![calls[c].id] = row]
    /\ Leave(c)

\* remove() is one UPDATE; a row already removed is left alone.
Remove(i) ==
    /\ i \in Live
    /\ users' = [users EXCEPT ![i].is_deleted = TRUE]
    /\ UNCHANGED calls

\* A constraint is broken, or the database does not answer.
Abandon(c) == calls[c] # Null /\ Leave(c) /\ UNCHANGED users

Next ==
    \/ \E c \in Calls :
          \/ \E new \in Registered : LookUpName(c, new)
          \/ \E phone \in Phones : LookUpPhone(c, phone)
          \/ CommitInsert(c)
          \/ \E i \in 1..MaxUsers, change \in Updates : LoadUser(c, i, change)
          \/ \E i \in 1..MaxUsers, active \in BOOLEAN : LoadAnyUser(c, i, active)
          \/ CommitUpdate(c)
          \/ Abandon(c)
    \/ \E i \in 1..MaxUsers : Remove(i)

Spec == Init /\ [][Next]_vars

-----------------------------------------------------------------------------
\* Each variable has its type.
TypeOK ==
    /\ users \in Seq(Rows)
    /\ Len(users) <= MaxUsers
    /\ calls \in [Calls -> {Null}
           \cup [op : {"create", "otp"}, new : NewUsers]
           \cup [op : {"update"}, id : DOMAIN users, loaded : Rows, change : Changes]]

\* scalar_one_or_none() of crud_user.py:22 asserts that at most one live user
\* has a username; with two, neither can log in or be registered again.
\* services/auth.py:16 "The user with this username already exists"
UsernamesUnique == \A i, j \in Live : users[i].username = users[j].username => i = j

\* No two calls create a user of the same name at once, no update gives a
\* name, and no user comes from request_register_otp().
NamesInTurn ==
    /\ \A c, d \in Calls : (Serves(c, "create") /\ Serves(d, "create")
                            /\ calls[c].new.username = calls[d].new.username) => c = d
    /\ \A c \in Calls : /\ ~Serves(c, "otp")
                        /\ Serves(c, "update") => calls[c].change.username = Null

\* These are the only ways a username comes to repeat.
UniqueIfInTurn == []NamesInTurn => []UsernamesUnique

\* A removed user stays removed, also under an update that loaded the row
\* before.
RemovedForGood ==
    [][\A i \in DOMAIN users : users[i].is_deleted => users'[i].is_deleted]_vars

\* A column of an existing row changes only to what some call in progress was
\* asked to write: an update never brings back what another has overwritten.
ChangesAsAsked ==
    [][\A i \in DOMAIN users, column \in {"username", "phone_number", "is_active"} :
          users'[i][column] # users[i][column] =>
              \E c \in Calls : /\ Serves(c, "update") /\ calls[c].id = i
                               /\ users'[i][column] = calls[c].change[column]
                               /\ users'[i][column] # calls[c].loaded[column]]_vars

\* A user deactivated while an update is in progress stays deactivated,
\* although the update carries is_active = TRUE by default.
DeactivationHolds ==
    [][\A i \in DOMAIN users : (~users[i].is_active /\ users'[i].is_active) =>
          \E c \in Calls : /\ Serves(c, "update") /\ calls[c].id = i
                           /\ ~calls[c].loaded.is_active]_vars
=============================================================================
