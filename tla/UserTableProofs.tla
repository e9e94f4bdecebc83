-------------------------- MODULE UserTableProofs --------------------------
(***************************************************************************)
(* Theorems about UserTable, for any calls, names, inputs and bound.       *)
(*                                                                         *)
(* All of them rest on what COMMIT writes (WrittenColumn): a column the    *)
(* call did not change keeps the committed value, never the loaded one.    *)
(***************************************************************************)
EXTENDS UserTable, TLAPS

Columns == {"username", "phone_number", "is_active", "is_deleted"}

-----------------------------------------------------------------------------
\* What update() assigns is a row, and its is_deleted is the one loaded.
LEMMA AssignedRow ==
    ASSUME NEW call \in [op : {"update"}, id : DOMAIN users, loaded : Rows, change : Changes]
    PROVE  /\ Assigned(call) \in Rows
           /\ Assigned(call).is_deleted = call.loaded.is_deleted
           /\ \A column \in Columns \ {"is_deleted"} :
                 Assigned(call)[column] # call.loaded[column] =>
                     Assigned(call)[column] = call.change[column]
<1>1. PICK l \in Rows : l = call.loaded
  OBVIOUS
<1>2. PICK g \in Changes : g = call.change
  OBVIOUS
<1>3. Assigned(call) = [username |-> Given(g.username, l.username),
                        phone_number |-> Given(g.phone_number, l.phone_number),
                        is_active |-> g.is_active,
                        is_deleted |-> l.is_deleted]
  <2>1. Assigned(call) = [l EXCEPT
           !.username = Given(g.username, l.username),
           !.phone_number = Given(g.phone_number, l.phone_number),
           !.is_active = g.is_active]
    BY <1>1, <1>2 DEF Assigned
  <2>2. l = [username |-> l.username, phone_number |-> l.phone_number,
             is_active |-> l.is_active, is_deleted |-> l.is_deleted]
    BY DEF Rows
  <2> QED BY <2>1, <2>2
<1>4. /\ Given(g.username, l.username) \in Usernames
      /\ Given(g.phone_number, l.phone_number) \in Phones
      /\ Given(g.username, l.username) \in {g.username, l.username}
      /\ Given(g.phone_number, l.phone_number) \in {g.phone_number, l.phone_number}
  BY DEF Given, Rows, Changes
<1>5. Assigned(call) \in Rows
  BY <1>3, <1>4 DEF Rows, Changes
<1> QED
  BY <1>1, <1>2, <1>3, <1>4, <1>5 DEF Columns

\* COMMIT writes a row; each column is the committed or the assigned value,
\* and the assigned one only if it differs from the one loaded.
LEMMA WrittenColumn ==
    ASSUME TypeOK, NEW c \in Calls, Serves(c, "update")
    PROVE  /\ calls[c].id \in DOMAIN users
           /\ Written(calls[c]) \in Rows
           /\ \A column \in Columns :
                 \/ Written(calls[c])[column] = users[calls[c].id][column]
                 \/ /\ Written(calls[c])[column] = Assigned(calls[c])[column]
                    /\ Assigned(calls[c])[column] # calls[c].loaded[column]
<1> DEFINE call == calls[c]
           row == users[call.id]
<1>1. call \in [op : {"update"}, id : DOMAIN users, loaded : Rows, change : Changes]
  BY DEF TypeOK, Serves
<1>2. row \in Rows
  BY <1>1 DEF TypeOK
<1>3. Assigned(call) \in Rows
  BY <1>1, AssignedRow
<1>4. DOMAIN call.loaded = Columns
  BY <1>1 DEF Rows, Columns
<1>5. Written(call) =
         [column \in Columns |->
            IF Assigned(call)[column] = call.loaded[column]
            THEN row[column] ELSE Assigned(call)[column]]
  BY <1>4 DEF Written
<1>6. Written(call) \in Rows
  <2>1. \A column \in Columns : Written(call)[column] \in {row[column], Assigned(call)[column]}
    BY <1>5
  <2>2. /\ Written(call)["username"] \in Usernames
        /\ Written(call)["phone_number"] \in Phones
        /\ Written(call)["is_active"] \in BOOLEAN
        /\ Written(call)["is_deleted"] \in BOOLEAN
    BY <2>1, <1>2, <1>3 DEF Rows, Columns
  <2>3. Written(call) = [username |-> Written(call)["username"],
                         phone_number |-> Written(call)["phone_number"],
                         is_active |-> Written(call)["is_active"],
                         is_deleted |-> Written(call)["is_deleted"]]
    BY <1>5 DEF Columns
  <2> QED BY <2>2, <2>3 DEF Rows
<1> QED BY <1>1, <1>5, <1>6

-----------------------------------------------------------------------------
\* The calls in progress stay well typed when a row is changed or added.
LEMMA CallsGrow ==
    ASSUME TypeOK, DOMAIN users \subseteq DOMAIN users',
           NEW c \in Calls, Leave(c) \/ UNCHANGED calls
    PROVE  calls' \in [Calls -> {Null}
              \cup [op : {"create", "otp"}, new : NewUsers]
              \cup [op : {"update"}, id : DOMAIN users', loaded : Rows, change : Changes]]
  BY DEF TypeOK, Leave

LEMMA LoadKeepsType ==
    ASSUME TypeOK, NEW c \in Calls, NEW i \in DOMAIN users, NEW change \in Changes,
           Load(c, i, change)
    PROVE  TypeOK'
  BY DEF TypeOK, Load

\* Type correctness, the inductive invariant the other theorems start from: a
\* row that a call has loaded stays where it is.
THEOREM TypeCorrect == Spec => []TypeOK
<1>1. Init => TypeOK
  BY UserTableAssumption DEF Init, TypeOK
<1>2. TypeOK /\ [Next]_vars => TypeOK'
  <2> SUFFICES ASSUME TypeOK, [Next]_vars PROVE TypeOK'
    OBVIOUS
  <2> USE UserTableAssumption
  <2>1. ASSUME NEW c \in Calls, NEW new \in Registered, LookUpName(c, new)
        PROVE  TypeOK'
    <3>1. new \in NewUsers
      OBVIOUS
    <3> QED BY <2>1, <3>1 DEF LookUpName, TypeOK
  <2>2. ASSUME NEW c \in Calls, NEW phone \in Phones, LookUpPhone(c, phone)
        PROVE  TypeOK'
    <3>1. [username |-> phone, phone_number |-> phone, is_active |-> FALSE] \in NewUsers
      BY DEF NewUsers
    <3> QED BY <2>2, <3>1 DEF LookUpPhone, TypeOK
  <2>3. ASSUME NEW c \in Calls, CommitInsert(c)
        PROVE  TypeOK'
    <3>1. calls[c].new \in NewUsers
      BY <2>3 DEF CommitInsert, TypeOK, Serves
    <3> DEFINE row == [username |-> calls[c].new.username,
                       phone_number |-> calls[c].new.phone_number,
                       is_active |-> calls[c].new.is_active, is_deleted |-> FALSE]
    <3>2. row \in Rows
      BY <2>3, <3>1 DEF CommitInsert, Insertable, NewUsers, Rows
    <3>3. users' = Append(users, row) /\ Len(users) < MaxUsers
      BY <2>3 DEF CommitInsert
    <3>4. /\ users' \in Seq(Rows) /\ Len(users') <= MaxUsers
          /\ DOMAIN users \subseteq DOMAIN users'
      BY <3>2, <3>3 DEF TypeOK
    <3>5. Leave(c)
      BY <2>3 DEF CommitInsert
    <3> QED BY <3>4, <3>5, CallsGrow DEF TypeOK
  <2>4. ASSUME NEW c \in Calls, NEW i \in 1..MaxUsers, NEW change \in Updates,
               LoadUser(c, i, change)
        PROVE  TypeOK'
    <3>1. change \in Changes /\ i \in DOMAIN users
      BY <2>4 DEF LoadUser, Live
    <3> QED BY <2>4, <3>1, LoadKeepsType DEF LoadUser
  <2>9. ASSUME NEW c \in Calls, NEW i \in 1..MaxUsers, NEW active \in BOOLEAN,
               LoadAnyUser(c, i, active)
        PROVE  TypeOK'
    <3>1. OnlyActive(active) \in Changes
      BY DEF OnlyActive, Changes
    <3> QED BY <2>9, <3>1, LoadKeepsType DEF LoadAnyUser
  <2>5. ASSUME NEW c \in Calls, CommitUpdate(c)
        PROVE  TypeOK'
    <3>1. Serves(c, "update") /\ Leave(c)
          /\ users' = [users EXCEPT ![calls[c].id] = Written(calls[c])]
      BY <2>5 DEF CommitUpdate
    <3>2. calls[c].id \in DOMAIN users /\ Written(calls[c]) \in Rows
      BY <3>1, WrittenColumn
    <3>3. /\ users' \in Seq(Rows) /\ Len(users') = Len(users)
          /\ DOMAIN users' = DOMAIN users
      BY <3>1, <3>2 DEF TypeOK
    <3> QED BY <3>1, <3>3, CallsGrow DEF TypeOK
  <2>6. ASSUME NEW i \in 1..MaxUsers, Remove(i)
        PROVE  TypeOK'
    <3>1. i \in DOMAIN users /\ users[i] \in Rows
      BY <2>6 DEF Remove, Live, TypeOK
    <3>2. [users[i] EXCEPT !.is_deleted = TRUE] \in Rows
      BY <3>1 DEF Rows
    <3>3. users' = [users EXCEPT ![i] = [users[i] EXCEPT !.is_deleted = TRUE]]
      BY <2>6 DEF Remove
    <3>4. /\ users' \in Seq(Rows) /\ Len(users') = Len(users)
          /\ DOMAIN users' = DOMAIN users
      BY <3>1, <3>2, <3>3 DEF TypeOK
    <3> QED BY <2>6, <3>4 DEF Remove, TypeOK
  <2>7. ASSUME NEW c \in Calls, Abandon(c)
        PROVE  TypeOK'
    <3>1. Leave(c) /\ UNCHANGED users
      BY <2>7 DEF Abandon
    <3> QED BY <3>1, CallsGrow DEF TypeOK
  <2>8. CASE UNCHANGED vars
    BY <2>8 DEF vars, TypeOK
  <2> QED
    BY <2>1, <2>2, <2>3, <2>4, <2>5, <2>6, <2>7, <2>8, <2>9 DEF Next
<1> QED
  BY <1>1, <1>2, PTL DEF Spec

-----------------------------------------------------------------------------
\* What a step does to a row that exists: nothing, or its call's COMMIT, or
\* its removal.
LEMMA RowStep ==
    ASSUME TypeOK, [Next]_vars, NEW i \in DOMAIN users
    PROVE  \/ users'[i] = users[i]
           \/ \E c \in Calls : /\ Serves(c, "update") /\ calls[c].id = i
                              /\ users'[i] = Written(calls[c])
           \/ users'[i] = [users[i] EXCEPT !.is_deleted = TRUE]
<1>1. ASSUME NEW c \in Calls, CommitInsert(c)
      PROVE  users'[i] = users[i]
  BY <1>1 DEF CommitInsert, TypeOK
<1>2. ASSUME NEW c \in Calls, CommitUpdate(c)
      PROVE  \/ users'[i] = users[i]
             \/ /\ Serves(c, "update") /\ calls[c].id = i
                /\ users'[i] = Written(calls[c])
  BY <1>2 DEF CommitUpdate, TypeOK
<1>3. ASSUME NEW j \in 1..MaxUsers, Remove(j)
      PROVE  \/ users'[i] = users[i]
             \/ users'[i] = [users[i] EXCEPT !.is_deleted = TRUE]
  BY <1>3 DEF Remove, TypeOK
<1>4. CASE UNCHANGED users
  BY <1>4
<1> QED
  BY <1>1, <1>2, <1>3, <1>4
  DEF Next, vars, LookUpName, LookUpPhone, LoadUser, LoadAnyUser, Load, Abandon

\* A removed user stays removed, also under an update that loaded the row
\* before it was.
THEOREM StaysRemoved == Spec => RemovedForGood
<1>1. TypeOK /\ [Next]_vars =>
         [\A i \in DOMAIN users : users[i].is_deleted => users'[i].is_deleted]_vars
  <2> SUFFICES ASSUME TypeOK, [Next]_vars,
                      NEW i \in DOMAIN users, users[i].is_deleted
               PROVE  users'[i].is_deleted
    OBVIOUS
  <2>1. ASSUME NEW c \in Calls, Serves(c, "update"), calls[c].id = i
        PROVE  Written(calls[c]).is_deleted
    <3>1. calls[c] \in [op : {"update"}, id : DOMAIN users, loaded : Rows, change : Changes]
      BY <2>1 DEF TypeOK, Serves
    <3>2. Assigned(calls[c]).is_deleted = calls[c].loaded.is_deleted
      BY <3>1, AssignedRow
    <3>3. Written(calls[c]).is_deleted = users[i].is_deleted
      BY <2>1, <3>2, WrittenColumn DEF Columns
    <3> QED BY <3>3
  <2>2. users[i] \in Rows
    BY DEF TypeOK
  <2>3. [users[i] EXCEPT !.is_deleted = TRUE].is_deleted
    BY <2>2 DEF Rows
  <2> QED BY <2>1, <2>3, RowStep
<1> QED
  BY <1>1, TypeCorrect, PTL DEF Spec, RemovedForGood

\* The column of a row changes only to what a call in progress was asked for,
\* and asked for as a change.
THEOREM OnlyAsAsked == Spec => ChangesAsAsked
<1> DEFINE Asked(i, column) ==
              \E c \in Calls : /\ Serves(c, "update") /\ calls[c].id = i
                               /\ users'[i][column] = calls[c].change[column]
                               /\ users'[i][column] # calls[c].loaded[column]
<1>1. TypeOK /\ [Next]_vars =>
         [\A i \in DOMAIN users, column \in {"username", "phone_number", "is_active"} :
             users'[i][column] # users[i][column] => Asked(i, column)]_vars
  <2> SUFFICES ASSUME TypeOK, [Next]_vars, NEW i \in DOMAIN users,
                      NEW column \in {"username", "phone_number", "is_active"},
                      users'[i][column] # users[i][column]
               PROVE  Asked(i, column)
    OBVIOUS
  <2>1. users[i] \in Rows
    BY DEF TypeOK
  <2>2. [users[i] EXCEPT !.is_deleted = TRUE][column] = users[i][column]
    BY <2>1 DEF Rows
  <2>3. PICK c \in Calls : /\ Serves(c, "update") /\ calls[c].id = i
                           /\ users'[i] = Written(calls[c])
    BY <2>2, RowStep
  <2>4. calls[c] \in [op : {"update"}, id : DOMAIN users, loaded : Rows, change : Changes]
    BY <2>3 DEF TypeOK, Serves
  <2>5. column \in Columns \ {"is_deleted"}
    BY DEF Columns
  <2>6. /\ users'[i][column] = Assigned(calls[c])[column]
        /\ Assigned(calls[c])[column] # calls[c].loaded[column]
    BY <2>3, <2>5, WrittenColumn
  <2>7. Assigned(calls[c])[column] = calls[c].change[column]
    BY <2>4, <2>5, <2>6, AssignedRow
  <2> QED BY <2>3, <2>6, <2>7
<1> QED
  BY <1>1, TypeCorrect, PTL DEF Spec, ChangesAsAsked

\* A deactivated user is activated only by an update that loaded it so.
THEOREM StaysDeactivated == Spec => DeactivationHolds
<1> DEFINE Seen(i) == \E c \in Calls : /\ Serves(c, "update") /\ calls[c].id = i
                                       /\ ~calls[c].loaded.is_active
<1>1. TypeOK /\ [Next]_vars =>
         [\A i \in DOMAIN users :
             (~users[i].is_active /\ users'[i].is_active) => Seen(i)]_vars
  <2> SUFFICES ASSUME TypeOK, [Next]_vars, NEW i \in DOMAIN users,
                      ~users[i].is_active, users'[i].is_active
               PROVE  Seen(i)
    OBVIOUS
  <2>1. users[i] \in Rows
    BY DEF TypeOK
  <2>2. [users[i] EXCEPT !.is_deleted = TRUE].is_active = users[i].is_active
    BY <2>1 DEF Rows
  <2>3. PICK c \in Calls : /\ Serves(c, "update") /\ calls[c].id = i
                           /\ users'[i] = Written(calls[c])
    BY <2>2, RowStep
  <2>4. calls[c].loaded \in Rows
    BY <2>3 DEF TypeOK, Serves
  <2>5. Assigned(calls[c]) \in Rows
    BY <2>3, AssignedRow DEF TypeOK, Serves
  <2>6. /\ Assigned(calls[c]).is_active
        /\ Assigned(calls[c]).is_active # calls[c].loaded.is_active
    BY <2>3, WrittenColumn DEF Columns
  <2>7. ~calls[c].loaded.is_active
    BY <2>4, <2>5, <2>6 DEF Rows
  <2> QED BY <2>3, <2>7
<1> QED
  BY <1>1, TypeCorrect, PTL DEF Spec, DeactivationHolds

-----------------------------------------------------------------------------
\* What makes usernames unique inductive: nobody has the name a call in
\* progress has looked up and not found.
LookedUpFree == \A c \in Calls : Serves(c, "create") => Named(calls[c].new.username) = {}

NamesInv == UsernamesUnique /\ LookedUpFree

\* A step that adds no live row and renames none keeps NamesInv, whatever
\* calls it ends.
LEMMA NamesKept ==
    ASSUME NamesInv,
           \A i \in Live' : i \in Live /\ users'[i].username = users[i].username,
           \A c \in Calls : Serves(c, "create")' => calls'[c] = calls[c]
    PROVE  NamesInv'
<1>1. UsernamesUnique'
  BY DEF NamesInv, UsernamesUnique
<1>2. LookedUpFree'
  <2> SUFFICES ASSUME NEW c \in Calls, Serves(c, "create")',
                      NEW i \in Live', users'[i].username = calls'[c].new.username
               PROVE  FALSE
    BY DEF LookedUpFree, Named
  <2>1. Serves(c, "create") /\ calls'[c] = calls[c]
    BY DEF Serves
  <2>2. i \in Named(calls[c].new.username)
    BY <2>1 DEF Named
  <2> QED BY <2>1, <2>2 DEF NamesInv, LookedUpFree
<1> QED BY <1>1, <1>2 DEF NamesInv

\* Usernames repeat only by calls that create one name at once, by a renaming
\* or by a user of request_register_otp().
THEOREM UniqueInTurn == Spec => UniqueIfInTurn
<1>1. Init => NamesInv
  BY DEF Init, NamesInv, UsernamesUnique, LookedUpFree, Live, Serves
<1>2. TypeOK /\ NamesInTurn /\ NamesInv /\ [Next]_vars => NamesInv'
  <2> SUFFICES ASSUME TypeOK, NamesInTurn, NamesInv, [Next]_vars PROVE NamesInv'
    OBVIOUS
  <2>1. ASSUME NEW c \in Calls, NEW new \in Registered, LookUpName(c, new)
        PROVE  NamesInv'
    <3>1. Named(new.username) = {} /\ UNCHANGED users
      BY <2>1 DEF LookUpName, MayCreate
    <3>2. \A d \in Calls : calls'[d] = IF d = c THEN [op |-> "create", new |-> new]
                                              ELSE calls[d]
      BY <2>1 DEF LookUpName, TypeOK
    <3>3. Live' = Live
      BY <3>1 DEF Live
    <3>4. LookedUpFree'
      <4> SUFFICES ASSUME NEW d \in Calls, Serves(d, "create")',
                          NEW i \in Live', users'[i].username = calls'[d].new.username
                   PROVE  FALSE
        BY DEF LookedUpFree, Named
      <4>1. i \in Live /\ users[i].username = calls'[d].new.username
        BY <3>1, <3>3
      <4>2. CASE d = c
        BY <4>1, <4>2, <3>1, <3>2 DEF Named
      <4>3. CASE d # c
        <5>1. Serves(d, "create") /\ calls'[d] = calls[d]
          BY <4>3, <3>2 DEF Serves
        <5>2. i \in Named(calls[d].new.username)
          BY <5>1, <4>1 DEF Named
        <5> QED BY <5>1, <5>2 DEF NamesInv, LookedUpFree
      <4> QED BY <4>2, <4>3
    <3>5. UsernamesUnique'
      BY <3>1, <3>3 DEF NamesInv, UsernamesUnique
    <3> QED BY <3>4, <3>5 DEF NamesInv
  <2>2. ASSUME NEW c \in Calls, NEW phone \in Phones, LookUpPhone(c, phone)
        PROVE  NamesInv'
    <3>1. UNCHANGED users /\ \A d \in Calls : Serves(d, "create")' => calls'[d] = calls[d]
      BY <2>2 DEF LookUpPhone, TypeOK, Serves
    <3> QED BY <3>1, NamesKept DEF Live
  <2>3. ASSUME NEW c \in Calls, CommitInsert(c)
        PROVE  NamesInv'
    <3> DEFINE n == calls[c].new.username
               new == Len(users) + 1
    <3>1. Serves(c, "create")
      BY <2>3 DEF CommitInsert, NamesInTurn
    <3>2. Named(n) = {}
      BY <3>1 DEF NamesInv, LookedUpFree
    <3>3. /\ DOMAIN users' = DOMAIN users \cup {new}
          /\ \A i \in DOMAIN users : users'[i] = users[i]
          /\ users'[new].username = n
          /\ new \notin DOMAIN users
      BY <2>3 DEF CommitInsert, TypeOK
    <3>4. \A i \in Live' : i = new \/ (i \in Live /\ users'[i] = users[i])
      BY <3>3 DEF Live
    <3>5. \A i \in Live : users[i].username # n
      BY <3>2 DEF Named
    <3>6. UsernamesUnique'
      BY <3>3, <3>4, <3>5 DEF NamesInv, UsernamesUnique
    <3>7. LookedUpFree'
      <4> SUFFICES ASSUME NEW d \in Calls, Serves(d, "create")',
                          NEW i \in Live', users'[i].username = calls'[d].new.username
                   PROVE  FALSE
        BY DEF LookedUpFree, Named
      <4>1. d # c /\ Serves(d, "create") /\ calls'[d] = calls[d]
        BY <2>3 DEF CommitInsert, Leave, Serves, TypeOK
      <4>2. calls[d].new.username # n
        BY <4>1, <3>1 DEF NamesInTurn
      <4>3. i \in Live /\ users[i].username = calls[d].new.username
        BY <4>1, <4>2, <3>3, <3>4
      <4>4. i \in Named(calls[d].new.username)
        BY <4>3 DEF Named
      <4> QED BY <4>1, <4>4 DEF NamesInv, LookedUpFree
    <3> QED BY <3>6, <3>7 DEF NamesInv
  <2>4. ASSUME NEW c \in Calls, NEW i \in 1..MaxUsers, NEW change \in Updates,
               LoadUser(c, i, change)
        PROVE  NamesInv'
    <3>1. UNCHANGED users /\ \A d \in Calls : Serves(d, "create")' => calls'[d] = calls[d]
      BY <2>4 DEF LoadUser, Load, TypeOK, Serves
    <3> QED BY <3>1, NamesKept DEF Live
  <2>9. ASSUME NEW c \in Calls, NEW i \in 1..MaxUsers, NEW active \in BOOLEAN,
               LoadAnyUser(c, i, active)
        PROVE  NamesInv'
    <3>1. UNCHANGED users /\ \A d \in Calls : Serves(d, "create")' => calls'[d] = calls[d]
      BY <2>9 DEF LoadAnyUser, Load, TypeOK, Serves
    <3> QED BY <3>1, NamesKept DEF Live
  <2>5. ASSUME NEW c \in Calls, CommitUpdate(c)
        PROVE  NamesInv'
    <3> DEFINE id == calls[c].id
    <3>1. Serves(c, "update") /\ users' = [users EXCEPT ![id] = Written(calls[c])]
      BY <2>5 DEF CommitUpdate
    <3>2. calls[c] \in [op : {"update"}, id : DOMAIN users, loaded : Rows, change : Changes]
      BY <3>1 DEF TypeOK, Serves
    <3>3. calls[c].change.username = Null
      BY <3>1 DEF NamesInTurn
    <3>4. /\ Assigned(calls[c]).is_deleted = calls[c].loaded.is_deleted
          /\ Assigned(calls[c]).username = calls[c].loaded.username
      <4>1. Assigned(calls[c]).username # calls[c].loaded.username =>
               Assigned(calls[c]).username = Null
        BY <3>2, <3>3, AssignedRow DEF Columns
      <4>2. Assigned(calls[c]).username \in Usernames
        BY <3>2, AssignedRow DEF Rows
      <4> QED BY <4>1, <4>2, <3>2, AssignedRow, UserTableAssumption
    <3>5. /\ Written(calls[c]).username = users[id].username
          /\ Written(calls[c]).is_deleted = users[id].is_deleted
      BY <3>1, <3>4, WrittenColumn DEF Columns
    <3>6. \A i \in Live' : i \in Live /\ users'[i].username = users[i].username
      BY <3>1, <3>2, <3>5 DEF Live, TypeOK
    <3>7. \A d \in Calls : Serves(d, "create")' => calls'[d] = calls[d]
      BY <2>5 DEF CommitUpdate, Leave, TypeOK, Serves
    <3> QED BY <3>6, <3>7, NamesKept
  <2>6. ASSUME NEW i \in 1..MaxUsers, Remove(i)
        PROVE  NamesInv'
    <3>1. i \in DOMAIN users /\ users[i] \in Rows
      BY <2>6 DEF Remove, Live, TypeOK
    <3>2. /\ DOMAIN users' = DOMAIN users
          /\ \A j \in DOMAIN users : j # i => users'[j] = users[j]
          /\ users'[i].is_deleted
      BY <2>6, <3>1 DEF Remove, TypeOK, Rows
    <3>3. \A j \in Live' : j \in Live /\ users'[j].username = users[j].username
      BY <3>2 DEF Live
    <3>4. \A d \in Calls : Serves(d, "create")' => calls'[d] = calls[d]
      BY <2>6 DEF Remove, Serves
    <3> QED BY <3>3, <3>4, NamesKept
  <2>7. ASSUME NEW c \in Calls, Abandon(c)
        PROVE  NamesInv'
    <3>1. UNCHANGED users /\ \A d \in Calls : Serves(d, "create")' => calls'[d] = calls[d]
      BY <2>7 DEF Abandon, Leave, TypeOK, Serves
    <3> QED BY <3>1, NamesKept DEF Live
  <2>8. CASE UNCHANGED vars
    BY <2>8, NamesKept DEF vars, Live, Serves
  <2> QED
    BY <2>1, <2>2, <2>3, <2>4, <2>5, <2>6, <2>7, <2>8, <2>9 DEF Next
<1>3. NamesInv => UsernamesUnique
  BY DEF NamesInv
<1> QED
  BY <1>1, <1>2, <1>3, TypeCorrect, PTL DEF Spec, UniqueIfInTurn
=============================================================================
