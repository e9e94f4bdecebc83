------------------------------ MODULE Seeding ------------------------------
(***************************************************************************)
(* initial_data.py: init_db() of db/init_db.py, started any number of      *)
(* times and overlapping, while the users and the catalogue it fills are   *)
(* in use.  A start looks for the super admin and creates it in a          *)
(* transaction of its own (UserTable), then fills the catalogue in another *)
(* (Catalogue); it may die in between and be started again.                *)
(***************************************************************************)
EXTENDS UserTable

CONSTANTS
    SuperAdmin,     \* FIRST_SUPERADMIN, the username and the phone number
    SampleProducts,
    OwnCategories,
    OwnProducts

VARIABLES
    starts,             \* calls that are a run of init_db()
    rows, held, todo    \* the catalogue and the transactions on it

Store == INSTANCE Catalogue WITH Sessions <- Calls, Idle <- Null

seedVars == <<starts, rows, held, todo>>
allVars == <<vars, seedVars>>

SuperAdminIn == [username |-> SuperAdmin, phone_number |-> SuperAdmin,
                 is_active |-> TRUE]

ASSUME SeedingAssumption == /\ SuperAdminIn \in Registered
                            /\ SampleProducts \in Nat
                            /\ Null \notin Seq(Store!Rows)

SeedingInit == Init /\ Store!CatalogueInit /\ starts = {}

-----------------------------------------------------------------------------
Resting(c) == calls[c] = Null /\ todo[c] = Null /\ c \notin starts

NothingStored == UNCHANGED <<rows, held, todo>>

\* create_super_admin() does not find the name.
StartCreating(c) ==
    /\ Resting(c)
    /\ LookUpName(c, SuperAdminIn)
    /\ starts' = starts \cup {c}
    /\ NothingStored

\* create_super_admin() finds the name; more than one is an exception.
StartFinding(c) ==
    /\ Resting(c)
    /\ \E i \in Live : Named(SuperAdmin) = {i}
    /\ starts' = starts \cup {c}
    /\ NothingStored
    /\ UNCHANGED vars

CreateSuperAdmin(c) ==
    /\ c \in starts
    /\ CommitInsert(c)
    /\ NothingStored
    /\ UNCHANGED starts

\* The phone number is taken, by another start, another user or a removed one:
\* AlreadyExistException ends the process, as any failure does.
StartDies(c) ==
    /\ c \in starts
    /\ \/ Abandon(c) /\ NothingStored
       \/ (Store!Clash(c) \/ Store!Fail(c)) /\ UNCHANGED vars
    /\ starts' = starts \ {c}

\* seed_catalog(), when DEBUG is set.
StartSeeding(c) ==
    /\ c \in starts
    /\ calls[c] = Null
    /\ Store!Seed(c)
    /\ UNCHANGED <<vars, starts>>

SeedStep(c) ==
    /\ c \in starts
    /\ Store!Insert(c)
    /\ UNCHANGED <<vars, starts>>

\* The samples are in; or there are products, or DEBUG is not set, and init_db()
\* is over; or the process dies between its transactions.
StartEnds(c) ==
    /\ c \in starts
    /\ calls[c] = Null
    /\ Store!CommitRows(c) \/ (todo[c] = Null /\ NothingStored)
    /\ starts' = starts \ {c}
    /\ UNCHANGED vars

\* What UserTable says of other calls.
OtherUserCall(c) ==
    /\ c \notin starts /\ todo[c] = Null
    /\ \/ \E new \in Registered : LookUpName(c, new)
       \/ \E phone \in Phones : LookUpPhone(c, phone)
       \/ CommitInsert(c)
       \/ \E i \in 1..MaxUsers, change \in Updates : LoadUser(c, i, change)
       \/ \E i \in 1..MaxUsers, active \in BOOLEAN : LoadAnyUser(c, i, active)
       \/ CommitUpdate(c)
       \/ Abandon(c)
    /\ UNCHANGED seedVars

\* What Catalogue says of other sessions.
OtherCatalogueCall(c) ==
    /\ c \notin starts /\ calls[c] = Null
    /\ \/ \E slug \in OwnCategories : Store!CreateCategory(c, slug)
       \/ \E slug \in OwnProducts : Store!CreateProduct(c, slug)
       \/ Store!Insert(c)
       \/ Store!CommitRows(c)
       \/ Store!Clash(c)
       \/ Store!Fail(c)
    /\ UNCHANGED <<vars, starts>>

SeedingNext ==
    \/ \E c \in Calls : \/ StartCreating(c)
                        \/ StartFinding(c)
                        \/ CreateSuperAdmin(c)
                        \/ StartDies(c)
                        \/ StartSeeding(c)
                        \/ SeedStep(c)
                        \/ StartEnds(c)
                        \/ OtherUserCall(c)
                        \/ OtherCatalogueCall(c)
    \/ \E i \in 1..MaxUsers : Remove(i) /\ UNCHANGED seedVars

SeedingSpec == SeedingInit /\ [][SeedingNext]_allVars

-----------------------------------------------------------------------------
\* Each variable has its type, those of the two tables included, and a start
\* is never at both tables at once.
SeedingTypeOK ==
    /\ TypeOK
    /\ Store!CatalogueTypeOK
    /\ starts \subseteq Calls
    /\ \A c \in Calls : calls[c] = Null \/ todo[c] = Null
    /\ \A c \in starts : calls[c] # Null => calls[c].new = SuperAdminIn

\* As Catalogue states them, with starts and administrators overlapping.
SeedIsWhole == Store!SeedIsWhole
NobodyWaitsInRing == Store!NobodyWaitsInRing
=============================================================================
