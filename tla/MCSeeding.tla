----------------------------- MODULE MCSeeding -----------------------------
EXTENDS Seeding

CONSTANTS c1, c2, n1, p1, p2

Account(username, phone) ==
    [username |-> username, phone_number |-> phone, is_active |-> TRUE]

\* The super admin, its name with another phone, and another name with none.
MCRegistered == {SuperAdminIn, Account(SuperAdmin, p2), Account(n1, Null)}

\* Renaming with and without another phone number, both activate; deactivating
\* with and without.
MCUpdates == [username : {n1}, phone_number : {p2, Null}, is_active : {TRUE}]
             \cup [username : {Null}, phone_number : {p2, Null}, is_active : {FALSE}]

\* Administrators take the slug of the sample category.
MCOwnCategories == {"general"}
=============================================================================
