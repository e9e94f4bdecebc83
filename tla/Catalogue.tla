----------------------------- MODULE Catalogue -----------------------------
(***************************************************************************)
(* Brands, categories and products with their unique slugs, under          *)
(* create_category() and create_product() of services/ecommerce.py and     *)
(* seed_catalog() of db/init_db.py, each in a session of its own.          *)
(*                                                                         *)
(* A row is its slug and its table: that is all uniqueness speaks of.  An  *)
(* INSERT of a slug that an open transaction has inserted waits for the    *)
(* end of that transaction; of one that is committed, it fails.  The       *)
(* variant of a product clashes with nothing, so it goes with its product. *)
(***************************************************************************)
EXTENDS Integers, Sequences

CONSTANTS
    Sessions,
    SampleProducts, \* 30 in the code
    OwnCategories,  \* slugs that administrators give to categories
    OwnProducts,    \* and to products: numbers, as those of the samples
    Idle            \* no transaction

Row(table, slug) == <<table, slug>>

SampleSlugs == 1..SampleProducts
General == "general"

\* Mutant: the rows are added from a set, in no order.
SeedRowsUnordered(s) ==
    IF s = CHOOSE t \in Sessions : TRUE
    THEN <<Row("brand", "acme"), Row("category", General)>>
         \o [n \in SampleSlugs |-> Row("product", n)]
    ELSE [n \in SampleSlugs |-> Row("product", n)]
         \o <<Row("category", General), Row("brand", "acme")>>

\* The order of seed_catalog(): one flush for brand and category, which the
\* unit of work sorts by table, then a flush for each product.
SeedRows(s) == <<Row("brand", "acme"), Row("category", General)>>
               \o [n \in SampleSlugs |-> Row("product", n)]

Seeded == {Row("brand", "acme"), Row("category", General)}
          \cup {Row("product", n) : n \in SampleSlugs}

Rows == Seeded \cup {Row("category", slug) : slug \in OwnCategories}
        \cup {Row("product", slug) : slug \in OwnProducts}

VARIABLES
    rows,   \* committed
    held,   \* [s]: inserted and not committed
    todo    \* [s]: still to be inserted, Idle outside a transaction

catalogueVars == <<rows, held, todo>>

CatalogueInit ==
    /\ rows = {}
    /\ held = [s \in Sessions |-> {}]
    /\ todo = [s \in Sessions |-> Idle]

-----------------------------------------------------------------------------
Begin(s, sequence) ==
    /\ todo[s] = Idle
    /\ todo' = [todo EXCEPT ![s] = sequence]
    /\ UNCHANGED <<rows, held>>

CreateCategory(s, slug) == Begin(s, <<Row("category", slug)>>)
CreateProduct(s, slug) == Begin(s, <<Row("product", slug)>>)

NoProducts == \A row \in rows : row[1] # "product"

Seed(s) == NoProducts /\ Begin(s, SeedRows(s))

Inserting(s) == todo[s] # Idle /\ todo[s] # <<>>

\* s waits for t, which has inserted the slug that s is about to insert.
AwaitsEndOf(s, t) == s # t /\ Inserting(s) /\ Head(todo[s]) \in held[t]

Insert(s) ==
    /\ Inserting(s)
    /\ Head(todo[s]) \notin rows
    /\ \A t \in Sessions : ~AwaitsEndOf(s, t)
    /\ held' = [held EXCEPT ![s] = @ \cup {Head(todo[s])}]
    /\ todo' = [todo EXCEPT ![s] = Tail(@)]
    /\ UNCHANGED rows

EndTransaction(s) ==
    /\ held' = [held EXCEPT ![s] = {}]
    /\ todo' = [todo EXCEPT ![s] = Idle]

\* Mutant: COMMIT inside the loop, after each product.
MayCommitEach(s) == todo[s] # Idle /\ \E row \in held[s] : row[1] # "brand"

MayCommit(s) == todo[s] = <<>>

CommitRows(s) ==
    /\ MayCommit(s)
    /\ rows' = rows \cup held[s]
    /\ EndTransaction(s)

\* The slug is taken: IntegrityError, and the session is closed.
Clash(s) ==
    /\ Inserting(s)
    /\ Head(todo[s]) \in rows
    /\ EndTransaction(s)
    /\ UNCHANGED rows

\* The database does not answer, or the process dies.
Fail(s) ==
    /\ todo[s] # Idle
    /\ EndTransaction(s)
    /\ UNCHANGED rows

CatalogueNext ==
    \E s \in Sessions :
        \/ \E slug \in OwnCategories : CreateCategory(s, slug)
        \/ \E slug \in OwnProducts : CreateProduct(s, slug)
        \/ Seed(s)
        \/ Insert(s)
        \/ CommitRows(s)
        \/ Clash(s)
        \/ Fail(s)

CatalogueSpec == CatalogueInit /\ [][CatalogueNext]_catalogueVars

-----------------------------------------------------------------------------
\* Each variable has its type, no slug is held twice, and only open
\* transactions hold any.
CatalogueTypeOK ==
    /\ rows \subseteq Rows
    /\ held \in [Sessions -> SUBSET Rows]
    /\ \A s \in Sessions : todo[s] = Idle \/ todo[s] \in Seq(Rows)
    /\ \A s \in Sessions : todo[s] = Idle => held[s] = {}
    /\ \A s, t \in Sessions : s # t => held[s] \cap held[t] = {}
    /\ \A s \in Sessions : held[s] \cap rows = {}

\* The sample brand comes with all that is seeded, whatever fails and whoever
\* else seeds or inserts at the time: the catalogue is seeded as a whole or not
\* at all.  It does not follow that a start which finds a product finds the
\* samples: an administrator's own product stops the seeding as well.
SeedIsWhole == Row("brand", "acme") \in rows => Seeded \subseteq rows

\* Transactions that wait for one another's slugs never form a ring: starts
\* that overlap, and administrators who take a sample slug meanwhile, all get
\* on without the deadlock detector.
NobodyWaitsInRing ==
    \A ring \in (SUBSET Sessions) \ {{}} :
        \E s \in ring : \A t \in ring : ~AwaitsEndOf(s, t)
=============================================================================
