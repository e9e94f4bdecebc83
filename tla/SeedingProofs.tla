--------------------------- MODULE SeedingProofs ---------------------------
(***************************************************************************)
(* Proofs about Seeding, for any calls, names, slugs and number of sample  *)
(* products.  Starts project onto UserTable, whose theorems hold here too; *)
(* the catalogue has an inductive invariant of its own: of all open        *)
(* transactions at most the one that has inserted the sample brand holds a *)
(* slug and still waits for others.                                        *)
(***************************************************************************)
EXTENDS Seeding, UserTableProofs

\* Whatever starts do, the user table takes a step of its own or none.
LEMMA SeedingStep == SeedingNext => [Next]_vars
  <1> SUFFICES ASSUME SeedingNext PROVE [Next]_vars
    OBVIOUS
  <1>1. ASSUME NEW c \in Calls, StartCreating(c) PROVE [Next]_vars
    BY <1>1, SeedingAssumption DEF StartCreating, Next
  <1>2. ASSUME NEW c \in Calls, CreateSuperAdmin(c) PROVE [Next]_vars
    BY <1>2 DEF CreateSuperAdmin, Next
  <1>3. ASSUME NEW c \in Calls, StartDies(c) PROVE [Next]_vars
    BY <1>3 DEF StartDies, Next
  <1>4. ASSUME NEW c \in Calls,
               StartFinding(c) \/ StartSeeding(c) \/ SeedStep(c) \/ StartEnds(c)
                   \/ OtherCatalogueCall(c)
        PROVE  [Next]_vars
    BY <1>4 DEF StartFinding, StartSeeding, SeedStep, StartEnds, OtherCatalogueCall
  <1>5. ASSUME NEW c \in Calls, OtherUserCall(c) PROVE [Next]_vars
    BY <1>5 DEF OtherUserCall, Next
  <1>6. ASSUME NEW i \in 1..MaxUsers, Remove(i) PROVE [Next]_vars
    BY <1>6 DEF Next
  <1> QED BY <1>1, <1>2, <1>3, <1>4, <1>5, <1>6 DEF SeedingNext

\* By the shape of the actions: db/init_db.py line 14 to 23 is a look-up and an
\* insert like any other of UserTable, whose theorems it carries over.
LEMMA SeedingImplementsUserTable == SeedingSpec => Spec
  <1>1. SeedingInit => Init
    BY DEF SeedingInit
  <1>2. [SeedingNext]_allVars => [Next]_vars
    BY SeedingStep DEF allVars
  <1> QED BY <1>1, <1>2, PTL DEF SeedingSpec, Spec

\* Usernames come to repeat in the same three ways.
THEOREM SeedingUniqueInTurn == SeedingSpec => UniqueIfInTurn
  BY SeedingImplementsUserTable, UniqueInTurn, PTL

-----------------------------------------------------------------------------
Acme == Store!Row("brand", "acme")

Elements(sequence) == {sequence[i] : i \in 1..Len(sequence)}

\* What is left to insert after the first insert.
LEMMA TailElements ==
    ASSUME NEW S, NEW q \in Seq(S), q # <<>>
    PROVE  /\ Head(q) \in S
           /\ Tail(q) \in Seq(S)
           /\ Elements(q) = {Head(q)} \cup Elements(Tail(q))
           /\ Len(Tail(q)) = Len(q) - 1
  <1>1. Len(q) \in Nat \ {0} /\ Head(q) = q[1]
    OBVIOUS
  <1>2. Len(Tail(q)) = Len(q) - 1 /\ \A i \in 1..Len(q)-1 : Tail(q)[i] = q[i+1]
    OBVIOUS
  <1>3. \A i \in 2..Len(q) : i-1 \in 1..Len(q)-1 /\ q[i] = Tail(q)[i-1]
    BY <1>1, <1>2
  <1>4. Elements(q) \subseteq {Head(q)} \cup Elements(Tail(q))
    <2> SUFFICES ASSUME NEW i \in 1..Len(q)
                 PROVE  q[i] \in {Head(q)} \cup Elements(Tail(q))
      BY DEF Elements
    <2>1. CASE i = 1
      BY <1>1, <2>1
    <2>2. CASE i \in 2..Len(q)
      BY <1>2, <1>3, <2>2 DEF Elements
    <2> QED BY <1>1, <2>1, <2>2
  <1>5. {Head(q)} \cup Elements(Tail(q)) \subseteq Elements(q)
    <2>1. q[1] \in Elements(q)
      BY <1>1 DEF Elements
    <2>2. ASSUME NEW i \in 1..Len(Tail(q)) PROVE Tail(q)[i] \in Elements(q)
      <3>1. i+1 \in 1..Len(q) /\ Tail(q)[i] = q[i+1]
        BY <1>1, <1>2, <2>2
      <3> QED BY <3>1 DEF Elements
    <2> QED BY <1>1, <2>1, <2>2 DEF Elements
  <1>6. Head(q) \in S /\ Tail(q) \in Seq(S)
    OBVIOUS
  <1> QED BY <1>2, <1>4, <1>5, <1>6

\* A sequence behind two more elements.
LEMMA TwoMore ==
    ASSUME NEW S, NEW a \in S, NEW b \in S, NEW q \in Seq(S)
    PROVE  /\ <<a, b>> \o q \in Seq(S)
           /\ <<a, b>> \o q # <<>>
           /\ Head(<<a, b>> \o q) = a
           /\ {a, b} \cup Elements(q) \subseteq Elements(<<a, b>> \o q)
  <1> DEFINE all == <<a, b>> \o q
  <1>1. <<a, b>> \in Seq(S) /\ Len(<<a, b>>) = 2
    OBVIOUS
  <1>2. all \in Seq(S) /\ Len(all) = Len(q) + 2
    BY <1>1
  <1>3. all[1] = a /\ all[2] = b
    BY <1>1
  <1>4. \A i \in 1..Len(q) : all[i+2] = q[i]
    BY <1>1
  <1> HIDE DEF all
  <1>5. all # <<>> /\ Head(all) = a
    BY <1>2, <1>3
  <1>6. {a, b} \subseteq Elements(all)
    BY <1>2, <1>3 DEF Elements
  <1>7. ASSUME NEW i \in 1..Len(q) PROVE q[i] \in Elements(all)
    <2>1. i+2 \in 1..Len(all) /\ all[i+2] = q[i]
      BY <1>2, <1>4
    <2> QED BY <2>1 DEF Elements
  <1> QED BY <1>2, <1>5, <1>6, <1>7 DEF Elements, all

\* The rows of seed_catalog() are those of Seeded, and the brand is the first.
LEMMA SeedRowsFacts ==
    ASSUME NEW c
    PROVE  /\ Store!SeedRows(c) \in Seq(Store!Rows)
           /\ Store!SeedRows(c) # <<>>
           /\ Head(Store!SeedRows(c)) = Acme
           /\ Store!Seeded \subseteq Elements(Store!SeedRows(c))
  <1> DEFINE general == Store!Row("category", Store!General)
             products == [n \in 1..SampleProducts |-> Store!Row("product", n)]
  <1>1. Store!SeedRows(c) = <<Acme, general>> \o products
    BY DEF Store!SeedRows, Store!SampleSlugs, Acme
  <1>2. Acme \in Store!Rows /\ general \in Store!Rows
    BY DEF Store!Rows, Store!Seeded, Acme
  <1>3. products \in Seq(Store!Rows)
    BY SeedingAssumption DEF Store!Rows, Store!Seeded, Store!SampleSlugs
  <1>4. Store!Seeded \subseteq {Acme, general} \cup Elements(products)
    <2>1. Len(products) = SampleProducts
      BY SeedingAssumption
    <2> QED BY <2>1 DEF Store!Seeded, Store!SampleSlugs, Acme, Elements
  <1> HIDE DEF products, general
  <1> QED BY <1>1, <1>2, <1>3, <1>4, TwoMore
-----------------------------------------------------------------------------
\* Whatever starts do, the catalogue takes a step of its own or none.
LEMMA CatalogueStep == SeedingNext => [Store!CatalogueNext]_(Store!catalogueVars)
  <1> SUFFICES ASSUME SeedingNext,
                      ~UNCHANGED Store!catalogueVars
               PROVE  Store!CatalogueNext
    OBVIOUS
  <1> USE DEF NothingStored, Store!catalogueVars
  <1>1. ASSUME NEW c \in Calls, StartDies(c) PROVE Store!CatalogueNext
    BY <1>1 DEF StartDies, Store!CatalogueNext
  <1>2. ASSUME NEW c \in Calls, StartSeeding(c) PROVE Store!CatalogueNext
    BY <1>2 DEF StartSeeding, Store!CatalogueNext
  <1>3. ASSUME NEW c \in Calls, SeedStep(c) PROVE Store!CatalogueNext
    BY <1>3 DEF SeedStep, Store!CatalogueNext
  <1>4. ASSUME NEW c \in Calls, StartEnds(c) PROVE Store!CatalogueNext
    BY <1>4 DEF StartEnds, Store!CatalogueNext
  <1>5. ASSUME NEW c \in Calls, OtherCatalogueCall(c) PROVE Store!CatalogueNext
    BY <1>5 DEF OtherCatalogueCall, Store!CatalogueNext
  <1>6. ASSUME NEW c \in Calls,
               StartCreating(c) \/ StartFinding(c) \/ CreateSuperAdmin(c)
        PROVE  FALSE
    BY <1>6 DEF StartCreating, StartFinding, CreateSuperAdmin
  <1>7. ASSUME NEW c \in Calls, OtherUserCall(c) PROVE FALSE
    BY <1>7 DEF OtherUserCall, seedVars
  <1>8. ASSUME NEW i \in 1..MaxUsers, Remove(i) /\ UNCHANGED seedVars PROVE FALSE
    BY <1>8 DEF seedVars
  <1> QED BY <1>1, <1>2, <1>3, <1>4, <1>5, <1>6, <1>7, <1>8 DEF SeedingNext

\* By the shape of the actions: db/init_db.py lines 27 to 54 run as the
\* transactions of Catalogue, what is shown of which it carries over.
LEMMA SeedingImplementsCatalogue == SeedingSpec => Store!CatalogueSpec
  <1>1. SeedingInit => Store!CatalogueInit
    BY DEF SeedingInit
  <1>2. [SeedingNext]_allVars => [Store!CatalogueNext]_(Store!catalogueVars)
    BY CatalogueStep DEF allVars, seedVars, Store!catalogueVars
  <1> QED BY <1>1, <1>2, PTL DEF SeedingSpec, Store!CatalogueSpec

-----------------------------------------------------------------------------
\* How far a transaction is: a start before its first insert, a start behind
\* it (which then holds the brand, and what it has not inserted it will), an
\* administrator before the only insert, or anybody else at COMMIT.
Progress(c) == todo[c] # Null =>
    /\ todo[c] \in Seq(Store!Rows)
    /\ \/ todo[c] = Store!SeedRows(c) /\ held[c] = {}
       \/ Acme \in held[c] /\ Store!Seeded \subseteq held[c] \cup Elements(todo[c])
       \/ Len(todo[c]) = 1 /\ Head(todo[c]) # Acme /\ held[c] = {}
       \/ todo[c] = <<>> /\ Acme \notin held[c]

CatalogueInv == /\ Store!CatalogueTypeOK
                /\ todo \in [Calls -> Seq(Store!Rows) \cup {Null}]
                /\ \A c \in Calls : Progress(c)
                /\ SeedIsWhole

LEMMA CatalogueInvInit == Store!CatalogueInit => CatalogueInv
  BY DEF Store!CatalogueInit, CatalogueInv, Store!CatalogueTypeOK, Progress,
         SeedIsWhole, Store!SeedIsWhole

\* Sequences are not Null, empty ones included.
LEMMA NotNull == ASSUME NEW q \in Seq(Store!Rows) PROVE q # Null
  BY SeedingAssumption

\* Nothing left to insert.
LEMMA EmptySequence ==
    /\ \A q \in Seq(Store!Rows) : Len(q) = 0 => q = <<>>
    /\ Elements(<<>>) = {} /\ <<>> # Null
  <1>1. <<>> \in Seq(Store!Rows)
    OBVIOUS
  <1>2. Elements(<<>>) = {}
    BY DEF Elements
  <1>3. ASSUME NEW S, NEW q \in Seq(S), Len(q) = 0 PROVE q = <<>>
    BY <1>3
  <1> QED BY <1>1, <1>2, <1>3, NotNull

\* A transaction that begins.
LEMMA BeginKeepsInv ==
    ASSUME CatalogueInv, NEW c \in Calls, NEW q \in Seq(Store!Rows),
           \/ q = Store!SeedRows(c)
           \/ Len(q) = 1 /\ Head(q) # Acme,
           Store!Begin(c, q)
    PROVE  CatalogueInv'
  <1> USE DEF CatalogueInv, Store!Begin
  <1>1. held[c] = {} /\ rows' = rows /\ held' = held
    BY DEF Store!CatalogueTypeOK
  <1>2. todo'[c] = q /\ \A d \in Calls \ {c} : todo'[d] = todo[d]
    OBVIOUS
  <1>3. Store!CatalogueTypeOK' /\ todo' \in [Calls -> Seq(Store!Rows) \cup {Null}]
    BY <1>1, <1>2, NotNull DEF Store!CatalogueTypeOK
  <1>4. ASSUME NEW d \in Calls PROVE Progress(d)'
    BY <1>1, <1>2 DEF Progress, Store!SeedRows
  <1> QED BY <1>1, <1>3, <1>4 DEF SeedIsWhole, Store!SeedIsWhole

\* A transaction that ends without COMMIT.
LEMMA EndKeepsInv ==
    ASSUME CatalogueInv, NEW c \in Calls, Store!EndTransaction(c),
           rows' = rows
    PROVE  CatalogueInv'
  <1> USE DEF CatalogueInv, Store!EndTransaction
  <1>1. Store!CatalogueTypeOK' /\ todo' \in [Calls -> Seq(Store!Rows) \cup {Null}]
    BY DEF Store!CatalogueTypeOK
  <1>2. ASSUME NEW d \in Calls PROVE Progress(d)'
    BY DEF Progress, Store!SeedRows, Store!CatalogueTypeOK
  <1> QED BY <1>1, <1>2 DEF SeedIsWhole, Store!SeedIsWhole
LEMMA InsertKeepsInv ==
    ASSUME CatalogueInv, NEW c \in Calls, Store!Insert(c)
    PROVE  CatalogueInv'
  <1> USE DEF CatalogueInv
  <1>1. todo[c] \in Seq(Store!Rows) /\ todo[c] # <<>> /\ Progress(c)
    BY DEF Store!Insert, Store!Inserting
  <1>2. /\ Head(todo[c]) \in Store!Rows
        /\ Tail(todo[c]) \in Seq(Store!Rows)
        /\ Elements(todo[c]) = {Head(todo[c])} \cup Elements(Tail(todo[c]))
        /\ Len(Tail(todo[c])) = Len(todo[c]) - 1
    BY <1>1, TailElements
  <1>3. /\ rows' = rows
        /\ held'[c] = held[c] \cup {Head(todo[c])}
        /\ todo'[c] = Tail(todo[c])
        /\ \A d \in Calls \ {c} : held'[d] = held[d] /\ todo'[d] = todo[d]
        /\ held' \in [Calls -> SUBSET Store!Rows]
        /\ todo' \in [Calls -> Seq(Store!Rows) \cup {Null}]
    BY <1>2 DEF Store!Insert, Store!CatalogueTypeOK
  <1>4. /\ Head(todo[c]) \notin rows
        /\ \A d \in Calls \ {c} : Head(todo[c]) \notin held[d]
    BY DEF Store!Insert, Store!AwaitsEndOf, Store!Inserting
  <1>5. Store!CatalogueTypeOK'
    <2>1. \A d \in Calls : todo'[d] = Null => held'[d] = {}
      BY <1>2, <1>3, NotNull DEF Store!CatalogueTypeOK
    <2>2. ASSUME NEW s \in Calls, NEW t \in Calls, s # t
          PROVE  held'[s] \cap held'[t] = {}
      BY <1>3, <1>4, <2>2 DEF Store!CatalogueTypeOK
    <2>3. \A d \in Calls : held'[d] \cap rows' = {}
      BY <1>3, <1>4 DEF Store!CatalogueTypeOK
    <2> QED BY <1>3, <2>1, <2>2, <2>3 DEF Store!CatalogueTypeOK
  <1>6. Progress(c)'
    <2>1. CASE todo[c] = Store!SeedRows(c) /\ held[c] = {}
      <3>1. Head(todo[c]) = Acme /\ Store!Seeded \subseteq Elements(todo[c])
        BY <2>1, SeedRowsFacts
      <3> QED BY <1>2, <1>3, <3>1 DEF Progress
    <2>2. CASE Acme \in held[c] /\ Store!Seeded \subseteq held[c] \cup Elements(todo[c])
      BY <1>2, <1>3, <2>2 DEF Progress
    <2>3. CASE Len(todo[c]) = 1 /\ Head(todo[c]) # Acme /\ held[c] = {}
      <3>1. Tail(todo[c]) = <<>>
        <4>1. Tail(todo[c]) \in Seq(Store!Rows) /\ Len(Tail(todo[c])) = 0
          BY <1>2, <2>3
        <4> QED BY <4>1, EmptySequence
      <3> QED BY <1>2, <1>3, <2>3, <3>1 DEF Progress
    <2> QED BY <1>1, <2>1, <2>2, <2>3, NotNull DEF Progress
  <1>7. ASSUME NEW d \in Calls \ {c} PROVE Progress(d)'
    BY <1>3 DEF Progress, Store!SeedRows
  <1> QED BY <1>3, <1>5, <1>6, <1>7 DEF SeedIsWhole, Store!SeedIsWhole

LEMMA CommitKeepsInv ==
    ASSUME CatalogueInv, NEW c \in Calls, Store!CommitRows(c)
    PROVE  CatalogueInv'
  <1> USE DEF CatalogueInv
  <1>1. /\ rows' = rows \cup held[c]
        /\ held'[c] = {} /\ todo'[c] = Null /\ todo[c] = <<>>
        /\ \A d \in Calls \ {c} : held'[d] = held[d] /\ todo'[d] = todo[d]
        /\ held' \in [Calls -> SUBSET Store!Rows]
        /\ todo' \in [Calls -> Seq(Store!Rows) \cup {Null}]
    BY DEF Store!CommitRows, Store!MayCommit, Store!EndTransaction, Store!CatalogueTypeOK
  <1>2. Store!CatalogueTypeOK'
    BY <1>1 DEF Store!CatalogueTypeOK
  <1>3. ASSUME NEW d \in Calls PROVE Progress(d)'
    BY <1>1 DEF Progress, Store!SeedRows
  <1>4. Acme \in held[c] => Store!Seeded \subseteq held[c]
    <2>1. Elements(todo[c]) = {} /\ todo[c] # Null
      BY <1>1, EmptySequence
    <2>2. Len(todo[c]) = 0 /\ (todo[c] = Store!SeedRows(c) => FALSE)
      BY <1>1, SeedRowsFacts
    <2> QED BY <1>1, <2>1, <2>2 DEF Progress
  <1>5. SeedIsWhole'
    BY <1>1, <1>4 DEF SeedIsWhole, Store!SeedIsWhole, Acme
  <1> QED BY <1>1, <1>2, <1>3, <1>5

LEMMA CatalogueInvNext ==
    CatalogueInv /\ [Store!CatalogueNext]_(Store!catalogueVars) => CatalogueInv'
  <1> SUFFICES ASSUME CatalogueInv, [Store!CatalogueNext]_(Store!catalogueVars)
               PROVE  CatalogueInv'
    OBVIOUS
  <1>1. ASSUME NEW c \in Calls, NEW slug \in OwnCategories, Store!CreateCategory(c, slug)
        PROVE  CatalogueInv'
    <2> DEFINE q == <<Store!Row("category", slug)>>
    <2>1. q \in Seq(Store!Rows) /\ Len(q) = 1 /\ Head(q) # Acme
      BY DEF Store!Rows, Store!Row, Acme
    <2> QED BY <1>1, <2>1, BeginKeepsInv DEF Store!CreateCategory
  <1>2. ASSUME NEW c \in Calls, NEW slug \in OwnProducts, Store!CreateProduct(c, slug)
        PROVE  CatalogueInv'
    <2> DEFINE q == <<Store!Row("product", slug)>>
    <2>1. q \in Seq(Store!Rows) /\ Len(q) = 1 /\ Head(q) # Acme
      BY DEF Store!Rows, Store!Row, Acme
    <2> QED BY <1>2, <2>1, BeginKeepsInv DEF Store!CreateProduct
  <1>3. ASSUME NEW c \in Calls, Store!Seed(c) PROVE CatalogueInv'
    BY <1>3, BeginKeepsInv, SeedRowsFacts DEF Store!Seed
  <1>4. ASSUME NEW c \in Calls, Store!Clash(c) \/ Store!Fail(c) PROVE CatalogueInv'
    BY <1>4, EndKeepsInv DEF Store!Clash, Store!Fail
  <1>5. CASE UNCHANGED Store!catalogueVars
    BY <1>5 DEF Store!catalogueVars, CatalogueInv, Store!CatalogueTypeOK, Progress,
                Store!SeedRows, SeedIsWhole, Store!SeedIsWhole
  <1> QED BY <1>1, <1>2, <1>3, <1>4, <1>5, InsertKeepsInv, CommitKeepsInv
          DEF Store!CatalogueNext

\* The inductive invariant of the catalogue.
THEOREM CatalogueInvariance == SeedingSpec => []CatalogueInv
  <1>1. Store!CatalogueSpec => []CatalogueInv
    BY CatalogueInvInit, CatalogueInvNext, PTL DEF Store!CatalogueSpec
  <1> QED BY <1>1, SeedingImplementsCatalogue, PTL

\* The samples come as a whole or not at all (lines 31 to 54 are one
\* transaction), however many starts and administrators overlap.
THEOREM SeededAsAWhole == SeedingSpec => []SeedIsWhole
  BY CatalogueInvariance, PTL DEF CatalogueInv

\* Transactions never wait for one another in a ring: whoever holds a slug and
\* still waits holds the sample brand, and only one can.
THEOREM NoRingOfWaits == SeedingSpec => []NobodyWaitsInRing
  <1>1. CatalogueInv => NobodyWaitsInRing
    <2> SUFFICES ASSUME CatalogueInv, NEW ring \in (SUBSET Calls) \ {{}},
                        \A s \in ring : \E t \in ring : Store!AwaitsEndOf(s, t)
                 PROVE  FALSE
      BY DEF NobodyWaitsInRing, Store!NobodyWaitsInRing
    <2>1. ASSUME NEW s \in ring, NEW t \in ring, Store!AwaitsEndOf(s, t)
          PROVE  Acme \in held[t]
      <3>1. held[t] # {} /\ Store!Inserting(t)
        BY <2>1 DEF Store!AwaitsEndOf
      <3> QED BY <3>1, SeedRowsFacts DEF CatalogueInv, Progress, Store!Inserting
    <2>2. PICK s \in ring : TRUE
      OBVIOUS
    <2>3. PICK t \in ring : Store!AwaitsEndOf(s, t)
      OBVIOUS
    <2>4. PICK u \in ring : Store!AwaitsEndOf(t, u)
      OBVIOUS
    <2>5. t # u /\ Acme \in held[t] /\ Acme \in held[u]
      BY <2>1, <2>3, <2>4 DEF Store!AwaitsEndOf
    <2> QED BY <2>5 DEF CatalogueInv, Store!CatalogueTypeOK
  <1> QED BY <1>1, CatalogueInvariance, PTL

-----------------------------------------------------------------------------
\* A start is at the user table or at the catalogue, and what it creates there
\* is the super admin.
Apart == /\ starts \subseteq Calls
         /\ \A c \in Calls : calls[c] = Null \/ todo[c] = Null
         /\ \A c \in starts : calls[c] # Null => calls[c].new = SuperAdminIn

\* A step of one call at one of the tables.
LEMMA ApartAtUsers ==
    ASSUME TypeOK, Apart, NEW c \in Calls, todo' = todo,
           \/ calls'[c] = Null
           \/ todo[c] = Null /\ (c \in starts' => calls'[c].new = SuperAdminIn),
           \A d \in Calls \ {c} : calls'[d] = calls[d],
           starts' \subseteq starts \cup {c}
    PROVE  Apart'
  BY DEF Apart

LEMMA ApartAtCatalogue ==
    ASSUME Apart, NEW c \in Calls, calls' = calls, calls[c] = Null \/ todo'[c] = Null,
           \A d \in Calls \ {c} : todo'[d] = todo[d],
           starts' \subseteq starts \cup {c}, c \in starts' => c \in starts \/ calls[c] = Null
    PROVE  Apart'
  BY DEF Apart

\* What the catalogue does for c leaves the others' transactions alone.
LEMMA OneTransaction ==
    ASSUME CatalogueInv, NEW c \in Calls,
           \/ Store!Insert(c) \/ Store!CommitRows(c) \/ Store!Clash(c) \/ Store!Fail(c)
           \/ Store!Seed(c)
           \/ \E slug \in OwnCategories : Store!CreateCategory(c, slug)
           \/ \E slug \in OwnProducts : Store!CreateProduct(c, slug)
    PROVE  \A d \in Calls \ {c} : todo'[d] = todo[d]
  BY DEF CatalogueInv, Store!Insert, Store!CommitRows, Store!Clash, Store!Fail, Store!Seed,
         Store!CreateCategory, Store!CreateProduct, Store!Begin, Store!EndTransaction

LEMMA ApartNext ==
    ASSUME TypeOK, CatalogueInv, Apart, [SeedingNext]_allVars
    PROVE  Apart'
  <1>1. ASSUME NEW c \in Calls, StartCreating(c) PROVE Apart'
    <2>1. /\ calls' = [calls EXCEPT ![c] = [op |-> "create", new |-> SuperAdminIn]]
          /\ todo' = todo /\ todo[c] = Null /\ starts' = starts \cup {c}
      BY <1>1 DEF StartCreating, LookUpName, Resting, NothingStored
    <2>2. /\ calls'[c].new = SuperAdminIn
          /\ \A d \in Calls \ {c} : calls'[d] = calls[d]
      BY <2>1 DEF TypeOK
    <2> QED BY <2>1, <2>2, ApartAtUsers
  <1>2. ASSUME NEW c \in Calls, StartFinding(c) PROVE Apart'
    BY <1>2, ApartAtCatalogue DEF StartFinding, Resting, NothingStored, vars
  <1>3. ASSUME NEW c \in Calls, CreateSuperAdmin(c) PROVE Apart'
    <2>1. calls' = [calls EXCEPT ![c] = Null] /\ todo' = todo /\ starts' = starts
      BY <1>3 DEF CreateSuperAdmin, CommitInsert, Leave, NothingStored
    <2> QED BY <2>1, ApartAtUsers DEF TypeOK
  <1>4. ASSUME NEW c \in Calls, StartDies(c) PROVE Apart'
    <2>1. starts' = starts \ {c}
      BY <1>4 DEF StartDies
    <2>2. CASE Abandon(c) /\ NothingStored
      <3>1. calls' = [calls EXCEPT ![c] = Null] /\ todo' = todo
        BY <2>2 DEF Abandon, Leave, NothingStored
      <3> QED BY <2>1, <3>1, ApartAtUsers DEF TypeOK
    <2>3. CASE (Store!Clash(c) \/ Store!Fail(c)) /\ UNCHANGED vars
      <3>1. calls' = calls /\ todo'[c] = Null
        BY <2>3 DEF vars, Store!Clash, Store!Fail, Store!EndTransaction, CatalogueInv
      <3> QED BY <2>1, <2>3, <3>1, OneTransaction, ApartAtCatalogue
    <2> QED BY <1>4, <2>2, <2>3 DEF StartDies
  <1>5. ASSUME NEW c \in Calls, StartSeeding(c) PROVE Apart'
    BY <1>5, OneTransaction, ApartAtCatalogue DEF StartSeeding, vars
  <1>6. ASSUME NEW c \in Calls, SeedStep(c) PROVE Apart'
    <2>1. calls[c] = Null
      BY <1>6 DEF SeedStep, Store!Insert, Store!Inserting, Apart
    <2> QED BY <1>6, <2>1, OneTransaction, ApartAtCatalogue DEF SeedStep, vars
  <1>7. ASSUME NEW c \in Calls, StartEnds(c) PROVE Apart'
    <2>1. calls[c] = Null /\ calls' = calls /\ starts' = starts \ {c}
      BY <1>7 DEF StartEnds, vars
    <2>2. \A d \in Calls \ {c} : todo'[d] = todo[d]
      BY <1>7, OneTransaction DEF StartEnds, NothingStored
    <2> QED BY <2>1, <2>2, ApartAtCatalogue
  <1>8. ASSUME NEW c \in Calls, OtherUserCall(c) PROVE Apart'
    <2>1. c \notin starts /\ todo[c] = Null /\ todo' = todo /\ starts' = starts
      BY <1>8 DEF OtherUserCall, seedVars
    <2>2. \A d \in Calls \ {c} : calls'[d] = calls[d]
      BY <1>8 DEF OtherUserCall, LookUpName, LookUpPhone, CommitInsert, LoadUser,
                  LoadAnyUser, Load, CommitUpdate, Abandon, Leave, TypeOK
    <2> QED BY <2>1, <2>2, ApartAtUsers
  <1>9. ASSUME NEW c \in Calls, OtherCatalogueCall(c) PROVE Apart'
    BY <1>9, OneTransaction, ApartAtCatalogue DEF OtherCatalogueCall, vars
  <1>10. ASSUME NEW i \in 1..MaxUsers, Remove(i) /\ UNCHANGED seedVars PROVE Apart'
    BY <1>10 DEF Remove, seedVars, Apart
  <1>11. CASE UNCHANGED allVars
    BY <1>11 DEF allVars, vars, seedVars, Apart
  <1> QED BY <1>1, <1>2, <1>3, <1>4, <1>5, <1>6, <1>7, <1>8, <1>9, <1>10, <1>11
          DEF SeedingNext

\* Type correctness of starts and both tables, and a start is at one of them.
THEOREM SeedingTypeCorrect == SeedingSpec => []SeedingTypeOK
  <1>1. SeedingInit => Apart
    BY DEF SeedingInit, Init, Store!CatalogueInit, Apart
  <1>2. SeedingSpec => []TypeOK
    BY SeedingImplementsUserTable, TypeCorrect, PTL
  <1>3. TypeOK /\ CatalogueInv /\ Apart /\ [SeedingNext]_allVars => Apart'
    BY ApartNext
  <1>4. TypeOK /\ CatalogueInv /\ Apart => SeedingTypeOK
    BY DEF CatalogueInv, Apart, SeedingTypeOK
  <1> QED BY <1>1, <1>2, <1>3, <1>4, CatalogueInvariance, PTL DEF SeedingSpec
=============================================================================
