-------------------------- MODULE CachedReadProofs --------------------------
(***************************************************************************)
(* Theorems about CachedRead, for any readers, writers, keys and bound on  *)
(* the changes of the data.                                                *)
(*                                                                         *)
(* A reader holds what it has read for as long as it likes, and a writer   *)
(* deletes what it has listed before.  What keeps a response from being    *)
(* outdated is that one of the two has seen the other.                     *)
(***************************************************************************)
EXTENDS CachedRead, TLAPS

\* A reader that has missed is after a key, and one that holds a response has
\* missed before; one that holds outdated data, or is there while a writer is at
\* work, has overlapped.
ReadersKnown ==
    \A r \in Readers :
        /\ r \in missed => reading[r] # Nothing
        /\ fetched[r] # Nothing => r \in missed
        /\ own[r] \notin {Nothing, version} => r \in overlapped
        /\ fetched[r] \notin {Nothing, version} => r \in overlapped
        /\ r \in UnderWay /\ SomeoneAtWork => r \in overlapped

\* A writer that has listed the keys knows all that hold a response, and one
\* that has deleted them leaves none, but for the doubtful.
WritersKnow ==
    \A w \in Writers, k \in Keys : cached[k] # Nothing /\ k \notin doubtful =>
        /\ stage[w] = "listed" => k \in doomed[w]
        /\ stage[w] # "deleted"

CacheInv == TypeOK /\ ReadersKnown /\ WritersKnow /\ NoneStaleWithoutCause

LEMMA CacheInvInit == Init => CacheInv
  <1> SUFFICES ASSUME Init PROVE CacheInv
    OBVIOUS
  <1>1. 0 \in Versions
    BY CachedReadAssumption DEF Versions
  <1> QED BY <1>1 DEF Init, CacheInv, TypeOK, ReadersKnown, WritersKnow,
                      NoneStaleWithoutCause, Stale, SomeoneAtWork, UnderWay

LEMMA TypeOKNext == CacheInv /\ [Next]_vars => TypeOK'
  <1> SUFFICES ASSUME CacheInv, [Next]_vars PROVE TypeOK'
    OBVIOUS
  <1> USE DEF CacheInv, TypeOK, Versions
  <1>1. ASSUME NEW r \in Readers, NEW k \in Keys, PassGate(r, k) PROVE TypeOK'
    BY <1>1 DEF PassGate
  <1>2. ASSUME NEW r \in Readers, Miss(r) PROVE TypeOK'
    BY <1>2 DEF Miss
  <1>3. ASSUME NEW r \in Readers, RunHandler(r) PROVE TypeOK'
    <2>1. Selected(r) \in Versions
      BY <1>3 DEF RunHandler, Selected
    <2> QED BY <1>3, <2>1 DEF RunHandler
  <1>4. ASSUME NEW r \in Readers, AddToCache(r) PROVE TypeOK'
    <2>1. doubtful' \subseteq Keys
      <3>1. reading[r] \in Keys
        BY <1>4 DEF AddToCache, ReadersKnown
      <3> QED BY <1>4, <3>1 DEF AddToCache
    <2> QED BY <1>4, <2>1 DEF AddToCache, Response, EndRead
  <1>5. ASSUME NEW r \in Readers, AbandonRead(r) PROVE TypeOK'
    BY <1>5 DEF AbandonRead, EndRead
  <1>6. ASSUME NEW w \in Writers, ListKeys(w) PROVE TypeOK'
    BY <1>6 DEF ListKeys, UnderWay
  <1>7. ASSUME NEW w \in Writers, DeleteKeys(w) PROVE TypeOK'
    BY <1>7 DEF DeleteKeys, reads
  <1>8. ASSUME NEW w \in Writers, Change(w) PROVE TypeOK'
    BY <1>8, CachedReadAssumption DEF Change, Unannounced, UnderWay
  <1>9. ASSUME NEW w \in Writers, AbandonWrite(w) PROVE TypeOK'
    BY <1>9 DEF AbandonWrite, reads
  <1>10. CASE ChangeUndecorated
    BY <1>10, CachedReadAssumption DEF ChangeUndecorated, Unannounced, UnderWay
  <1>11. ASSUME NEW k \in Keys, Expire(k) PROVE TypeOK'
    BY <1>11 DEF Expire, reads
  <1>12. CASE Restart
    BY <1>12 DEF Restart
  <1>13. CASE UNCHANGED vars
    BY <1>13 DEF vars, reads
  <1> QED BY <1>1, <1>2, <1>3, <1>4, <1>5, <1>6, <1>7, <1>8, <1>9, <1>10, <1>11, <1>12, <1>13
          DEF Next

-----------------------------------------------------------------------------
LEMMA ReadersKnownNext == CacheInv /\ [Next]_vars => ReadersKnown'
  <1> SUFFICES ASSUME CacheInv, [Next]_vars PROVE ReadersKnown'
    OBVIOUS
  <1> USE DEF CacheInv, TypeOK, ReadersKnown, UnderWay, SomeoneAtWork
  <1>1. ASSUME NEW r \in Readers, NEW k \in Keys, PassGate(r, k) PROVE ReadersKnown'
    BY <1>1 DEF PassGate
  <1>2. ASSUME NEW r \in Readers, Miss(r) PROVE ReadersKnown'
    BY <1>2 DEF Miss
  <1>3. ASSUME NEW r \in Readers, RunHandler(r) PROVE ReadersKnown'
    BY <1>3 DEF RunHandler, Selected
  <1>4. ASSUME NEW r \in Readers, AddToCache(r) \/ AbandonRead(r) PROVE ReadersKnown'
    BY <1>4 DEF AddToCache, AbandonRead, EndRead
  <1>5. ASSUME NEW w \in Writers, ListKeys(w) PROVE ReadersKnown'
    BY <1>5 DEF ListKeys
  <1>6. ASSUME NEW w \in Writers, DeleteKeys(w) PROVE ReadersKnown'
    BY <1>6 DEF DeleteKeys, reads
  <1>7. ASSUME NEW w \in Writers, Change(w) PROVE ReadersKnown'
    <2>1. UnderWay \cap Readers \subseteq overlapped'
      <3>1. CASE connected
        BY <1>7, <3>1 DEF Change, MayChange
      <3>2. CASE ~connected
        BY <1>7, <3>2 DEF Change, Unannounced
      <3> QED BY <3>1, <3>2
    <2>2. \A r \in Readers : own[r] # Nothing \/ fetched[r] # Nothing => r \in overlapped'
      BY <2>1
    <2> QED BY <1>7, <2>1, <2>2 DEF Change
  <1>8. ASSUME NEW w \in Writers, AbandonWrite(w) PROVE ReadersKnown'
    BY <1>8 DEF AbandonWrite, reads
  <1>9. CASE ChangeUndecorated
    BY <1>9 DEF ChangeUndecorated, Unannounced
  <1>10. ASSUME NEW k \in Keys, Expire(k) PROVE ReadersKnown'
    BY <1>10 DEF Expire, reads
  <1>11. CASE Restart
    BY <1>11 DEF Restart
  <1>12. CASE UNCHANGED vars
    BY <1>12 DEF vars, reads
  <1> QED BY <1>1, <1>2, <1>3, <1>4, <1>5, <1>6, <1>7, <1>8, <1>9, <1>10, <1>11, <1>12
          DEF Next

\* A response is stored without a doubt only while no writer is at work, and it
\* is the present data then.
LEMMA StoreNext ==
    ASSUME CacheInv, NEW r \in Readers, AddToCache(r)
    PROVE  WritersKnow' /\ NoneStaleWithoutCause'
  <1> USE DEF CacheInv, TypeOK
  <1>1. version' = version /\ stage' = stage /\ doomed' = doomed
    BY DEF AddToCache
  <1>2. SUFFICES ASSUME NEW k \in Keys, cached'[k] # Nothing, k \notin doubtful'
                 PROVE  /\ cached'[k] = version
                        /\ \A w \in Writers : /\ stage[w] = "listed" => k \in doomed[w]
                                              /\ stage[w] # "deleted"
    BY <1>1 DEF WritersKnow, NoneStaleWithoutCause, Stale
  <1>3. CASE k = reading[r]
    <2>1. r \notin overlapped /\ r \in UnderWay
      BY <1>2, <1>3 DEF AddToCache, ReadersKnown, UnderWay
    <2>2. \A w \in Writers : stage[w] = "idle"
      BY <2>1 DEF ReadersKnown, SomeoneAtWork
    <2>3. fetched[r] = version
      BY <2>1 DEF AddToCache, ReadersKnown
    <2> QED BY <1>3, <2>2, <2>3 DEF AddToCache, Response
  <1>4. CASE k # reading[r]
    <2>1. cached'[k] = cached[k] /\ k \notin doubtful
      BY <1>2, <1>4 DEF AddToCache
    <2> QED BY <1>2, <2>1 DEF WritersKnow, NoneStaleWithoutCause, Stale
  <1> QED BY <1>3, <1>4

\* When a writer that has deleted the keys commits, all that is cached is
\* doubtful already; without Redis, or a decorator, all becomes so.
LEMMA ChangeNext ==
    ASSUME CacheInv, ChangeUndecorated \/ \E w \in Writers : Change(w)
    PROVE  WritersKnow' /\ NoneStaleWithoutCause'
  <1> USE DEF CacheInv, TypeOK
  <1>1. cached' = cached
    BY DEF ChangeUndecorated, Change
  <1>2. \A k \in Keys : cached'[k] # Nothing => k \in doubtful'
    <2>1. ASSUME NEW w \in Writers, Change(w), connected
          PROVE  \A k \in Keys : cached'[k] # Nothing => k \in doubtful'
      BY <2>1 DEF Change, MayChange, WritersKnow
    <2>2. ASSUME doubtful' = Keys
          PROVE  \A k \in Keys : cached'[k] # Nothing => k \in doubtful'
      BY <2>2
    <2> QED BY <2>1, <2>2 DEF ChangeUndecorated, Change, Unannounced
  <1> QED BY <1>2 DEF WritersKnow, NoneStaleWithoutCause, Stale

LEMMA CacheInvNext == CacheInv /\ [Next]_vars => CacheInv'
  <1> SUFFICES ASSUME CacheInv, [Next]_vars PROVE WritersKnow' /\ NoneStaleWithoutCause'
    BY TypeOKNext, ReadersKnownNext DEF CacheInv
  <1> USE DEF CacheInv, TypeOK, WritersKnow, NoneStaleWithoutCause, Stale
  <1>1. ASSUME NEW r \in Readers, NEW k \in Keys, PassGate(r, k)
        PROVE  WritersKnow' /\ NoneStaleWithoutCause'
    BY <1>1 DEF PassGate
  <1>2. ASSUME NEW r \in Readers, Miss(r) \/ RunHandler(r) \/ AbandonRead(r)
        PROVE  WritersKnow' /\ NoneStaleWithoutCause'
    BY <1>2 DEF Miss, RunHandler, AbandonRead
  <1>3. ASSUME NEW w \in Writers, ListKeys(w) PROVE WritersKnow' /\ NoneStaleWithoutCause'
    BY <1>3 DEF ListKeys
  <1>4. ASSUME NEW w \in Writers, DeleteKeys(w) PROVE WritersKnow' /\ NoneStaleWithoutCause'
    BY <1>4 DEF DeleteKeys, reads
  <1>5. ASSUME NEW w \in Writers, AbandonWrite(w) PROVE WritersKnow' /\ NoneStaleWithoutCause'
    BY <1>5 DEF AbandonWrite, reads
  <1>6. ASSUME NEW k \in Keys, Expire(k) PROVE WritersKnow' /\ NoneStaleWithoutCause'
    BY <1>6 DEF Expire, reads
  <1>7. CASE Restart
    BY <1>7 DEF Restart
  <1>8. CASE UNCHANGED vars
    BY <1>8 DEF vars, reads
  <1> QED BY <1>1, <1>2, <1>3, <1>4, <1>5, <1>6, <1>7, <1>8, StoreNext, ChangeNext DEF Next

\* The inductive invariant.
THEOREM Invariance == Spec => []CacheInv
  BY CacheInvInit, CacheInvNext, PTL DEF Spec

\* Type correctness.
THEOREM TypeCorrect == Spec => []TypeOK
  BY Invariance, PTL DEF CacheInv

\* An outdated response was stored by a reader that overlapped a writer, or was
\* there, or on its way, at a change without Redis or without invalidate()
\* (src/app/cache/cache.py lines 38 to 84), for any number of readers, writers
\* and keys.
THEOREM OutdatedForCause == Spec => []NoneStaleWithoutCause
  BY Invariance, PTL DEF CacheInv
=============================================================================
