----------------------------- MODULE CachedRead -----------------------------
(***************************************************************************)
(* The response cache of src/app/cache: handlers decorated with cache()    *)
(* (readers) and with invalidate() (writers) of one namespace, over Redis. *)
(*                                                                         *)
(* A reader passes the request gate, looks its key up, on a miss runs the  *)
(* handler and then stores the response.  Gate and handler share a         *)
(* session: the handler's SELECT of a row that the gate has loaded, the    *)
(* administrator's own, does not refresh it.  The key does not tell which  *)
(* administrator asks, so that response is for all.  A writer lists the    *)
(* keys of the namespace, deletes them, and only then runs the handler     *)
(* that changes the data.  Every call to Redis and to the database is an   *)
(* await where others run.  Not every function that changes the data is    *)
(* such a writer: others change it and leave the cache as it is.           *)
(*                                                                         *)
(* The data behind the namespace is a version number; a cached response    *)
(* is the version it was computed from.  Two history variables say which   *)
(* responses may be outdated, and why: see NoneStaleWithoutCause.          *)
(***************************************************************************)
EXTENDS Integers

CONSTANTS
    Readers, Writers,   \* calls that may be in progress together
    Keys,               \* cache keys of the namespace
    MaxVersion,         \* bound on the number of changes of the data
    MayLoseRedis,       \* whether a restart may come up without Redis
    Undecorated,        \* whether functions without invalidate() are called
    Nothing             \* no response, no key

ASSUME CachedReadAssumption == /\ MaxVersion \in Nat
                               /\ {MayLoseRedis, Undecorated} \subseteq BOOLEAN
                               /\ Readers \cap Writers = {}

VARIABLES
    version,    \* the data, as committed
    cached,     \* Redis: [Keys -> version or Nothing]
    connected,  \* Cache().status is CONNECTED, decided once at startup
    reading,    \* [r]: key of the response a reader is after, Nothing: idle
    own,        \* [r]: version the gate has loaded if it is the reader's own row
    missed,     \* readers that have found nothing under their key
    fetched,    \* [r]: version its handler has read, Nothing before
    stage,      \* [w]: "idle", "listed" or "deleted"
    doomed,     \* [w]: keys listed for deletion
    overlapped, \* history: readers that since they read the data, or missed,
                \* were there while a writer was at work or a change unannounced
    doubtful    \* history: keys that such a reader stored last, and all keys
                \* from an unannounced change on

reads == <<reading, own, missed, fetched, overlapped>>
vars == <<version, cached, connected, reads, stage, doomed, doubtful>>

Versions == 0..MaxVersion

Init ==
    /\ version = 0
    /\ cached = [k \in Keys |-> Nothing]
    /\ connected = TRUE
    /\ reading = [r \in Readers |-> Nothing]
    /\ own = [r \in Readers |-> Nothing]
    /\ missed = {}
    /\ fetched = [r \in Readers |-> Nothing]
    /\ stage = [w \in Writers |-> "idle"]
    /\ doomed = [w \in Writers |-> {}]
    /\ overlapped = {}
    /\ doubtful = {}

\* Readers that have found nothing, or whose session has the row already.
UnderWay == missed \cup {r \in Readers : own[r] # Nothing}

SomeoneAtWork == \E w \in Writers : stage[w] # "idle"

-----------------------------------------------------------------------------
\* get_current_user() loads the administrator's row, which may be the one that
\* is asked for.
PassGate(r, k) ==
    /\ reading[r] = Nothing
    /\ reading' = [reading EXCEPT ![r] = k]
    /\ \/ own' = own /\ UNCHANGED overlapped
       \/ /\ own' = [own EXCEPT ![r] = version]
          /\ overlapped' = overlapped \cup {x \in {r} : SomeoneAtWork}
    /\ UNCHANGED <<version, cached, connected, missed, fetched, stage, doomed, doubtful>>

\* check_cache() finds nothing.  A hit answers from the cache and a reader
\* without Redis runs the handler only: neither changes anything (EndRead).
Miss(r) ==
    /\ reading[r] # Nothing /\ r \notin missed
    /\ connected
    /\ cached[reading[r]] = Nothing
    /\ missed' = missed \cup {r}
    /\ overlapped' = overlapped \cup {x \in {r} : SomeoneAtWork}
    /\ UNCHANGED <<version, cached, connected, reading, own, fetched, stage, doomed, doubtful>>

\* What the handler's SELECT yields: the row the session has, or the committed.
Selected(r) == IF own[r] # Nothing THEN own[r] ELSE version

RunHandler(r) ==
    /\ r \in missed /\ fetched[r] = Nothing
    /\ fetched' = [fetched EXCEPT ![r] = Selected(r)]
    /\ UNCHANGED <<version, cached, connected, reading, own, missed, overlapped,
                   stage, doomed, doubtful>>

EndRead(r) ==
    /\ reading' = [reading EXCEPT ![r] = Nothing]
    /\ own' = [own EXCEPT ![r] = Nothing]
    /\ missed' = missed \ {r}
    /\ fetched' = [fetched EXCEPT ![r] = Nothing]
    /\ overlapped' = overlapped \ {r}

\* Mutant: the key is stored as its own value.
ResponseSwapped(r) == reading[r]

\* response_data
Response(r) == fetched[r]

\* add_to_cache(): SET, whatever the key holds by now.
AddToCache(r) ==
    /\ fetched[r] # Nothing
    /\ cached' = [cached EXCEPT ![reading[r]] = Response(r)]
    /\ doubtful' = IF r \in overlapped THEN doubtful \cup {reading[r]}
                                       ELSE doubtful \ {reading[r]}
    /\ EndRead(r)
    /\ UNCHANGED <<version, connected, stage, doomed>>

\* A hit, a reader without Redis, or the handler or Redis raises: nothing is
\* stored.
AbandonRead(r) ==
    /\ reading[r] # Nothing
    /\ EndRead(r)
    /\ UNCHANGED <<version, cached, connected, stage, doomed, doubtful>>

-----------------------------------------------------------------------------
\* KEYS pattern
ListKeys(w) ==
    /\ stage[w] = "idle" /\ connected
    /\ stage' = [stage EXCEPT ![w] = "listed"]
    /\ doomed' = [doomed EXCEPT ![w] = {k \in Keys : cached[k] # Nothing}]
    /\ overlapped' = overlapped \cup UnderWay
    /\ UNCHANGED <<version, cached, connected, reading, own, missed, fetched, doubtful>>

\* DEL of the keys listed, which skips those that came later.
DeleteKeys(w) ==
    /\ stage[w] = "listed"
    /\ cached' = [k \in Keys |-> IF k \in doomed[w] THEN Nothing ELSE cached[k]]
    /\ stage' = [stage EXCEPT ![w] = "deleted"]
    /\ doomed' = [doomed EXCEPT ![w] = {}]
    /\ UNCHANGED <<version, connected, reads, doubtful>>

\* Mutant: the handler does not wait for the deletion.
MayChangeEarly(w) == stage[w] # "listed"

\* Without Redis nothing is deleted and the handler runs at once.
MayChange(w) == \/ stage[w] = "deleted"
                \/ stage[w] = "idle" /\ ~connected

\* Nobody has listed and deleted the keys before the data changes.
Unannounced ==
    /\ doubtful' = Keys
    /\ overlapped' = overlapped \cup UnderWay

\* The handler commits the change.
Change(w) ==
    /\ MayChange(w)
    /\ version < MaxVersion
    /\ version' = version + 1
    /\ stage' = [stage EXCEPT ![w] = "idle"]
    /\ IF connected THEN UNCHANGED <<overlapped, doubtful>> ELSE Unannounced
    /\ UNCHANGED <<cached, connected, reading, own, missed, fetched, doomed>>

\* set_user_activation(), update_multi(), the OTP registration and
\* create_super_admin() commit changes to the same rows, without a decorator.
ChangeUndecorated ==
    /\ Undecorated
    /\ version < MaxVersion
    /\ version' = version + 1
    /\ Unannounced
    /\ UNCHANGED <<cached, connected, reading, own, missed, fetched, stage, doomed>>

\* The handler or Redis raises: the data stays, deleted keys stay deleted.
AbandonWrite(w) ==
    /\ stage[w] # "idle"
    /\ stage' = [stage EXCEPT ![w] = "idle"]
    /\ doomed' = [doomed EXCEPT ![w] = {}]
    /\ UNCHANGED <<version, cached, connected, reads, doubtful>>

-----------------------------------------------------------------------------
\* Mutant: SET without EX.
HasExpiryNever(k) == FALSE

\* SET ... EX: every entry expires, within calculate_ttl() seconds.
HasExpiry(k) == cached[k] # Nothing

Expire(k) ==
    /\ HasExpiry(k)
    /\ cached' = [cached EXCEPT ![k] = Nothing]
    /\ UNCHANGED <<version, connected, reads, stage, doomed, doubtful>>

\* The process restarts: calls in progress are gone, Redis keeps its keys, and
\* redis_connect() is tried once.
Restart ==
    /\ connected' \in (IF MayLoseRedis THEN BOOLEAN ELSE {TRUE})
    /\ reading' = [r \in Readers |-> Nothing]
    /\ own' = [r \in Readers |-> Nothing]
    /\ missed' = {}
    /\ fetched' = [r \in Readers |-> Nothing]
    /\ stage' = [w \in Writers |-> "idle"]
    /\ doomed' = [w \in Writers |-> {}]
    /\ overlapped' = {}
    /\ UNCHANGED <<version, cached, doubtful>>

Next ==
    \/ \E r \in Readers : \/ \E k \in Keys : PassGate(r, k)
                          \/ Miss(r)
                          \/ RunHandler(r)
                          \/ AddToCache(r)
                          \/ AbandonRead(r)
    \/ \E w \in Writers : \/ ListKeys(w)
                          \/ DeleteKeys(w)
                          \/ Change(w)
                          \/ AbandonWrite(w)
    \/ ChangeUndecorated
    \/ \E k \in Keys : Expire(k)
    \/ Restart

\* Redis expires entries, and a reader that has read does store.
Fairness == /\ \A k \in Keys : WF_vars(Expire(k))
            /\ \A r \in Readers : WF_vars(AddToCache(r))

Spec == Init /\ [][Next]_vars
FairSpec == Spec /\ Fairness

-----------------------------------------------------------------------------
\* Each variable has its type.
TypeOK ==
    /\ version \in Versions
    /\ cached \in [Keys -> Versions \cup {Nothing}]
    /\ connected \in BOOLEAN
    /\ reading \in [Readers -> Keys \cup {Nothing}]
    /\ own \in [Readers -> Versions \cup {Nothing}]
    /\ missed \subseteq Readers
    /\ fetched \in [Readers -> Versions \cup {Nothing}]
    /\ stage \in [Writers -> {"idle", "listed", "deleted"}]
    /\ doomed \in [Writers -> SUBSET Keys]
    /\ overlapped \subseteq Readers
    /\ doubtful \subseteq Keys

Stale(k) == cached[k] # Nothing /\ cached[k] # version

\* An outdated response has one of three causes.  The reader that stored it was
\* between its miss (or the gate, if the row is its own) and its store while a
\* writer was between its listing and its commit; or a writer without Redis, or
\* one that is not decorated, changed the data while the response was stored or
\* on its way.  Every other response is the present data, whatever has happened
\* to other keys: deleting before the change is enough for it.
NoneStaleWithoutCause == \A k \in Keys : Stale(k) => k \in doubtful

\* A stale response goes away in the end.
EventuallyFresh == <>[](\A k \in Keys : ~Stale(k))

\* "for each data change, all caches of the corresponding module are cleared
\* and cached from the beginning with new data" (src/app/cache/cache-doc.md):
\* once no writer is at work, nothing outdated is served.
ClearedByChanges ==
    (\A w \in Writers : stage[w] = "idle") => \A k \in Keys : ~Stale(k)
=============================================================================
