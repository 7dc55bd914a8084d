------------------------------ MODULE LruCache ------------------------------
(***************************************************************************)
(* CLruCacheV2: CACHE_LOCK_NUM caches with a mutex each, a key in the one  *)
(* its hash names.  Each CLruCache is a map from keys to nodes of a doubly *)
(* linked list, the node used last at the head; when the map is larger     *)
(* than m_dwMaxSize, set first throws CACHE_REMOVE_NUM nodes away from the *)
(* tail.  An operation on one cache holds its mutex from start to end, so  *)
(* it is one step; clear of V2 takes the caches one after another.         *)
(*                                                                         *)
(* A node's age is time(0) - dwCTime: the clock does not step back.  Keys  *)
(* are numbers and stand for their hashes.                                 *)
(***************************************************************************)
EXTENDS Integers, FiniteSets, SequencesExt

CONSTANTS
    Keys, Values,
    ExpireTimes,            (* 0: never                                      *)
    CACHE_LOCK_NUM, CACHE_REMOVE_NUM,
    LruMaxSize              (* m_dwMaxSize, which the constructor makes 10000 *)

\* 50 <= 10000: when all nodes go, removeFromListTail leaves pstHead behind.
ASSUME LruCacheAssumption ==
    /\ Keys \subseteq Nat /\ IsFiniteSet(Keys) /\ ExpireTimes \subseteq Nat
    /\ CACHE_LOCK_NUM \in Nat \ {0}
    /\ CACHE_REMOVE_NUM \in Nat \ {0} /\ LruMaxSize \in Nat /\ CACHE_REMOVE_NUM <= LruMaxSize

VARIABLES
    caches,         (* [map, key, data, age, expire, next, prev, pstHead, pstTail, m_dwSize, used] each *)
    recent,         (* per cache: <<key, value>> that it should hold, the last used first *)
    clearing        (* the next cache V2's clear takes; -1: none under way   *)

lruVars == <<caches, recent, clearing>>

NULL == 0
Shards == 0 .. CACHE_LOCK_NUM - 1
Shard(k) == k % CACHE_LOCK_NUM
Nodes == 1 .. LruMaxSize + 2
Oldest == IF ExpireTimes = {} THEN 0 ELSE 1 + CHOOSE t \in ExpireTimes : \A u \in ExpireTimes : u <= t

EmptyCache ==
    [map |-> [k \in Keys |-> NULL],
     key |-> [n \in Nodes |-> NULL], data |-> [n \in Nodes |-> NULL],
     age |-> [n \in Nodes |-> 0], expire |-> [n \in Nodes |-> 0],
     next |-> [n \in Nodes |-> NULL], prev |-> [n \in Nodes |-> NULL],
     pstHead |-> NULL, pstTail |-> NULL, m_dwSize |-> 0, used |-> {}]

LruInit ==
    /\ caches = [s \in Shards |-> EmptyCache]
    /\ recent = [s \in Shards |-> <<>>]
    /\ clearing = -1

-----------------------------------------------------------------------------
\* delete node: it holds nothing any more.
Deleted(c, n) ==
    [c EXCEPT !.used = @ \ {n}, !.key[n] = NULL, !.data[n] = NULL, !.age[n] = 0,
              !.expire[n] = 0, !.next[n] = NULL, !.prev[n] = NULL]

AddToListHead(c, n) ==
    [IF c.pstHead = NULL
     THEN [c EXCEPT !.next[n] = NULL, !.prev[n] = NULL, !.pstHead = n, !.pstTail = n]
     ELSE [c EXCEPT !.next[n] = c.pstHead, !.prev[n] = NULL, !.prev[c.pstHead] = n, !.pstHead = n]
     EXCEPT !.m_dwSize = @ + 1]

RemoveFromListTail(c) ==
    LET last == c.prev[c.pstTail]
        cut == [c EXCEPT !.pstTail = last, !.m_dwSize = @ - 1]
    IN Deleted(IF last = NULL THEN cut ELSE [cut EXCEPT !.next[last] = NULL], c.pstTail)

RemoveFromList_KeepsTail(c, n) ==
    LET next == c.next[n] prev == c.prev[n]
    IN [c EXCEPT !.pstHead = IF prev = NULL THEN next ELSE @,
                 !.next = IF prev = NULL THEN @ ELSE [@ EXCEPT ![prev] = next],
                 !.prev = IF next = NULL THEN @ ELSE [@ EXCEPT ![next] = prev],
                 !.m_dwSize = @ - 1]
RemoveFromList(c, n) ==
    LET next == c.next[n] prev == c.prev[n]
    IN [c EXCEPT !.pstHead = IF prev = NULL THEN next ELSE @,
                 !.pstTail = IF next = NULL THEN prev ELSE @,
                 !.next = IF prev = NULL THEN @ ELSE [@ EXCEPT ![prev] = next],
                 !.prev = IF next = NULL THEN @ ELSE [@ EXCEPT ![next] = prev],
                 !.m_dwSize = @ - 1]

Size(c) == Cardinality({k \in Keys : c.map[k] # NULL})

\* Room for one more: the loop over the tail.
EvictOne(c) ==
    IF c.pstTail = NULL THEN c
    ELSE RemoveFromListTail([c EXCEPT !.map[c.key[c.pstTail]] = NULL])
Evicted(c) ==
    LET Turn[i \in 0 .. CACHE_REMOVE_NUM] == IF i = 0 THEN c ELSE EvictOne(Turn[i - 1])
    IN IF Size(c) > LruMaxSize THEN Turn[CACHE_REMOVE_NUM] ELSE c

Stored(c, n, v, t) == [c EXCEPT !.data[n] = v, !.age[n] = 0, !.expire[n] = t]
SetIn(c, k, v, t) ==
    LET d == Evicted(c)
        old == d.map[k]
        new == CHOOSE n \in Nodes : n \notin d.used /\ \A m \in Nodes \ d.used : n <= m
    IN IF old # NULL THEN AddToListHead(RemoveFromList(Stored(d, old, v, t), old), old)
       ELSE [AddToListHead([Stored(d, new, v, t) EXCEPT !.key[new] = k, !.used = @ \cup {new}], new)
             EXCEPT !.map[k] = new]

Expired(c, n) == c.expire[n] # 0 /\ c.age[n] > c.expire[n]
Removed(c, k) ==
    [Deleted(RemoveFromList(c, c.map[k]), c.map[k]) EXCEPT !.map[k] = NULL]
GetIn(c, k) ==
    LET n == c.map[k]
    IN IF n = NULL THEN c
       ELSE IF Expired(c, n) THEN Removed(c, k)
       ELSE AddToListHead(RemoveFromList(c, n), n)
DelIn(c, k) == IF c.map[k] = NULL THEN c ELSE Removed(c, k)

-----------------------------------------------------------------------------
\* What a cache of the last used promises.
IndexOf(r, k) == CHOOSE i \in 1 .. Len(r) : r[i][1] = k
Without(r, k) == IF \E i \in 1 .. Len(r) : r[i][1] = k THEN RemoveAt(r, IndexOf(r, k)) ELSE r
Held(r, k) == r[IndexOf(r, k)]

Changes(s, c, r) ==
    /\ caches' = [caches EXCEPT ![s] = c]
    /\ recent' = [recent EXCEPT ![s] = r]

Set(k, v, t) ==
    LET s == Shard(k)
        r == recent[s]
        kept == IF Len(r) > LruMaxSize THEN SubSeq(r, 1, Len(r) - CACHE_REMOVE_NUM) ELSE r
    IN Changes(s, SetIn(caches[s], k, v, t), <<<<k, v>>>> \o Without(kept, k)) /\ UNCHANGED clearing

Get(k) ==
    LET s == Shard(k)
        c == caches[s]
        r == recent[s]
    IN /\ c.map[k] # NULL
       /\ Changes(s, GetIn(c, k),
                  IF Expired(c, c.map[k]) THEN Without(r, k) ELSE <<Held(r, k)>> \o Without(r, k))
       /\ UNCHANGED clearing

Del(k) ==
    LET s == Shard(k)
    IN Changes(s, DelIn(caches[s], k), Without(recent[s], k)) /\ UNCHANGED clearing

\* V2's clear, and between two of its caches anything else.
ClearBegin == clearing = -1 /\ clearing' = 0 /\ UNCHANGED <<caches, recent>>
ClearOne ==
    /\ clearing \in Shards
    /\ Changes(clearing, EmptyCache, <<>>)
    /\ clearing' = IF clearing + 1 \in Shards THEN clearing + 1 ELSE -1

\* A second passes, for the nodes that can expire.
Second ==
    /\ caches' = [s \in Shards |-> [caches[s] EXCEPT !.age =
                    [n \in Nodes |-> IF caches[s].expire[n] # 0 /\ @[n] < Oldest THEN @[n] + 1 ELSE @[n]]]]
    /\ UNCHANGED <<recent, clearing>>

LruNext ==
    \/ \E k \in Keys : Get(k) \/ Del(k) \/ \E v \in Values, t \in ExpireTimes : Set(k, v, t)
    \/ ClearBegin \/ ClearOne \/ Second

LruSpec == LruInit /\ [][LruNext]_lruVars

-----------------------------------------------------------------------------
\* Every cache is the cache it promises to be: its list is the keys and values it
\* should hold, the last used first, linked both ways from pstHead to pstTail
\* through nodes that are not deleted; its map names exactly those nodes, and
\* m_dwSize counts them.  So what get finds is what was set last and the node that
\* is thrown away is the one used least recently.
HoldsLastUsed ==
    \A s \in Shards :
        LET c == caches[s]
            r == recent[s]
            At[i \in 0 .. Len(r) + 1] == IF i = 0 THEN NULL ELSE IF i = 1 THEN c.pstHead ELSE c.next[At[i - 1]]
        IN /\ \A i \in 1 .. Len(r) :
                 /\ At[i] \in c.used /\ c.key[At[i]] = r[i][1] /\ c.data[At[i]] = r[i][2]
                 /\ c.prev[At[i]] = At[i - 1] /\ c.map[r[i][1]] = At[i]
           /\ c.pstTail = At[Len(r)] /\ (r = <<>> => c.pstHead = NULL) /\ (r # <<>> => At[Len(r) + 1] = NULL)
           /\ c.m_dwSize = Len(r) /\ Cardinality(c.used) = Len(r) /\ Size(c) = Len(r)
           /\ Len(r) <= LruMaxSize + 1
=============================================================================
