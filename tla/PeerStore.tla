----------------------------- MODULE PeerStore -----------------------------
(***************************************************************************)
(* The peers other nodes have announced to this one: PeerStore of          *)
(* includes/dht.py and the incoming get_peers, announce_peer and           *)
(* sample_infohashes queries that read and change it.                      *)
(*                                                                         *)
(* Both levels of the store are OrderedDicts; an OrderedDict is modelled   *)
(* by its keys and the relation between an older and a newer one.  The     *)
(* values of the inner ones are the times of the announcements.  An        *)
(* announcement whose token TokenManager refuses changes nothing, so that  *)
(* every announcement here carries a good one.  What the answers contain   *)
(* besides samples (tokens, the closest nodes) and their limit in bytes    *)
(* are left out.  The unit of time is arbitrary.                           *)
(***************************************************************************)
EXTENDS Integers, FiniteSets

CONSTANTS
    Keys,          \* info hashes
    Announcers,    \* endpoints of announced peers
    MaxKeys,       \* DHT_PEER_STORE_MAX_INFOHASHES
    MaxPerKey,     \* DHT_PEER_STORE_MAX_PEERS_PER_HASH
    TTL,           \* DHT_PEER_STORE_TTL
    Interval,      \* DHT_BEP51_RESPONSE_INTERVAL
    MaxSamples,    \* BEP51_MAX_SAMPLES_PER_RESPONSE
    MaxNow         \* bound: the clock

ASSUME StoreAssumption ==
    /\ MaxKeys \in Nat \ {0} /\ MaxPerKey \in Nat \ {0} /\ MaxSamples \in Nat
    /\ TTL \in Nat /\ Interval \in Nat /\ MaxNow \in Nat
    /\ IsFiniteSet(Keys) /\ IsFiniteSet(Announcers)

Never == -1

VARIABLES
    now_ns,     \* time.monotonic_ns()
    store,      \* PeerStore._store: the OrderedDict of the info hashes
    peers,      \* its values: the OrderedDict of the peers of each
    seen,       \* their values: when a peer was last announced for a key; kept
                \* as a history when the peer is gone
    cache,      \* _sample_cache: when it is due, and the keys it holds
    answered    \* history: the last answer to sample_infohashes

storeVars == <<now_ns, store, peers, seen, cache, answered>>

-----------------------------------------------------------------------------
(* OrderedDict *)

Ordered(S) == [keys : SUBSET S, before : SUBSET (S \X S)]
Empty == [keys |-> {}, before |-> {}]

\* The dictionary without the keys that are not in S.
Only(d, S) == [keys |-> d.keys \cap S, before |-> d.before \cap (S \X S)]

\* d[x] = ..., d.move_to_end(x), for a key that is new or is there.
WithLast(d, x) ==
    LET others == d.keys \ {x}
    IN  [keys |-> others \cup {x},
         before |-> (d.before \cap (others \X others)) \cup (others \X {x})]

\* Mutated form: popitem() without last=False drops the newest.
WithoutOldest_Newest(d, limit) ==
    IF Cardinality(d.keys) < limit THEN d
    ELSE Only(d, {x \in d.keys : \E y \in d.keys : <<x, y>> \in d.before})

\* popitem(last=False) where there is no room for one more.
WithoutOldest(d, limit) ==
    IF Cardinality(d.keys) < limit THEN d
    ELSE Only(d, {x \in d.keys : \E y \in d.keys : <<y, x>> \in d.before})

-----------------------------------------------------------------------------
(* The store *)

Sample == [at : Int, keys : SUBSET Keys]

StoreTypeOK ==
    /\ now_ns \in 0..MaxNow
    /\ store \in Ordered(Keys)
    /\ peers \in [Keys -> Ordered(Announcers)]
    /\ seen \in [Keys -> [Announcers -> -1..now_ns]]
    /\ cache \in Sample /\ answered \in Sample

StoreInit ==
    /\ now_ns = 0
    /\ store = Empty
    /\ peers = [k \in Keys |-> Empty]
    /\ seen = [k \in Keys |-> [p \in Announcers |-> Never]]
    /\ cache = [at |-> Never, keys |-> {}]
    /\ answered = [at |-> Never, keys |-> {}]

\* _prune: announcements older than the time to live go, and then the keys
\* that have none left.
Alive(k) == {p \in peers[k].keys : seen[k][p] >= now_ns - TTL}
PrunedPeers == [k \in Keys |-> Only(peers[k], Alive(k))]
PrunedStore == Only(store, {k \in Keys : Alive(k) # {}})

\* PeerStore.add: the key and the peer move to the end of their dictionaries;
\* a new one drops the oldest of a full dictionary.
Add(k, p) ==
    LET room == IF k \in PrunedStore.keys THEN PrunedStore
                ELSE WithoutOldest(PrunedStore, MaxKeys)
        kept == IF p \in Alive(k) THEN PrunedPeers[k]
                ELSE WithoutOldest(PrunedPeers[k], MaxPerKey)
    IN
    /\ store' = WithLast(room, k)
    /\ peers' = [j \in Keys |-> IF j = k THEN WithLast(kept, p)
                                ELSE IF j \in room.keys THEN PrunedPeers[j] ELSE Empty]
    /\ seen' = [seen EXCEPT ![k][p] = now_ns]

\* _incoming_announce_peer with a valid token, from an endpoint that may be
\* stored.
AnnouncePeer(k, p) ==
    /\ Add(k, p)
    /\ UNCHANGED <<now_ns, cache, answered>>

Prune ==
    /\ store' = PrunedStore
    /\ peers' = PrunedPeers
    /\ UNCHANGED seen

\* _incoming_get_peers: reading the store prunes it.
GetPeers ==
    /\ Prune
    /\ UNCHANGED <<now_ns, cache, answered>>

\* Mutated form: the samples are drawn once.
CacheDue_Once == cache.at = Never

CacheDue == cache.at = Never \/ now_ns >= cache.at

\* random.sample: as many of the keys as fit in an answer.
Draw(ks) ==
    /\ ks \subseteq PrunedStore.keys
    /\ IF Cardinality(PrunedStore.keys) < MaxSamples THEN ks = PrunedStore.keys
       ELSE Cardinality(ks) = MaxSamples

\* _incoming_sample_infohashes: new samples are drawn when the last ones have
\* served for the interval; in between the same ones are sent, whatever has
\* become of their keys.
SampleInfohashes ==
    /\ Prune
    /\ IF CacheDue
       THEN \E ks \in SUBSET Keys :
               /\ Draw(ks)
               /\ cache' = [at |-> now_ns + Interval, keys |-> ks]
       ELSE UNCHANGED cache
    /\ answered' = [at |-> now_ns, keys |-> cache'.keys]
    /\ UNCHANGED now_ns

TimePasses ==
    /\ now_ns < MaxNow
    /\ now_ns' = now_ns + 1
    /\ UNCHANGED <<store, peers, seen, cache, answered>>

StoreNext ==
    \/ \E k \in Keys, p \in Announcers : AnnouncePeer(k, p)
    \/ GetPeers
    \/ SampleInfohashes
    \/ TimePasses

StoreSpec == StoreInit /\ [][StoreNext]_storeVars

-----------------------------------------------------------------------------
(* Properties *)

Stored(k, p) == k \in store.keys /\ p \in peers[k].keys

Fresh(k, p) == seen[k][p] # Never /\ seen[k][p] >= now_ns - TTL

\* The other keys, and the other peers of the key, announced since.
NewerKeys(k, p) ==
    {k2 \in Keys \ {k} : \E q \in Announcers : seen[k2][q] >= seen[k][p]}
NewerPeers(k, p) == {q \in Announcers \ {p} : seen[k][q] >= seen[k][p]}

\* The store stays within its two limits, holds no empty key, and forgets a
\* fresh announcement only for newer ones: as many other keys as the store
\* holds, or as many other peers of the key as a key holds, have been announced
\* since.  (The limits are looked at before a peer is added to a new key and
\* after it is added to a known one, and every path prunes first.)
NewestKept ==
    /\ StoreTypeOK
    /\ Cardinality(store.keys) <= MaxKeys
    /\ \A k \in store.keys : Cardinality(peers[k].keys) \in 1..MaxPerKey
    /\ \A k \in Keys, p \in Announcers : Fresh(k, p) /\ ~ Stored(k, p) =>
          \/ Cardinality(NewerKeys(k, p)) >= MaxKeys
          \/ Cardinality(NewerPeers(k, p)) >= MaxPerKey

\* Cached samples outlive the announcements they were drawn from, but not for
\* long: a key in an answer had been announced within the time to live before
\* the samples were drawn, and they are not older than the interval.
SamplesRecent ==
    \A k \in answered.keys : \E p \in Announcers :
        seen[k][p] # Never /\ seen[k][p] >= answered.at - TTL - Interval
=============================================================================
