------------------------- MODULE ConformCacheProofs -------------------------
(***************************************************************************)
(* Proofs about the cache of conformed evidence for any number of threads, *)
(* objects and identities and any size of the cache: a rule always reads   *)
(* the copy of its own object, and the cache stays a bounded map.          *)
(***************************************************************************)
EXTENDS ConformCache, SequenceTheorems, TLAPS

Entries == [kind : Kinds, id : Ids, obj : Objects, result : [of : Objects, as : Kinds]]

Typed ==
    /\ at \in [Objects -> Ids \cup {Nowhere}]
    /\ cache \in Seq(Entries)
    /\ stage \in [Workers -> Stages]
    /\ arg \in [Workers -> Argument]
    /\ held \subseteq Objects
    /\ result \in [Workers -> [of : Objects, as : Kinds] \cup {Nothing}]

\* What somebody refers to exists, at an identity of its own.
Alive ==
    /\ \A o \in held : at[o] # Nowhere
    /\ \A t \in Workers : stage[t] # "idle" => at[arg[t].obj] # Nowhere
    /\ \A o, p \in Objects : at[o] # Nowhere /\ at[o] = at[p] => o = p

\* Every entry is filed under its object's identity, with its object's copy.
Filed ==
    \A i \in 1..Len(cache) :
        /\ at[cache[i].obj] = cache[i].id
        /\ cache[i].result = [of |-> cache[i].obj, as |-> cache[i].kind]

\* A thread that has a copy has that of its argument.
Copied ==
    \A t \in Workers : stage[t] \in {"insert", "return"} => result[t] = Conformed(arg[t])

\* The cache is a map: no two entries under one key.
KeysUnique ==
    \A i, j \in 1..Len(cache) :
        cache[i].kind = cache[j].kind /\ cache[i].id = cache[j].id => i = j

IInv == Typed /\ Alive /\ Filed /\ Copied /\ KeysUnique /\ CacheBounded
-----------------------------------------------------------------------------
\* A step that leaves the cache, the identities and the calls alone.
LEMMA SameCache ==
  ASSUME Filed, KeysUnique, CacheBounded, UNCHANGED <<at, cache>>
  PROVE  Filed' /\ KeysUnique' /\ CacheBounded'
BY DEF Filed, KeysUnique, CacheBounded

\* The host's and the runtime's steps: an object in the cache is never
\* collected, so its identity is never given away.
LEMMA CreateKeeps ==
  ASSUME IInv, NEW o \in Objects, Create(o)
  PROVE  IInv'
<1>1. PICK id \in Ids \ {at[p] : p \in Objects} : at' = [at EXCEPT ![o] = id]
  BY DEF Create
<1>2. /\ at[o] = Nowhere /\ held' = held \cup {o}
      /\ cache' = cache /\ stage' = stage /\ arg' = arg /\ result' = result
  BY DEF Create
<1>3. id # Nowhere /\ at' \in [Objects -> Ids \cup {Nowhere}] /\ at'[o] = id
      /\ \A p \in Objects : p # o => at'[p] = at[p]
  BY <1>1, CacheAssumption DEF IInv, Typed
<1>4. Typed'
  BY <1>2, <1>3 DEF IInv, Typed
<1>5. Alive'
  <2>1. \A t \in Workers : arg[t].obj \in Objects
    BY DEF IInv, Typed, Argument
  <2>2. held \subseteq Objects /\ \A p \in Objects : at[p] # id
    BY <1>1 DEF IInv, Typed
  <2>3. QED
    BY <1>2, <1>3, <2>1, <2>2 DEF IInv, Alive
<1>6. Filed'
  <2>1. ASSUME NEW i \in 1..Len(cache) PROVE cache[i].obj # o /\ cache[i].obj \in Objects
    <3>1. cache[i] \in Entries
      BY DEF IInv, Typed
    <3>2. cache[i].id # Nowhere /\ cache[i].obj \in Objects
      BY <3>1, CacheAssumption DEF Entries
    <3>3. QED
      BY <1>2, <3>2 DEF IInv, Filed
  <2>2. QED
    BY <1>2, <1>3, <2>1 DEF IInv, Filed
<1>7. QED
  BY <1>2, <1>4, <1>5, <1>6 DEF IInv, Copied, KeysUnique, CacheBounded, Conformed

LEMMA CollectKeeps ==
  ASSUME IInv, NEW o \in Objects, Collect(o)
  PROVE  IInv'
<1>1. /\ at' = [at EXCEPT ![o] = Nowhere] /\ ~Referenced(o) /\ held' = held
      /\ cache' = cache /\ stage' = stage /\ arg' = arg /\ result' = result
  BY DEF Collect
<1>2. at' \in [Objects -> Ids \cup {Nowhere}] /\ at'[o] = Nowhere
      /\ \A p \in Objects : p # o => at'[p] = at[p]
  BY <1>1 DEF IInv, Typed
<1>3. Typed'
  BY <1>1, <1>2 DEF IInv, Typed
<1>4. Alive'
  <2>1. held \subseteq Objects /\ \A t \in Workers : arg[t].obj \in Objects
    BY DEF IInv, Typed, Argument
  <2>2. QED
    BY <1>1, <1>2, <2>1 DEF IInv, Alive, Referenced
<1>5. Filed'
  <2>1. ASSUME NEW i \in 1..Len(cache) PROVE cache[i].obj # o /\ cache[i].obj \in Objects
    <3>1. cache[i] \in Entries
      BY DEF IInv, Typed
    <3>2. QED
      BY <1>1, <3>1 DEF Entries, Referenced
  <2>2. QED
    BY <1>1, <1>2, <2>1 DEF IInv, Filed
<1>6. QED
  BY <1>1, <1>3, <1>4, <1>5 DEF IInv, Copied, KeysUnique, CacheBounded, Conformed

-----------------------------------------------------------------------------
\* An entry a thread hits holds the copy of its argument.
LEMMA LookupKeeps ==
  ASSUME IInv, NEW t \in Workers, Lookup(t)
  PROVE  IInv'
<1>1. /\ at' = at /\ held' = held /\ cache' = cache /\ arg' = arg
      /\ stage[t] = "lookup" /\ arg[t] \in Argument
  BY DEF Lookup, IInv, Typed
<1>2. CASE \E i \in 1..Len(cache) :
             /\ Hit(t, i)
             /\ result' = [result EXCEPT ![t] = cache[i].result]
             /\ MoveTo(t, "return")
  <2>1. PICK i \in 1..Len(cache) :
             /\ Hit(t, i)
             /\ result' = [result EXCEPT ![t] = cache[i].result]
             /\ MoveTo(t, "return")
    BY <1>2
  <2>2. cache[i] \in Entries
    BY DEF IInv, Typed
  <2>3. cache[i].result = Conformed(arg[t]) /\ cache[i].result \in [of : Objects, as : Kinds]
    BY <2>1, <2>2 DEF IInv, Filed, Hit, Key, Conformed, Entries
  <2>4. Typed'
    BY <1>1, <2>1, <2>3 DEF IInv, Typed, MoveTo, Stages
  <2>5. Copied'
    BY <1>1, <2>1, <2>3 DEF IInv, Typed, Copied, MoveTo, Conformed
  <2>6. Alive'
    BY <1>1, <2>1 DEF IInv, Typed, Alive, MoveTo
  <2>7. QED
    BY <1>1, <2>4, <2>5, <2>6, SameCache DEF IInv
<1>3. CASE MoveTo(t, "build") /\ UNCHANGED result
  <2>1. Typed' /\ Alive' /\ Copied'
    BY <1>1, <1>3 DEF IInv, Typed, Alive, Copied, MoveTo, Stages, Conformed
  <2>2. QED
    BY <1>1, <2>1, SameCache DEF IInv
<1>4. QED
  BY <1>2, <1>3 DEF Lookup

\* Inserting replaces the entry under the key, or appends one and evicts the
\* oldest: every other entry of the new cache was in the old one.
LEMMA InsertKeeps ==
  ASSUME IInv, NEW t \in Workers, Insert(t)
  PROVE  IInv'
<1> DEFINE e == Entry(t)
           n == Len(cache)
<1>1. /\ at' = at /\ held' = held /\ arg' = arg /\ result' = result
      /\ stage[t] = "insert" /\ stage' = [stage EXCEPT ![t] = "return"]
  BY DEF Insert, MoveTo
<1>2. /\ arg[t] \in Argument /\ result[t] = Conformed(arg[t])
      /\ at[arg[t].obj] \in Ids
  BY <1>1 DEF IInv, Typed, Copied, Alive, Argument
<1>3. /\ e \in Entries
      /\ at[e.obj] = e.id /\ e.result = [of |-> e.obj, as |-> e.kind]
      /\ <<e.kind, e.id>> = Key(arg[t])
  BY <1>2 DEF Entry, Entries, Conformed, Argument, Key
<1>4. /\ cache \in Seq(Entries) /\ n \in Nat /\ n <= CACHE_SIZE /\ CACHE_SIZE \in Nat \ {0}
      /\ \A i \in 1..n : cache[i] \in Entries
  BY CacheAssumption, LenProperties DEF IInv, Typed, CacheBounded
<1>5. \A i \in 1..n : i \in Slots(t) <=> cache[i].kind = e.kind /\ cache[i].id = e.id
  BY <1>3 DEF Slots, Key
<1>6. Typed' /\ Filed' /\ KeysUnique' /\ CacheBounded'
  <2>1. CASE Slots(t) # {}
    <3>1. cache' = [i \in 1..n |-> IF i \in Slots(t) THEN e ELSE cache[i]]
      BY <2>1 DEF Insert
    <3>2. cache' \in Seq(Entries) /\ Len(cache') = n
      BY <1>3, <1>4, <3>1
    <3>3. \A i \in 1..n : cache'[i] = IF i \in Slots(t) THEN e ELSE cache[i]
      BY <3>1
    <3>4. \A i \in 1..n : cache'[i].kind = cache[i].kind /\ cache'[i].id = cache[i].id
      BY <1>5, <3>3
    <3>5. KeysUnique'
      BY <3>2, <3>4 DEF IInv, KeysUnique
    <3>6. Filed'
      BY <1>1, <1>3, <3>2, <3>3 DEF IInv, Filed
    <3>7. QED
      BY <1>1, <1>4, <3>2, <3>5, <3>6 DEF IInv, Typed, CacheBounded, Stages
  <2>2. CASE Slots(t) = {} /\ n < CACHE_SIZE
    <3>1. cache' = Append(cache, e)
      BY <1>4, <2>2 DEF Insert
    <3>2. /\ cache' \in Seq(Entries) /\ Len(cache') = n + 1
          /\ cache'[n + 1] = e /\ \A i \in 1..n : cache'[i] = cache[i]
      BY <1>3, <1>4, <3>1, AppendProperties
    <3>3. \A i \in 1..(n + 1) : i # n + 1 => i \in 1..n
      BY <1>4
    <3>4. KeysUnique'
      BY <1>4, <1>5, <2>2, <3>2, <3>3 DEF IInv, KeysUnique
    <3>5. Filed'
      BY <1>1, <1>3, <3>2, <3>3 DEF IInv, Filed
    <3>6. n + 1 <= CACHE_SIZE
      BY <1>4, <2>2
    <3>7. QED
      BY <1>1, <3>2, <3>4, <3>5, <3>6 DEF IInv, Typed, CacheBounded, Stages
  <2>3. CASE Slots(t) = {} /\ n >= CACHE_SIZE
    <3>1. cache' = Append(Tail(cache), e)
      BY <1>4, <2>3 DEF Insert
    <3>2. n >= 1 /\ cache # <<>>
      BY <1>4, <2>3
    <3>3. /\ Tail(cache) \in Seq(Entries) /\ Len(Tail(cache)) = n - 1
          /\ \A i \in 1..(n - 1) : Tail(cache)[i] = cache[i + 1]
      BY <1>4, <3>2, HeadTailProperties
    <3>4. /\ cache' \in Seq(Entries) /\ Len(cache') = (n - 1) + 1
          /\ cache'[(n - 1) + 1] = e
          /\ \A i \in 1..(n - 1) : cache'[i] = Tail(cache)[i]
      BY <1>3, <3>1, <3>3, AppendProperties
    <3>5. /\ Len(cache') = n /\ cache'[n] = e
          /\ \A i \in 1..n : i # n => i + 1 \in 1..n /\ cache'[i] = cache[i + 1]
      <4>1. (n - 1) + 1 = n /\ \A i \in 1..n : i # n => i \in 1..(n - 1) /\ i + 1 \in 1..n
        BY <1>4
      <4>2. QED
        BY <3>3, <3>4, <4>1
    <3>6. KeysUnique'
      <4>1. ASSUME NEW i \in 1..n, NEW j \in 1..n, i # n, j # n,
                   cache'[i].kind = cache'[j].kind, cache'[i].id = cache'[j].id
            PROVE  i = j
        <5>1. i + 1 = j + 1
          BY <3>5, <4>1 DEF IInv, KeysUnique
        <5>2. QED
          BY <1>4, <5>1
      <4>2. ASSUME NEW i \in 1..n, i # n
            PROVE  ~(cache'[i].kind = e.kind /\ cache'[i].id = e.id)
        BY <1>5, <2>3, <3>5, <4>2
      <4>3. QED
        BY <3>5, <4>1, <4>2 DEF KeysUnique
    <3>7. Filed'
      BY <1>1, <1>3, <3>5 DEF IInv, Filed
    <3>8. QED
      BY <1>1, <1>4, <3>4, <3>5, <3>6, <3>7 DEF IInv, Typed, CacheBounded, Stages
  <2>4. QED
    BY <1>4, <2>1, <2>2, <2>3
<1>7. Alive' /\ Copied'
  BY <1>1, <1>2 DEF IInv, Typed, Alive, Copied, Conformed
<1>8. QED
  BY <1>6, <1>7 DEF IInv

-----------------------------------------------------------------------------
\* The cache's contract is inductive.
THEOREM Invariance == ConformSpec => []IInv
<1>1. ConformInit => IInv
  BY CacheAssumption
     DEF ConformInit, IInv, Typed, Alive, Filed, Copied, KeysUnique, CacheBounded, Stages, Nothing
<1>2. IInv /\ [ConformNext]_conformVars => IInv'
  <2> SUFFICES ASSUME IInv, [ConformNext]_conformVars PROVE IInv'
    OBVIOUS
  <2>1. CASE UNCHANGED conformVars
    BY <2>1, SameCache DEF conformVars, IInv, Typed, Alive, Copied, Conformed
  <2>2. ASSUME NEW o \in Objects, Drop(o) PROVE IInv'
    BY <2>2, SameCache DEF Drop, IInv, Typed, Alive, Copied, Conformed
  <2>3. ASSUME NEW t \in Workers, NEW a \in Argument, Call(t, a) PROVE IInv'
    <3>1. /\ at' = at /\ held' = held /\ cache' = cache /\ result' = result /\ a.obj \in held
          /\ arg' = [arg EXCEPT ![t] = a] /\ stage' = [stage EXCEPT ![t] = "lookup"]
      BY <2>3 DEF Call, MoveTo
    <3>2. Typed' /\ Alive' /\ Copied'
      BY <3>1 DEF IInv, Typed, Alive, Copied, Stages, Conformed
    <3>3. QED
      BY <3>1, <3>2, SameCache DEF IInv
  <2>4. ASSUME NEW t \in Workers, Build(t) PROVE IInv'
    <3>1. /\ at' = at /\ held' = held /\ cache' = cache /\ arg' = arg /\ stage[t] = "build"
          /\ stage' = [stage EXCEPT ![t] = "insert"]
          /\ result' = [result EXCEPT ![t] = Conformed(arg[t])]
      BY <2>4 DEF Build, MoveTo
    <3>2. Conformed(arg[t]) \in [of : Objects, as : Kinds]
      BY DEF IInv, Typed, Argument, Conformed
    <3>3. Typed' /\ Alive' /\ Copied'
      BY <3>1, <3>2 DEF IInv, Typed, Alive, Copied, Stages, Conformed
    <3>4. QED
      BY <3>1, <3>3, SameCache DEF IInv
  <2>5. ASSUME NEW t \in Workers, Return(t) PROVE IInv'
    <3>1. /\ at' = at /\ held' = held /\ cache' = cache /\ arg' = arg
          /\ stage' = [stage EXCEPT ![t] = "idle"] /\ result' = [result EXCEPT ![t] = Nothing]
      BY <2>5 DEF Return, MoveTo
    <3>2. Typed' /\ Alive' /\ Copied'
      BY <3>1 DEF IInv, Typed, Alive, Copied, Stages, Conformed
    <3>3. QED
      BY <3>1, <3>2, SameCache DEF IInv
  <2>6. QED
    BY <2>1, <2>2, <2>3, <2>4, <2>5, CreateKeeps, CollectKeeps, LookupKeeps, InsertKeeps
       DEF ConformNext, Remembered
<1>3. QED
  BY <1>1, <1>2, PTL DEF ConformSpec

\* The cache and the calls keep their shape, for any threads and identities.
THEOREM TypeCorrect == ConformSpec => []ConformTypeOK
<1>1. IInv => ConformTypeOK
  BY DEF IInv, Typed, ConformTypeOK, Entries
<1>2. QED
  BY <1>1, Invariance, PTL

\* A rule reads the copy of its own object, whatever other threads do.
THEOREM RuleReadsItsOwn == ConformSpec => []OwnCopy
<1>1. IInv => OwnCopy
  BY DEF IInv, Copied, OwnCopy
<1>2. QED
  BY <1>1, Invariance, PTL

\* Every entry's identity still is its object's, so that comparing keys would
\* do; no object has two entries of a kind; the cache keeps its size.
THEOREM CacheStaysSound == ConformSpec => []CacheIsSound
<1>1. IInv => KeysCurrent
  BY DEF IInv, Filed, KeysCurrent
<1>2. IInv => EntriesDistinct
  <2>1. ASSUME IInv, NEW i \in 1..Len(cache), NEW j \in 1..Len(cache),
               cache[i].kind = cache[j].kind, cache[i].obj = cache[j].obj
        PROVE  i = j
    <3>1. cache[i].id = cache[j].id
      BY <2>1 DEF IInv, Filed
    <3>2. QED
      BY <2>1, <3>1 DEF IInv, KeysUnique
  <2>2. QED
    BY <2>1 DEF EntriesDistinct
<1>3. IInv => CacheBounded
  BY DEF IInv
<1>4. IInv => CacheIsSound
  BY <1>1, <1>2, <1>3 DEF CacheIsSound
<1>5. QED
  BY <1>4, Invariance, PTL
=============================================================================
