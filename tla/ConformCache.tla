---------------------------- MODULE ConformCache ----------------------------
(***************************************************************************)
(* The cache of conformed evidence (scovant_core/rules/conform.py): every  *)
(* rule reads a page or domain object through a copy conformed to the      *)
(* documented shape, and the copies of the last few objects are remembered *)
(* by the objects' identity.  Rules run on any number of threads; the      *)
(* table is locked for a lookup and for an insertion, not for the pass     *)
(* between them.  The host that owns the objects creates and drops them as *)
(* it likes, and the runtime gives the identity of a collected object to a *)
(* new one.                                                                *)
(***************************************************************************)
EXTENDS Naturals, Sequences

CONSTANTS
    Workers,        \* threads that evaluate rules
    Objects,        \* evidence objects the host makes
    Ids,            \* identities, the values id() returns
    CACHE_SIZE      \* _CACHE_SIZE

Kinds == {"page", "domain"}
Nowhere == "nowhere"

ASSUME CacheAssumption == CACHE_SIZE \in Nat \ {0} /\ Nowhere \notin Ids

VARIABLES
    at,         \* at[o]: id(o), or Nowhere while o does not exist
    held,       \* the objects the host refers to
    cache,      \* _cache, oldest entry first
    stage,      \* stage[t]: where thread t is in _remembered, "idle" outside
    arg,        \* arg[t]: the kind and the object it was called with
    result      \* result[t]: the copy it has

conformVars == <<at, held, cache, stage, arg, result>>

Argument == [kind : Kinds, obj : Objects]

\* The copy of an object that fits the documentation of its kind.
Conformed(a) == [of |-> a.obj, as |-> a.kind]

Nothing == [of |-> Nowhere, as |-> Nowhere]

\* Mutant of Key: pages and domains share their keys.
KeyWithoutKind(a) == <<"page", at[a.obj]>>

Key(a) == <<a.kind, at[a.obj]>>

\* Mutant of Referenced: entries keep the identity of their object alone.
ReferencedByOthers(o) ==
    \/ o \in held
    \/ \E t \in Workers : stage[t] # "idle" /\ arg[t].obj = o

\* The host, a call or an entry of the cache keeps an object alive.
Referenced(o) ==
    \/ o \in held
    \/ \E t \in Workers : stage[t] # "idle" /\ arg[t].obj = o
    \/ \E i \in 1..Len(cache) : cache[i].obj = o

MoveTo(t, place) == stage' = [stage EXCEPT ![t] = place]

-----------------------------------------------------------------------------
ConformInit ==
    /\ at = [o \in Objects |-> Nowhere]
    /\ held = {} /\ cache = <<>>
    /\ stage = [t \in Workers |-> "idle"]
    /\ arg \in [Workers -> Argument]
    /\ result = [t \in Workers |-> Nothing]

\* The host builds an object; it lives at an identity nothing else has.
Create(o) ==
    /\ at[o] = Nowhere
    /\ \E id \in Ids \ {at[p] : p \in Objects} : at' = [at EXCEPT ![o] = id]
    /\ held' = held \cup {o}
    /\ UNCHANGED <<cache, stage, arg, result>>

Drop(o) ==
    /\ o \in held
    /\ held' = held \ {o}
    /\ UNCHANGED <<at, cache, stage, arg, result>>

\* The runtime reclaims an object nobody refers to, and its identity.
Collect(o) ==
    /\ at[o] # Nowhere /\ ~Referenced(o)
    /\ at' = [at EXCEPT ![o] = Nowhere]
    /\ UNCHANGED <<held, cache, stage, arg, result>>

\* A rule is evaluated: conform_page or conform_domain of an object in use.
Call(t, a) ==
    /\ stage[t] = "idle" /\ a.obj \in held
    /\ arg' = [arg EXCEPT ![t] = a]
    /\ MoveTo(t, "lookup")
    /\ UNCHANGED <<at, held, cache, result>>

Hit(t, i) ==
    /\ <<cache[i].kind, cache[i].id>> = Key(arg[t])
    /\ cache[i].obj = arg[t].obj

\* The first locked section: an entry counts when it is of this very object.
Lookup(t) ==
    /\ stage[t] = "lookup"
    /\ \/ \E i \in 1..Len(cache) :
             /\ Hit(t, i)
             /\ result' = [result EXCEPT ![t] = cache[i].result]
             /\ MoveTo(t, "return")
       \/ /\ \A i \in 1..Len(cache) : ~Hit(t, i)
          /\ MoveTo(t, "build")
          /\ UNCHANGED result
    /\ UNCHANGED <<at, held, cache, arg>>

\* The pass over the object, outside the lock.
Build(t) ==
    /\ stage[t] = "build"
    /\ result' = [result EXCEPT ![t] = Conformed(arg[t])]
    /\ MoveTo(t, "insert")
    /\ UNCHANGED <<at, held, cache, arg>>

Entry(t) ==
    [kind |-> arg[t].kind, id |-> at[arg[t].obj], obj |-> arg[t].obj, result |-> result[t]]

Slots(t) == {i \in 1..Len(cache) : <<cache[i].kind, cache[i].id>> = Key(arg[t])}

\* The second locked section: a key that is there keeps its place, a new one
\* goes last and the oldest entries make room for it.
Insert(t) ==
    /\ stage[t] = "insert"
    /\ cache' =
          IF Slots(t) # {} THEN [i \in 1..Len(cache) |-> IF i \in Slots(t) THEN Entry(t) ELSE cache[i]]
          ELSE IF Len(cache) >= CACHE_SIZE THEN Append(Tail(cache), Entry(t))
          ELSE Append(cache, Entry(t))
    /\ MoveTo(t, "return")
    /\ UNCHANGED <<at, held, arg, result>>

\* The rule has its copy and is done with it.
Return(t) ==
    /\ stage[t] = "return"
    /\ MoveTo(t, "idle")
    /\ result' = [result EXCEPT ![t] = Nothing]
    /\ UNCHANGED <<at, held, cache, arg>>

Remembered(t) == Lookup(t) \/ Build(t) \/ Insert(t) \/ Return(t)

ConformNext ==
    \/ \E o \in Objects : Create(o) \/ Drop(o) \/ Collect(o)
    \/ \E t \in Workers : Remembered(t) \/ \E a \in Argument : Call(t, a)

ConformSpec == ConformInit /\ [][ConformNext]_conformVars
-----------------------------------------------------------------------------
(* Properties *)

Stages == {"idle", "lookup", "build", "insert", "return"}

\* Shape of the cache and of the calls.
ConformTypeOK ==
    /\ at \in [Objects -> Ids \cup {Nowhere}]
    /\ held \subseteq Objects
    /\ cache \in Seq([kind : Kinds, id : Ids, obj : Objects, result : [of : Objects, as : Kinds]])
    /\ stage \in [Workers -> Stages]
    /\ arg \in [Workers -> Argument]
    /\ result \in [Workers -> [of : Objects, as : Kinds] \cup {Nothing}]

\* A rule reads the copy of the object it was given, conformed as what it was
\* given it as: never the copy of an object that had its identity before.
OwnCopy == \A t \in Workers : stage[t] = "return" => result[t] = Conformed(arg[t])

\* Every entry is filed under the identity its object has now.
KeysCurrent == \A i \in 1..Len(cache) : at[cache[i].obj] = cache[i].id

EntriesDistinct ==
    \A i, j \in 1..Len(cache) :
        i # j => <<cache[i].kind, cache[i].obj>> # <<cache[j].kind, cache[j].obj>>

CacheBounded == Len(cache) <= CACHE_SIZE

\* "The original is kept alive so its id cannot be reused": no entry outlives
\* its key, threads that missed the same object at once leave one entry and not
\* two, and there are never more than _CACHE_SIZE of them.
CacheIsSound == KeysCurrent /\ EntriesDistinct /\ CacheBounded
=============================================================================
